------------------------ MODULE FileTransfersProofs -------------------------
(***************************************************************************)
(* Proofs about the file transfers of a page: its uploads (Uploads), for   *)
(* any finite number of them and any number of slots, and its transfers    *)
(* between two servers (DirectTransfers), for any number of them.  The two *)
(* share no variable.                                                      *)
(*                                                                         *)
(* Uploads.  Three invariants of different actors, on top of the types.    *)
(* SlotsInv says of the limiter that those in its queue, each once, are    *)
(* the ones that wait for a slot, whence a slot that is given up gets to   *)
(* somebody who works with it.  ListInv says of the page that a call that  *)
(* does not work, or has ended, hears of no socket and no polling.         *)
(* TaskInv says of the server what keeps a cancellation from being         *)
(* forgotten: until the cancel function is registered the task itself says *)
(* that it is cancelled, and from then on the context does, unless the     *)
(* task is gone, and with it whatever it could be shown as.                *)
(*                                                                         *)
(* Direct transfers.  CompleteIsComplete is false where a directory holds  *)
(* a directory.  It holds where none does, and the invariant says why:     *)
(* whatever can make the page show "completed" was sent by the end of the  *)
(* copy, be it kept for a late socket, found by its handler, or on its way *)
(* (Faithful), and a copy that has ended stays as it ended (EndedOnce).    *)
(* MessageKept says that a task has a message as long as it is known, so   *)
(* that a handler that found the task has one to send again.               *)
(***************************************************************************)
EXTENDS Uploads, DirectTransfers, FiniteSetTheorems, TLAPS

Holders == {f \in Files : upload[f] \in Working}

InQueue ==
  \A i \in DOMAIN queue :
    /\ upload[queue[i]] = "queued"
    /\ \A j \in DOMAIN queue : i # j => queue[i] # queue[j]

SlotsInv == InQueue /\ SlotsBalance

ListInv ==
  \A f \in Files :
    /\ upload[f] \in {"idle", "creating"} => bar[f] = "absent"
    /\ upload[f] \notin {"opening", "token", "sending"} =>
         watcher[f] \in {"none", "closed"} /\ ~polling[f]
    /\ upload[f] = "returned" => bar[f] \in Settled \cup {"absent"}

TaskInv ==
  \A f \in Files :
    /\ upload[f] \in {"idle", "creating"} => record[f] = "absent" /\ ~heard[f]
    /\ upload[f] \notin {"sending", "returned"} => stream[f] = "none"
    /\ stream[f] \in {"none", "sent", "prepared"} =>
         record[f] \in {"absent", "pending", "cancelled"}
    /\ record[f] = "completed" => stream[f] = "ended"
    /\ heard[f] /\ record[f] # "absent" =>
         /\ record[f] # "completed"
         /\ stream[f] # "copying"
         /\ stream[f] \in {"none", "sent", "prepared"} => record[f] = "cancelled"
         /\ stream[f] \in Registered => cut[f]

UploadInv == UploadTypeOK /\ SlotsInv /\ ListInv /\ TaskInv

-----------------------------------------------------------------------------
(* The limiter *)

LEMMA HoldersFinite ==
  IsFiniteSet(Holders) /\ Cardinality(Holders) \in Nat
BY UploadAssumption, FS_Subset, FS_CardinalityType DEF Holders

\* Nobody's part in the limiter changes.
LEMMA SlotsStay ==
  ASSUME SlotsInv, UNCHANGED limiterVars,
         \A f \in Files :
           /\ upload'[f] \in Working <=> upload[f] \in Working
           /\ upload[f] = "queued" => upload'[f] = "queued",
         queue \in Seq(Files)
  PROVE  SlotsInv'
<1>1. Holders' = Holders  BY DEF Holders
<1>2. InQueue'
  BY DEF SlotsInv, InQueue, limiterVars
<1> QED BY <1>1, <1>2 DEF SlotsInv, SlotsBalance, Holders, limiterVars

\* What giving a slot up does to the calls: one ends, some of the queue find
\* their mark, and at most one goes on.
LEMMA GiveUpSlotMoves ==
  ASSUME UploadTypeOK, SlotsInv, NEW f \in Files, NEW status \in Settled,
         upload[f] \in Working, GiveUpSlot(f, status)
  PROVE  /\ upload' \in [Files -> {"idle", "creating", "queued", "returned"} \cup Working]
         /\ bar' \in [Files -> {"absent", "pending", "uploading"} \cup Settled]
         /\ mark' \in [Files -> BOOLEAN]
         /\ upload'[f] = "returned" /\ bar'[f] \in {"absent", status}
         /\ \A g \in Files \ {f} :
              \/ upload'[g] = upload[g] /\ bar'[g] = bar[g]
              \/ upload[g] = "queued" /\ upload'[g] = "ticket" /\ bar'[g] = bar[g]
              \/ /\ upload[g] = "queued" /\ upload'[g] = "returned"
                 /\ bar'[g] \in {"absent", "cancelled"}
<1> DEFINE GivenUp(passed, next) ==
      /\ upload' = [g \in Files |->
           IF g = f \/ g \in passed THEN "returned"
           ELSE IF g = next THEN "ticket" ELSE upload[g]]
      /\ bar' = [g \in Files |->
           IF g = f THEN Show(f, status)
           ELSE IF g \in passed THEN Show(g, "cancelled") ELSE bar[g]]
      /\ mark' = [g \in Files |-> mark[g] /\ g # f /\ g \notin passed]
<1>1. PICK passed, next :
        /\ GivenUp(passed, next)
        /\ \A g \in passed : upload[g] = "queued"
        /\ next # f => upload[next] = "queued"
  <2>1. CASE \E k \in DOMAIN queue : IsTurn(k) /\ GivenUp(Passed(k), queue[k])
    <3>1. PICK k \in DOMAIN queue : GivenUp(Passed(k), queue[k])  BY <2>1
    <3>2. \A g \in Passed(k) : upload[g] = "queued"
      BY DEF UploadTypeOK, SlotsInv, InQueue, Passed
    <3>3. upload[queue[k]] = "queued"  BY DEF SlotsInv, InQueue
    <3> QED BY <3>1, <3>2, <3>3
  <2>2. CASE GivenUp(Passed(Len(queue) + 1), f)
    <3>1. \A g \in Passed(Len(queue) + 1) : upload[g] = "queued"
      BY DEF UploadTypeOK, SlotsInv, InQueue, Passed
    <3> QED BY <2>2, <3>1
  <2> QED BY <2>1, <2>2 DEF GiveUpSlot
<1>2. \A g \in Files, s \in Settled : Show(g, s) \in {"absent", s}  BY DEF Show
<1>3. "cancelled" \in Settled  BY DEF Settled
<1>4. "ticket" \in Working  BY DEF Working
<1>5. upload' \in [Files -> {"idle", "creating", "queued", "returned"} \cup Working]
  BY <1>1, <1>4 DEF UploadTypeOK
<1>6. bar' \in [Files -> {"absent", "pending", "uploading"} \cup Settled]
  BY <1>1, <1>2, <1>3 DEF UploadTypeOK
<1>7. mark' \in [Files -> BOOLEAN]  BY <1>1
<1>8. upload'[f] = "returned" /\ bar'[f] \in {"absent", status}
  BY <1>1, <1>2
<1>9. ASSUME NEW g \in Files \ {f}
      PROVE  \/ upload'[g] = upload[g] /\ bar'[g] = bar[g]
             \/ upload[g] = "queued" /\ upload'[g] = "ticket" /\ bar'[g] = bar[g]
             \/ /\ upload[g] = "queued" /\ upload'[g] = "returned"
                /\ bar'[g] \in {"absent", "cancelled"}
  BY <1>1, <1>2, <1>3
<1> QED BY <1>5, <1>6, <1>7, <1>8, <1>9

LEMMA GiveUpSlotBalances ==
  ASSUME UploadTypeOK, SlotsInv, NEW f \in Files, NEW status,
         upload[f] \in Working, GiveUpSlot(f, status)
  PROVE  /\ SlotsInv'
         /\ active' \in 0 .. MaxConcurrent
         /\ queue' \in Seq(Files)
<1>1. "queued" \notin Working /\ "returned" \notin Working /\ "ticket" \in Working
  BY DEF Working
<1>2. f \in Holders /\ \A i \in DOMAIN queue : queue[i] \notin Holders
  BY <1>1 DEF Holders, SlotsInv, InQueue
<1>3. active = Cardinality(Holders)  BY DEF SlotsInv, SlotsBalance, Holders
<1>4. Cardinality(Holders \ {f}) = Cardinality(Holders) - 1 /\ IsFiniteSet(Holders \ {f})
  BY <1>2, HoldersFinite, FS_RemoveElement
<1>5. Cardinality(Holders \ {f}) \in Nat  BY <1>4, FS_CardinalityType
<1>6. queue \in Seq(Files)  BY DEF UploadTypeOK
<1>7. CASE \E k \in DOMAIN queue :
             /\ upload' = [g \in Files |->
                  IF g = f \/ g \in Passed(k) THEN "returned"
                  ELSE IF g = queue[k] THEN "ticket" ELSE upload[g]]
             /\ queue' = SubSeq(queue, k + 1, Len(queue))
             /\ active' = active
  <2>1. PICK k \in DOMAIN queue :
             /\ upload' = [g \in Files |->
                  IF g = f \/ g \in Passed(k) THEN "returned"
                  ELSE IF g = queue[k] THEN "ticket" ELSE upload[g]]
             /\ queue' = SubSeq(queue, k + 1, Len(queue))
             /\ active' = active
    BY <1>7
  <2>2. k \in 1 .. Len(queue) /\ Len(queue) \in Nat /\ queue[k] \in Files
    BY <1>6
  <2>3. queue[k] # f /\ queue[k] \notin Passed(k)
    BY <1>2, <1>6, <2>2 DEF SlotsInv, InQueue, Passed
  <2>4. \A g \in Passed(k) : g \notin Holders
    BY <1>2, <1>6, <2>2 DEF Passed
  <2>5. Holders' = (Holders \ {f}) \cup {queue[k]}
    BY <1>1, <2>1, <2>2, <2>3, <2>4 DEF Holders
  <2>6. Cardinality(Holders') = Cardinality(Holders)
    <3>1. queue[k] \notin Holders \ {f}  BY <1>2
    <3>2. Cardinality((Holders \ {f}) \cup {queue[k]}) = Cardinality(Holders \ {f}) + 1
      BY <1>4, <3>1, FS_AddElement
    <3> QED BY <1>4, <2>5, <3>2, HoldersFinite
  <2>7. /\ queue' \in Seq(Files)
        /\ \A i \in DOMAIN queue' : k + i \in DOMAIN queue /\ queue'[i] = queue[k + i]
    BY <1>6, <2>1, <2>2
  <2>8. InQueue'
    <3> SUFFICES ASSUME NEW i \in DOMAIN queue'
                 PROVE  /\ upload'[queue'[i]] = "queued"
                        /\ \A j \in DOMAIN queue' : i # j => queue'[i] # queue'[j]
      BY DEF InQueue
    <3>1. i \in Nat /\ \A j \in DOMAIN queue' : j \in Nat  BY <2>7
    <3>2. k + i \in DOMAIN queue /\ queue'[i] = queue[k + i] /\ k + i # k
      BY <2>2, <2>7, <3>1
    <3>3. queue[k + i] \notin Passed(k) /\ queue[k + i] # queue[k] /\ queue[k + i] # f
      BY <1>2, <1>6, <2>2, <3>1, <3>2 DEF SlotsInv, InQueue, Passed
    <3>4. upload'[queue'[i]] = "queued"
      BY <1>6, <2>1, <3>2, <3>3 DEF SlotsInv, InQueue
    <3>5. ASSUME NEW j \in DOMAIN queue', i # j  PROVE queue'[i] # queue'[j]
      BY <2>2, <2>7, <3>1, <3>5 DEF SlotsInv, InQueue
    <3> QED BY <3>4, <3>5
  <2>9. queue # <<>>  BY <1>6, <2>2
  <2>10. SlotsBalance'
    BY <1>3, <2>1, <2>6, <2>9 DEF SlotsInv, SlotsBalance, Holders
  <2> QED BY <2>1, <2>7, <2>8, <2>10 DEF SlotsInv, UploadTypeOK
<1>8. CASE /\ upload' = [g \in Files |->
                IF g = f \/ g \in Passed(Len(queue) + 1) THEN "returned"
                ELSE IF g = f THEN "ticket" ELSE upload[g]]
           /\ queue' = <<>>
           /\ active' = active - 1
  <2>1. \A g \in Passed(Len(queue) + 1) : g \notin Holders
    BY <1>2, <1>6 DEF Passed
  <2>2. Holders' = Holders \ {f}
    BY <1>1, <1>8, <2>1 DEF Holders
  <2>3. SlotsBalance' /\ active' \in 0 .. MaxConcurrent
    <3>1. active' = Cardinality(Holders')
      BY <1>3, <1>4, <1>8, <2>2
    <3>2. active' \in 0 .. MaxConcurrent
      BY <1>4, <1>5, <1>8, <1>3, HoldersFinite, UploadAssumption DEF UploadTypeOK
    <3> QED BY <1>8, <3>1, <3>2 DEF SlotsBalance, Holders
  <2>4. InQueue' /\ queue' \in Seq(Files)
    BY <1>8 DEF InQueue
  <2> QED BY <2>3, <2>4 DEF SlotsInv
<1> QED BY <1>7, <1>8 DEF GiveUpSlot

-----------------------------------------------------------------------------
(* Steps that several actions share *)

\* The calls that move leave the server's part as it is.
LEMMA TaskStays ==
  ASSUME TaskInv, UNCHANGED taskVars,
         \A g \in Files :
           /\ upload'[g] \in {"idle", "creating"} => upload[g] \in {"idle", "creating"}
           /\ upload'[g] \notin {"sending", "returned"} =>
                upload[g] \notin {"sending", "returned"}
  PROVE  TaskInv'
BY DEF TaskInv, taskVars

LEMMA ClosedWatcherTypes ==
  ASSUME UploadTypeOK, NEW f \in Files, CloseWatcher(f)
  PROVE  /\ watcher' \in [Files -> {"none", "dialing", "open", "closed"}]
         /\ watcher'[f] \in {"none", "closed"}
         /\ joined' \in [Files -> BOOLEAN]
         /\ tidings' \in [Files -> Seq({"uploading", "completed", "cancelled"})]
<1>1. <<>> \in Seq({"uploading", "completed", "cancelled"})  OBVIOUS
<1> QED BY <1>1 DEF UploadTypeOK, CloseWatcher

\* The end of a call that has a slot.
LEMMA ReturnKeepsInv ==
  ASSUME UploadInv, NEW f \in Files, NEW status \in Settled,
         upload[f] \in {"token", "sending"}, Return(f, status),
         UNCHANGED taskVars,
         post' \in [Files -> {"none", "sent", "answered"}], word' \in [Files -> BOOLEAN]
  PROVE  UploadInv'
<1>1. upload[f] \in Working /\ GiveUpSlot(f, status)  BY DEF Working, Return
<1>2. /\ upload'[f] = "returned" /\ bar'[f] \in {"absent", status}
      /\ \A g \in Files \ {f} :
           \/ upload'[g] = upload[g] /\ bar'[g] = bar[g]
           \/ upload[g] = "queued" /\ upload'[g] = "ticket" /\ bar'[g] = bar[g]
           \/ /\ upload[g] = "queued" /\ upload'[g] = "returned"
              /\ bar'[g] \in {"absent", "cancelled"}
  BY <1>1, GiveUpSlotMoves DEF UploadInv
<1>3. UploadTypeOK'
  <2>1. /\ upload' \in [Files -> {"idle", "creating", "queued", "returned"} \cup Working]
        /\ bar' \in [Files -> {"absent", "pending", "uploading"} \cup Settled]
        /\ mark' \in [Files -> BOOLEAN]
    BY <1>1, GiveUpSlotMoves DEF UploadInv
  <2>2. active' \in 0 .. MaxConcurrent /\ queue' \in Seq(Files)
    BY <1>1, GiveUpSlotBalances DEF UploadInv
  <2>3. /\ watcher' \in [Files -> {"none", "dialing", "open", "closed"}]
        /\ joined' \in [Files -> BOOLEAN]
        /\ tidings' \in [Files -> Seq({"uploading", "completed", "cancelled"})]
    BY ClosedWatcherTypes DEF Return, UploadInv
  <2>4. polling' \in [Files -> BOOLEAN]  BY DEF Return, UploadInv, UploadTypeOK
  <2> QED BY <2>1, <2>2, <2>3, <2>4 DEF UploadInv, UploadTypeOK, taskVars
<1>4. SlotsInv'  BY <1>1, GiveUpSlotBalances DEF UploadInv
<1>5. ListInv'
  <2> SUFFICES ASSUME NEW g \in Files
               PROVE  /\ upload'[g] \in {"idle", "creating"} => bar'[g] = "absent"
                      /\ upload'[g] \notin {"opening", "token", "sending"} =>
                           watcher'[g] \in {"none", "closed"} /\ ~polling'[g]
                      /\ upload'[g] = "returned" => bar'[g] \in Settled \cup {"absent"}
    BY DEF ListInv
  <2>1. watcher'[f] \in {"none", "closed"}  BY ClosedWatcherTypes DEF Return, UploadInv
  <2>2. ~polling'[f] /\ (g # f => watcher'[g] = watcher[g] /\ polling'[g] = polling[g])
    BY DEF Return, CloseWatcher, UploadInv, UploadTypeOK
  <2>3. "cancelled" \in Settled  BY DEF Settled
  <2>4. CASE g = f  BY <1>2, <2>1, <2>2, <2>4
  <2>5. CASE g # f  BY <1>2, <2>2, <2>3, <2>5 DEF UploadInv, ListInv
  <2> QED BY <2>4, <2>5
<1>6. TaskInv'
  <2>1. \A g \in Files : upload'[g] \in {upload[g], "ticket", "returned"}
    BY <1>2
  <2>2. \A g \in Files : upload'[g] = "ticket" => upload[g] \notin {"sending", "returned"}
    BY <1>2
  <2> QED BY <2>1, <2>2, TaskStays DEF UploadInv
<1> QED BY <1>3, <1>4, <1>5, <1>6 DEF UploadInv

\* What SendProgress does.
LEMMA TellTypes ==
  ASSUME UploadTypeOK, NEW f \in Files,
         NEW status \in {"uploading", "completed", "failed", "cancelled"}, Tell(f, status)
  PROVE  /\ record' \in [Files -> {"absent", "pending", "uploading"} \cup Settled]
         /\ tidings' \in [Files -> Seq({"uploading", "completed", "cancelled"})]
<1>1. record' \in [Files -> {"absent", "pending", "uploading"} \cup Settled]
  BY DEF UploadTypeOK, Tell, Settled
<1>2. tidings[f] \in Seq({"uploading", "completed", "cancelled"})  BY DEF UploadTypeOK
<1>3. status # "failed" =>
        Append(tidings[f], status) \in Seq({"uploading", "completed", "cancelled"})
  BY <1>2
<1>4. \/ tidings' = [tidings EXCEPT ![f] = tidings[f]]
      \/ status # "failed" /\ tidings' = [tidings EXCEPT ![f] = Append(tidings[f], status)]
  BY DEF Tell
<1>5. tidings' \in [Files -> Seq({"uploading", "completed", "cancelled"})]
  BY <1>2, <1>3, <1>4 DEF UploadTypeOK
<1> QED BY <1>1, <1>5

\* What CancelTaskForUser does.
LEMMA TakeCancelKeeps ==
  ASSUME UploadTypeOK, TaskInv, NEW f \in Files, TakeCancel(f), upload' = upload
  PROVE  /\ TaskInv'
         /\ record' \in [Files -> {"absent", "pending", "uploading"} \cup Settled]
         /\ cut' \in [Files -> BOOLEAN] /\ heard' \in [Files -> BOOLEAN]
<1>1. /\ record' \in [Files -> {"absent", "pending", "uploading"} \cup Settled]
      /\ cut' \in [Files -> BOOLEAN] /\ heard' \in [Files -> BOOLEAN]
  BY DEF UploadTypeOK, TakeCancel, Settled, Registered
<1>2. TaskInv'
  <2> SUFFICES ASSUME NEW g \in Files
               PROVE  /\ upload'[g] \in {"idle", "creating"} => record'[g] = "absent" /\ ~heard'[g]
                      /\ upload'[g] \notin {"sending", "returned"} => stream'[g] = "none"
                      /\ stream'[g] \in {"none", "sent", "prepared"} =>
                           record'[g] \in {"absent", "pending", "cancelled"}
                      /\ record'[g] = "completed" => stream'[g] = "ended"
                      /\ heard'[g] /\ record'[g] # "absent" =>
                           /\ record'[g] # "completed"
                           /\ stream'[g] # "copying"
                           /\ stream'[g] \in {"none", "sent", "prepared"} => record'[g] = "cancelled"
                           /\ stream'[g] \in Registered => cut'[g]
    BY DEF TaskInv
  <2>1. CASE g # f
    BY <2>1 DEF UploadTypeOK, TakeCancel, TaskInv
  <2>2. CASE g = f
    <3>1. /\ cut'[f] = (cut[f] \/ stream[f] \in Registered)
          /\ record'[f] = IF stream[f] \in Registered
                              \/ record[f] \in {"absent", "completed", "failed"}
                           THEN record[f] ELSE "cancelled"
          /\ heard'[f] = (heard[f] \/ (record[f] # "absent"
                                        /\ stream[f] \notin {"copying", "ended"}))
          /\ stream' = stream
      BY DEF UploadTypeOK, TakeCancel
    <3>2. stream[f] \in {"none", "sent", "prepared", "ended"} \cup Registered
      BY DEF UploadTypeOK
    <3>3. CASE stream[f] \in Registered
      BY <2>2, <3>1, <3>3 DEF TaskInv, Registered
    <3>4. CASE stream[f] \in {"none", "sent", "prepared"}
      BY <2>2, <3>1, <3>4 DEF TaskInv, Registered
    <3>5. CASE stream[f] = "ended"
      BY <2>2, <3>1, <3>5 DEF TaskInv, Registered
    <3> QED BY <3>2, <3>3, <3>4, <3>5
  <2> QED BY <2>1, <2>2
<1> QED BY <1>1, <1>2

-----------------------------------------------------------------------------
(* Every action keeps the invariant. *)

LEMMA StartUploadKeepsInv ==
  ASSUME UploadInv, NEW f \in Files, StartUpload(f)
  PROVE  UploadInv'
<1>1. UploadTypeOK'
  BY DEF StartUpload, SetUpload, UploadInv, UploadTypeOK, Working,
      Registered, Settled, limiterVars, listVars, cancelVars, taskVars
<1>2. SlotsInv'
  <2>1. UNCHANGED limiterVars /\ queue \in Seq(Files)
    BY DEF StartUpload, UploadInv, UploadTypeOK, limiterVars,
        listVars
  <2>2. \A g \in Files :
          /\ upload'[g] \in Working <=> upload[g] \in Working
          /\ upload[g] = "queued" => upload'[g] = "queued"
    BY DEF StartUpload, SetUpload, UploadInv, UploadTypeOK, ListInv,
        Working
  <2> QED BY <2>1, <2>2, SlotsStay DEF UploadInv
<1>3. ListInv'
  BY DEF StartUpload, SetUpload, UploadInv, UploadTypeOK, ListInv,
      Settled, listVars
<1>4. TaskInv'
  <2>1. \A g \in Files :
          /\ upload'[g] \in {"idle", "creating"} => upload[g] \in {"idle", "creating"}
          /\ upload'[g] \notin {"sending", "returned"} =>
               upload[g] \notin {"sending", "returned"}
    BY DEF StartUpload, SetUpload, UploadInv, UploadTypeOK
  <2> QED BY <2>1, TaskStays DEF StartUpload, UploadInv
<1> QED BY <1>1, <1>2, <1>3, <1>4 DEF UploadInv

LEMMA UploadCreatedKeepsInv ==
  ASSUME UploadInv, NEW f \in Files, UploadCreated(f)
  PROVE  UploadInv'
<1>1. UploadTypeOK'
  <2>1. queue' \in Seq(Files)
    <3>1. queue \in Seq(Files)  BY DEF UploadInv, UploadTypeOK
    <3>2. Append(queue, f) \in Seq(Files)  BY <3>1
    <3> QED BY <3>1, <3>2 DEF UploadCreated
  <2>2. active' \in 0 .. MaxConcurrent
    BY UploadAssumption DEF UploadCreated, UploadInv, UploadTypeOK
  <2>3. upload' \in [Files -> {"idle", "creating", "queued", "returned"} \cup Working]
    BY ZenonT(30) DEF UploadCreated, SetUpload, UploadInv, UploadTypeOK, Working
  <2> QED
    BY <2>1, <2>2, <2>3 DEF UploadCreated, UploadInv, UploadTypeOK,
        cancelVars
<1>2. SlotsInv'
  <2>1. upload[f] = "creating" /\ f \notin Holders /\ queue \in Seq(Files) /\ active \in Nat
    BY UploadAssumption DEF UploadCreated, UploadInv, UploadTypeOK, Holders, Working
  <2>2. \A i \in DOMAIN queue : queue[i] # f
    BY <2>1 DEF UploadInv, SlotsInv, InQueue
  <2>3. CASE active < MaxConcurrent /\ active' = active + 1 /\ SetUpload(f, "ticket") /\ queue' = queue
    <3>1. Holders' = Holders \cup {f}
      BY <2>3 DEF Holders, SetUpload, UploadInv, UploadTypeOK, Working
    <3>2. Cardinality(Holders') = Cardinality(Holders) + 1
      BY <2>1, <3>1, HoldersFinite, FS_AddElement
    <3>3. active' = Cardinality(Holders')
      BY <2>3, <3>2 DEF UploadInv, SlotsInv, SlotsBalance, Holders
    <3>4. queue = <<>>
      BY <2>1, <2>3, UploadAssumption DEF UploadInv, SlotsInv, SlotsBalance
    <3> QED BY <2>3, <3>3, <3>4 DEF SlotsInv, SlotsBalance, InQueue, Holders
  <2>4. CASE active >= MaxConcurrent /\ queue' = Append(queue, f) /\ SetUpload(f, "queued") /\ active' = active
    <3>1. Holders' = Holders
      BY <2>1, <2>4 DEF Holders, SetUpload, UploadInv, UploadTypeOK, Working
    <3>2. active' = MaxConcurrent
      BY <2>1, <2>4, UploadAssumption DEF UploadInv, UploadTypeOK
    <3>3. SlotsBalance'
      BY <2>4, <3>1, <3>2 DEF UploadInv, SlotsInv, SlotsBalance, Holders
    <3>4. /\ DOMAIN queue' = DOMAIN queue \cup {Len(queue) + 1}
          /\ queue'[Len(queue) + 1] = f
          /\ \A i \in DOMAIN queue : queue'[i] = queue[i]
      BY <2>1, <2>4
    <3>5. \A i \in DOMAIN queue : upload'[queue[i]] = "queued"
      BY <2>1, <2>2, <2>4 DEF SetUpload, UploadInv, UploadTypeOK, SlotsInv, InQueue
    <3>6. upload'[f] = "queued"
      BY <2>4 DEF SetUpload, UploadInv, UploadTypeOK
    <3>7. InQueue'
      BY <2>2, <3>4, <3>5, <3>6 DEF UploadInv, SlotsInv, InQueue
    <3> QED BY <3>3, <3>7 DEF SlotsInv
  <2> QED BY <2>3, <2>4 DEF UploadCreated
<1>3. ListInv'
  BY DEF UploadCreated, SetUpload, UploadInv, UploadTypeOK, ListInv,
      Settled, listVars
<1>4. TaskInv'
  <2> SUFFICES ASSUME NEW g \in Files
               PROVE  /\ upload'[g] \in {"idle", "creating"} => record'[g] = "absent" /\ ~heard'[g]
                      /\ upload'[g] \notin {"sending", "returned"} => stream'[g] = "none"
                      /\ stream'[g] \in {"none", "sent", "prepared"} =>
                           record'[g] \in {"absent", "pending", "cancelled"}
                      /\ record'[g] = "completed" => stream'[g] = "ended"
                      /\ heard'[g] /\ record'[g] # "absent" =>
                           /\ record'[g] # "completed"
                           /\ stream'[g] # "copying"
                           /\ stream'[g] \in {"none", "sent", "prepared"} => record'[g] = "cancelled"
                           /\ stream'[g] \in Registered => cut'[g]
    BY DEF TaskInv
  <2>1. CASE g # f
    BY <2>1 DEF UploadCreated, SetUpload, UploadInv, UploadTypeOK,
        TaskInv, Registered, Settled, listVars
  <2>2. CASE g = f
    BY ZenonT(30), <2>2 DEF UploadCreated, SetUpload, UploadInv, UploadTypeOK,
        TaskInv, Registered, Settled, listVars
  <2> QED BY <2>1, <2>2
<1> QED BY <1>1, <1>2, <1>3, <1>4 DEF UploadInv

LEMMA UploadNotCreatedKeepsInv ==
  ASSUME UploadInv, NEW f \in Files, UploadNotCreated(f)
  PROVE  UploadInv'
<1>1. UploadTypeOK'
  BY DEF UploadNotCreated, SetUpload, UploadInv, UploadTypeOK,
      Working, Registered, Settled, limiterVars, listVars, cancelVars,
      taskVars
<1>2. SlotsInv'
  <2>1. UNCHANGED limiterVars /\ queue \in Seq(Files)
    BY DEF UploadNotCreated, UploadInv, UploadTypeOK, limiterVars,
        listVars
  <2>2. \A g \in Files :
          /\ upload'[g] \in Working <=> upload[g] \in Working
          /\ upload[g] = "queued" => upload'[g] = "queued"
    BY DEF UploadNotCreated, SetUpload, UploadInv, UploadTypeOK,
        ListInv, Working
  <2> QED BY <2>1, <2>2, SlotsStay DEF UploadInv
<1>3. ListInv'
  BY DEF UploadNotCreated, SetUpload, UploadInv, UploadTypeOK,
      ListInv, Settled, listVars
<1>4. TaskInv'
  <2>1. \A g \in Files :
          /\ upload'[g] \in {"idle", "creating"} => upload[g] \in {"idle", "creating"}
          /\ upload'[g] \notin {"sending", "returned"} =>
               upload[g] \notin {"sending", "returned"}
    BY DEF UploadNotCreated, SetUpload, UploadInv, UploadTypeOK
  <2> QED BY <2>1, TaskStays DEF UploadNotCreated, UploadInv
<1> QED BY <1>1, <1>2, <1>3, <1>4 DEF UploadInv

LEMMA UploadDialsKeepsInv ==
  ASSUME UploadInv, NEW f \in Files, UploadDials(f)
  PROVE  UploadInv'
<1>1. UploadTypeOK'
  BY DEF UploadDials, SetUpload, UploadInv, UploadTypeOK, Working,
      Registered, Settled, limiterVars, listVars, cancelVars, taskVars
<1>2. SlotsInv'
  <2>1. UNCHANGED limiterVars /\ queue \in Seq(Files)
    BY DEF UploadDials, UploadInv, UploadTypeOK, limiterVars,
        listVars
  <2>2. \A g \in Files :
          /\ upload'[g] \in Working <=> upload[g] \in Working
          /\ upload[g] = "queued" => upload'[g] = "queued"
    BY DEF UploadDials, SetUpload, UploadInv, UploadTypeOK, ListInv,
        Working
  <2> QED BY <2>1, <2>2, SlotsStay DEF UploadInv
<1>3. ListInv'
  BY DEF UploadDials, SetUpload, UploadInv, UploadTypeOK, ListInv,
      Settled, listVars
<1>4. TaskInv'
  <2>1. \A g \in Files :
          /\ upload'[g] \in {"idle", "creating"} => upload[g] \in {"idle", "creating"}
          /\ upload'[g] \notin {"sending", "returned"} =>
               upload[g] \notin {"sending", "returned"}
    BY DEF UploadDials, SetUpload, UploadInv, UploadTypeOK
  <2> QED BY <2>1, TaskStays DEF UploadDials, UploadInv
<1> QED BY <1>1, <1>2, <1>3, <1>4 DEF UploadInv

LEMMA UploadPollsKeepsInv ==
  ASSUME UploadInv, NEW f \in Files, UploadPolls(f)
  PROVE  UploadInv'
<1>1. UploadTypeOK'
  BY DEF UploadPolls, SetUpload, UploadInv, UploadTypeOK, Working,
      Registered, Settled, limiterVars, listVars, cancelVars, taskVars
<1>2. SlotsInv'
  <2>1. UNCHANGED limiterVars /\ queue \in Seq(Files)
    BY DEF UploadPolls, UploadInv, UploadTypeOK, limiterVars,
        listVars
  <2>2. \A g \in Files :
          /\ upload'[g] \in Working <=> upload[g] \in Working
          /\ upload[g] = "queued" => upload'[g] = "queued"
    BY DEF UploadPolls, SetUpload, UploadInv, UploadTypeOK, ListInv,
        Working
  <2> QED BY <2>1, <2>2, SlotsStay DEF UploadInv
<1>3. ListInv'
  BY DEF UploadPolls, SetUpload, UploadInv, UploadTypeOK, ListInv,
      Settled, listVars
<1>4. TaskInv'
  <2>1. \A g \in Files :
          /\ upload'[g] \in {"idle", "creating"} => upload[g] \in {"idle", "creating"}
          /\ upload'[g] \notin {"sending", "returned"} =>
               upload[g] \notin {"sending", "returned"}
    BY DEF UploadPolls, SetUpload, UploadInv, UploadTypeOK
  <2> QED BY <2>1, TaskStays DEF UploadPolls, UploadInv
<1> QED BY <1>1, <1>2, <1>3, <1>4 DEF UploadInv

LEMMA UploadOpensKeepsInv ==
  ASSUME UploadInv, NEW f \in Files, UploadOpens(f)
  PROVE  UploadInv'
<1>1. UploadTypeOK'
  BY DEF UploadOpens, SetUpload, UploadInv, UploadTypeOK, Working,
      Registered, Settled, limiterVars, listVars, cancelVars, taskVars
<1>2. SlotsInv'
  <2>1. UNCHANGED limiterVars /\ queue \in Seq(Files)
    BY DEF UploadOpens, UploadInv, UploadTypeOK, limiterVars,
        listVars
  <2>2. \A g \in Files :
          /\ upload'[g] \in Working <=> upload[g] \in Working
          /\ upload[g] = "queued" => upload'[g] = "queued"
    BY DEF UploadOpens, SetUpload, UploadInv, UploadTypeOK, ListInv,
        Working
  <2> QED BY <2>1, <2>2, SlotsStay DEF UploadInv
<1>3. ListInv'
  BY DEF UploadOpens, SetUpload, UploadInv, UploadTypeOK, ListInv,
      Settled, listVars
<1>4. TaskInv'
  <2>1. \A g \in Files :
          /\ upload'[g] \in {"idle", "creating"} => upload[g] \in {"idle", "creating"}
          /\ upload'[g] \notin {"sending", "returned"} =>
               upload[g] \notin {"sending", "returned"}
    BY DEF UploadOpens, SetUpload, UploadInv, UploadTypeOK
  <2> QED BY <2>1, TaskStays DEF UploadOpens, UploadInv
<1> QED BY <1>1, <1>2, <1>3, <1>4 DEF UploadInv

LEMMA UploadOpenTimesOutKeepsInv ==
  ASSUME UploadInv, NEW f \in Files, UploadOpenTimesOut(f)
  PROVE  UploadInv'
<1>1. UploadTypeOK'
  BY DEF UploadOpenTimesOut, SetUpload, UploadInv, UploadTypeOK,
      Working, Registered, Settled, limiterVars, listVars, cancelVars,
      taskVars
<1>2. SlotsInv'
  <2>1. UNCHANGED limiterVars /\ queue \in Seq(Files)
    BY DEF UploadOpenTimesOut, UploadInv, UploadTypeOK, limiterVars,
        listVars
  <2>2. \A g \in Files :
          /\ upload'[g] \in Working <=> upload[g] \in Working
          /\ upload[g] = "queued" => upload'[g] = "queued"
    BY DEF UploadOpenTimesOut, SetUpload, UploadInv, UploadTypeOK,
        ListInv, Working
  <2> QED BY <2>1, <2>2, SlotsStay DEF UploadInv
<1>3. ListInv'
  BY DEF UploadOpenTimesOut, SetUpload, UploadInv, UploadTypeOK,
      ListInv, Settled, listVars
<1>4. TaskInv'
  <2>1. \A g \in Files :
          /\ upload'[g] \in {"idle", "creating"} => upload[g] \in {"idle", "creating"}
          /\ upload'[g] \notin {"sending", "returned"} =>
               upload[g] \notin {"sending", "returned"}
    BY DEF UploadOpenTimesOut, SetUpload, UploadInv, UploadTypeOK
  <2> QED BY <2>1, TaskStays DEF UploadOpenTimesOut, UploadInv
<1> QED BY <1>1, <1>2, <1>3, <1>4 DEF UploadInv

LEMMA UploadSendsKeepsInv ==
  ASSUME UploadInv, NEW f \in Files, UploadSends(f)
  PROVE  UploadInv'
<1>1. UploadTypeOK'
  BY DEF UploadSends, SetUpload, UploadInv, UploadTypeOK, Working,
      Registered, Settled, limiterVars, listVars, cancelVars, taskVars
<1>2. SlotsInv'
  <2>1. UNCHANGED limiterVars /\ queue \in Seq(Files)
    BY DEF UploadSends, UploadInv, UploadTypeOK, limiterVars,
        listVars
  <2>2. \A g \in Files :
          /\ upload'[g] \in Working <=> upload[g] \in Working
          /\ upload[g] = "queued" => upload'[g] = "queued"
    BY DEF UploadSends, SetUpload, UploadInv, UploadTypeOK, ListInv,
        Working
  <2> QED BY <2>1, <2>2, SlotsStay DEF UploadInv
<1>3. ListInv'
  BY DEF UploadSends, SetUpload, UploadInv, UploadTypeOK, ListInv,
      Settled, listVars
<1>4. TaskInv'
  <2> SUFFICES ASSUME NEW g \in Files
               PROVE  /\ upload'[g] \in {"idle", "creating"} => record'[g] = "absent" /\ ~heard'[g]
                      /\ upload'[g] \notin {"sending", "returned"} => stream'[g] = "none"
                      /\ stream'[g] \in {"none", "sent", "prepared"} =>
                           record'[g] \in {"absent", "pending", "cancelled"}
                      /\ record'[g] = "completed" => stream'[g] = "ended"
                      /\ heard'[g] /\ record'[g] # "absent" =>
                           /\ record'[g] # "completed"
                           /\ stream'[g] # "copying"
                           /\ stream'[g] \in {"none", "sent", "prepared"} => record'[g] = "cancelled"
                           /\ stream'[g] \in Registered => cut'[g]
    BY DEF TaskInv
  <2>1. CASE g # f
    BY <2>1 DEF UploadSends, SetUpload, UploadInv, UploadTypeOK,
        TaskInv, Registered, Settled, listVars
  <2>2. CASE g = f
    BY ZenonT(30), <2>2 DEF UploadSends, SetUpload, UploadInv, UploadTypeOK,
        TaskInv, Registered, Settled, listVars
  <2> QED BY <2>1, <2>2
<1> QED BY <1>1, <1>2, <1>3, <1>4 DEF UploadInv

LEMMA UploadHasNoTokenKeepsInv ==
  ASSUME UploadInv, NEW f \in Files, UploadHasNoToken(f)
  PROVE  UploadInv'
<1>1. "failed" \in Settled  BY DEF Settled
<1>2. Return(f, "failed") /\ upload[f] \in {"token", "sending"} /\ UNCHANGED <<cancelVars, taskVars>>
  BY DEF UploadHasNoToken
<1>3. post' \in [Files -> {"none", "sent", "answered"}] /\ word' \in [Files -> BOOLEAN]
  BY <1>2 DEF UploadInv, UploadTypeOK, cancelVars
<1> QED BY <1>1, <1>2, <1>3, ReturnKeepsInv

LEMMA WatcherJoinsKeepsInv ==
  ASSUME UploadInv, NEW f \in Files, WatcherJoins(f)
  PROVE  UploadInv'
<1>1. UploadTypeOK'
  BY DEF WatcherJoins, UploadInv, UploadTypeOK, Working, Registered,
      Settled, limiterVars, listVars, cancelVars, taskVars
<1>2. SlotsInv'
  <2>1. UNCHANGED limiterVars /\ queue \in Seq(Files)
    BY DEF WatcherJoins, UploadInv, UploadTypeOK, limiterVars,
        listVars
  <2>2. upload' = upload  BY DEF WatcherJoins, listVars
  <2> QED BY <2>1, <2>2, SlotsStay DEF UploadInv
<1>3. ListInv'
  BY DEF WatcherJoins, UploadInv, UploadTypeOK, ListInv, Settled,
      listVars
<1>4. TaskInv'
  BY TaskStays DEF WatcherJoins, UploadInv, listVars
<1> QED BY <1>1, <1>2, <1>3, <1>4 DEF UploadInv

LEMMA WatcherDiesKeepsInv ==
  ASSUME UploadInv, NEW f \in Files, WatcherDies(f)
  PROVE  UploadInv'
<1>1. UploadTypeOK'
  BY ClosedWatcherTypes DEF WatcherDies, UploadInv, UploadTypeOK,
      limiterVars, listVars, cancelVars, taskVars
<1>2. SlotsInv'
  <2>1. UNCHANGED limiterVars /\ queue \in Seq(Files)
    BY DEF WatcherDies, UploadInv, UploadTypeOK, limiterVars,
        listVars
  <2>2. upload' = upload  BY DEF WatcherDies, listVars
  <2> QED BY <2>1, <2>2, SlotsStay DEF UploadInv
<1>3. ListInv'
  BY ClosedWatcherTypes DEF WatcherDies, CloseWatcher, UploadInv,
      UploadTypeOK, ListInv
<1>4. TaskInv'
  BY TaskStays DEF WatcherDies, UploadInv, listVars
<1> QED BY <1>1, <1>2, <1>3, <1>4 DEF UploadInv

LEMMA WatcherReadsKeepsInv ==
  ASSUME UploadInv, NEW f \in Files, WatcherReads(f)
  PROVE  UploadInv'
<1>1. UploadTypeOK'
  <2>1. tidings[f] \in Seq({"uploading", "completed", "cancelled"}) /\ tidings[f] # <<>>
    BY DEF WatcherReads, UploadInv, UploadTypeOK
  <2>2. /\ Head(tidings[f]) \in {"uploading", "completed", "cancelled"}
        /\ Tail(tidings[f]) \in Seq({"uploading", "completed", "cancelled"})
    BY <2>1
  <2>3. tidings' \in [Files -> Seq({"uploading", "completed", "cancelled"})]
    BY <2>2 DEF WatcherReads, UploadInv, UploadTypeOK
  <2>4. bar' \in [Files -> {"absent", "pending", "uploading"} \cup Settled]
    BY <2>2 DEF WatcherReads, SetBar, Show, UploadInv, UploadTypeOK, Settled
  <2> QED
    BY <2>3, <2>4 DEF WatcherReads, UploadInv, UploadTypeOK,
        limiterVars, listVars, cancelVars, taskVars
<1>2. SlotsInv'
  <2>1. UNCHANGED limiterVars /\ queue \in Seq(Files)
    BY DEF WatcherReads, UploadInv, UploadTypeOK, limiterVars,
        listVars
  <2>2. upload' = upload  BY DEF WatcherReads, listVars
  <2> QED BY <2>1, <2>2, SlotsStay DEF UploadInv
<1>3. ListInv'
  BY DEF WatcherReads, SetBar, Show, UploadInv, UploadTypeOK, ListInv,
      Settled, listVars
<1>4. TaskInv'
  BY TaskStays DEF WatcherReads, UploadInv, listVars
<1> QED BY <1>1, <1>2, <1>3, <1>4 DEF UploadInv

LEMMA HttpProgressKeepsInv ==
  ASSUME UploadInv, NEW f \in Files, HttpProgress(f)
  PROVE  UploadInv'
<1>1. UploadTypeOK'
  BY DEF HttpProgress, SetBar, Show, UploadInv, UploadTypeOK, Working,
      Registered, Settled, limiterVars, listVars, cancelVars, taskVars
<1>2. SlotsInv'
  <2>1. UNCHANGED limiterVars /\ queue \in Seq(Files)
    BY DEF HttpProgress, UploadInv, UploadTypeOK, limiterVars,
        listVars
  <2>2. upload' = upload  BY DEF HttpProgress, listVars
  <2> QED BY <2>1, <2>2, SlotsStay DEF UploadInv
<1>3. ListInv'
  BY DEF HttpProgress, SetBar, Show, UploadInv, UploadTypeOK, ListInv,
      Settled, listVars
<1>4. TaskInv'
  BY TaskStays DEF HttpProgress, UploadInv, listVars
<1> QED BY <1>1, <1>2, <1>3, <1>4 DEF UploadInv

LEMMA PollKeepsInv ==
  ASSUME UploadInv, NEW f \in Files, Poll(f)
  PROVE  UploadInv'
<1>1. UploadTypeOK'
  <2>1. record[f] \in {"pending", "uploading"} \cup Settled
    BY DEF Poll, UploadInv, UploadTypeOK
  <2>2. bar' \in [Files -> {"absent", "pending", "uploading"} \cup Settled]
    BY <2>1 DEF Poll, SetBar, Show, UploadInv, UploadTypeOK
  <2>3. polling' \in [Files -> BOOLEAN]
    BY DEF Poll, UploadInv, UploadTypeOK
  <2> QED
    BY <2>2, <2>3 DEF Poll, UploadInv, UploadTypeOK, limiterVars,
        cancelVars, taskVars
<1>2. SlotsInv'
  <2>1. UNCHANGED limiterVars /\ queue \in Seq(Files)
    BY DEF Poll, UploadInv, UploadTypeOK, limiterVars, listVars
  <2>2. upload' = upload  BY DEF Poll, listVars
  <2> QED BY <2>1, <2>2, SlotsStay DEF UploadInv
<1>3. ListInv'
  <2>1. upload' = upload /\ watcher' = watcher /\ upload[f] \in {"opening", "token", "sending"}
    BY DEF Poll, UploadInv, ListInv
  <2>2. \A g \in Files \ {f} : bar'[g] = bar[g] /\ polling'[g] = polling[g]
    BY DEF Poll, SetBar, UploadInv, UploadTypeOK
  <2> QED BY <2>1, <2>2 DEF UploadInv, ListInv
<1>4. TaskInv'
  BY TaskStays DEF Poll, UploadInv, listVars
<1> QED BY <1>1, <1>2, <1>3, <1>4 DEF UploadInv

LEMMA UploadAnsweredKeepsInv ==
  ASSUME UploadInv, NEW f \in Files, UploadAnswered(f)
  PROVE  UploadInv'
<1>1. reply[f] \in Settled
  BY DEF UploadAnswered, UploadInv, UploadTypeOK
<1>2. Return(f, reply[f]) /\ upload[f] \in {"token", "sending"} /\ UNCHANGED <<cancelVars, taskVars>>
  BY DEF UploadAnswered
<1>3. post' \in [Files -> {"none", "sent", "answered"}] /\ word' \in [Files -> BOOLEAN]
  BY <1>2 DEF UploadInv, UploadTypeOK, cancelVars
<1> QED BY <1>1, <1>2, <1>3, ReturnKeepsInv

LEMMA UploadConnectionFailsKeepsInv ==
  ASSUME UploadInv, NEW f \in Files, UploadConnectionFails(f)
  PROVE  UploadInv'
<1>1. "failed" \in Settled  BY DEF Settled
<1>2. Return(f, "failed") /\ upload[f] \in {"token", "sending"} /\ UNCHANGED <<cancelVars, taskVars>>
  BY DEF UploadConnectionFails
<1>3. post' \in [Files -> {"none", "sent", "answered"}] /\ word' \in [Files -> BOOLEAN]
  BY <1>2 DEF UploadInv, UploadTypeOK, cancelVars
<1> QED BY <1>1, <1>2, <1>3, ReturnKeepsInv

LEMMA CancelUploadKeepsInv ==
  ASSUME UploadInv, NEW f \in Files, CancelUpload(f)
  PROVE  UploadInv'
<1>1. post' \in [Files -> {"none", "sent", "answered"}] /\ word' \in [Files -> BOOLEAN]
  BY DEF CancelUpload, UploadInv, UploadTypeOK
<1>2. CASE upload[f] = "sending" /\ Return(f, "cancelled")
  BY <1>1, <1>2, ReturnKeepsInv DEF CancelUpload, Settled
<1>3. CASE /\ mark' = [mark EXCEPT ![f] = TRUE]
           /\ UNCHANGED <<upload, bar, watcher, polling, limiterVars, joined, tidings>>
  <2>1. UploadTypeOK'
    BY <1>1, <1>3 DEF CancelUpload, UploadInv, UploadTypeOK, limiterVars, taskVars
  <2>2. SlotsInv'
    BY <1>3, SlotsStay DEF UploadInv, UploadTypeOK
  <2>3. ListInv'  BY <1>3 DEF UploadInv, ListInv
  <2>4. TaskInv'  BY <1>3, TaskStays DEF CancelUpload, UploadInv
  <2> QED BY <2>1, <2>2, <2>3, <2>4 DEF UploadInv
<1> QED BY <1>2, <1>3 DEF CancelUpload

LEMMA PostCancelsUploadKeepsInv ==
  ASSUME UploadInv, NEW f \in Files, PostCancelsUpload(f)
  PROVE  UploadInv'
<1>1. UploadTypeOK' /\ TaskInv'
  <2>1. TakeCancel(f) /\ upload' = upload
    BY DEF PostCancelsUpload, listVars
  <2> QED
    BY <2>1, TakeCancelKeeps DEF PostCancelsUpload, TakeCancel,
        UploadInv, UploadTypeOK, limiterVars, listVars
<1>2. SlotsInv'
  <2>1. UNCHANGED limiterVars /\ queue \in Seq(Files)
    BY DEF PostCancelsUpload, UploadInv, UploadTypeOK, limiterVars,
        listVars
  <2>2. upload' = upload  BY DEF PostCancelsUpload, listVars
  <2> QED BY <2>1, <2>2, SlotsStay DEF UploadInv
<1>3. ListInv'
  BY DEF PostCancelsUpload, UploadInv, ListInv, listVars
<1> QED BY <1>1, <1>2, <1>3 DEF UploadInv

LEMMA PostLostKeepsInv ==
  ASSUME UploadInv, NEW f \in Files, PostLost(f)
  PROVE  UploadInv'
<1>1. UploadTypeOK'
  BY DEF PostLost, UploadInv, UploadTypeOK, Working, Registered,
      Settled, limiterVars, listVars, cancelVars, taskVars
<1>2. SlotsInv'
  <2>1. UNCHANGED limiterVars /\ queue \in Seq(Files)
    BY DEF PostLost, UploadInv, UploadTypeOK, limiterVars, listVars
  <2>2. upload' = upload  BY DEF PostLost, listVars
  <2> QED BY <2>1, <2>2, SlotsStay DEF UploadInv
<1>3. ListInv'
  BY DEF PostLost, UploadInv, UploadTypeOK, ListInv, Settled, listVars
<1>4. TaskInv'
  BY TaskStays DEF PostLost, UploadInv, listVars
<1> QED BY <1>1, <1>2, <1>3, <1>4 DEF UploadInv

LEMMA CancelUploadShownKeepsInv ==
  ASSUME UploadInv, NEW f \in Files, CancelUploadShown(f)
  PROVE  UploadInv'
<1>1. UploadTypeOK'
  BY DEF CancelUploadShown, SetBar, Show, UploadInv, UploadTypeOK,
      Working, Registered, Settled, limiterVars, listVars, cancelVars,
      taskVars
<1>2. SlotsInv'
  <2>1. UNCHANGED limiterVars /\ queue \in Seq(Files)
    BY DEF CancelUploadShown, UploadInv, UploadTypeOK, limiterVars,
        listVars
  <2>2. upload' = upload  BY DEF CancelUploadShown, listVars
  <2> QED BY <2>1, <2>2, SlotsStay DEF UploadInv
<1>3. ListInv'
  BY DEF CancelUploadShown, SetBar, Show, UploadInv, UploadTypeOK,
      ListInv, Settled, listVars
<1>4. TaskInv'
  BY TaskStays DEF CancelUploadShown, UploadInv, listVars
<1> QED BY <1>1, <1>2, <1>3, <1>4 DEF UploadInv

LEMMA WordCancelsUploadKeepsInv ==
  ASSUME UploadInv, NEW f \in Files, WordCancelsUpload(f)
  PROVE  UploadInv'
<1>1. UploadTypeOK' /\ TaskInv'
  <2>1. TakeCancel(f) /\ upload' = upload
    BY DEF WordCancelsUpload, listVars
  <2> QED
    BY <2>1, TakeCancelKeeps DEF WordCancelsUpload, TakeCancel,
        UploadInv, UploadTypeOK, limiterVars, listVars
<1>2. SlotsInv'
  <2>1. UNCHANGED limiterVars /\ queue \in Seq(Files)
    BY DEF WordCancelsUpload, UploadInv, UploadTypeOK, limiterVars,
        listVars
  <2>2. upload' = upload  BY DEF WordCancelsUpload, listVars
  <2> QED BY <2>1, <2>2, SlotsStay DEF UploadInv
<1>3. ListInv'
  BY DEF WordCancelsUpload, UploadInv, ListInv, listVars
<1> QED BY <1>1, <1>2, <1>3 DEF UploadInv

LEMMA StreamArrivesKeepsInv ==
  ASSUME UploadInv, NEW f \in Files, StreamArrives(f)
  PROVE  UploadInv'
<1>1. UploadTypeOK'
  <2>1. reply' \in [Files -> {"none"} \cup Settled]
    BY DEF StreamArrives, Answer, UploadInv, UploadTypeOK, Settled
  <2>2. stream' \in [Files -> {"none", "sent", "prepared", "ended"} \cup Registered]
    <3>1. \E s \in {"ended", "prepared"} : stream' = [stream EXCEPT ![f] = s]
      BY DEF StreamArrives, Answer, SetStream
    <3> QED BY <3>1 DEF UploadInv, UploadTypeOK
  <2> QED
    BY <2>1, <2>2 DEF StreamArrives, UploadInv, UploadTypeOK,
        limiterVars, listVars, cancelVars
<1>2. SlotsInv'
  <2>1. UNCHANGED limiterVars /\ queue \in Seq(Files)
    BY DEF StreamArrives, UploadInv, UploadTypeOK, limiterVars,
        listVars
  <2>2. upload' = upload  BY DEF StreamArrives, listVars
  <2> QED BY <2>1, <2>2, SlotsStay DEF UploadInv
<1>3. ListInv'
  BY DEF StreamArrives, UploadInv, ListInv, listVars
<1>4. TaskInv'
  <2> SUFFICES ASSUME NEW g \in Files
               PROVE  /\ upload'[g] \in {"idle", "creating"} => record'[g] = "absent" /\ ~heard'[g]
                      /\ upload'[g] \notin {"sending", "returned"} => stream'[g] = "none"
                      /\ stream'[g] \in {"none", "sent", "prepared"} =>
                           record'[g] \in {"absent", "pending", "cancelled"}
                      /\ record'[g] = "completed" => stream'[g] = "ended"
                      /\ heard'[g] /\ record'[g] # "absent" =>
                           /\ record'[g] # "completed"
                           /\ stream'[g] # "copying"
                           /\ stream'[g] \in {"none", "sent", "prepared"} => record'[g] = "cancelled"
                           /\ stream'[g] \in Registered => cut'[g]
    BY DEF TaskInv
  <2>1. CASE g # f
    BY <2>1 DEF StreamArrives, Answer, SetStream, UploadInv,
        UploadTypeOK, TaskInv, Registered, Settled, listVars
  <2>2. CASE g = f
    BY <2>2 DEF StreamArrives, Answer, SetStream, UploadInv,
        UploadTypeOK, TaskInv, Registered, Settled, listVars
  <2> QED BY <2>1, <2>2
<1> QED BY <1>1, <1>2, <1>3, <1>4 DEF UploadInv

LEMMA StreamLostKeepsInv ==
  ASSUME UploadInv, NEW f \in Files, StreamLost(f)
  PROVE  UploadInv'
<1>1. UploadTypeOK'
  BY DEF StreamLost, SetStream, UploadInv, UploadTypeOK, Working,
      Registered, Settled, limiterVars, listVars, cancelVars, taskVars
<1>2. SlotsInv'
  <2>1. UNCHANGED limiterVars /\ queue \in Seq(Files)
    BY DEF StreamLost, UploadInv, UploadTypeOK, limiterVars,
        listVars
  <2>2. upload' = upload  BY DEF StreamLost, listVars
  <2> QED BY <2>1, <2>2, SlotsStay DEF UploadInv
<1>3. ListInv'
  BY DEF StreamLost, UploadInv, ListInv, listVars
<1>4. TaskInv'
  <2> SUFFICES ASSUME NEW g \in Files
               PROVE  /\ upload'[g] \in {"idle", "creating"} => record'[g] = "absent" /\ ~heard'[g]
                      /\ upload'[g] \notin {"sending", "returned"} => stream'[g] = "none"
                      /\ stream'[g] \in {"none", "sent", "prepared"} =>
                           record'[g] \in {"absent", "pending", "cancelled"}
                      /\ record'[g] = "completed" => stream'[g] = "ended"
                      /\ heard'[g] /\ record'[g] # "absent" =>
                           /\ record'[g] # "completed"
                           /\ stream'[g] # "copying"
                           /\ stream'[g] \in {"none", "sent", "prepared"} => record'[g] = "cancelled"
                           /\ stream'[g] \in Registered => cut'[g]
    BY DEF TaskInv
  <2>1. CASE g # f
    BY <2>1 DEF StreamLost, SetStream, UploadInv, UploadTypeOK, TaskInv,
        Registered, Settled, listVars
  <2>2. CASE g = f
    BY <2>2 DEF StreamLost, SetStream, UploadInv, UploadTypeOK, TaskInv,
        Registered, Settled, listVars
  <2> QED BY <2>1, <2>2
<1> QED BY <1>1, <1>2, <1>3, <1>4 DEF UploadInv

LEMMA StreamRegistersKeepsInv ==
  ASSUME UploadInv, NEW f \in Files, StreamRegisters(f)
  PROVE  UploadInv'
<1>1. UploadTypeOK'
  BY DEF StreamRegisters, SetStream, UploadInv, UploadTypeOK, Working,
      Registered, Settled, limiterVars, listVars, cancelVars, taskVars
<1>2. SlotsInv'
  <2>1. UNCHANGED limiterVars /\ queue \in Seq(Files)
    BY DEF StreamRegisters, UploadInv, UploadTypeOK, limiterVars,
        listVars
  <2>2. upload' = upload  BY DEF StreamRegisters, listVars
  <2> QED BY <2>1, <2>2, SlotsStay DEF UploadInv
<1>3. ListInv'
  BY DEF StreamRegisters, UploadInv, ListInv, listVars
<1>4. TaskInv'
  <2> SUFFICES ASSUME NEW g \in Files
               PROVE  /\ upload'[g] \in {"idle", "creating"} => record'[g] = "absent" /\ ~heard'[g]
                      /\ upload'[g] \notin {"sending", "returned"} => stream'[g] = "none"
                      /\ stream'[g] \in {"none", "sent", "prepared"} =>
                           record'[g] \in {"absent", "pending", "cancelled"}
                      /\ record'[g] = "completed" => stream'[g] = "ended"
                      /\ heard'[g] /\ record'[g] # "absent" =>
                           /\ record'[g] # "completed"
                           /\ stream'[g] # "copying"
                           /\ stream'[g] \in {"none", "sent", "prepared"} => record'[g] = "cancelled"
                           /\ stream'[g] \in Registered => cut'[g]
    BY DEF TaskInv
  <2>1. CASE g # f
    BY <2>1 DEF StreamRegisters, SetStream, UploadInv, UploadTypeOK,
        TaskInv, Registered, Settled, listVars
  <2>2. CASE g = f
    BY <2>2 DEF StreamRegisters, SetStream, UploadInv, UploadTypeOK,
        TaskInv, Registered, Settled, listVars
  <2> QED BY <2>1, <2>2
<1> QED BY <1>1, <1>2, <1>3, <1>4 DEF UploadInv

LEMMA StreamStartsKeepsInv ==
  ASSUME UploadInv, NEW f \in Files, StreamStarts(f)
  PROVE  UploadInv'
<1>1. UploadTypeOK'
  <2>1. Tell(f, "uploading")  BY DEF StreamStarts
  <2> QED
    BY <2>1, TellTypes DEF StreamStarts, SetStream, UploadInv,
        UploadTypeOK, Registered, Settled, limiterVars, listVars,
        cancelVars, taskVars
<1>2. SlotsInv'
  <2>1. UNCHANGED limiterVars /\ queue \in Seq(Files)
    BY DEF StreamStarts, UploadInv, UploadTypeOK, limiterVars,
        listVars
  <2>2. upload' = upload  BY DEF StreamStarts, listVars
  <2> QED BY <2>1, <2>2, SlotsStay DEF UploadInv
<1>3. ListInv'
  BY DEF StreamStarts, UploadInv, ListInv, listVars
<1>4. TaskInv'
  <2> SUFFICES ASSUME NEW g \in Files
               PROVE  /\ upload'[g] \in {"idle", "creating"} => record'[g] = "absent" /\ ~heard'[g]
                      /\ upload'[g] \notin {"sending", "returned"} => stream'[g] = "none"
                      /\ stream'[g] \in {"none", "sent", "prepared"} =>
                           record'[g] \in {"absent", "pending", "cancelled"}
                      /\ record'[g] = "completed" => stream'[g] = "ended"
                      /\ heard'[g] /\ record'[g] # "absent" =>
                           /\ record'[g] # "completed"
                           /\ stream'[g] # "copying"
                           /\ stream'[g] \in {"none", "sent", "prepared"} => record'[g] = "cancelled"
                           /\ stream'[g] \in Registered => cut'[g]
    BY DEF TaskInv
  <2>1. CASE g # f
    BY <2>1 DEF StreamStarts, SetStream, Tell, UploadInv, UploadTypeOK,
        TaskInv, Registered, Settled, listVars
  <2>2. CASE g = f
    BY <2>2 DEF StreamStarts, SetStream, Tell, UploadInv, UploadTypeOK,
        TaskInv, Registered, Settled, listVars
  <2> QED BY <2>1, <2>2
<1> QED BY <1>1, <1>2, <1>3, <1>4 DEF UploadInv

LEMMA StreamGoesOnKeepsInv ==
  ASSUME UploadInv, NEW f \in Files, StreamGoesOn(f)
  PROVE  UploadInv'
<1>1. UploadTypeOK'
  <2>1. Tell(f, "uploading")  BY DEF StreamGoesOn
  <2> QED
    BY <2>1, TellTypes DEF StreamGoesOn, UploadInv, UploadTypeOK,
        Registered, Settled, limiterVars, listVars, cancelVars, taskVars
<1>2. SlotsInv'
  <2>1. UNCHANGED limiterVars /\ queue \in Seq(Files)
    BY DEF StreamGoesOn, UploadInv, UploadTypeOK, limiterVars,
        listVars
  <2>2. upload' = upload  BY DEF StreamGoesOn, listVars
  <2> QED BY <2>1, <2>2, SlotsStay DEF UploadInv
<1>3. ListInv'
  BY DEF StreamGoesOn, UploadInv, ListInv, listVars
<1>4. TaskInv'
  <2> SUFFICES ASSUME NEW g \in Files
               PROVE  /\ upload'[g] \in {"idle", "creating"} => record'[g] = "absent" /\ ~heard'[g]
                      /\ upload'[g] \notin {"sending", "returned"} => stream'[g] = "none"
                      /\ stream'[g] \in {"none", "sent", "prepared"} =>
                           record'[g] \in {"absent", "pending", "cancelled"}
                      /\ record'[g] = "completed" => stream'[g] = "ended"
                      /\ heard'[g] /\ record'[g] # "absent" =>
                           /\ record'[g] # "completed"
                           /\ stream'[g] # "copying"
                           /\ stream'[g] \in {"none", "sent", "prepared"} => record'[g] = "cancelled"
                           /\ stream'[g] \in Registered => cut'[g]
    BY DEF TaskInv
  <2>1. CASE g # f
    BY <2>1 DEF StreamGoesOn, Tell, UploadInv, UploadTypeOK, TaskInv,
        Registered, Settled, listVars
  <2>2. CASE g = f
    BY <2>2 DEF StreamGoesOn, Tell, UploadInv, UploadTypeOK, TaskInv,
        Registered, Settled, listVars
  <2> QED BY <2>1, <2>2
<1> QED BY <1>1, <1>2, <1>3, <1>4 DEF UploadInv

LEMMA StreamDoneKeepsInv ==
  ASSUME UploadInv, NEW f \in Files, StreamDone(f)
  PROVE  UploadInv'
<1>1. UploadTypeOK'
  <2>1. Tell(f, "completed")  BY DEF StreamDone
  <2> QED
    BY <2>1, TellTypes DEF StreamDone, Answer, SetStream, UploadInv,
        UploadTypeOK, Registered, Settled, limiterVars, listVars,
        cancelVars, taskVars
<1>2. SlotsInv'
  <2>1. UNCHANGED limiterVars /\ queue \in Seq(Files)
    BY DEF StreamDone, UploadInv, UploadTypeOK, limiterVars,
        listVars
  <2>2. upload' = upload  BY DEF StreamDone, listVars
  <2> QED BY <2>1, <2>2, SlotsStay DEF UploadInv
<1>3. ListInv'
  BY DEF StreamDone, UploadInv, ListInv, listVars
<1>4. TaskInv'
  <2> SUFFICES ASSUME NEW g \in Files
               PROVE  /\ upload'[g] \in {"idle", "creating"} => record'[g] = "absent" /\ ~heard'[g]
                      /\ upload'[g] \notin {"sending", "returned"} => stream'[g] = "none"
                      /\ stream'[g] \in {"none", "sent", "prepared"} =>
                           record'[g] \in {"absent", "pending", "cancelled"}
                      /\ record'[g] = "completed" => stream'[g] = "ended"
                      /\ heard'[g] /\ record'[g] # "absent" =>
                           /\ record'[g] # "completed"
                           /\ stream'[g] # "copying"
                           /\ stream'[g] \in {"none", "sent", "prepared"} => record'[g] = "cancelled"
                           /\ stream'[g] \in Registered => cut'[g]
    BY DEF TaskInv
  <2>1. CASE g # f
    BY <2>1 DEF StreamDone, Answer, SetStream, Tell, UploadInv,
        UploadTypeOK, TaskInv, Registered, Settled, listVars
  <2>2. CASE g = f
    BY <2>2 DEF StreamDone, Answer, SetStream, Tell, UploadInv,
        UploadTypeOK, TaskInv, Registered, Settled, listVars
  <2> QED BY <2>1, <2>2
<1> QED BY <1>1, <1>2, <1>3, <1>4 DEF UploadInv

LEMMA StreamFailsKeepsInv ==
  ASSUME UploadInv, NEW f \in Files, StreamFails(f)
  PROVE  UploadInv'
<1> PICK status \in {"failed", "cancelled"} : Tell(f, status) /\ Answer(f, status)
  BY DEF StreamFails
<1>1. UploadTypeOK'
  BY TellTypes DEF StreamFails, Answer, SetStream, UploadInv,
      UploadTypeOK, Registered, Settled, limiterVars, listVars,
      cancelVars, taskVars
<1>2. SlotsInv'
  <2>1. UNCHANGED limiterVars /\ queue \in Seq(Files)
    BY DEF StreamFails, UploadInv, UploadTypeOK, limiterVars,
        listVars
  <2>2. upload' = upload  BY DEF StreamFails, listVars
  <2> QED BY <2>1, <2>2, SlotsStay DEF UploadInv
<1>3. ListInv'
  BY DEF StreamFails, UploadInv, ListInv, listVars
<1>4. TaskInv'
  <2> SUFFICES ASSUME NEW g \in Files
               PROVE  /\ upload'[g] \in {"idle", "creating"} => record'[g] = "absent" /\ ~heard'[g]
                      /\ upload'[g] \notin {"sending", "returned"} => stream'[g] = "none"
                      /\ stream'[g] \in {"none", "sent", "prepared"} =>
                           record'[g] \in {"absent", "pending", "cancelled"}
                      /\ record'[g] = "completed" => stream'[g] = "ended"
                      /\ heard'[g] /\ record'[g] # "absent" =>
                           /\ record'[g] # "completed"
                           /\ stream'[g] # "copying"
                           /\ stream'[g] \in {"none", "sent", "prepared"} => record'[g] = "cancelled"
                           /\ stream'[g] \in Registered => cut'[g]
    BY DEF TaskInv
  <2>1. CASE g # f
    BY <2>1 DEF StreamFails, Answer, SetStream, Tell, UploadInv,
        UploadTypeOK, TaskInv, Registered, Settled, listVars
  <2>2. CASE g = f
    BY <2>2 DEF StreamFails, Answer, SetStream, Tell, UploadInv,
        UploadTypeOK, TaskInv, Registered, Settled, listVars
  <2> QED BY <2>1, <2>2
<1> QED BY <1>1, <1>2, <1>3, <1>4 DEF UploadInv

LEMMA StreamCutKeepsInv ==
  ASSUME UploadInv, NEW f \in Files, StreamCut(f)
  PROVE  UploadInv'
<1>1. UploadTypeOK'
  BY DEF StreamCut, UploadInv, UploadTypeOK, Working, Registered,
      Settled, limiterVars, listVars, cancelVars, taskVars
<1>2. SlotsInv'
  <2>1. UNCHANGED limiterVars /\ queue \in Seq(Files)
    BY DEF StreamCut, UploadInv, UploadTypeOK, limiterVars, listVars
  <2>2. upload' = upload  BY DEF StreamCut, listVars
  <2> QED BY <2>1, <2>2, SlotsStay DEF UploadInv
<1>3. ListInv'
  BY DEF StreamCut, UploadInv, ListInv, listVars
<1>4. TaskInv'
  <2> SUFFICES ASSUME NEW g \in Files
               PROVE  /\ upload'[g] \in {"idle", "creating"} => record'[g] = "absent" /\ ~heard'[g]
                      /\ upload'[g] \notin {"sending", "returned"} => stream'[g] = "none"
                      /\ stream'[g] \in {"none", "sent", "prepared"} =>
                           record'[g] \in {"absent", "pending", "cancelled"}
                      /\ record'[g] = "completed" => stream'[g] = "ended"
                      /\ heard'[g] /\ record'[g] # "absent" =>
                           /\ record'[g] # "completed"
                           /\ stream'[g] # "copying"
                           /\ stream'[g] \in {"none", "sent", "prepared"} => record'[g] = "cancelled"
                           /\ stream'[g] \in Registered => cut'[g]
    BY DEF TaskInv
  <2>1. CASE g # f
    BY <2>1 DEF StreamCut, UploadInv, UploadTypeOK, TaskInv, Registered,
        Settled, listVars
  <2>2. CASE g = f
    BY <2>2 DEF StreamCut, UploadInv, UploadTypeOK, TaskInv, Registered,
        Settled, listVars
  <2> QED BY <2>1, <2>2
<1> QED BY <1>1, <1>2, <1>3, <1>4 DEF UploadInv

LEMMA TaskExpiresKeepsInv ==
  ASSUME UploadInv, NEW f \in Files, TaskExpires(f)
  PROVE  UploadInv'
<1>1. UploadTypeOK'
  BY DEF TaskExpires, UploadInv, UploadTypeOK, Working, Registered,
      Settled, limiterVars, listVars, cancelVars, taskVars
<1>2. SlotsInv'
  <2>1. UNCHANGED limiterVars /\ queue \in Seq(Files)
    BY DEF TaskExpires, UploadInv, UploadTypeOK, limiterVars,
        listVars
  <2>2. upload' = upload  BY DEF TaskExpires, listVars
  <2> QED BY <2>1, <2>2, SlotsStay DEF UploadInv
<1>3. ListInv'
  BY DEF TaskExpires, UploadInv, ListInv, listVars
<1>4. TaskInv'
  <2> SUFFICES ASSUME NEW g \in Files
               PROVE  /\ upload'[g] \in {"idle", "creating"} => record'[g] = "absent" /\ ~heard'[g]
                      /\ upload'[g] \notin {"sending", "returned"} => stream'[g] = "none"
                      /\ stream'[g] \in {"none", "sent", "prepared"} =>
                           record'[g] \in {"absent", "pending", "cancelled"}
                      /\ record'[g] = "completed" => stream'[g] = "ended"
                      /\ heard'[g] /\ record'[g] # "absent" =>
                           /\ record'[g] # "completed"
                           /\ stream'[g] # "copying"
                           /\ stream'[g] \in {"none", "sent", "prepared"} => record'[g] = "cancelled"
                           /\ stream'[g] \in Registered => cut'[g]
    BY DEF TaskInv
  <2>1. CASE g # f
    BY <2>1 DEF TaskExpires, UploadInv, UploadTypeOK, TaskInv,
        Registered, Settled, listVars
  <2>2. CASE g = f
    BY <2>2 DEF TaskExpires, UploadInv, UploadTypeOK, TaskInv,
        Registered, Settled, listVars
  <2> QED BY <2>1, <2>2
<1> QED BY <1>1, <1>2, <1>3, <1>4 DEF UploadInv

LEMMA ClearSettledKeepsInv ==
  ASSUME UploadInv, ClearSettled
  PROVE  UploadInv'
<1>1. UploadTypeOK'
  <2>1. <<>> \in Seq({"uploading", "completed", "cancelled"})  OBVIOUS
  <2> QED
    BY <2>1 DEF ClearSettled, UploadInv, UploadTypeOK, limiterVars,
        listVars, cancelVars, taskVars
<1>2. SlotsInv'
  BY SlotsStay DEF ClearSettled, UploadInv, UploadTypeOK
<1>3. ListInv'
  BY DEF ClearSettled, UploadInv, UploadTypeOK, ListInv
<1>4. TaskInv'
  BY TaskStays DEF ClearSettled, UploadInv
<1> QED BY <1>1, <1>2, <1>3, <1>4 DEF UploadInv

-----------------------------------------------------------------------------

\* The three invariants of the page's limiter, the page's list and the server's
\* task hold together in every state of uploads (createFileTransferController,
\* UploadFileStream).
THEOREM UploadInvariance == UploadSpec => []UploadInv
<1>1. UploadInit => UploadInv
  <2> SUFFICES ASSUME UploadInit PROVE UploadInv
    OBVIOUS
  <2>1. UploadTypeOK
    BY UploadAssumption DEF UploadInit, UploadTypeOK
  <2>2. Holders = {}  BY DEF UploadInit, Holders, Working
  <2>3. SlotsInv
    <3>1. active = Cardinality(Holders) /\ queue = <<>>
      BY <2>2, FS_EmptySet DEF UploadInit
    <3> QED BY <3>1 DEF SlotsInv, InQueue, SlotsBalance, Holders
  <2>4. ListInv /\ TaskInv
    BY DEF UploadInit, ListInv, TaskInv
  <2> QED BY <2>1, <2>3, <2>4 DEF UploadInv
<1>2. UploadInv /\ [UploadNext]_uploadVars => UploadInv'
  <2> SUFFICES ASSUME UploadInv, [UploadNext]_uploadVars PROVE UploadInv'
    OBVIOUS
  <2>1. CASE ClearSettled  BY <2>1, ClearSettledKeepsInv
  <2>2. ASSUME NEW f \in Files, UploadStep(f)
        PROVE  UploadInv'
    BY <2>2, StartUploadKeepsInv, UploadCreatedKeepsInv,
        UploadNotCreatedKeepsInv, UploadDialsKeepsInv,
        UploadPollsKeepsInv, UploadOpensKeepsInv,
        UploadOpenTimesOutKeepsInv, UploadSendsKeepsInv,
        UploadHasNoTokenKeepsInv, WatcherJoinsKeepsInv,
        WatcherDiesKeepsInv, WatcherReadsKeepsInv, HttpProgressKeepsInv,
        PollKeepsInv, UploadAnsweredKeepsInv,
        UploadConnectionFailsKeepsInv, CancelUploadKeepsInv,
        PostCancelsUploadKeepsInv, PostLostKeepsInv,
        CancelUploadShownKeepsInv, WordCancelsUploadKeepsInv,
        StreamArrivesKeepsInv, StreamLostKeepsInv,
        StreamRegistersKeepsInv, StreamStartsKeepsInv,
        StreamGoesOnKeepsInv, StreamDoneKeepsInv, StreamFailsKeepsInv,
        StreamCutKeepsInv, TaskExpiresKeepsInv DEF UploadStep,
        CreatingEnds, TicketEnds, WatcherStep, TokenEnds, StreamOver,
        CancelStep
  <2>3. CASE UNCHANGED uploadVars
    <3>1. UploadTypeOK'
      BY <2>3 DEF uploadVars, UploadInv, UploadTypeOK, limiterVars,
          listVars, cancelVars, taskVars
    <3>2. SlotsInv'
      BY <2>3, SlotsStay DEF uploadVars, listVars, UploadInv, UploadTypeOK
    <3>3. ListInv'
      BY <2>3 DEF uploadVars, listVars, UploadInv, ListInv
    <3>4. TaskInv'
      BY <2>3, TaskStays DEF uploadVars, listVars, UploadInv
    <3> QED BY <3>1, <3>2, <3>3, <3>4 DEF UploadInv
  <2> QED BY <2>1, <2>2, <2>3 DEF UploadNext
<1> QED BY <1>1, <1>2, PTL DEF UploadSpec

\* Each variable of Uploads keeps its domain and its range.
THEOREM UploadTypeCorrect == UploadSpec => []UploadTypeOK
<1>1. UploadInv => UploadTypeOK  BY DEF UploadInv
<1> QED BY <1>1, UploadInvariance, PTL

\* No slot of the page's limiter is lost or given twice, for any number of
\* uploads and slots (createTransferConcurrencyLimiter).
THEOREM SlotsAlwaysBalance == UploadSpec => []SlotsBalance
<1>1. UploadInv => SlotsBalance  BY DEF UploadInv, SlotsInv
<1> QED BY <1>1, UploadInvariance, PTL

\* An upload whose cancellation the server took before it began to copy is
\* never completed (CancelTaskForUser, RegisterCancelFunc, UploadFileStream).
THEOREM CancellationSticks == UploadSpec => []CancelSticks
<1>1. UploadInv => CancelSticks  BY DEF UploadInv, TaskInv, CancelSticks
<1> QED BY <1>1, UploadInvariance, PTL

\* What a call that has returned leaves in the list has ended, and nothing
\* that was under way turns it back (uploadFile and its finally).
THEOREM EndedStays == UploadSpec => []EndedStaysEnded
<1>1. UploadInv => EndedStaysEnded  BY DEF UploadInv, ListInv, EndedStaysEnded
<1> QED BY <1>1, UploadInvariance, PTL

-----------------------------------------------------------------------------
(* Transfers between two servers *)

MessageKept ==
  \A e \in Directs :
    /\ Known(e) => lastProgress[e] # "none"
    /\ handler[e] # "none" => found[e] # "none"

DirectInv == DirectTypeOK /\ MessageKept

\* The end of e was told, and e was copied.
Copied(e) == outcome[e] = "completed"

EndedOnce == \A e \in Directs : Copied(e) => relay[e] \in {"ended", "gone"}

Faithful ==
  \A e \in Directs :
    /\ lastProgress[e] = "complete" => Copied(e)
    /\ found[e] = "complete" => Copied(e)
    /\ \A i \in DOMAIN news[e] : news[e][i] = "complete" => Copied(e)
    /\ shown[e] = "completed" => Copied(e)

FlatInv == EndedOnce /\ Faithful

-----------------------------------------------------------------------------
(* Messages on their way *)

LEMMA AppendHas ==
  ASSUME NEW S, NEW s \in Seq(S), NEW m, NEW i \in DOMAIN Append(s, m)
  PROVE  Append(s, m)[i] = m \/ (i \in DOMAIN s /\ Append(s, m)[i] = s[i])
OBVIOUS

LEMMA TailHas ==
  ASSUME NEW S, NEW s \in Seq(S), s # <<>>, NEW i \in DOMAIN Tail(s)
  PROVE  i + 1 \in DOMAIN s /\ Tail(s)[i] = s[i + 1]
OBVIOUS

\* What SendProgress does to the messages.
LEMMA SendTypes ==
  ASSUME DirectTypeOK, NEW d \in Directs,
         NEW m \in {"started", "progress"} \cup Ends, Send(d, m)
  PROVE  /\ lastProgress' \in [Directs -> {"none", "started", "progress"} \cup Ends]
         /\ lastProgress' = [lastProgress EXCEPT ![d] = m]
         /\ news' \in [Directs -> Seq({"started"} \cup Ends)]
<1>1. news[d] \in Seq({"started"} \cup Ends)  BY DEF DirectTypeOK
<1>2. CASE news' = [news EXCEPT ![d] = Append(@, m)] /\ m # "progress"
  <2>1. Append(news[d], m) \in Seq({"started"} \cup Ends)
    BY <1>1, <1>2 DEF Ends
  <2> QED BY <1>2, <2>1 DEF DirectTypeOK, Send
<1>3. CASE news' = news
  BY <1>3 DEF DirectTypeOK, Send
<1>4. news' = news \/ (news' = [news EXCEPT ![d] = Append(@, m)] /\ m # "progress")
  BY DEF Send, DirectTypeOK
<1> QED BY <1>2, <1>3, <1>4

LEMMA SendIsFaithful ==
  ASSUME DirectTypeOK, Faithful, NEW d \in Directs, NEW m, Send(d, m),
         \A e \in Directs : Copied(e) => Copied(e)',
         m = "complete" => Copied(d)',
         UNCHANGED <<found, shown>>
  PROVE  Faithful'
<1> SUFFICES ASSUME NEW e \in Directs
             PROVE  /\ lastProgress'[e] = "complete" => Copied(e)'
                    /\ \A i \in DOMAIN news'[e] : news'[e][i] = "complete" => Copied(e)'
  BY DEF Faithful
<1>1. lastProgress'[e] = "complete" => Copied(e)'
  BY DEF Send, Faithful, DirectTypeOK
<1>2. ASSUME NEW i \in DOMAIN news'[e], news'[e][i] = "complete"
      PROVE  Copied(e)'
  <2>1. CASE news'[e] = news[e]
    BY <1>2, <2>1 DEF Faithful
  <2>2. CASE e = d /\ news'[e] = Append(news[d], m)
    <3>1. news[d] \in Seq({"started"} \cup Ends)  BY DEF DirectTypeOK
    <3>2. news'[e][i] = m \/ (i \in DOMAIN news[d] /\ news'[e][i] = news[d][i])
      BY <1>2, <2>2, <3>1, AppendHas
    <3> QED BY <1>2, <2>2, <3>2 DEF Faithful
  <2>3. news'[e] = news[e] \/ (e = d /\ news'[e] = Append(news[d], m))
    BY DEF Send, DirectTypeOK
  <2> QED BY <2>1, <2>2, <2>3
<1> QED BY <1>1, <1>2

-----------------------------------------------------------------------------
(* Types, one step per action. *)

LEMMA StepKeepsTypes ==
  ASSUME DirectInv, NEW d \in Directs, DirectStep(d)
  PROVE  DirectInv'
<1>1. CASE StartDirect(d)
  BY <1>1 DEF DirectInv, DirectTypeOK, MessageKept, Known, StartDirect,
      SetCall, Ends, Verdicts, relayVars, socketVars, pageVars, askVars
<1>2. CASE AcceptDirect(d)
  <2>1. Send(d, "started")  BY <1>2 DEF AcceptDirect
  <2>2. "started" \in {"started", "progress"} \cup Ends  BY DEF Ends
  <2> QED
    BY <1>2, <2>1, <2>2, SendTypes DEF DirectInv, DirectTypeOK,
        MessageKept, Known, AcceptDirect, Verdicts, Ends, relayVars,
        socketVars, pageVars, askVars
<1>3. CASE DirectRefused(d)
  BY <1>3 DEF DirectInv, DirectTypeOK, MessageKept, Known, DirectRefused,
      DirectReturns, SetCall, Ends, Verdicts, relayVars, socketVars,
      pageVars, askVars
<1>4. CASE DirectStarted(d)
  BY <1>4 DEF DirectInv, DirectTypeOK, MessageKept, Known, DirectStarted,
      SetCall, Ends, Verdicts, relayVars, socketVars, pageVars, askVars
<1>5. CASE DirectDials(d)
  BY <1>5 DEF DirectInv, DirectTypeOK, MessageKept, Known, DirectDials,
      SetCall, Ends, Verdicts, relayVars, socketVars, pageVars, askVars
<1>6. CASE DirectOpens(d)
  BY <1>6 DEF DirectInv, DirectTypeOK, MessageKept, Known, DirectOpens,
      SetCall, Ends, Verdicts, relayVars, socketVars, pageVars, askVars
<1>7. CASE DirectNotOpened(d)
  BY <1>7 DEF DirectInv, DirectTypeOK, MessageKept, Known, DirectNotOpened,
      DirectReturns, SetCall, Ends, Verdicts, relayVars, socketVars,
      pageVars, askVars
<1>8. CASE FindTask(d)
  BY <1>8 DEF DirectInv, DirectTypeOK, MessageKept, Known, FindTask, Ends,
      Verdicts, relayVars, socketVars, pageVars, askVars
<1>9. CASE RegisterSocket(d)
  BY <1>9 DEF DirectInv, DirectTypeOK, MessageKept, Known, RegisterSocket,
      Ends, Verdicts, relayVars, socketVars, pageVars, askVars
<1>10. CASE Resend(d)
  <2>1. Send(d, found[d])  BY <1>10 DEF Resend
  <2>2. found[d] \in {"started", "progress"} \cup Ends
    BY <1>10 DEF DirectInv, DirectTypeOK, MessageKept, Known, Resend, Ends
  <2> QED
    BY <1>10, <2>1, <2>2, SendTypes DEF DirectInv, DirectTypeOK,
        MessageKept, Known, Resend, Verdicts, Ends, relayVars,
        socketVars, pageVars, askVars
<1>11. CASE HandlerEnds(d)
  BY <1>11 DEF DirectInv, DirectTypeOK, MessageKept, Known, HandlerEnds,
      Ends, Verdicts, relayVars, socketVars, pageVars, askVars
<1>12. CASE CopyGoesOn(d)
  <2>1. Send(d, "progress")  BY <1>12 DEF CopyGoesOn
  <2>2. "progress" \in {"started", "progress"} \cup Ends  BY DEF Ends
  <2> QED
    BY <1>12, <2>1, <2>2, SendTypes DEF DirectInv, DirectTypeOK,
        MessageKept, Known, CopyGoesOn, Verdicts, Ends, relayVars,
        socketVars, pageVars, askVars
<1>13. CASE SubdirectoryDone(d)
  <2>1. Send(d, "complete")  BY <1>13 DEF SubdirectoryDone
  <2>2. "complete" \in {"started", "progress"} \cup Ends  BY DEF Ends
  <2> QED
    BY <1>13, <2>1, <2>2, SendTypes DEF DirectInv, DirectTypeOK,
        MessageKept, Known, SubdirectoryDone, Verdicts, Ends, relayVars,
        socketVars, pageVars, askVars
<1>14. CASE CopyDone(d)
  <2>1. Send(d, "complete")  BY <1>14 DEF CopyDone
  <2>2. "complete" \in {"started", "progress"} \cup Ends  BY DEF Ends
  <2> QED
    BY <1>14, <2>1, <2>2, SendTypes DEF DirectInv, DirectTypeOK,
        MessageKept, Known, CopyDone, EndRelay, Verdicts, Ends,
        relayVars, socketVars, pageVars, askVars
<1>15. CASE CopyFails(d)
  <2>1. PICK m \in {"cancelled", "error"}, v \in {"cancelled", "failed"} :
           EndRelay(d, v) /\ Send(d, m)
    BY <1>15 DEF CopyFails
  <2>2. m \in {"started", "progress"} \cup Ends  BY DEF Ends
  <2> QED
    BY <2>1, <2>2, SendTypes DEF DirectInv, DirectTypeOK, MessageKept,
        Known, EndRelay, Verdicts, Ends, relayVars, socketVars,
        pageVars, askVars
<1>16. CASE ForgetTask(d)
  BY <1>16 DEF DirectInv, DirectTypeOK, MessageKept, Known, ForgetTask,
      Ends, Verdicts, relayVars, socketVars, pageVars, askVars
<1>17. CASE Watch(d)
  <2>1. news[d] \in Seq({"started"} \cup Ends) /\ news[d] # <<>>
    BY <1>17 DEF DirectInv, DirectTypeOK, Watch
  <2>2. Head(news[d]) \in {"started"} \cup Ends /\ Tail(news[d]) \in Seq({"started"} \cup Ends)
    BY <2>1
  <2>3. StatusOf(Head(news[d])) \in {"transferring"} \cup Verdicts
    BY <2>2 DEF StatusOf, Ends, Verdicts
  <2>4. shown' \in [Directs -> {"absent", "transferring"} \cup Verdicts]
    BY ZenonT(30), <1>17, <2>3 DEF DirectInv, DirectTypeOK, Watch, DirectReturns
  <2>5. news' \in [Directs -> Seq({"started"} \cup Ends)]
    <3>1. <<>> \in Seq({"started"} \cup Ends)  OBVIOUS
    <3>2. news' = [news EXCEPT ![d] = <<>>] \/ news' = [news EXCEPT ![d] = Tail(news[d])]
      BY <1>17 DEF DirectInv, DirectTypeOK, Watch, DirectReturns
    <3> QED BY ZenonT(30), <2>2, <3>1, <3>2 DEF DirectInv, DirectTypeOK
  <2>6. /\ call' \in [Directs ->
             {"idle", "starting", "ticket", "opening", "watching", "returned"}]
        /\ wire' \in [Directs -> {"none", "dialing", "open", "closed"}]
        /\ marked' \in [Directs -> BOOLEAN]
    BY ZenonT(30), <1>17 DEF DirectInv, DirectTypeOK, Watch, DirectReturns, SetCall
  <2> QED
    BY <1>17, <2>4, <2>5, <2>6 DEF DirectInv, DirectTypeOK, MessageKept, Known, Watch,
        relayVars, socketVars, askVars
<1>18. CASE DirectDrops(d)
  BY <1>18 DEF DirectInv, DirectTypeOK, MessageKept, Known, DirectDrops,
      DirectReturns, SetCall, Ends, Verdicts, relayVars, socketVars,
      pageVars, askVars
<1>19. CASE CancelDirect(d)
  BY <1>19 DEF DirectInv, DirectTypeOK, MessageKept, Known, CancelDirect,
      Ends, Verdicts, relayVars, socketVars, pageVars, askVars
<1>20. CASE SocketCancel(d)
  BY <1>20 DEF DirectInv, DirectTypeOK, MessageKept, Known, SocketCancel,
      Halt, Ends, Verdicts, relayVars, socketVars, pageVars, askVars
<1>21. CASE PostCancel(d)
  BY <1>21 DEF DirectInv, DirectTypeOK, MessageKept, Known, PostCancel,
      Halt, Ends, Verdicts, relayVars, socketVars, pageVars, askVars
<1>22. CASE PostCancelLost(d)
  BY <1>22 DEF DirectInv, DirectTypeOK, MessageKept, Known, PostCancelLost,
      Ends, Verdicts, relayVars, socketVars, pageVars, askVars
<1>23. CASE CancelShown(d)
  BY <1>23 DEF DirectInv, DirectTypeOK, MessageKept, Known, CancelShown,
      Ends, Verdicts, relayVars, socketVars, pageVars, askVars
<1> QED
  BY <1>1, <1>2, <1>3, <1>4, <1>5, <1>6, <1>7, <1>8, <1>9, <1>10, <1>11,
      <1>12, <1>13, <1>14, <1>15, <1>16, <1>17, <1>18, <1>19, <1>20,
      <1>21, <1>22, <1>23 DEF DirectStep, CallGoesOn, OpeningEnds,
      CopyEnds, CancelAnswered

\* Each variable of DirectTransfers keeps its domain and its range, whatever
\* the copy, the socket and the cancellations do (StartDirectTransfer,
\* HandleTransferWebSocket, directTransfer).
THEOREM DirectTypeCorrect == DirectSpec => []DirectTypeOK
<1>1. DirectInit => DirectInv
  BY DirectAssumption DEF DirectInit, DirectInv, DirectTypeOK, MessageKept, Known, Ends
<1>2. DirectInv /\ [DirectNext]_directVars => DirectInv'
  <2>1. CASE DirectNext
    BY <2>1, StepKeepsTypes DEF DirectNext
  <2>2. CASE UNCHANGED directVars
    BY <2>2 DEF directVars, DirectInv, DirectTypeOK, MessageKept, Known,
        relayVars, socketVars, pageVars, askVars
  <2> QED BY <2>1, <2>2
<1>3. DirectInv => DirectTypeOK  BY DEF DirectInv
<1> QED BY <1>1, <1>2, <1>3, PTL DEF DirectSpec

-----------------------------------------------------------------------------
(* Transfers without a directory in a directory. *)

LEMMA FlatStepKeepsFaith ==
  ASSUME Nested = {}, DirectInv, FlatInv, NEW d \in Directs, DirectStep(d)
  PROVE  FlatInv'
<1> USE DEF DirectInv, FlatInv
<1>1. CASE StartDirect(d)
  BY <1>1 DEF StartDirect, SetCall, DirectTypeOK, EndedOnce, Faithful,
      Copied, relayVars, socketVars, pageVars, askVars
<1>2. CASE AcceptDirect(d)
  <2>1. Send(d, "started")  BY <1>2 DEF AcceptDirect
  <2>2. EndedOnce' /\ (\A e \in Directs : Copied(e) => Copied(e)')
    BY <1>2 DEF AcceptDirect, DirectTypeOK, EndedOnce, Faithful, Copied,
        relayVars, socketVars, pageVars, askVars
  <2>3. ("started" = "complete" => Copied(d)') /\ UNCHANGED <<found, shown>>
    BY <1>2 DEF AcceptDirect, DirectTypeOK, EndedOnce, Faithful, Copied,
        relayVars, socketVars, pageVars, askVars
  <2> QED BY <2>1, <2>2, <2>3, SendIsFaithful
<1>3. CASE DirectRefused(d)
  <2>1. EndedOnce' /\ UNCHANGED <<outcome, lastProgress, found>>
    BY <1>3 DEF DirectRefused, EndedOnce, Copied, relayVars, socketVars
  <2>2. \A e \in Directs : shown'[e] = "completed" => Copied(e)
    BY <1>3 DEF DirectRefused, DirectReturns, DirectTypeOK, EndedOnce,
        Faithful, Copied
  <2>3. \A e \in Directs : news'[e] = news[e] \/ news'[e] = <<>>
    BY <1>3 DEF DirectRefused, DirectReturns, DirectTypeOK
  <2> QED BY <2>1, <2>2, <2>3 DEF Faithful, Copied
<1>4. CASE DirectStarted(d)
  BY <1>4 DEF DirectStarted, SetCall, DirectTypeOK, EndedOnce, Faithful,
      Copied, relayVars, socketVars, pageVars, askVars
<1>5. CASE DirectDials(d)
  BY <1>5 DEF DirectDials, SetCall, DirectTypeOK, EndedOnce, Faithful,
      Copied, relayVars, socketVars, pageVars, askVars
<1>6. CASE DirectOpens(d)
  BY <1>6 DEF DirectOpens, SetCall, DirectTypeOK, EndedOnce, Faithful,
      Copied, relayVars, socketVars, pageVars, askVars
<1>7. CASE DirectNotOpened(d)
  <2>1. EndedOnce' /\ UNCHANGED <<outcome, lastProgress, found>>
    BY <1>7 DEF DirectNotOpened, EndedOnce, Copied, relayVars,
        socketVars
  <2>2. \A e \in Directs : shown'[e] = "completed" => Copied(e)
    BY <1>7 DEF DirectNotOpened, DirectReturns, DirectTypeOK, EndedOnce,
        Faithful, Copied
  <2>3. \A e \in Directs : news'[e] = news[e] \/ news'[e] = <<>>
    BY <1>7 DEF DirectNotOpened, DirectReturns, DirectTypeOK
  <2> QED BY <2>1, <2>2, <2>3 DEF Faithful, Copied
<1>8. CASE FindTask(d)
  BY <1>8 DEF FindTask, DirectTypeOK, EndedOnce, Faithful, Copied,
      relayVars, socketVars, pageVars, askVars
<1>9. CASE RegisterSocket(d)
  BY <1>9 DEF RegisterSocket, DirectTypeOK, EndedOnce, Faithful, Copied,
      relayVars, socketVars, pageVars, askVars
<1>10. CASE Resend(d)
  <2>1. Send(d, found[d])  BY <1>10 DEF Resend
  <2>2. EndedOnce' /\ (\A e \in Directs : Copied(e) => Copied(e)')
    BY <1>10 DEF Resend, DirectTypeOK, EndedOnce, Faithful, Copied,
        relayVars, socketVars, pageVars, askVars
  <2>3. (found[d] = "complete" => Copied(d)') /\ UNCHANGED <<found, shown>>
    BY <1>10 DEF Resend, DirectTypeOK, EndedOnce, Faithful, Copied,
        relayVars, socketVars, pageVars, askVars
  <2> QED BY <2>1, <2>2, <2>3, SendIsFaithful
<1>11. CASE HandlerEnds(d)
  BY <1>11 DEF HandlerEnds, DirectTypeOK, EndedOnce, Faithful, Copied,
      relayVars, socketVars, pageVars, askVars
<1>12. CASE CopyGoesOn(d)
  <2>1. Send(d, "progress")  BY <1>12 DEF CopyGoesOn
  <2>2. EndedOnce' /\ (\A e \in Directs : Copied(e) => Copied(e)')
    BY <1>12 DEF CopyGoesOn, DirectTypeOK, EndedOnce, Faithful, Copied,
        relayVars, socketVars, pageVars, askVars
  <2>3. ("progress" = "complete" => Copied(d)') /\ UNCHANGED <<found, shown>>
    BY <1>12 DEF CopyGoesOn, DirectTypeOK, EndedOnce, Faithful, Copied,
        relayVars, socketVars, pageVars, askVars
  <2> QED BY <2>1, <2>2, <2>3, SendIsFaithful
<1>13. CASE SubdirectoryDone(d)
  BY <1>13 DEF SubdirectoryDone
<1>14. CASE CopyDone(d)
  <2>1. Send(d, "complete")  BY <1>14 DEF CopyDone
  <2>2. EndedOnce' /\ (\A e \in Directs : Copied(e) => Copied(e)')
    BY <1>14 DEF CopyDone, EndRelay, DirectTypeOK, EndedOnce, Faithful,
        Copied, relayVars, socketVars, pageVars, askVars
  <2>3. ("complete" = "complete" => Copied(d)') /\ UNCHANGED <<found, shown>>
    BY <1>14 DEF CopyDone, EndRelay, DirectTypeOK, EndedOnce, Faithful,
        Copied, relayVars, socketVars, pageVars, askVars
  <2> QED BY <2>1, <2>2, <2>3, SendIsFaithful
<1>15. CASE CopyFails(d)
  <2>1. PICK m \in {"cancelled", "error"}, v \in {"cancelled", "failed"} :
           EndRelay(d, v) /\ Send(d, m)
    BY <1>15 DEF CopyFails
  <2>2. EndedOnce' /\ (\A e \in Directs : Copied(e) => Copied(e)')
    BY <2>1 DEF EndRelay, DirectTypeOK, EndedOnce, Faithful, Copied,
        relayVars, socketVars, pageVars, askVars
  <2>3. (m = "complete" => Copied(d)') /\ UNCHANGED <<found, shown>>
    BY <2>1 DEF EndRelay, DirectTypeOK, EndedOnce, Faithful, Copied,
        relayVars, socketVars, pageVars, askVars
  <2> QED BY <2>1, <2>2, <2>3, SendIsFaithful
<1>16. CASE ForgetTask(d)
  BY <1>16 DEF ForgetTask, DirectTypeOK, EndedOnce, Faithful, Copied,
      relayVars, socketVars, pageVars, askVars
<1>17. CASE Watch(d)
  <2>1. news[d] \in Seq({"started"} \cup Ends) /\ news[d] # <<>>
    BY <1>17 DEF DirectTypeOK, Watch
  <2>2. 1 \in DOMAIN news[d] /\ Head(news[d]) = news[d][1]
    BY <2>1
  <2>3. Head(news[d]) \in {"started"} \cup Ends
    BY <2>1
  <2>4. StatusOf(Head(news[d])) = "completed" => Copied(d)
    BY <2>2, <2>3 DEF StatusOf, Ends, Faithful
  <2>5. EndedOnce' /\ UNCHANGED <<outcome, lastProgress, found>>
    BY <1>17 DEF Watch, EndedOnce, Copied, relayVars, socketVars
  <2>6. \A e \in Directs : shown'[e] = "completed" => Copied(e)
    BY <1>17, <2>4 DEF Watch, DirectReturns, Faithful, DirectTypeOK
  <2>7. ASSUME NEW e \in Directs, NEW i \in DOMAIN news'[e], news'[e][i] = "complete"
        PROVE  Copied(e)
    <3>1. CASE news'[e] = news[e]  BY <2>7, <3>1 DEF Faithful
    <3>2. CASE news'[e] = <<>>  BY <2>7, <3>2
    <3>3. CASE e = d /\ news'[e] = Tail(news[d])
      <4>1. i + 1 \in DOMAIN news[d] /\ news'[e][i] = news[d][i + 1]
        BY <2>1, <2>7, <3>3, TailHas
      <4> QED BY <2>7, <3>3, <4>1 DEF Faithful
    <3>4. \/ news'[e] = news[e] \/ news'[e] = <<>>
          \/ e = d /\ news'[e] = Tail(news[d])
      BY <1>17 DEF Watch, DirectReturns, DirectTypeOK
    <3> QED BY <3>1, <3>2, <3>3, <3>4
  <2> QED BY <2>5, <2>6, <2>7 DEF Faithful, Copied
<1>18. CASE DirectDrops(d)
  <2>1. EndedOnce' /\ UNCHANGED <<outcome, lastProgress, found>>
    BY <1>18 DEF DirectDrops, EndedOnce, Copied, relayVars, socketVars
  <2>2. \A e \in Directs : shown'[e] = "completed" => Copied(e)
    BY <1>18 DEF DirectDrops, DirectReturns, DirectTypeOK, EndedOnce,
        Faithful, Copied
  <2>3. \A e \in Directs : news'[e] = news[e] \/ news'[e] = <<>>
    BY <1>18 DEF DirectDrops, DirectReturns, DirectTypeOK
  <2> QED BY <2>1, <2>2, <2>3 DEF Faithful, Copied
<1>19. CASE CancelDirect(d)
  BY <1>19 DEF CancelDirect, DirectTypeOK, EndedOnce, Faithful, Copied,
      relayVars, socketVars, pageVars, askVars
<1>20. CASE SocketCancel(d)
  BY <1>20 DEF SocketCancel, Halt, DirectTypeOK, EndedOnce, Faithful,
      Copied, relayVars, socketVars, pageVars, askVars
<1>21. CASE PostCancel(d)
  BY <1>21 DEF PostCancel, Halt, DirectTypeOK, EndedOnce, Faithful,
      Copied, relayVars, socketVars, pageVars, askVars
<1>22. CASE PostCancelLost(d)
  BY <1>22 DEF PostCancelLost, DirectTypeOK, EndedOnce, Faithful, Copied,
      relayVars, socketVars, pageVars, askVars
<1>23. CASE CancelShown(d)
  BY <1>23 DEF CancelShown, DirectTypeOK, EndedOnce, Faithful, Copied,
      relayVars, socketVars, pageVars, askVars
<1> QED
  BY <1>1, <1>2, <1>3, <1>4, <1>5, <1>6, <1>7, <1>8, <1>9, <1>10, <1>11,
      <1>12, <1>13, <1>14, <1>15, <1>16, <1>17, <1>18, <1>19, <1>20,
      <1>21, <1>22, <1>23 DEF DirectStep, CallGoesOn, OpeningEnds,
      CopyEnds, CancelAnswered

\* Without a directory in a directory the page shows a transfer as completed
\* only if it was copied, whatever the socket, the cancellation and the end
\* of the copy do to one another (ws/sftp_transfer.go, transfer-runtime.ts).
THEOREM FlatCompleteIsComplete ==
  ASSUME Nested = {}
  PROVE  DirectSpec => []CompleteIsComplete
<1>1. DirectInit => DirectInv /\ FlatInv
  BY DEF DirectInit, DirectInv, FlatInv, EndedOnce, Faithful, Copied, DirectTypeOK,
      MessageKept, Known, Ends
<1>2. DirectInv /\ FlatInv /\ [DirectNext]_directVars => (DirectInv /\ FlatInv)'
  <2>1. CASE DirectNext
    BY <2>1, StepKeepsTypes, FlatStepKeepsFaith DEF DirectNext
  <2>2. CASE UNCHANGED directVars
    BY <2>2 DEF directVars, DirectInv, FlatInv, MessageKept, Known,
        DirectTypeOK, EndedOnce, Faithful, Copied, relayVars,
        socketVars, pageVars, askVars
  <2> QED BY <2>1, <2>2
<1>3. FlatInv => CompleteIsComplete
  BY DEF FlatInv, Faithful, Copied, CompleteIsComplete
<1> QED BY <1>1, <1>2, <1>3, PTL DEF DirectSpec
=============================================================================
