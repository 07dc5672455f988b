--------------------------- MODULE TransfersProofs ---------------------------
(***************************************************************************)
(* Proofs about Transfers, for any number of transfers, attempts and       *)
(* crashes.  What holds whatever the database refuses, whatever stalls:    *)
(* the types, that a run which has ended tells what became of its          *)
(* transfer, that a transfer ends once, and that only runs of scheduled    *)
(* tasks are interrupted.  While no live attempt loses its lease: a        *)
(* completed download has its file, and a cancellation reaches the attempt *)
(* that moves data.  While no statement is refused: the queue counts no    *)
(* open transfer as a success.                                             *)
(*                                                                         *)
(* RunsInv is the core.  Its hard part is CopyOK: syncTaskRun works with   *)
(* copies of the row and of its run, read in an earlier step, and an old   *)
(* copy does no harm because one that shows an end is true for ever.  The  *)
(* proof of it is by pieces: a step goes Forward (rows, jobs and runs      *)
(* never go back), and moves few processes; the others stay as they were   *)
(* (StillOK), and those that move have to be right where they arrive       *)
(* (ForwardKeeps, GotoOK, SyncOK).                                         *)
(*                                                                         *)
(* LeaseInv adds that the attempt at work is the last one (AloneOK) and    *)
(* what the file is at each of its points (FileOK).  DoneInv adds that an  *)
(* attempt which returns untold has seen its row end.  InterruptInv says   *)
(* that a request which has not come yet has no run.                       *)
(***************************************************************************)
EXTENDS MCTransfers, TLAPS

AllPoints == CreatorPoints \cup AttemptPoints \cup CancellerPoints
IsCreator(p) == p[2] = 0

\* The points a process may be at, and the steps that follow syncTaskRun.
PointsOf(p) ==
  IF IsCreator(p) THEN CreatorPoints
  ELSE IF IsAttempt(p) THEN AttemptPoints ELSE CancellerPoints
After(p) ==
  IF IsCreator(p) THEN {"gone", "staging", "enqueue"}
  ELSE IF IsAttempt(p) THEN {"return", "open", "transfer"} ELSE {"gone"}

\* Where p is, or will be when its synchronization is over.
At(p) == IF pc[p] \in SyncPoints THEN next[p] ELSE pc[p]

\* A run that tells how its transfer ended.
Told == Task!Ended \ {"interrupted"}

RowTypes ==
  /\ kind \in [Transfers -> Kinds \cup {"none"}]
  /\ job \in [Transfers -> {"absent"} \cup Active \cup Terminal]
  /\ runOf \in [Transfers -> Procs \cup {NoRun}]
  /\ file \in [Transfers -> {"none", "partial", "whole"}]
QueueTypes ==
  /\ phase \in [Transfers -> Queue!Phases]
  /\ tries \in [Transfers -> 0 .. MaxAttempts]
RunTypes == runStatus \in [Procs -> Task!Statuses]
ProcTypes ==
  /\ pc \in [Procs -> AllPoints]
  /\ next \in [Procs -> AllPoints]
  /\ seen \in [Procs -> {"absent"} \cup Active \cup Terminal]
  /\ seenRun \in [Procs -> Procs \cup {NoRun}]
  /\ stopped \in [Procs -> BOOLEAN]
ServerTypes ==
  /\ server \in {"up", "stopping", "down", "recovering"}
  /\ unfinished \in SUBSET Procs
  /\ crashes \in Nat
TypeInv == RowTypes /\ QueueTypes /\ RunTypes /\ ProcTypes /\ ServerTypes

RoleOK(p) ==
  /\ pc[p] \in PointsOf(p)
  /\ pc[p] \in SyncPoints => next[p] \in After(p)

\* The copies of the row that p works with are of its own transfer, and one
\* that shows an end is true for ever.
CopyOK(p) ==
  /\ pc[p] = "apply" => seenRun[p] # NoRun
  /\ pc[p] = "bind" => seenRun[p] = p
  /\ seenRun[p] # NoRun => seenRun[p][1] = p[1]
  /\ seen[p] \in Terminal => job[p[1]] = seen[p]

\* Before there is a row, nobody but its creator is at work, and no run tells
\* of an end.
AcceptedOK(p) ==
  /\ job[p[1]] = "absent" =>
       pc[p] \in (IF IsCreator(p) THEN {"idle", "opened", "gone"} ELSE {"idle"})
  /\ IsCreator(p) /\ pc[p] \in {"idle", "opened"} =>
       /\ job[p[1]] = "absent"
       /\ \A r \in Procs : r[1] = p[1] => runStatus[r] \notin Told

\* What is enqueued is accepted, and only an attempt that set the row running
\* goes on to transfer.
QueuedOK(p) ==
  /\ IsCreator(p) /\ At(p) = "enqueue" => job[p[1]] \notin {"absent", "staging"}
  /\ IsAttempt(p) /\ pc[p] # "idle" => phase[p[1]] # "absent"
  /\ IsAttempt(p) /\ At(p) \in {"open", "transfer", "complete"} =>
       job[p[1]] \in {"running"} \cup Terminal

ProcessOK(p) == RoleOK(p) /\ CopyOK(p) /\ AcceptedOK(p) /\ QueuedOK(p)

TransferOK(t) ==
  /\ runOf[t] # NoRun => runOf[t][1] = t
  /\ phase[t] # "absent" => job[t] \notin {"absent", "staging"}

RunOK(r) ==
  runStatus[r] \in Told /\ job[r[1]] # "absent" => runStatus[r] = Shown(job[r[1]])

RunsInv ==
  /\ TypeInv
  /\ \A p \in Procs : ProcessOK(p)
  /\ \A t \in Transfers : TransferOK(t)
  /\ \A r \in Procs : RunOK(r)

-----------------------------------------------------------------------------
(* Processes are pairs *)

\* A process is the pair of its transfer and its number.
LEMMA ProcFacts ==
  ASSUME NEW p \in Procs
  PROVE  /\ p[1] \in Transfers /\ p[2] \in 0 .. MaxAttempts + 1
         /\ p = <<p[1], p[2]>>
         /\ p # NoRun
         /\ \A q \in Procs : p[1] = q[1] /\ p[2] = q[2] => p = q
         /\ IsCreator(p) => ~ IsAttempt(p) /\ p = Creator(p[1])
BY BoundsAssumption, NoRunAssumption DEF Procs, IsCreator, IsAttempt, Creator

\* The process of the request that creates t.
LEMMA CreatorFacts ==
  ASSUME NEW t \in Transfers
  PROVE  /\ Creator(t) \in Procs /\ Creator(t)[1] = t
         /\ IsCreator(Creator(t)) /\ ~ IsAttempt(Creator(t))
BY BoundsAssumption DEF Procs, IsCreator, IsAttempt, Creator

\* The process of the k-th attempt of t.
LEMMA AttemptFacts ==
  ASSUME NEW t \in Transfers, NEW k \in 1 .. MaxAttempts
  PROVE  /\ Attempt(t, k) \in Procs /\ Attempt(t, k)[1] = t /\ Attempt(t, k)[2] = k
         /\ IsAttempt(Attempt(t, k)) /\ ~ IsCreator(Attempt(t, k))
BY BoundsAssumption DEF Procs, IsCreator, IsAttempt, Attempt

\* The process of the request that cancels t.
LEMMA CancellerFacts ==
  ASSUME NEW t \in Transfers
  PROVE  /\ Canceller(t) \in Procs /\ Canceller(t)[1] = t
         /\ ~ IsAttempt(Canceller(t)) /\ ~ IsCreator(Canceller(t))
BY BoundsAssumption DEF Procs, IsCreator, IsAttempt, Canceller

-----------------------------------------------------------------------------
(* What a step may do to the rows, the jobs and the runs *)

Early == {"idle", "opened"}

\* A row is created once, and goes forward until it ends.
JobForward ==
  \A t \in Transfers :
    \/ job'[t] = job[t]
    \/ /\ job[t] = "absent" /\ job'[t] \in {"staging", "queued"}
       /\ pc[Creator(t)] \in Early /\ pc'[Creator(t)] \notin Early
    \/ /\ job[t] \in Active /\ job'[t] \in {"queued", "running"} \cup Terminal
       /\ job[t] = "running" => job'[t] \in {"running"} \cup Terminal

QueueForward ==
  \A t \in Transfers :
    /\ phase[t] # "absent" => phase'[t] # "absent"
    /\ phase'[t] # "absent" => phase[t] # "absent" \/ job[t] \notin {"absent", "staging"}

\* A run is told the end of its row, or fails before there is one.
RunsForward ==
  \A r \in Procs : runStatus'[r] \in Told =>
    \/ runStatus'[r] = runStatus[r]
    \/ job'[r[1]] \in Terminal /\ runStatus'[r] = Shown(job'[r[1]])
    \/ job'[r[1]] = "absent" /\ pc'[Creator(r[1])] \notin Early

\* The processes outside S do not move.
Only(S) ==
  \A q \in Procs \ S :
    pc'[q] = pc[q] /\ next'[q] = next[q] /\ seen'[q] = seen[q] /\ seenRun'[q] = seenRun[q]

Forward == JobForward /\ QueueForward /\ RunsForward

\* A process that does not move is as it should be after a step forward.
LEMMA StillOK ==
  ASSUME RunsInv, Forward, NEW S, Only(S), NEW q \in Procs \ S
  PROVE  ProcessOK(q)'
<1> DEFINE t == q[1]
<1> t \in Transfers
  BY ProcFacts
<1>1. pc'[q] = pc[q] /\ next'[q] = next[q] /\ seen'[q] = seen[q] /\ seenRun'[q] = seenRun[q]
  BY DEF Only
<1>2. ProcessOK(q) /\ job[t] \in {"absent"} \cup Active \cup Terminal
  BY DEF RunsInv, TypeInv, RowTypes
<1>3. At(q)' = At(q)
  BY <1>1 DEF At
<1>4. RoleOK(q)'
  BY <1>1, <1>2 DEF ProcessOK, RoleOK
<1>5. \/ job'[t] = job[t]
      \/ /\ job[t] = "absent" /\ job'[t] \in {"staging", "queued"}
         /\ pc[Creator(t)] \in Early /\ pc'[Creator(t)] \notin Early
      \/ /\ job[t] \in Active /\ job'[t] \in {"queued", "running"} \cup Terminal
         /\ job[t] = "running" => job'[t] \in {"running"} \cup Terminal
  BY DEF Forward, JobForward
<1>6. CopyOK(q)'
  BY <1>1, <1>2, <1>5 DEF ProcessOK, CopyOK, Active, Terminal
<1>7. IsCreator(q) /\ pc[q] \in Early => job'[t] = "absent"
  BY <1>1, <1>2, <1>5, ProcFacts DEF ProcessOK, AcceptedOK, Early, Active
<1>8. AcceptedOK(q)'
  <2>1. job'[t] = "absent" => job[t] = "absent"
    BY <1>5 DEF Terminal
  <2>2. ASSUME IsCreator(q), pc[q] \in Early, NEW r \in Procs, r[1] = t
        PROVE  runStatus'[r] \notin Told
    <3>1. pc'[Creator(t)] \in Early
      BY <1>1, <2>2, ProcFacts
    <3>2. runStatus[r] \notin Told
      BY <1>2, <2>2 DEF ProcessOK, AcceptedOK, Early
    <3>3. job'[r[1]] \notin Terminal
      BY <1>7, <2>2 DEF Terminal
    <3> QED
      BY <3>1, <3>2, <3>3, <2>2 DEF Forward, RunsForward
  <2> QED
    BY <1>1, <1>2, <1>7, <2>1, <2>2 DEF ProcessOK, AcceptedOK, Early
<1>9. QueuedOK(q)'
  <2>1. phase[t] # "absent" => phase'[t] # "absent"
    BY DEF Forward, QueueForward
  <2>2. job[t] \notin {"absent", "staging"} => job'[t] \notin {"absent", "staging"}
    BY <1>5 DEF Terminal
  <2>3. job[t] \in {"running"} \cup Terminal => job'[t] \in {"running"} \cup Terminal
    BY <1>5 DEF Active, Terminal
  <2> QED
    BY <1>1, <1>2, <1>3, <2>1, <2>2, <2>3 DEF ProcessOK, QueuedOK
<1> QED
  BY <1>4, <1>6, <1>8, <1>9 DEF ProcessOK

\* The invariant after a step forward, once the processes that moved are right.
LEMMA ForwardKeeps ==
  ASSUME RunsInv, TypeInv', Forward, NEW S, Only(S),
         \A p \in S \cap Procs : ProcessOK(p)',
         \A t \in Transfers : runOf'[t] # NoRun => runOf'[t][1] = t
  PROVE  RunsInv'
<1>1. ASSUME NEW p \in Procs PROVE ProcessOK(p)'
  BY StillOK
<1>2. ASSUME NEW t \in Transfers PROVE TransferOK(t)'
  <2>1. TransferOK(t) /\ job[t] \in {"absent"} \cup Active \cup Terminal
    BY DEF RunsInv, TypeInv, RowTypes
  <2>2. job[t] \notin {"absent", "staging"} => job'[t] \notin {"absent", "staging"}
    BY <2>1 DEF Forward, JobForward, Active, Terminal
  <2> QED
    BY <2>1, <2>2 DEF TransferOK, Forward, QueueForward
<1>3. ASSUME NEW r \in Procs PROVE RunOK(r)'
  <2> DEFINE t == r[1]
  <2> t \in Transfers
    BY ProcFacts
  <2> SUFFICES ASSUME runStatus'[r] \in Told, job'[t] # "absent"
               PROVE  runStatus'[r] = Shown(job'[t])
    BY DEF RunOK
  <2>1. CASE job'[t] \in Terminal /\ runStatus'[r] = Shown(job'[t])
    BY <2>1
  <2>2. CASE runStatus'[r] = runStatus[r]
    <3>1. job[t] # "absent"
      <4> SUFFICES ASSUME job[t] = "absent" PROVE FALSE
        OBVIOUS
      <4>1. pc[Creator(t)] \in Early
        BY DEF Forward, JobForward, Active
      <4>2. ProcessOK(Creator(t)) /\ IsCreator(Creator(t)) /\ Creator(t)[1] = t
        BY CreatorFacts DEF RunsInv
      <4>3. runStatus[r] \notin Told
        BY <4>1, <4>2 DEF ProcessOK, AcceptedOK, Early
      <4> QED
        BY <2>2, <4>3
    <3>2. runStatus[r] = Shown(job[t])
      BY <2>2, <3>1 DEF RunsInv, RunOK
    <3>3. job[t] \notin Active
      BY <2>2, <3>2 DEF Shown, Active, Told, Task!Ended
    <3> QED
      BY <2>2, <3>1, <3>2, <3>3 DEF Forward, JobForward
  <2> QED
    BY <2>1, <2>2 DEF Forward, RunsForward
<1> QED
  BY <1>1, <1>2, <1>3 DEF RunsInv

-----------------------------------------------------------------------------
(* The pieces that steps are made of *)

\* What a group of variables that a step leaves alone keeps.
LEMMA RowsStay ==
  ASSUME RowTypes, UNCHANGED rowVars
  PROVE  RowTypes' /\ UNCHANGED <<kind, job, runOf, file>> /\ JobForward
BY DEF RowTypes, rowVars, JobForward

\* The same for the jobs of the queue.
LEMMA QueueStays ==
  ASSUME QueueTypes, UNCHANGED queueVars
  PROVE  QueueTypes' /\ UNCHANGED <<phase, tries>> /\ QueueForward
BY DEF QueueTypes, queueVars, QueueForward

\* The same for the runs.
LEMMA RunsStay ==
  ASSUME RunTypes, UNCHANGED runStatus
  PROVE  RunTypes' /\ RunsForward
BY DEF RunTypes, RunsForward

\* The same for the server.
LEMMA ServerStays ==
  ASSUME ServerTypes, UNCHANGED serverVars
  PROVE  ServerTypes'
BY DEF ServerTypes, serverVars

\* What is required of a process that goes to a point.
Lands(p, point) ==
  /\ job'[p[1]] = "absent" => IsCreator(p) /\ point = "gone"
  /\ IsCreator(p) /\ point = "enqueue" => job'[p[1]] \notin {"absent", "staging"}
  /\ IsAttempt(p) => phase'[p[1]] # "absent"
  /\ IsAttempt(p) /\ point \in {"open", "transfer", "complete"} =>
       job'[p[1]] \in {"running"} \cup Terminal

\* Goto moves one process, whose locals go out of scope.
LEMMA GotoTypes ==
  ASSUME ProcTypes, NEW p \in Procs, NEW point \in AllPoints, Goto(p, point)
  PROVE  /\ ProcTypes' /\ Only({p})
         /\ pc'[p] = point /\ next'[p] = "idle" /\ seen'[p] = "absent" /\ seenRun'[p] = NoRun
         /\ stopped' = [stopped EXCEPT ![p] = stopped[p] /\ point # "gone"]
<1>1. "idle" \in AllPoints
  BY DEF AllPoints, CreatorPoints
<1>2. /\ pc' \in [Procs -> AllPoints] /\ next' \in [Procs -> AllPoints]
      /\ seen' \in [Procs -> {"absent"} \cup Active \cup Terminal]
      /\ seenRun' \in [Procs -> Procs \cup {NoRun}]
  BY <1>1 DEF ProcTypes, Goto
<1>3. stopped' \in [Procs -> BOOLEAN]
  BY DEF ProcTypes, Goto
<1>4. Only({p})
  BY DEF ProcTypes, Goto, Only
<1>5. pc'[p] = point /\ next'[p] = "idle" /\ seen'[p] = "absent" /\ seenRun'[p] = NoRun
  BY DEF ProcTypes, Goto
<1> QED
  BY <1>2, <1>3, <1>4, <1>5 DEF ProcTypes, Goto

\* A process that goes to a point which suits it is right there.
LEMMA GotoOK ==
  ASSUME ProcTypes, NEW p \in Procs, NEW point \in PointsOf(p) \ (SyncPoints \cup Early),
         Goto(p, point), Lands(p, point)
  PROVE  ProcTypes' /\ Only({p}) /\ ProcessOK(p)'
<1>1. point \in AllPoints
  BY DEF PointsOf, AllPoints
<1>2. /\ ProcTypes' /\ Only({p})
      /\ pc'[p] = point /\ next'[p] = "idle" /\ seen'[p] = "absent" /\ seenRun'[p] = NoRun
  BY <1>1, GotoTypes
<1>3. RoleOK(p)' /\ CopyOK(p)'
  BY <1>2 DEF RoleOK, CopyOK, Terminal, PointsOf, IsCreator, IsAttempt, SyncPoints
<1>4. AcceptedOK(p)'
  BY <1>2 DEF AcceptedOK, Lands, IsCreator, IsAttempt, Early
<1>5. At(p)' = point
  BY <1>2 DEF At
<1>6. QueuedOK(p)'
  BY <1>2, <1>5 DEF QueuedOK, Lands, IsCreator, IsAttempt
<1> QED
  BY <1>2, <1>3, <1>4, <1>6 DEF ProcessOK

\* A process that starts syncTaskRun is right there if its copies are.
LEMMA SyncOK ==
  ASSUME ProcTypes, NEW p \in Procs, NEW after \in After(p),
         Sync(p, after), Lands(p, after), job'[p[1]] # "absent", CopyOK(p),
         job[p[1]] \in Terminal => job'[p[1]] = job[p[1]]
  PROVE  ProcTypes' /\ Only({p}) /\ ProcessOK(p)'
<1>1. after \in AllPoints /\ "sync" \in AllPoints /\ "sync" \in SyncPoints
  BY DEF After, AllPoints, CreatorPoints, AttemptPoints, CancellerPoints, SyncPoints
<1>2. /\ pc'[p] = "sync" /\ next'[p] = after /\ seen'[p] = seen[p] /\ seenRun'[p] = seenRun[p]
      /\ ProcTypes' /\ Only({p})
  BY <1>1 DEF ProcTypes, Sync, Only
<1>3. RoleOK(p)'
  <2>1. "sync" \in PointsOf(p)
    BY DEF PointsOf, CreatorPoints, AttemptPoints, CancellerPoints, SyncPoints
  <2> QED
    BY <1>2, <2>1 DEF RoleOK, PointsOf, After, IsCreator, IsAttempt
<1>4. CopyOK(p)'
  BY <1>2 DEF CopyOK
<1>5. AcceptedOK(p)'
  BY <1>2 DEF AcceptedOK
<1>6. At(p)' = after
  BY <1>1, <1>2 DEF At
<1>7. QueuedOK(p)'
  BY <1>2, <1>6 DEF QueuedOK, Lands, IsCreator, IsAttempt
<1> QED
  BY <1>2, <1>3, <1>4, <1>5, <1>7 DEF ProcessOK

\* A process at work has a row, and an attempt a job.
LEMMA WorkFacts ==
  ASSUME RunsInv, NEW p \in Procs, pc[p] \notin {"idle", "opened", "gone"}
  PROVE  /\ p[1] \in Transfers
         /\ job[p[1]] \in Active \cup Terminal
         /\ IsAttempt(p) => phase[p[1]] # "absent"
         /\ RoleOK(p) /\ CopyOK(p) /\ QueuedOK(p)
<1>1. p[1] \in Transfers
  BY ProcFacts
<1>2. ProcessOK(p)
  BY DEF RunsInv
<1>3. job[p[1]] # "absent"
  BY <1>2 DEF ProcessOK, AcceptedOK
<1>4. job[p[1]] \in {"absent"} \cup Active \cup Terminal
  BY <1>1 DEF RunsInv, TypeInv, RowTypes
<1> QED
  BY <1>1, <1>2, <1>3, <1>4 DEF ProcessOK, QueuedOK

\* Who may be at a point.
LEMMA RolePoints ==
  ASSUME NEW p \in Procs, RoleOK(p)
  PROVE  /\ pc[p] \in {"load", "begin", "open", "transfer", "complete", "failctx", "return",
                        "broken"} => IsAttempt(p) /\ ~ IsCreator(p)
         /\ pc[p] \in {"opened", "staging", "enqueue"} => IsCreator(p) /\ ~ IsAttempt(p)
         /\ pc[p] \in {"queue", "row"} => ~ IsCreator(p) /\ ~ IsAttempt(p)
         /\ pc[p] = "fail" => IsCreator(p) \/ IsAttempt(p)
<1>1. IsCreator(p) => ~ IsAttempt(p)
  BY ProcFacts
<1> QED
  BY <1>1 DEF RoleOK, PointsOf, CreatorPoints, AttemptPoints, CancellerPoints, SyncPoints

\* A process at work may go to any point that asks nothing of the row.
LEMMA WorkLands ==
  ASSUME RunsInv, NEW p \in Procs, pc[p] \notin {"idle", "opened", "gone"}, NEW point,
         JobForward, QueueForward,
         IsCreator(p) /\ point = "enqueue" => job'[p[1]] # "staging",
         IsAttempt(p) /\ point \in {"open", "transfer", "complete"} =>
           job'[p[1]] \in {"running"} \cup Terminal
  PROVE  /\ Lands(p, point) /\ job'[p[1]] # "absent"
         /\ job[p[1]] \in Terminal => job'[p[1]] = job[p[1]]
<1>1. /\ p[1] \in Transfers /\ job[p[1]] \in Active \cup Terminal
      /\ IsAttempt(p) => phase[p[1]] # "absent"
  BY WorkFacts
<1>2. job'[p[1]] # "absent" /\ (job[p[1]] \in Terminal => job'[p[1]] = job[p[1]])
  BY <1>1 DEF JobForward, Active, Terminal
<1> QED
  BY <1>1, <1>2 DEF Lands, QueueForward

\* After a synchronization.
LEMMA NextLands ==
  ASSUME RunsInv, NEW p \in Procs, pc[p] \in SyncPoints, JobForward, QueueForward
  PROVE  next[p] \in PointsOf(p) \ (SyncPoints \cup Early) /\ Lands(p, next[p])
<1>1. pc[p] \notin {"idle", "opened", "gone"}
  BY DEF SyncPoints
<1>2. /\ p[1] \in Transfers /\ job[p[1]] \in Active \cup Terminal
      /\ RoleOK(p) /\ QueuedOK(p)
  BY <1>1, WorkFacts
<1>3. next[p] \in After(p) /\ At(p) = next[p]
  BY <1>2 DEF RoleOK, At
<1>4. next[p] \in PointsOf(p) \ (SyncPoints \cup Early)
  BY <1>3 DEF After, PointsOf, SyncPoints, Early, CreatorPoints, AttemptPoints, CancellerPoints
<1>5. IsCreator(p) /\ next[p] = "enqueue" => job'[p[1]] # "staging"
  BY <1>2, <1>3 DEF QueuedOK, JobForward, Active, Terminal
<1>6. IsAttempt(p) /\ next[p] \in {"open", "transfer", "complete"} =>
        job'[p[1]] \in {"running"} \cup Terminal
  BY <1>2, <1>3 DEF QueuedOK, JobForward, Active, Terminal
<1> QED
  BY <1>1, <1>4, <1>5, <1>6, WorkLands

\* A step of one process.
LEMMA MoverKeeps ==
  ASSUME RunsInv, NEW p \in Procs, ProcTypes', Only({p}), ProcessOK(p)',
         RowTypes', JobForward, \A t \in Transfers : runOf'[t] # NoRun => runOf'[t][1] = t,
         QueueTypes', QueueForward, RunTypes', RunsForward, ServerTypes'
  PROVE  RunsInv'
<1>1. TypeInv' /\ Forward
  BY DEF TypeInv, Forward
<1> QED
  BY <1>1, ForwardKeeps

\* A step of one process that writes nothing but, maybe, a file.
LEMMA GotoKeeps ==
  ASSUME RunsInv, NEW p \in Procs, pc[p] \notin {"idle", "opened", "gone"},
         NEW point \in PointsOf(p) \ (SyncPoints \cup Early), Goto(p, point),
         IsCreator(p) /\ point = "enqueue" => job[p[1]] # "staging",
         IsAttempt(p) /\ point \in {"open", "transfer", "complete"} =>
           job[p[1]] \in {"running"} \cup Terminal,
         file' \in [Transfers -> {"none", "partial", "whole"}],
         UNCHANGED <<kind, job, runOf, queueVars, runStatus, serverVars>>
  PROVE  RunsInv'
<1>1. RowTypes' /\ JobForward /\ \A t \in Transfers : runOf'[t] # NoRun => runOf'[t][1] = t
  BY DEF RunsInv, TypeInv, RowTypes, JobForward, TransferOK
<1>2. QueueTypes' /\ QueueForward
  BY QueueStays DEF RunsInv, TypeInv
<1>3. RunTypes' /\ RunsForward /\ ServerTypes'
  BY RunsStay, ServerStays DEF RunsInv, TypeInv
<1>4. Lands(p, point)
  BY <1>1, <1>2, WorkLands
<1>5. ProcTypes' /\ Only({p}) /\ ProcessOK(p)'
  BY <1>4, GotoOK DEF RunsInv, TypeInv
<1> QED
  BY <1>1, <1>2, <1>3, <1>5, MoverKeeps

\* A process that starts syncTaskRun keeps the invariant.
LEMMA SyncKeeps ==
  ASSUME RunsInv, NEW p \in Procs, pc[p] \notin {"idle", "opened", "gone"},
         NEW after \in After(p), Sync(p, after), RowTypes', JobForward, UNCHANGED runOf,
         IsCreator(p) /\ after = "enqueue" => job'[p[1]] # "staging",
         IsAttempt(p) /\ after \in {"open", "transfer", "complete"} =>
           job'[p[1]] \in {"running"} \cup Terminal,
         UNCHANGED <<queueVars, runStatus, serverVars>>
  PROVE  RunsInv'
<1>1. \A t \in Transfers : runOf'[t] # NoRun => runOf'[t][1] = t
  BY DEF RunsInv, TransferOK
<1>2. QueueTypes' /\ QueueForward
  BY QueueStays DEF RunsInv, TypeInv
<1>3. RunTypes' /\ RunsForward /\ ServerTypes'
  BY RunsStay, ServerStays DEF RunsInv, TypeInv
<1>4. /\ Lands(p, after) /\ job'[p[1]] # "absent"
      /\ job[p[1]] \in Terminal => job'[p[1]] = job[p[1]]
  BY <1>2, WorkLands
<1>5. CopyOK(p)
  BY WorkFacts
<1>6. ProcTypes' /\ Only({p}) /\ ProcessOK(p)'
  BY <1>4, <1>5, SyncOK DEF RunsInv, TypeInv
<1> QED
  BY <1>1, <1>2, <1>3, <1>6, MoverKeeps

\* SetJob, from a set of active statuses to a later one.
LEMMA SetJobForward ==
  ASSUME RunsInv, NEW t \in Transfers, NEW from \in SUBSET Active,
         NEW to \in {"queued", "running"} \cup Terminal, SetJob(t, from, to),
         "running" \in from => to \in {"running"} \cup Terminal
  PROVE  RowTypes' /\ JobForward /\ UNCHANGED runOf /\ job'[t] = to
<1>1. RowTypes
  BY DEF RunsInv, TypeInv
<1>2. RowTypes' /\ UNCHANGED runOf /\ job'[t] = to
  BY <1>1 DEF RowTypes, SetJob, Active, Terminal
<1>3. JobForward
  BY <1>1 DEF RowTypes, SetJob, JobForward
<1> QED
  BY <1>2, <1>3

-----------------------------------------------------------------------------
(* syncTaskRun *)

\* What a run shows for a row that ended.
LEMMA ShownFacts ==
  /\ Shown("completed") = "succeeded" /\ Shown("failed") = "failed"
  /\ Shown("cancelled") = "canceled"
  /\ \A status \in {"absent"} \cup Active : Shown(status) = "none"
BY DEF Shown, Active

\* syncTaskRun reads the row.
LEMMA ReadRowKeeps ==
  ASSUME RunsInv, NEW p \in Procs, ReadRow(p)
  PROVE  RunsInv'
<1> DEFINE t == p[1]
<1>1. /\ pc[p] = "sync" /\ pc[p] \in SyncPoints /\ pc[p] \notin {"idle", "opened", "gone"}
      /\ UNCHANGED <<rowVars, queueVars, runStatus, serverVars>>
  BY DEF ReadRow, SyncPoints
<1>2. /\ t \in Transfers /\ job[t] \in Active \cup Terminal /\ RoleOK(p) /\ QueuedOK(p)
      /\ IsAttempt(p) => phase[t] # "absent"
  BY <1>1, WorkFacts
<1>3. /\ RowTypes' /\ JobForward /\ UNCHANGED <<kind, job, runOf, file>>
      /\ QueueTypes' /\ QueueForward /\ UNCHANGED <<phase, tries>>
      /\ RunTypes' /\ RunsForward /\ ServerTypes'
  BY <1>1, RowsStay, QueueStays, RunsStay, ServerStays DEF RunsInv, TypeInv
<1>4. \A x \in Transfers : runOf'[x] # NoRun => runOf'[x][1] = x
  BY <1>3 DEF RunsInv, TransferOK
<1>5. CASE /\ pc' = [pc EXCEPT ![p] = IF runOf[t] = NoRun THEN "create" ELSE "apply"]
           /\ seen' = [seen EXCEPT ![p] = job[t]]
           /\ seenRun' = [seenRun EXCEPT ![p] = runOf[t]]
           /\ UNCHANGED <<next, stopped>>
  <2>1. /\ pc'[p] = (IF runOf[t] = NoRun THEN "create" ELSE "apply")
        /\ next'[p] = next[p] /\ seen'[p] = job[t] /\ seenRun'[p] = runOf[t]
    BY <1>5 DEF RunsInv, TypeInv, ProcTypes
  <2>2. "create" \in AllPoints /\ "apply" \in AllPoints
    BY DEF AllPoints, CreatorPoints, SyncPoints
  <2>3. pc' \in [Procs -> AllPoints]
    BY <1>5, <2>2 DEF RunsInv, TypeInv, ProcTypes
  <2>4. seen' \in [Procs -> {"absent"} \cup Active \cup Terminal]
    BY <1>2, <1>5 DEF RunsInv, TypeInv, ProcTypes
  <2>5. seenRun' \in [Procs -> Procs \cup {NoRun}]
    BY <1>2, <1>5 DEF RunsInv, TypeInv, ProcTypes, RowTypes
  <2>6. ProcTypes' /\ Only({p})
    BY <1>5, <2>3, <2>4, <2>5 DEF RunsInv, TypeInv, ProcTypes, Only
  <2>7. RoleOK(p)'
    <3>1. next[p] \in After(p)
      BY <1>1, <1>2 DEF RoleOK
    <3>2. pc'[p] \in PointsOf(p)
      BY <2>1 DEF PointsOf, CreatorPoints, AttemptPoints, CancellerPoints, SyncPoints
    <3> QED
      BY <2>1, <3>1, <3>2 DEF RoleOK, PointsOf, After, IsCreator, IsAttempt
  <2>8. CopyOK(p)'
    BY <1>2, <1>3, <2>1 DEF CopyOK, RunsInv, TransferOK
  <2>9. AcceptedOK(p)'
    BY <1>2, <1>3, <2>1 DEF AcceptedOK, Active, Terminal
  <2>10. At(p) = next[p] /\ At(p)' = next[p]
    BY <1>1, <2>1 DEF At, SyncPoints
  <2>11. QueuedOK(p)'
    BY <1>2, <1>3, <2>1, <2>10 DEF QueuedOK, IsCreator, IsAttempt
  <2> QED
    BY <1>3, <1>4, <2>6, <2>7, <2>8, <2>9, <2>11, MoverKeeps DEF ProcessOK
<1>6. CASE Goto(p, next[p])
  <2>1. next[p] \in PointsOf(p) \ (SyncPoints \cup Early) /\ Lands(p, next[p])
    BY <1>1, <1>3, NextLands
  <2>2. ProcTypes' /\ Only({p}) /\ ProcessOK(p)'
    BY <1>6, <2>1, GotoOK DEF RunsInv, TypeInv
  <2> QED
    BY <1>3, <1>4, <2>2, MoverKeeps
<1> QED
  BY <1>5, <1>6 DEF ReadRow

\* A synchronization that ends without a write.
LEMMA SyncOverKeeps ==
  ASSUME RunsInv, NEW p \in Procs, pc[p] \in SyncPoints, Goto(p, next[p]),
         RowTypes', UNCHANGED <<kind, job, file>>,
         \A x \in Transfers : runOf'[x] # NoRun => runOf'[x][1] = x,
         UNCHANGED <<queueVars, serverVars>>, RunTypes', RunsForward
  PROVE  RunsInv'
<1>1. JobForward
  BY DEF JobForward
<1>2. QueueTypes' /\ QueueForward /\ ServerTypes'
  BY QueueStays, ServerStays DEF RunsInv, TypeInv
<1>3. next[p] \in PointsOf(p) \ (SyncPoints \cup Early) /\ Lands(p, next[p])
  BY <1>1, <1>2, NextLands
<1>4. ProcTypes' /\ Only({p}) /\ ProcessOK(p)'
  BY <1>3, GotoOK DEF RunsInv, TypeInv
<1> QED
  BY <1>1, <1>2, <1>4, MoverKeeps

\* syncTaskRun gives up.
LEMMA SyncFailsKeeps ==
  ASSUME RunsInv, NEW p \in Procs, ReadRowFails(p) \/ CreateRunFails(p)
  PROVE  RunsInv'
<1>1. /\ pc[p] \in SyncPoints /\ Goto(p, next[p])
      /\ UNCHANGED <<rowVars, queueVars, runStatus, serverVars>>
  BY DEF ReadRowFails, CreateRunFails, SyncPoints
<1>2. RowTypes' /\ UNCHANGED <<kind, job, runOf, file>> /\ RunTypes' /\ RunsForward
  BY <1>1, RowsStay, RunsStay DEF RunsInv, TypeInv
<1>3. \A x \in Transfers : runOf'[x] # NoRun => runOf'[x][1] = x
  BY <1>2 DEF RunsInv, TransferOK
<1> QED
  BY <1>1, <1>2, <1>3, SyncOverKeeps

\* A process that stays in its synchronization, with other copies.
LEMMA InSyncKeeps ==
  ASSUME RunsInv, NEW p \in Procs, pc[p] \in SyncPoints, NEW point \in SyncPoints,
         pc' = [pc EXCEPT ![p] = point], UNCHANGED <<next, seen, stopped>>,
         seenRun' \in [Procs -> Procs \cup {NoRun}],
         \A q \in Procs : q # p => seenRun'[q] = seenRun[q],
         CopyOK(p)', RowTypes', UNCHANGED <<kind, job, file, queueVars, serverVars>>,
         \A x \in Transfers : runOf'[x] # NoRun => runOf'[x][1] = x,
         RunTypes', RunsForward
  PROVE  RunsInv'
<1>1. /\ p[1] \in Transfers /\ job[p[1]] \in Active \cup Terminal
      /\ RoleOK(p) /\ QueuedOK(p)
      /\ IsAttempt(p) => phase[p[1]] # "absent"
  BY WorkFacts DEF SyncPoints
<1>2. QueueTypes' /\ QueueForward /\ ServerTypes' /\ UNCHANGED <<phase, tries>>
  BY QueueStays, ServerStays DEF RunsInv, TypeInv
<1>3. JobForward
  BY DEF JobForward
<1>4. point \in AllPoints /\ point \in PointsOf(p)
  BY DEF AllPoints, PointsOf, CreatorPoints, AttemptPoints, CancellerPoints
<1>5. pc'[p] = point /\ next'[p] = next[p]
  BY DEF RunsInv, TypeInv, ProcTypes
<1>6. ProcTypes' /\ Only({p})
  BY <1>4 DEF RunsInv, TypeInv, ProcTypes, Only
<1>7. RoleOK(p)'
  BY <1>1, <1>4, <1>5 DEF RoleOK, PointsOf, After, IsCreator, IsAttempt
<1>8. AcceptedOK(p)'
  BY <1>1, <1>5 DEF AcceptedOK, SyncPoints, Active, Terminal
<1>9. At(p) = next[p] /\ At(p)' = next[p]
  BY <1>5 DEF At
<1>10. QueuedOK(p)'
  BY <1>1, <1>2, <1>9 DEF QueuedOK, IsCreator, IsAttempt
<1> QED
  BY <1>2, <1>3, <1>6, <1>7, <1>8, <1>10, MoverKeeps DEF ProcessOK

\* ensureTaskRun creates a run.
LEMMA CreateRunKeeps ==
  ASSUME RunsInv, NEW p \in Procs, CreateRun(p)
  PROVE  RunsInv'
<1>1. /\ pc[p] = "create" /\ pc[p] \in SyncPoints /\ "bind" \in SyncPoints
      /\ pc' = [pc EXCEPT ![p] = "bind"] /\ seenRun' = [seenRun EXCEPT ![p] = p]
      /\ runStatus' = [runStatus EXCEPT ![p] = "queued"]
      /\ UNCHANGED <<next, seen, stopped, rowVars, queueVars, serverVars>>
  BY DEF CreateRun, Task!Create, Task!Move, SyncPoints
<1>2. RowTypes' /\ UNCHANGED <<kind, job, runOf, file>>
  BY <1>1, RowsStay DEF RunsInv, TypeInv
<1>3. \A x \in Transfers : runOf'[x] # NoRun => runOf'[x][1] = x
  BY <1>2 DEF RunsInv, TransferOK
<1>4. RunTypes' /\ RunsForward
  BY <1>1 DEF RunsInv, TypeInv, RunTypes, RunsForward, Told, Task!Statuses, Task!Active, Task!Ended
<1>5. /\ seenRun' \in [Procs -> Procs \cup {NoRun}] /\ seenRun'[p] = p /\ pc'[p] = "bind"
      /\ \A q \in Procs : q # p => seenRun'[q] = seenRun[q]
  BY <1>1 DEF RunsInv, TypeInv, ProcTypes
<1>6. CopyOK(p)'
  <2>1. CopyOK(p)
    BY DEF RunsInv, ProcessOK
  <2> QED
    BY <1>1, <1>2, <1>5, <2>1 DEF CopyOK
<1> QED
  BY <1>1, <1>2, <1>3, <1>4, <1>5, <1>6, InSyncKeeps

\* The row gets the run.
LEMMA BindRunKeeps ==
  ASSUME RunsInv, NEW p \in Procs, BindRun(p)
  PROVE  RunsInv'
<1>1. /\ pc[p] = "bind" /\ pc[p] \in SyncPoints /\ "apply" \in SyncPoints
      /\ UNCHANGED <<kind, job, file, queueVars, runStatus, serverVars>>
      /\ runOf' = [runOf EXCEPT ![p[1]] = p] \/ UNCHANGED runOf
  BY DEF BindRun, SyncPoints
<1>2. p[1] \in Transfers /\ p # NoRun
  BY ProcFacts
<1>3. /\ RowTypes'
      /\ \A x \in Transfers : runOf'[x] # NoRun => runOf'[x][1] = x
  BY <1>1, <1>2 DEF RunsInv, TypeInv, RowTypes, TransferOK
<1>4. RunTypes' /\ RunsForward
  BY <1>1, RunsStay DEF RunsInv, TypeInv
<1>5. CASE next[p] = "enqueue" /\ Goto(p, "enqueue")
  BY <1>1, <1>3, <1>4, <1>5, SyncOverKeeps
<1>6. CASE pc' = [pc EXCEPT ![p] = "apply"] /\ UNCHANGED <<next, seen, seenRun, stopped>>
  <2>1. CopyOK(p)
    BY DEF RunsInv, ProcessOK
  <2>2. pc'[p] = "apply" /\ seenRun'[p] = seenRun[p] /\ seen'[p] = seen[p]
    BY <1>6 DEF RunsInv, TypeInv, ProcTypes
  <2>3. CopyOK(p)'
    BY <1>1, <1>2, <2>1, <2>2 DEF CopyOK
  <2>4. /\ seenRun' \in [Procs -> Procs \cup {NoRun}]
        /\ \A q \in Procs : q # p => seenRun'[q] = seenRun[q]
    BY <1>6 DEF RunsInv, TypeInv, ProcTypes
  <2> QED
    BY <1>1, <1>3, <1>4, <1>6, <2>3, <2>4, InSyncKeeps
<1> QED
  BY <1>5, <1>6 DEF BindRun

\* The run is told the status of the copy, old as it may be.
LEMMA ApplyKeeps ==
  ASSUME RunsInv, NEW p \in Procs, Apply(p)
  PROVE  RunsInv'
<1> DEFINE r == seenRun[p]
           status == seen[p]
<1>1. /\ pc[p] = "apply" /\ pc[p] \in SyncPoints /\ Goto(p, next[p])
      /\ UNCHANGED <<rowVars, queueVars, serverVars>> /\ CopyStatus(r, status)
  BY DEF Apply, SyncPoints
<1>2. RowTypes' /\ UNCHANGED <<kind, job, runOf, file>>
  BY <1>1, RowsStay DEF RunsInv, TypeInv
<1>3. \A x \in Transfers : runOf'[x] # NoRun => runOf'[x][1] = x
  BY <1>2 DEF RunsInv, TransferOK
<1>4. CopyOK(p)
  BY DEF RunsInv, ProcessOK
<1>5. r \in Procs /\ r[1] = p[1] /\ (status \in Terminal => job[p[1]] = status)
  BY <1>1, <1>4 DEF CopyOK, RunsInv, TypeInv, ProcTypes
<1>6. RunTypes' /\ RunsForward
  <2>1. CASE UNCHANGED runStatus
    BY <2>1, RunsStay DEF RunsInv, TypeInv
  <2>2. CASE runStatus' = [runStatus EXCEPT ![r] = "running"]
    BY <1>5, <2>2 DEF RunsInv, TypeInv, RunTypes, RunsForward, Told,
      Task!Statuses, Task!Active, Task!Ended
  <2>3. CASE status \in Terminal /\ runStatus' = [runStatus EXCEPT ![r] = Shown(status)]
    <3>1. Shown(status) \in Task!Statuses
      BY <2>3, ShownFacts DEF Terminal, Task!Statuses, Task!Ended
    <3>2. runStatus'[r] = Shown(status) /\ \A q \in Procs : q # r => runStatus'[q] = runStatus[q]
      BY <1>5, <2>3 DEF RunsInv, TypeInv, RunTypes
    <3>3. job'[r[1]] = status
      BY <1>2, <1>5, <2>3
    <3>4. RunTypes'
      BY <1>5, <2>3, <3>1 DEF RunsInv, TypeInv, RunTypes
    <3> QED
      BY <2>3, <3>2, <3>3, <3>4 DEF RunsForward
  <2> QED
    BY <1>1, <2>1, <2>2, <2>3 DEF CopyStatus, Task!Start, Task!Move
<1> QED
  BY <1>1, <1>2, <1>3, <1>6, SyncOverKeeps

\* Every step of syncTaskRun keeps the invariant.
LEMMA SyncStepKeeps ==
  ASSUME RunsInv, NEW p \in Procs, SyncStep(p)
  PROVE  RunsInv'
BY ReadRowKeeps, SyncFailsKeeps, CreateRunKeeps, BindRunKeeps, ApplyKeeps DEF SyncStep

\* failJob.
LEMMA FailKeeps ==
  ASSUME RunsInv, NEW p \in Procs, Fail(p)
  PROVE  RunsInv'
<1> DEFINE t == p[1]
           after == IF p = Creator(t) THEN "gone" ELSE "return"
<1>1. /\ pc[p] \in {"fail", "failctx"} /\ pc[p] \notin {"idle", "opened", "gone"}
      /\ UNCHANGED <<queueVars, runStatus, serverVars>>
  BY DEF Fail
<1>2. t \in Transfers /\ RoleOK(p)
  BY <1>1, WorkFacts
<1>3. IsCreator(p) \/ IsAttempt(p)
  BY <1>1, <1>2, RolePoints
<1>4. after \in After(p) /\ after \in PointsOf(p) \ (SyncPoints \cup Early)
  <2>1. IsCreator(p) <=> p = Creator(t)
    BY <1>2, ProcFacts, CreatorFacts
  <2> QED
    BY <1>3, <2>1, ProcFacts DEF After, PointsOf, CreatorPoints, AttemptPoints, SyncPoints, Early
<1>5. CASE SetJob(t, Active, "failed") /\ Sync(p, after)
  <2>1. RowTypes' /\ JobForward /\ UNCHANGED runOf /\ job'[t] = "failed"
    BY <1>2, <1>5, SetJobForward DEF Terminal
  <2> QED
    BY <1>1, <1>4, <1>5, <2>1, SyncKeeps DEF Terminal
<1>6. CASE UNCHANGED rowVars /\ Goto(p, after)
  <2>1. RowTypes' /\ UNCHANGED <<kind, job, runOf, file>>
    BY <1>6, RowsStay DEF RunsInv, TypeInv
  <2> QED
    BY <1>1, <1>4, <1>6, <2>1, GotoKeeps DEF RowTypes
<1> QED
  BY <1>5, <1>6 DEF Fail

-----------------------------------------------------------------------------
(* The request that creates a transfer *)

\* What is known of the creator before there is a row.
LEMMA EarlyFacts ==
  ASSUME RunsInv, NEW t \in Transfers, pc[Creator(t)] \in Early
  PROVE  /\ job[t] = "absent" /\ phase[t] = "absent"
         /\ \A r \in Procs : r[1] = t => runStatus[r] \notin Told
         /\ RoleOK(Creator(t)) /\ CopyOK(Creator(t))
<1>1. ProcessOK(Creator(t)) /\ IsCreator(Creator(t)) /\ Creator(t)[1] = t
  BY CreatorFacts DEF RunsInv
<1>2. TransferOK(t)
  BY DEF RunsInv
<1> QED
  BY <1>1, <1>2 DEF ProcessOK, AcceptedOK, TransferOK, Early

\* A step of the creator that ends in Goto.
LEMMA CreatorGotoKeeps ==
  ASSUME RunsInv, NEW t \in Transfers, NEW point \in CreatorPoints \ (SyncPoints \cup Early),
         Goto(Creator(t), point), RowTypes', JobForward,
         \A x \in Transfers : runOf'[x] # NoRun => runOf'[x][1] = x,
         job'[t] = "absent" => point = "gone",
         point = "enqueue" => job'[t] \notin {"absent", "staging"},
         QueueTypes', QueueForward, RunTypes', RunsForward, UNCHANGED serverVars
  PROVE  RunsInv'
<1> DEFINE p == Creator(t)
<1>1. p \in Procs /\ p[1] = t /\ IsCreator(p) /\ ~ IsAttempt(p)
  BY CreatorFacts
<1>2. point \in PointsOf(p) \ (SyncPoints \cup Early)
  BY <1>1 DEF PointsOf
<1>3. Lands(p, point)
  BY <1>1 DEF Lands
<1>4. ProcTypes' /\ Only({p}) /\ ProcessOK(p)'
  BY <1>1, <1>2, <1>3, GotoOK DEF RunsInv, TypeInv
<1>5. ServerTypes'
  BY ServerStays DEF RunsInv, TypeInv
<1> QED
  BY <1>1, <1>4, <1>5, MoverKeeps

\* A step of the creator to ensureTaskRun, for the row that it has queued.
LEMMA CreatorQueuesKeeps ==
  ASSUME RunsInv, NEW t \in Transfers,
         pc' = [pc EXCEPT ![Creator(t)] = "create"],
         next' = [next EXCEPT ![Creator(t)] = "enqueue"],
         seen' = [seen EXCEPT ![Creator(t)] = "queued"],
         seenRun' \in {seenRun, [seenRun EXCEPT ![Creator(t)] = NoRun]}, UNCHANGED stopped,
         RowTypes', JobForward, job'[t] = "queued", UNCHANGED runOf,
         UNCHANGED <<queueVars, runStatus, serverVars>>
  PROVE  RunsInv'
<1> DEFINE p == Creator(t)
<1>1. p \in Procs /\ p[1] = t /\ IsCreator(p) /\ ~ IsAttempt(p)
  BY CreatorFacts
<1>2. \A x \in Transfers : runOf'[x] # NoRun => runOf'[x][1] = x
  BY DEF RunsInv, TransferOK
<1>3. /\ QueueTypes' /\ QueueForward /\ RunTypes' /\ RunsForward /\ ServerTypes'
  BY QueueStays, RunsStay, ServerStays DEF RunsInv, TypeInv
<1>4. "create" \in AllPoints /\ "enqueue" \in AllPoints
  BY DEF AllPoints, CreatorPoints, SyncPoints
<1>5. ProcTypes'
  <2>1. pc' \in [Procs -> AllPoints] /\ next' \in [Procs -> AllPoints]
    BY <1>4 DEF RunsInv, TypeInv, ProcTypes
  <2>2. /\ seen' \in [Procs -> {"absent"} \cup Active \cup Terminal]
        /\ seenRun' \in [Procs -> Procs \cup {NoRun}] /\ stopped' \in [Procs -> BOOLEAN]
    BY DEF RunsInv, TypeInv, ProcTypes, Active
  <2> QED
    BY <2>1, <2>2 DEF ProcTypes
<1>6. Only({p})
  BY DEF RunsInv, TypeInv, ProcTypes, Only
<1>7. /\ pc'[p] = "create" /\ next'[p] = "enqueue" /\ seen'[p] = "queued"
      /\ seenRun'[p] = seenRun[p] \/ seenRun'[p] = NoRun
  BY <1>1 DEF RunsInv, TypeInv, ProcTypes
<1>8. CopyOK(p)
  BY <1>1 DEF RunsInv, ProcessOK
<1>9. RoleOK(p)' /\ CopyOK(p)'
  BY <1>1, <1>7, <1>8 DEF RoleOK, CopyOK, PointsOf, After, CreatorPoints, SyncPoints, Terminal,
    IsCreator, IsAttempt
<1>10. AcceptedOK(p)' /\ QueuedOK(p)'
  <2>1. At(p)' = "enqueue"
    BY <1>7 DEF At, SyncPoints
  <2> QED
    BY <1>1, <1>7, <2>1 DEF AcceptedOK, QueuedOK, IsCreator, IsAttempt
<1> QED
  BY <1>1, <1>2, <1>3, <1>5, <1>6, <1>9, <1>10, MoverKeeps DEF ProcessOK

\* The steps that create a row.
LEMMA AcceptKeeps ==
  ASSUME RunsInv, NEW t \in Transfers, Accept(t)
  PROVE  RunsInv'
<1> DEFINE p == Creator(t)
<1>1. p \in Procs /\ p[1] = t /\ IsCreator(p) /\ ~ IsAttempt(p)
  BY CreatorFacts
<1>2. pc[p] = "idle" /\ pc[p] \in Early
  BY DEF Accept, AcceptUpload, AcceptDownload, OpenScheduledRun, Early
<1>3. /\ job[t] = "absent" /\ phase[t] = "absent" /\ RoleOK(p) /\ CopyOK(p)
      /\ \A r \in Procs : r[1] = t => runStatus[r] \notin Told
  BY <1>2, EarlyFacts
<1>4. CASE "upload" \in Kinds /\ AcceptUpload(t)
  <2> USE <1>4 DEF AcceptUpload
  <2>1. RowTypes' /\ job'[t] = "staging" /\ (\A x \in Transfers : x # t => job'[x] = job[x])
    BY DEF RunsInv, TypeInv, RowTypes, Active
  <2>2. /\ QueueTypes' /\ QueueForward /\ RunTypes' /\ RunsForward
    BY QueueStays, RunsStay DEF RunsInv, TypeInv
  <2>3. "staging" \in CreatorPoints \ (SyncPoints \cup Early)
    BY DEF CreatorPoints, SyncPoints, Early
  <2>4. pc'[p] = "staging"
    BY <1>1 DEF RunsInv, TypeInv, ProcTypes, Goto
  <2>5. JobForward
    BY <1>2, <1>3, <2>1, <2>4 DEF JobForward, Early
  <2>6. \A x \in Transfers : runOf'[x] # NoRun => runOf'[x][1] = x
    BY DEF RunsInv, TransferOK
  <2> HIDE <1>4 DEF AcceptUpload
  <2> QED
    BY <1>4, <2>1, <2>2, <2>3, <2>5, <2>6, CreatorGotoKeeps DEF AcceptUpload
<1>5. CASE "download" \in Kinds /\ AcceptDownload(t)
  <2> USE <1>5 DEF AcceptDownload
  <2>1. RowTypes' /\ job'[t] = "queued" /\ (\A x \in Transfers : x # t => job'[x] = job[x])
    BY DEF RunsInv, TypeInv, RowTypes, Active
  <2>2. pc'[p] = "create"
    BY <1>1 DEF RunsInv, TypeInv, ProcTypes
  <2>3. JobForward
    BY <1>2, <1>3, <2>1, <2>2 DEF JobForward, Early
  <2> HIDE <1>5 DEF AcceptDownload
  <2> QED
    BY <1>5, <2>1, <2>3, CreatorQueuesKeeps DEF AcceptDownload
<1>6. CASE "scheduled" \in Kinds /\ OpenScheduledRun(t)
  <2> USE <1>6 DEF OpenScheduledRun
  <2>1. RowTypes' /\ JobForward /\ job'[t] = "absent"
    BY <1>3 DEF RunsInv, TypeInv, RowTypes, JobForward
  <2>2. QueueTypes' /\ QueueForward /\ ServerTypes'
    BY QueueStays, ServerStays DEF RunsInv, TypeInv
  <2>3. /\ RunTypes' /\ runStatus'[p] = "running"
        /\ \A r \in Procs : r # p => runStatus'[r] = runStatus[r]
    BY <1>1 DEF RunsInv, TypeInv, RunTypes, Task!Statuses, Task!Active
  <2>4. RunsForward
    BY <2>3 DEF RunsForward, Told, Task!Ended
  <2>5. \A x \in Transfers : runOf'[x] # NoRun => runOf'[x][1] = x
    BY DEF RunsInv, TransferOK
  <2>6. Goto(p, "opened") /\ "opened" \in AllPoints /\ "opened" \in CreatorPoints
    BY DEF AllPoints, CreatorPoints
  <2> HIDE <1>6 DEF OpenScheduledRun
  <2>7. /\ ProcTypes' /\ Only({p})
        /\ pc'[p] = "opened" /\ next'[p] = "idle" /\ seen'[p] = "absent" /\ seenRun'[p] = NoRun
    BY <1>1, <2>6, GotoTypes DEF RunsInv, TypeInv
  <2>8. RoleOK(p)' /\ CopyOK(p)'
    BY <1>1, <2>6, <2>7 DEF RoleOK, CopyOK, PointsOf, IsCreator, SyncPoints, Terminal
  <2>9. AcceptedOK(p)'
    <3>1. \A r \in Procs : r[1] = t => runStatus'[r] \notin Told
      BY <1>3, <2>3 DEF Told, Task!Ended
    <3> QED
      BY <1>1, <2>1, <2>7, <3>1 DEF AcceptedOK, IsCreator
  <2>10. At(p)' = "opened"
    BY <2>7 DEF At, SyncPoints
  <2>11. QueuedOK(p)'
    BY <1>1, <2>10 DEF QueuedOK, IsCreator, IsAttempt
  <2> QED
    BY <1>1, <2>1, <2>2, <2>3, <2>4, <2>5, <2>7, <2>8, <2>9, <2>11, MoverKeeps DEF ProcessOK
<1> QED
  BY <1>4, <1>5, <1>6 DEF Accept

\* The end of the staging of a body.
LEMMA StagingKeeps ==
  ASSUME RunsInv, NEW t \in Transfers, StagingProgress(t) \/ StagingOver(t)
  PROVE  RunsInv'
<1> DEFINE p == Creator(t)
<1>1. p \in Procs /\ p[1] = t /\ IsCreator(p) /\ ~ IsAttempt(p)
  BY CreatorFacts
<1>2. pc[p] = "staging" /\ pc[p] \notin {"idle", "opened", "gone"}
  BY DEF StagingProgress, StagingOver, StagingEnds, StagingFails
<1>3. /\ "gone" \in PointsOf(p) \ (SyncPoints \cup Early)
      /\ "fail" \in PointsOf(p) \ (SyncPoints \cup Early)
      /\ "staging" \in After(p)
  BY <1>1 DEF PointsOf, After, CreatorPoints, SyncPoints, Early
<1>4. CASE StagingProgress(t)
  <2>1. RowTypes' /\ JobForward /\ UNCHANGED <<kind, job, runOf, file>>
    BY <1>4, RowsStay DEF StagingProgress, RunsInv, TypeInv
  <2> QED
    BY <1>1, <1>2, <1>3, <1>4, <2>1, SyncKeeps DEF StagingProgress
<1>5. CASE StagingFails(t)
  <2>1. file' \in [Transfers -> {"none", "partial", "whole"}]
    BY <1>5 DEF StagingFails, SetFile, RunsInv, TypeInv, RowTypes
  <2> QED
    BY <1>1, <1>2, <1>3, <1>5, <2>1, GotoKeeps DEF StagingFails, SetFile
<1>6. CASE StagingEnds(t)
  <2>1. CASE /\ job[t] = "staging"
             /\ job' = [job EXCEPT ![t] = "queued"]
             /\ file' = [file EXCEPT ![t] = "whole"]
             /\ pc' = [pc EXCEPT ![p] = "create"]
             /\ next' = [next EXCEPT ![p] = "enqueue"]
             /\ seen' = [seen EXCEPT ![p] = "queued"]
             /\ seenRun' = [seenRun EXCEPT ![p] = NoRun]
             /\ UNCHANGED stopped
    <3>1. UNCHANGED <<kind, runOf, queueVars, runStatus, serverVars>>
      BY <1>6 DEF StagingEnds
    <3>2. RowTypes' /\ job'[t] = "queued"
      BY <2>1, <3>1 DEF RunsInv, TypeInv, RowTypes, Active
    <3>3. JobForward
      BY <2>1 DEF RunsInv, TypeInv, RowTypes, JobForward, Active
    <3> QED
      BY <2>1, <3>1, <3>2, <3>3, CreatorQueuesKeeps
  <2>2. CASE file' = [file EXCEPT ![t] = "none"] /\ Goto(p, "gone") /\ UNCHANGED job
    <3>1. file' \in [Transfers -> {"none", "partial", "whole"}]
      BY <2>2 DEF RunsInv, TypeInv, RowTypes
    <3>2. UNCHANGED <<kind, job, runOf, queueVars, runStatus, serverVars>>
      BY <1>6, <2>2 DEF StagingEnds
    <3> QED
      BY <1>1, <1>2, <1>3, <2>2, <3>1, <3>2, GotoKeeps
  <2> QED
    BY <1>6, <2>1, <2>2 DEF StagingEnds
<1> QED
  BY <1>4, <1>5, <1>6 DEF StagingOver

\* The other steps of the request that creates a transfer.
LEMMA CreatorStepKeeps ==
  ASSUME RunsInv, NEW t \in Transfers, CreatorStep(t)
  PROVE  RunsInv'
<1> DEFINE p == Creator(t)
<1>1. p \in Procs /\ p[1] = t /\ IsCreator(p) /\ ~ IsAttempt(p)
  BY CreatorFacts
<1>2. /\ "gone" \in CreatorPoints \ (SyncPoints \cup Early)
      /\ "enqueue" \in CreatorPoints \ (SyncPoints \cup Early)
      /\ "fail" \in CreatorPoints \ (SyncPoints \cup Early)
  BY DEF CreatorPoints, SyncPoints, Early
<1>3. CASE AcceptScheduled(t)
  <2> USE <1>3 DEF AcceptScheduled
  <2>1. job[t] = "absent" /\ pc[p] \in Early
    BY EarlyFacts DEF Early
  <2>2. /\ RowTypes' /\ job'[t] = "queued" /\ (\A x \in Transfers : x # t => job'[x] = job[x])
    BY <1>1 DEF RunsInv, TypeInv, RowTypes, Active
  <2>3. pc'[p] = "enqueue"
    BY <1>1 DEF RunsInv, TypeInv, ProcTypes, Goto
  <2>4. JobForward
    BY <2>1, <2>2, <2>3 DEF JobForward, Early
  <2>5. \A x \in Transfers : runOf'[x] # NoRun => runOf'[x][1] = x
    BY <1>1 DEF RunsInv, TypeInv, RowTypes, TransferOK
  <2>6. /\ QueueTypes' /\ QueueForward /\ RunTypes' /\ RunsForward
    BY QueueStays, RunsStay DEF RunsInv, TypeInv
  <2> HIDE <1>3 DEF AcceptScheduled
  <2> QED
    BY <1>2, <1>3, <2>2, <2>4, <2>5, <2>6, CreatorGotoKeeps DEF AcceptScheduled
<1>4. CASE RejectScheduled(t)
  <2> USE <1>4 DEF RejectScheduled
  <2>1. job[t] = "absent" /\ pc[p] \in Early
    BY EarlyFacts DEF Early
  <2>2. RowTypes' /\ JobForward /\ UNCHANGED <<kind, job, runOf, file>>
    BY RowsStay DEF RunsInv, TypeInv
  <2>3. \A x \in Transfers : runOf'[x] # NoRun => runOf'[x][1] = x
    BY <2>2 DEF RunsInv, TransferOK
  <2>4. QueueTypes' /\ QueueForward
    BY QueueStays DEF RunsInv, TypeInv
  <2>5. pc'[p] = "gone"
    BY <1>1 DEF RunsInv, TypeInv, ProcTypes, Goto
  <2>6. runStatus' = [runStatus EXCEPT ![p] = "failed"] \/ UNCHANGED runStatus
    BY DEF Task!Move
  <2>7. RunTypes' /\ \A r \in Procs : r # p => runStatus'[r] = runStatus[r]
    BY <2>6 DEF RunsInv, TypeInv, RunTypes, Task!Statuses, Task!Ended
  <2>8. RunsForward
    BY <1>1, <2>1, <2>2, <2>5, <2>7 DEF RunsForward, Early
  <2> HIDE <1>4 DEF RejectScheduled
  <2> QED
    BY <1>2, <1>4, <2>2, <2>3, <2>4, <2>7, <2>8, CreatorGotoKeeps DEF RejectScheduled
<1>5. CASE Enqueue(t)
  <2> USE <1>5 DEF Enqueue
  <2>1. job[t] \notin {"absent", "staging"}
    <3>1. At(p) = "enqueue"
      BY DEF At, SyncPoints
    <3>2. QueuedOK(p)
      BY <1>1, WorkFacts
    <3> QED
      BY <1>1, <3>1, <3>2 DEF QueuedOK
  <2>2. RowTypes' /\ JobForward /\ UNCHANGED <<kind, job, runOf, file>>
    BY RowsStay DEF RunsInv, TypeInv
  <2>3. \A x \in Transfers : runOf'[x] # NoRun => runOf'[x][1] = x
    BY <2>2 DEF RunsInv, TransferOK
  <2>4. QueueTypes' /\ QueueForward
    BY <2>1 DEF Queue!Submit, Queue!Move, RunsInv, TypeInv, QueueTypes, QueueForward,
      Queue!Phases, Queue!Open
  <2>5. RunTypes' /\ RunsForward
    BY RunsStay DEF RunsInv, TypeInv
  <2> HIDE <1>5 DEF Enqueue
  <2> QED
    BY <1>2, <1>5, <2>1, <2>2, <2>3, <2>4, <2>5, CreatorGotoKeeps DEF Enqueue
<1>6. CASE EnqueueFails(t)
  <2>1. /\ file' \in [Transfers -> {"none", "partial", "whole"}]
        /\ UNCHANGED <<kind, job, runOf, queueVars, runStatus, serverVars>>
    BY <1>6, RowsStay DEF EnqueueFails, RunsInv, TypeInv, RowTypes
  <2>2. "fail" \in PointsOf(p) \ (SyncPoints \cup Early)
    BY <1>1, <1>2 DEF PointsOf
  <2> QED
    BY <1>1, <1>6, <2>1, <2>2, GotoKeeps DEF EnqueueFails
<1> QED
  BY <1>3, <1>4, <1>5, <1>6, StagingKeeps DEF CreatorStep

-----------------------------------------------------------------------------
(* The attempts of the queue *)

\* An attempt that is at work may go to these points.
LEMMA AttemptPointFacts ==
  ASSUME NEW p \in Procs, IsAttempt(p)
  PROVE  /\ {"load", "begin", "open", "transfer", "complete", "failctx", "fail", "return",
             "broken", "gone"} \subseteq PointsOf(p) \ (SyncPoints \cup Early)
         /\ {"return", "open", "transfer"} \subseteq After(p)
<1>1. ~ IsCreator(p)
  BY ProcFacts
<1> QED
  BY <1>1 DEF PointsOf, After, AttemptPoints, SyncPoints, Early

\* A step of an attempt that writes nothing but, maybe, a file.
LEMMA AttemptGotoKeeps ==
  ASSUME RunsInv, NEW p \in Procs, IsAttempt(p), pc[p] \notin {"idle", "opened", "gone"},
         NEW point \in {"begin", "open", "transfer", "complete", "failctx", "fail", "return",
                        "broken", "gone"},
         Goto(p, point),
         point \in {"open", "transfer", "complete"} => job[p[1]] \in {"running"} \cup Terminal,
         \/ UNCHANGED rowVars
         \/ \E content \in {"none", "partial", "whole"} : SetFile(p[1], content),
         UNCHANGED <<queueVars, runStatus, serverVars>>
  PROVE  RunsInv'
<1>1. UNCHANGED <<kind, job, runOf>> /\ file' \in [Transfers -> {"none", "partial", "whole"}]
  <2>1. RowTypes
    BY DEF RunsInv, TypeInv
  <2>2. CASE UNCHANGED rowVars
    BY <2>1, <2>2 DEF RowTypes, rowVars
  <2>3. CASE \E content \in {"none", "partial", "whole"} : SetFile(p[1], content)
    BY <2>1, <2>3 DEF RowTypes, SetFile
  <2> QED
    BY <2>2, <2>3
<1>2. point \in PointsOf(p) \ (SyncPoints \cup Early) /\ ~ IsCreator(p)
  BY AttemptPointFacts, ProcFacts
<1> QED
  BY <1>1, <1>2, GotoKeeps

\* The steps of an attempt, but for its answer to the queue.
LEMMA AttemptStepKeeps ==
  ASSUME RunsInv, NEW p \in Procs,
         \/ Load(p) \/ Begin(p) \/ Open(p) \/ OpenFails(p) \/ Progress(p) \/ Complete(p)
         \/ TransferOver(p)
  PROVE  RunsInv'
<1> DEFINE t == p[1]
<1>1. /\ pc[p] \in {"load", "begin", "open", "transfer", "complete"}
      /\ pc[p] \notin {"idle", "opened", "gone"}
      /\ UNCHANGED <<queueVars, runStatus, serverVars>>
  BY DEF Load, Begin, Open, OpenFails, Progress, Complete, TransferOver, TransferEnds,
    TransferFails, TransferStopped
<1>2. t \in Transfers /\ job[t] \in Active \cup Terminal /\ RoleOK(p) /\ QueuedOK(p)
  BY <1>1, WorkFacts
<1>3. IsAttempt(p) /\ ~ IsCreator(p)
  BY <1>1, <1>2, RolePoints
<1>4. pc[p] \in {"open", "transfer", "complete"} => job[t] \in {"running"} \cup Terminal
  <2>1. pc[p] \notin SyncPoints
    BY <1>1 DEF SyncPoints
  <2>2. At(p) = pc[p]
    BY <2>1 DEF At
  <2> QED
    BY <1>2, <1>3, <2>2 DEF QueuedOK
<1>5. CASE Load(p)
  BY <1>1, <1>3, <1>5, AttemptGotoKeeps DEF Load
<1>6. CASE Begin(p)
  <2>1. CASE SetJob(t, {"queued", "running"}, "running") /\ Sync(p, "open")
    <3>1. RowTypes' /\ JobForward /\ UNCHANGED runOf /\ job'[t] = "running"
      BY <1>2, <2>1, SetJobForward DEF Active
    <3>2. "open" \in After(p)
      BY <1>3, AttemptPointFacts
    <3> QED
      BY <1>1, <1>3, <2>1, <3>1, <3>2, SyncKeeps
  <2>2. CASE (Goto(p, "return") \/ Goto(p, "failctx")) /\ UNCHANGED rowVars
    BY <1>1, <1>3, <2>2, AttemptGotoKeeps
  <2> QED
    BY <1>6, <2>1, <2>2 DEF Begin
<1>7. CASE Open(p)
  BY <1>1, <1>3, <1>4, <1>7, AttemptGotoKeeps DEF Open
<1>8. CASE OpenFails(p)
  BY <1>1, <1>3, <1>8, AttemptGotoKeeps DEF OpenFails
<1>9. CASE Progress(p)
  <2>1. RowTypes' /\ JobForward /\ UNCHANGED <<kind, job, runOf, file>>
    BY <1>9, RowsStay DEF Progress, RunsInv, TypeInv
  <2>2. "transfer" \in After(p) /\ job'[t] \in {"running"} \cup Terminal
    BY <1>3, <1>4, <1>9, <2>1, AttemptPointFacts DEF Progress
  <2> QED
    BY <1>1, <1>3, <1>9, <2>1, <2>2, SyncKeeps DEF Progress
<1>10. CASE Complete(p)
  <2>1. CASE SetJob(t, {"running"}, "completed") /\ Sync(p, "return")
    <3>1. RowTypes' /\ JobForward /\ UNCHANGED runOf /\ job'[t] = "completed"
      BY <1>2, <2>1, SetJobForward DEF Active, Terminal
    <3>2. "return" \in After(p)
      BY <1>3, AttemptPointFacts
    <3> QED
      BY <1>1, <1>3, <2>1, <3>1, <3>2, SyncKeeps
  <2>2. CASE Goto(p, "return") /\ UNCHANGED rowVars
    BY <1>1, <1>3, <2>2, AttemptGotoKeeps
  <2> QED
    BY <1>10, <2>1, <2>2 DEF Complete
<1>11. CASE TransferOver(p)
  <2>1. \/ UNCHANGED rowVars
        \/ \E content \in {"none", "partial", "whole"} : SetFile(t, content)
    BY <1>11 DEF TransferOver, TransferEnds, TransferFails, TransferStopped
  <2>2. pc[p] = "transfer" /\ (Goto(p, "complete") \/ Goto(p, "fail") \/ Goto(p, "return"))
    BY <1>11 DEF TransferOver, TransferEnds, TransferFails, TransferStopped
  <2> QED
    BY <1>1, <1>3, <1>4, <2>1, <2>2, AttemptGotoKeeps
<1> QED
  BY <1>5, <1>6, <1>7, <1>8, <1>9, <1>10, <1>11

\* What the queue does to its job when a try ends.
LEMMA TryEnds ==
  ASSUME QueueTypes, NEW t \in Transfers, Queue!Succeed(t) \/ Release(t)
  PROVE  QueueTypes' /\ QueueForward
BY DEF QueueTypes, QueueForward, Release, Queue!Succeed, Queue!Retry, Queue!GiveUp, Queue!Move,
  Queue!Phases, Queue!Open, Queue!Ended

\* The answer of an attempt to the queue.
LEMMA ReturnKeeps ==
  ASSUME RunsInv, NEW p \in Procs, Return(p)
  PROVE  RunsInv'
<1>1. /\ pc[p] \in {"return", "broken"} /\ pc[p] \notin {"idle", "opened", "gone"}
      /\ Goto(p, "gone") /\ UNCHANGED <<rowVars, runStatus, serverVars>>
      /\ Queue!Succeed(p[1]) \/ Release(p[1]) \/ UNCHANGED queueVars
  BY DEF Return
<1>2. p[1] \in Transfers /\ RoleOK(p)
  BY <1>1, WorkFacts
<1>3. IsAttempt(p) /\ ~ IsCreator(p)
  BY <1>1, <1>2, RolePoints
<1>4. QueueTypes' /\ QueueForward
  BY <1>1, <1>2, TryEnds, QueueStays DEF RunsInv, TypeInv
<1>5. RowTypes' /\ JobForward /\ UNCHANGED <<kind, job, runOf, file>>
  BY <1>1, RowsStay DEF RunsInv, TypeInv
<1>6. \A x \in Transfers : runOf'[x] # NoRun => runOf'[x][1] = x
  BY <1>5 DEF RunsInv, TransferOK
<1>7. RunTypes' /\ RunsForward /\ ServerTypes'
  BY <1>1, RunsStay, ServerStays DEF RunsInv, TypeInv
<1>8. Lands(p, "gone") /\ "gone" \in PointsOf(p) \ (SyncPoints \cup Early)
  BY <1>1, <1>3, <1>4, <1>5, WorkLands, AttemptPointFacts
<1>9. ProcTypes' /\ Only({p}) /\ ProcessOK(p)'
  BY <1>1, <1>8, GotoOK DEF RunsInv, TypeInv
<1> QED
  BY <1>4, <1>5, <1>6, <1>7, <1>9, MoverKeeps

\* A worker takes a job.
LEMMA TakeKeeps ==
  ASSUME RunsInv, NEW t \in Transfers, Take(t)
  PROVE  RunsInv'
<1>1. /\ tries[t] < MaxAttempts /\ phase[t] = "waiting" /\ tries[t] \in 0 .. MaxAttempts
      /\ phase' = [phase EXCEPT ![t] = "trying"] /\ tries' = [tries EXCEPT ![t] = tries[t] + 1]
      /\ Goto(Attempt(t, tries[t] + 1), "load") /\ UNCHANGED <<rowVars, runStatus, serverVars>>
  BY DEF Take, Queue!Try, Queue!Move, RunsInv, TypeInv, QueueTypes
<1>2. tries[t] + 1 \in 1 .. MaxAttempts
  BY <1>1, BoundsAssumption
<1>3. PICK p \in Procs :
        Goto(p, "load") /\ p[1] = t /\ IsAttempt(p) /\ ~ IsCreator(p)
  BY <1>1, <1>2, AttemptFacts
<1>4. QueueTypes' /\ QueueForward /\ phase'[t] # "absent"
  BY <1>1, <1>2, BoundsAssumption DEF RunsInv, TypeInv, QueueTypes, QueueForward,
    Queue!Phases, Queue!Open
<1>5. RowTypes' /\ JobForward /\ UNCHANGED <<kind, job, runOf, file>>
  BY <1>1, RowsStay DEF RunsInv, TypeInv
<1>6. \A x \in Transfers : runOf'[x] # NoRun => runOf'[x][1] = x
  BY <1>5 DEF RunsInv, TransferOK
<1>7. RunTypes' /\ RunsForward /\ ServerTypes'
  BY <1>1, RunsStay, ServerStays DEF RunsInv, TypeInv
<1>8. job'[t] # "absent"
  BY <1>1, <1>5 DEF RunsInv, TransferOK
<1>9. Lands(p, "load") /\ "load" \in PointsOf(p) \ (SyncPoints \cup Early)
  BY <1>3, <1>4, <1>8, AttemptPointFacts DEF Lands
<1>10. ProcTypes' /\ Only({p}) /\ ProcessOK(p)'
  BY <1>3, <1>9, GotoOK DEF RunsInv, TypeInv
<1> QED
  BY <1>3, <1>4, <1>5, <1>6, <1>7, <1>10, MoverKeeps

\* A step that moves no process.
LEMMA NobodyMoves ==
  ASSUME RunsInv, UNCHANGED <<pc, next, seen, seenRun>>, stopped' \in [Procs -> BOOLEAN],
         RowTypes', JobForward, UNCHANGED runOf, QueueTypes', QueueForward,
         RunTypes', RunsForward, ServerTypes'
  PROVE  RunsInv'
<1>1. TypeInv' /\ Forward
  BY DEF RunsInv, TypeInv, ProcTypes, Forward
<1>2. Only({})
  BY DEF Only
<1>3. \A x \in Transfers : runOf'[x] # NoRun => runOf'[x][1] = x
  BY DEF RunsInv, TransferOK
<1> QED
  BY <1>1, <1>2, <1>3, ForwardKeeps

\* A lease expires.
LEMMA ExpireKeeps ==
  ASSUME RunsInv, NEW t \in Transfers, Expire(t)
  PROVE  RunsInv'
<1>1. /\ UNCHANGED <<rowVars, runStatus, procVars, serverVars>> /\ Release(t)
      /\ UNCHANGED <<pc, next, seen, seenRun, stopped>>
  BY DEF Expire, procVars
<1>2. QueueTypes' /\ QueueForward
  BY <1>1, TryEnds DEF RunsInv, TypeInv
<1>3. RowTypes' /\ JobForward /\ UNCHANGED <<kind, job, runOf, file>>
  BY <1>1, RowsStay DEF RunsInv, TypeInv
<1>4. RunTypes' /\ RunsForward /\ ServerTypes' /\ stopped' \in [Procs -> BOOLEAN]
  BY <1>1, RunsStay, ServerStays DEF RunsInv, TypeInv, ProcTypes
<1> QED
  BY <1>1, <1>2, <1>3, <1>4, NobodyMoves

\* The heartbeat tells an attempt to stop.
LEMMA HeartbeatKeeps ==
  ASSUME RunsInv, NEW p \in Procs, HeartbeatStops(p)
  PROVE  RunsInv'
<1>1. /\ UNCHANGED <<pc, next, seen, seenRun, rowVars, queueVars, runStatus, serverVars>>
      /\ stopped' = [stopped EXCEPT ![p] = TRUE]
  BY DEF HeartbeatStops
<1>2. RowTypes' /\ JobForward /\ UNCHANGED <<kind, job, runOf, file>>
  BY <1>1, RowsStay DEF RunsInv, TypeInv
<1>3. /\ QueueTypes' /\ QueueForward /\ RunTypes' /\ RunsForward /\ ServerTypes'
      /\ stopped' \in [Procs -> BOOLEAN]
  BY <1>1, QueueStays, RunsStay, ServerStays DEF RunsInv, TypeInv, ProcTypes
<1> QED
  BY <1>1, <1>2, <1>3, NobodyMoves

-----------------------------------------------------------------------------
(* CancelJob *)

\* The points of a request that cancels.
LEMMA CancellerPointFacts ==
  ASSUME NEW t \in Transfers
  PROVE  /\ {"queue", "row", "gone"} \subseteq PointsOf(Canceller(t)) \ (SyncPoints \cup Early)
         /\ "gone" \in After(Canceller(t))
BY CancellerFacts DEF PointsOf, After, CancellerPoints, SyncPoints, Early

\* A user cancels a transfer,
LEMMA AskCancelKeeps ==
  ASSUME RunsInv, NEW t \in Transfers, AskCancel(t)
  PROVE  RunsInv'
<1> DEFINE p == Canceller(t)
<1>1. /\ job[t] \in Active /\ Goto(p, "queue")
      /\ UNCHANGED <<rowVars, queueVars, runStatus, serverVars>>
  BY DEF AskCancel
<1>2. p \in Procs /\ p[1] = t /\ ~ IsAttempt(p) /\ ~ IsCreator(p)
  BY CancellerFacts
<1>3. RowTypes' /\ JobForward /\ UNCHANGED <<kind, job, runOf, file>>
  BY <1>1, RowsStay DEF RunsInv, TypeInv
<1>4. \A x \in Transfers : runOf'[x] # NoRun => runOf'[x][1] = x
  BY <1>3 DEF RunsInv, TransferOK
<1>5. /\ QueueTypes' /\ QueueForward /\ RunTypes' /\ RunsForward /\ ServerTypes'
  BY <1>1, QueueStays, RunsStay, ServerStays DEF RunsInv, TypeInv
<1>6. Lands(p, "queue") /\ "queue" \in PointsOf(p) \ (SyncPoints \cup Early)
  BY <1>1, <1>2, <1>3, CancellerPointFacts DEF Lands, Active
<1>7. ProcTypes' /\ Only({p}) /\ ProcessOK(p)'
  BY <1>1, <1>2, <1>6, GotoOK DEF RunsInv, TypeInv
<1> QED
  BY <1>2, <1>3, <1>4, <1>5, <1>7, MoverKeeps

\* then its job in the queue is cancelled,
LEMMA CancelQueueKeeps ==
  ASSUME RunsInv, NEW t \in Transfers, CancelQueue(t)
  PROVE  RunsInv'
<1> DEFINE p == Canceller(t)
<1>1. p \in Procs /\ p[1] = t /\ ~ IsAttempt(p) /\ ~ IsCreator(p)
  BY CancellerFacts
<1>2. /\ pc[p] = "queue" /\ pc[p] \notin {"idle", "opened", "gone"}
      /\ UNCHANGED <<rowVars, runStatus, serverVars>>
  BY DEF CancelQueue
<1>3. /\ {"row", "gone"} \subseteq PointsOf(p) \ (SyncPoints \cup Early)
  BY CancellerPointFacts
<1>4. RowTypes' /\ JobForward /\ UNCHANGED <<kind, job, runOf, file>>
  BY <1>2, RowsStay DEF RunsInv, TypeInv
<1>5. CASE (Goto(p, "row") \/ Goto(p, "gone")) /\ UNCHANGED queueVars
  <2>1. file' \in [Transfers -> {"none", "partial", "whole"}]
    BY <1>4 DEF RowTypes
  <2> QED
    BY <1>1, <1>2, <1>3, <1>4, <1>5, <2>1, GotoKeeps
<1>6. CASE /\ Queue!CancelAll({t})
           /\ pc' = [pc EXCEPT ![p] = "row"]
           /\ stopped' = [stopped EXCEPT ![Owner(t)] = @ \/ phase[t] = "trying"]
           /\ UNCHANGED <<next, seen, seenRun>>
  <2>1. /\ QueueTypes' /\ QueueForward
    BY <1>6 DEF Queue!CancelAll, RunsInv, TypeInv, QueueTypes, QueueForward, Queue!Phases,
      Queue!Open, Queue!Ended
  <2>2. stopped' \in [Procs -> BOOLEAN]
    BY <1>6 DEF RunsInv, TypeInv, ProcTypes
  <2>3. "row" \in AllPoints
    BY DEF AllPoints, CancellerPoints
  <2>4. ProcTypes' /\ Only({p}) /\ pc'[p] = "row"
    BY <1>1, <1>6, <2>2, <2>3 DEF RunsInv, TypeInv, ProcTypes, Only
  <2>5. RoleOK(p) /\ CopyOK(p) /\ job[t] \in Active \cup Terminal
    BY <1>1, <1>2, WorkFacts
  <2>6. ProcessOK(p)'
    <3>1. RoleOK(p)'
      BY <1>3, <2>4 DEF RoleOK, PointsOf, IsCreator, IsAttempt, SyncPoints
    <3>2. CopyOK(p)'
      BY <1>1, <1>4, <1>6, <2>4, <2>5 DEF CopyOK
    <3>3. AcceptedOK(p)' /\ QueuedOK(p)'
      BY <1>1, <1>4, <2>5 DEF AcceptedOK, QueuedOK, IsCreator, IsAttempt, Active, Terminal
    <3> QED
      BY <3>1, <3>2, <3>3 DEF ProcessOK
  <2>7. \A x \in Transfers : runOf'[x] # NoRun => runOf'[x][1] = x
    BY <1>4 DEF RunsInv, TransferOK
  <2>8. RunTypes' /\ RunsForward /\ ServerTypes'
    BY <1>2, RunsStay, ServerStays DEF RunsInv, TypeInv
  <2> QED
    BY <1>1, <1>4, <2>1, <2>4, <2>6, <2>7, <2>8, MoverKeeps
<1> QED
  BY <1>5, <1>6 DEF CancelQueue

\* and its row.
LEMMA CancelRowKeeps ==
  ASSUME RunsInv, NEW t \in Transfers, CancelRow(t)
  PROVE  RunsInv'
<1> DEFINE p == Canceller(t)
<1>1. p \in Procs /\ p[1] = t /\ ~ IsAttempt(p) /\ ~ IsCreator(p)
  BY CancellerFacts
<1>2. /\ pc[p] = "row" /\ pc[p] \notin {"idle", "opened", "gone"}
      /\ UNCHANGED <<queueVars, runStatus, serverVars>>
  BY DEF CancelRow
<1>3. "gone" \in PointsOf(p) \ (SyncPoints \cup Early) /\ "gone" \in After(p)
  BY CancellerPointFacts
<1>4. CASE SetJob(t, Active, "cancelled") /\ Sync(p, "gone")
  <2>1. RowTypes' /\ JobForward /\ UNCHANGED runOf
    BY <1>4, SetJobForward DEF Terminal
  <2> QED
    BY <1>1, <1>2, <1>3, <1>4, <2>1, SyncKeeps
<1>5. CASE Goto(p, "gone") /\ UNCHANGED rowVars
  <2>1. RowTypes' /\ UNCHANGED <<kind, job, runOf, file>>
    BY <1>5, RowsStay DEF RunsInv, TypeInv
  <2> QED
    BY <1>1, <1>2, <1>3, <1>5, <2>1, GotoKeeps DEF RowTypes
<1> QED
  BY <1>4, <1>5 DEF CancelRow

\* Every step of a process keeps RunsInv.
LEMMA ProcessStepKeeps ==
  ASSUME RunsInv, NEW p \in Procs, ProcessStep(p) \/ TransferOver(p)
  PROVE  RunsInv'
<1>1. p[1] \in Transfers
  BY ProcFacts
<1> QED
  BY <1>1, SyncStepKeeps, FailKeeps, AttemptStepKeeps, ReturnKeeps, HeartbeatKeeps,
     CreatorStepKeeps, CancelQueueKeeps, CancelRowKeeps DEF ProcessStep, AttemptStep

-----------------------------------------------------------------------------
(* The server *)

\* When the process ends, its contexts and copies are gone.
LEMMA DownKeeps ==
  ASSUME RunsInv, Down, UNCHANGED crashes \/ crashes' = crashes + 1
  PROVE  RunsInv'
<1>1. RowTypes' /\ JobForward /\ UNCHANGED <<kind, job, runOf, file>>
  BY RowsStay DEF Down, RunsInv, TypeInv
<1>2. /\ QueueTypes' /\ QueueForward /\ UNCHANGED <<phase, tries>>
      /\ RunTypes' /\ RunsForward /\ UNCHANGED runStatus
  BY QueueStays, RunsStay DEF Down, RunsInv, TypeInv
<1>3. ServerTypes'
  BY DEF Down, RunsInv, TypeInv, ServerTypes
<1>4. "idle" \in AllPoints /\ "gone" \in AllPoints
  BY DEF AllPoints, CreatorPoints
<1>5. ProcTypes'
  BY <1>4 DEF Down, ProcTypes, Active, Terminal
<1>6. ASSUME NEW q \in Procs PROVE ProcessOK(q)'
  <2>1. /\ pc'[q] = (IF pc[q] = "idle" THEN "idle" ELSE "gone")
        /\ next'[q] = "idle" /\ seen'[q] = "absent" /\ seenRun'[q] = NoRun
    BY DEF Down
  <2>2. ProcessOK(q)
    BY DEF RunsInv
  <2>3. RoleOK(q)'
    BY <2>1 DEF RoleOK, PointsOf, CreatorPoints, AttemptPoints, CancellerPoints, SyncPoints,
      IsCreator, IsAttempt
  <2>4. CopyOK(q)'
    BY <2>1 DEF CopyOK, Terminal
  <2>5. AcceptedOK(q)'
    BY <1>1, <1>2, <2>1, <2>2 DEF ProcessOK, AcceptedOK, IsCreator
  <2>6. At(q)' = pc'[q]
    BY <2>1 DEF At, SyncPoints
  <2>7. QueuedOK(q)'
    BY <1>2, <2>1, <2>2, <2>6 DEF ProcessOK, QueuedOK, IsCreator, IsAttempt
  <2> QED
    BY <2>3, <2>4, <2>5, <2>7 DEF ProcessOK
<1>7. Only(Procs) /\ TypeInv' /\ Forward
  BY <1>1, <1>2, <1>3, <1>5 DEF Only, TypeInv, Forward
<1>8. \A x \in Transfers : runOf'[x] # NoRun => runOf'[x][1] = x
  BY <1>1 DEF RunsInv, TransferOK
<1> QED
  BY <1>6, <1>7, <1>8, ForwardKeeps

\* The server stops or crashes.
LEMMA StopServerKeeps ==
  ASSUME RunsInv, StopServer
  PROVE  RunsInv'
<1>1. /\ UNCHANGED <<pc, next, seen, seenRun, rowVars, queueVars, runStatus>>
      /\ server' = "stopping" /\ crashes' = crashes + 1 /\ UNCHANGED unfinished
  BY DEF StopServer
<1>2. stopped' \in [Procs -> BOOLEAN]
  BY DEF StopServer, RunsInv, TypeInv, ProcTypes
<1>3. RowTypes' /\ JobForward /\ UNCHANGED <<kind, job, runOf, file>>
  BY <1>1, RowsStay DEF RunsInv, TypeInv
<1>4. /\ QueueTypes' /\ QueueForward /\ RunTypes' /\ RunsForward
  BY <1>1, QueueStays, RunsStay DEF RunsInv, TypeInv
<1>5. ServerTypes'
  BY <1>1 DEF RunsInv, TypeInv, ServerTypes
<1> QED
  BY <1>1, <1>2, <1>3, <1>4, <1>5, NobodyMoves

\* The server exits, starts and recovers the runs.
LEMMA BootStepKeeps ==
  ASSUME RunsInv, BootStep
  PROVE  RunsInv'
<1>1. CASE Exit
  BY <1>1, DownKeeps DEF Exit
<1>2. CASE Boot \/ RecoveryFails
  <2>1. /\ UNCHANGED <<crashes, rowVars, queueVars, runStatus, procVars>>
        /\ UNCHANGED <<pc, next, seen, seenRun, stopped>>
    BY <1>2 DEF Boot, RecoveryFails, procVars
  <2>2. RowTypes' /\ JobForward /\ UNCHANGED <<kind, job, runOf, file>>
    BY <2>1, RowsStay DEF RunsInv, TypeInv
  <2>3. /\ QueueTypes' /\ QueueForward /\ RunTypes' /\ RunsForward
        /\ stopped' \in [Procs -> BOOLEAN]
    BY <2>1, QueueStays, RunsStay DEF RunsInv, TypeInv, ProcTypes
  <2>4. ServerTypes'
    BY <1>2 DEF Boot, RecoveryFails, RunsInv, TypeInv, ServerTypes
  <2> QED
    BY <2>1, <2>2, <2>3, <2>4, NobodyMoves
<1>3. CASE MarkStagingInterrupted
  <2>1. /\ UNCHANGED <<kind, runOf, file, unfinished, crashes, queueVars, runStatus, procVars>>
        /\ UNCHANGED <<pc, next, seen, seenRun, stopped>> /\ server' = "up"
        /\ \/ job' = [t \in Transfers |-> IF job[t] = "staging" THEN "failed" ELSE job[t]]
           \/ UNCHANGED job
    BY <1>3 DEF MarkStagingInterrupted, procVars
  <2>2. RowTypes' /\ JobForward
    BY <2>1 DEF RunsInv, TypeInv, RowTypes, JobForward, Active, Terminal
  <2>3. /\ QueueTypes' /\ QueueForward /\ RunTypes' /\ RunsForward
        /\ stopped' \in [Procs -> BOOLEAN] /\ ServerTypes'
    BY <2>1, QueueStays, RunsStay DEF RunsInv, TypeInv, ProcTypes, ServerTypes
  <2> QED
    BY <2>1, <2>2, <2>3, NobodyMoves
<1>4. ASSUME NEW r \in Procs, RecoverRun(r) PROVE RunsInv'
  <2>1. /\ UNCHANGED <<server, crashes, rowVars, queueVars, procVars>>
        /\ UNCHANGED <<pc, next, seen, seenRun, stopped>> /\ unfinished' = unfinished \ {r}
        /\ \/ runStatus' = [runStatus EXCEPT ![r] = "interrupted"]
           \/ runStatus' = [runStatus EXCEPT ![r] = "queued"]
    BY <1>4 DEF RecoverRun, Task!Move, Task!Resume, procVars
  <2>2. RowTypes' /\ JobForward /\ UNCHANGED <<kind, job, runOf, file>>
    BY <2>1, RowsStay DEF RunsInv, TypeInv
  <2>3. RunTypes' /\ RunsForward
    BY <2>1 DEF RunsInv, TypeInv, RunTypes, RunsForward, Told, Task!Statuses, Task!Active,
      Task!Ended
  <2>4. /\ QueueTypes' /\ QueueForward
        /\ stopped' \in [Procs -> BOOLEAN] /\ ServerTypes'
    BY <2>1, QueueStays DEF RunsInv, TypeInv, ProcTypes, ServerTypes
  <2> QED
    BY <2>1, <2>2, <2>3, <2>4, NobodyMoves
<1> QED
  BY <1>1, <1>2, <1>3, <1>4 DEF BootStep

-----------------------------------------------------------------------------

\* Nothing has happened in the initial states.
LEMMA InitRuns == Init => RunsInv
<1> SUFFICES ASSUME Init PROVE RunsInv
  OBVIOUS
<1> USE DEF Init
<1>1. RowTypes
  BY DEF RowTypes
<1>2. QueueTypes /\ RunTypes
  BY BoundsAssumption DEF QueueTypes, RunTypes, Queue!Init, Task!Init, Queue!Phases,
    Task!Statuses
<1>3. ProcTypes
  BY DEF ProcTypes, AllPoints, CreatorPoints
<1>4. ServerTypes
  BY DEF ServerTypes
<1>5. ASSUME NEW p \in Procs PROVE ProcessOK(p)
  <2>1. p[1] \in Transfers
    BY ProcFacts
  <2>2. RoleOK(p)
    BY DEF RoleOK, PointsOf, CreatorPoints, AttemptPoints, CancellerPoints, SyncPoints
  <2>3. CopyOK(p)
    BY DEF CopyOK, Terminal
  <2>4. AcceptedOK(p)
    BY <2>1, ProcFacts DEF AcceptedOK, Task!Init, Told, Task!Ended
  <2>5. QueuedOK(p)
    BY DEF QueuedOK, At, SyncPoints
  <2> QED
    BY <2>2, <2>3, <2>4, <2>5 DEF ProcessOK
<1>6. ASSUME NEW t \in Transfers PROVE TransferOK(t)
  BY DEF TransferOK, Queue!Init
<1>7. ASSUME NEW r \in Procs PROVE RunOK(r)
  BY ProcFacts DEF RunOK
<1> QED
  BY <1>1, <1>2, <1>3, <1>4, <1>5, <1>6, <1>7 DEF RunsInv, TypeInv

\* Every step keeps RunsInv.
LEMMA NextKeepsRuns == RunsInv /\ [Next]_vars => RunsInv'
<1> SUFFICES ASSUME RunsInv, [Next]_vars PROVE RunsInv'
  OBVIOUS
<1>1. CASE UNCHANGED vars
  <2>1. RowTypes' /\ JobForward /\ UNCHANGED <<kind, job, runOf, file>>
    BY <1>1, RowsStay DEF RunsInv, TypeInv, vars
  <2>2. /\ QueueTypes' /\ QueueForward /\ RunTypes' /\ RunsForward /\ ServerTypes'
    BY <1>1, QueueStays, RunsStay, ServerStays DEF RunsInv, TypeInv, vars
  <2>3. UNCHANGED <<pc, next, seen, seenRun>> /\ stopped' \in [Procs -> BOOLEAN]
    BY <1>1 DEF vars, procVars, RunsInv, TypeInv, ProcTypes
  <2> QED
    BY <2>1, <2>2, <2>3, NobodyMoves
<1>2. CASE StopServer \/ Crash \/ BootStep
  BY <1>2, StopServerKeeps, BootStepKeeps, DownKeeps DEF Crash
<1>3. ASSUME NEW t \in Transfers,
             Accept(t) \/ StagingOver(t) \/ Take(t) \/ Expire(t) \/ AskCancel(t)
      PROVE  RunsInv'
  BY <1>3, AcceptKeeps, StagingKeeps, TakeKeeps, ExpireKeeps, AskCancelKeeps
<1>4. ASSUME NEW p \in Procs, ProcessStep(p) \/ TransferOver(p) PROVE RunsInv'
  BY <1>4, ProcessStepKeeps
<1> QED
  BY <1>1, <1>2, <1>3, <1>4 DEF Next

\* The inductive invariant, whatever is refused, stalls or crashes.
THEOREM RunsInvariance == Spec => []RunsInv
BY InitRuns, NextKeepsRuns, PTL DEF Spec

\* Every variable keeps its type, and every process its place in its own code.
THEOREM TransfersTypeCorrect == Spec => []TypeOK
<1>1. RunsInv => TypeOK
  <2> SUFFICES ASSUME RunsInv PROVE TypeOK
    OBVIOUS
  <2>1. Queue!TypeOK /\ Task!TypeOK
    BY DEF RunsInv, TypeInv, QueueTypes, RunTypes, Queue!TypeOK, Task!TypeOK
  <2>2. ASSUME NEW t \in Transfers
        PROVE  /\ pc[Creator(t)] \in CreatorPoints
               /\ \A k \in 1 .. MaxAttempts : pc[Attempt(t, k)] \in AttemptPoints
               /\ pc[Canceller(t)] \in CancellerPoints
    BY CreatorFacts, AttemptFacts, CancellerFacts DEF RunsInv, ProcessOK, RoleOK, PointsOf
  <2>3. /\ next \in [Procs -> CreatorPoints \cup AttemptPoints \cup CancellerPoints]
        /\ DOMAIN pc = Procs
    BY DEF RunsInv, TypeInv, ProcTypes, AllPoints
  <2> QED
    BY <2>1, <2>2, <2>3 DEF TypeOK, RunsInv, TypeInv, RowTypes, ProcTypes, ServerTypes
<1> QED
  BY <1>1, RunsInvariance, PTL

\* A run that has ended tells what became of its transfer, although
\* syncTaskRun writes it from a copy of the row that may be old.
THEOREM EndedRunsTellTheTruth == Spec => []RunMatchesJob
<1>1. RunsInv => RunMatchesJob
  BY DEF RunsInv, RunOK, RunMatchesJob, RunsOfTransfer, Told
<1> QED
  BY <1>1, RunsInvariance, PTL

-----------------------------------------------------------------------------
(* While no live attempt loses its lease *)

AtWork(p) == pc[p] \notin {"idle", "gone"}

\* The attempt at work is the last one, and has been told if its job is cancelled.
AloneOK(p) ==
  IsAttempt(p) /\ AtWork(p) =>
    /\ p[2] = tries[p[1]]
    /\ phase[p[1]] \in {"trying", "cancelled"}
    /\ phase[p[1]] = "cancelled" => stopped[p]

\* The file of a transfer at the points of its creator and its attempts.
Working == {"begin", "open", "transfer", "complete"}
FileOK(p) ==
  /\ IsCreator(p) /\ At(p) = "staging" => kind[p[1]] = "upload"
  /\ IsAttempt(p) /\ At(p) \in Working => job[p[1]] # "completed"
  /\ IsAttempt(p) /\ At(p) = "transfer" /\ IsDownload(p[1]) => file[p[1]] = "partial"
  /\ IsAttempt(p) /\ At(p) = "complete" /\ IsDownload(p[1]) => file[p[1]] = "whole"

ThereOK(t) == IsDownload(t) /\ job[t] = "completed" => file[t] = "whole"

LeaseInv ==
  /\ \A p \in Procs : AloneOK(p) /\ FileOK(p)
  /\ \A t \in Transfers : ThereOK(t)

SameRow(t) ==
  /\ kind'[t] = kind[t] /\ job'[t] = job[t] /\ file'[t] = file[t]
  /\ phase'[t] = phase[t] /\ tries'[t] = tries[t]
Still(q) == pc'[q] = pc[q] /\ next'[q] = next[q] /\ (stopped[q] => stopped'[q])

\* A process that does not move, of a transfer whose row and job do not.
LEMMA UnmovedOK ==
  ASSUME LeaseInv, NEW q \in Procs, Still(q), SameRow(q[1])
  PROVE  AloneOK(q)' /\ FileOK(q)'
<1>1. AloneOK(q) /\ FileOK(q)
  BY DEF LeaseInv
<1>2. AloneOK(q)'
  BY <1>1 DEF AloneOK, Still, SameRow, AtWork, IsAttempt
<1>3. At(q)' = At(q) /\ IsDownload(q[1])' = IsDownload(q[1])
  BY DEF At, IsDownload, Still, SameRow
<1>4. FileOK(q)'
  BY <1>1, <1>3 DEF FileOK, SameRow, IsCreator, IsAttempt
<1> QED
  BY <1>2, <1>4

\* A step of p that may write the row of its transfer and the job of it.
LEMMA LeaseFrame ==
  ASSUME LeaseInv, NEW p \in Procs, \A q \in Procs \ {p} : Still(q),
         \A t \in Transfers \ {p[1]} : SameRow(t),
         AloneOK(p)', FileOK(p)', ThereOK(p[1])',
         \A q \in Procs : q # p /\ q[1] = p[1] => AloneOK(q)' /\ FileOK(q)'
  PROVE  LeaseInv'
<1>1. ASSUME NEW q \in Procs, q[1] # p[1] PROVE AloneOK(q)' /\ FileOK(q)'
  BY <1>1, ProcFacts, UnmovedOK
<1>2. ASSUME NEW t \in Transfers, t # p[1] PROVE ThereOK(t)'
  BY <1>2 DEF LeaseInv, ThereOK, IsDownload, SameRow
<1>3. \A t \in Transfers : ThereOK(t)'
  BY <1>2
<1>4. \A q \in Procs : AloneOK(q)' /\ FileOK(q)'
  BY <1>1
<1> QED
  BY <1>3, <1>4 DEF LeaseInv

\* What Goto changes.
LEMMA GotoMoves ==
  ASSUME TypeInv, NEW p \in Procs, NEW point, Goto(p, point)
  PROVE  /\ \A q \in Procs \ {p} : Still(q)
         /\ pc'[p] = point /\ (point # "gone" => stopped'[p] = stopped[p])
         /\ point \notin SyncPoints => At(p)' = point
<1>1. /\ pc' = [pc EXCEPT ![p] = point] /\ next' = [next EXCEPT ![p] = "idle"]
      /\ stopped' = [stopped EXCEPT ![p] = @ /\ point # "gone"]
      /\ pc \in [Procs -> AllPoints] /\ next \in [Procs -> AllPoints]
      /\ stopped \in [Procs -> BOOLEAN]
  BY DEF Goto, TypeInv, ProcTypes
<1>2. \A q \in Procs \ {p} : Still(q)
  BY <1>1 DEF Still
<1>3. pc'[p] = point
  BY <1>1
<1>4. point # "gone" => stopped'[p] = stopped[p]
  BY <1>1
<1> QED
  BY <1>2, <1>3, <1>4 DEF At

\* What Sync changes.
LEMMA SyncMoves ==
  ASSUME TypeInv, NEW p \in Procs, NEW after, Sync(p, after)
  PROVE  /\ \A q \in Procs \ {p} : Still(q)
         /\ pc'[p] = "sync" /\ stopped'[p] = stopped[p] /\ At(p)' = after
BY DEF TypeInv, ProcTypes, Sync, Still, At, SyncPoints

\* No two attempts of a transfer are at work.
LEMMA OnlyOne ==
  ASSUME LeaseInv, NEW p \in Procs, IsAttempt(p), AtWork(p),
         NEW q \in Procs, IsAttempt(q), AtWork(q), q[1] = p[1]
  PROVE  q = p
BY ProcFacts DEF LeaseInv, AloneOK

\* An attempt that is not at work, and stays so.
LEMMA RestOK ==
  ASSUME NEW q \in Procs, IsAttempt(q), ~ AtWork(q), Still(q)
  PROVE  AloneOK(q)' /\ FileOK(q)'
<1>1. ~ AtWork(q)' /\ IsAttempt(q)'
  BY DEF AtWork, Still, IsAttempt
<1>2. At(q)' = pc'[q]
  BY <1>1 DEF At, AtWork, SyncPoints
<1> QED
  BY <1>1, <1>2, ProcFacts DEF AloneOK, FileOK, AtWork, Working, IsAttempt, IsCreator

\* A creator or a canceller that does not move.
LEMMA OtherOK ==
  ASSUME LeaseInv, NEW q \in Procs, ~ IsAttempt(q), Still(q), kind'[q[1]] = kind[q[1]]
  PROVE  AloneOK(q)' /\ FileOK(q)'
<1>1. FileOK(q)
  BY DEF LeaseInv
<1>2. At(q)' = At(q)
  BY DEF At, Still
<1> QED
  BY <1>1, <1>2 DEF AloneOK, FileOK, IsAttempt, IsCreator

\* A step that leaves the rows and the queue alone, of a process that goes on
\* to no point that asks anything of the file.
LEMMA SameRowsKeepLease ==
  ASSUME RunsInv, LeaseInv, NEW p \in Procs, \A q \in Procs \ {p} : Still(q),
         UNCHANGED <<kind, job, file, queueVars>>,
         IsAttempt(p) /\ AtWork(p)' => AtWork(p) /\ (stopped[p] => stopped'[p]),
         At(p)' = At(p) \/ At(p)' \notin {"staging"} \cup Working
           \/ (At(p)' = "begin" /\ job[p[1]] \notin Terminal)
  PROVE  LeaseInv'
<1>1. UNCHANGED <<phase, tries>> /\ p[1] \in Transfers
  BY ProcFacts DEF queueVars
<1>2. \A t \in Transfers : SameRow(t)
  BY <1>1 DEF SameRow
<1>3. AloneOK(p) /\ FileOK(p)
  BY DEF LeaseInv
<1>4. AloneOK(p)'
  BY <1>1, <1>3 DEF AloneOK, IsAttempt
<1>5. FileOK(p)'
  <2>1. CASE At(p)' = At(p)
    BY <1>3, <2>1 DEF FileOK, IsDownload, IsCreator, IsAttempt
  <2>2. CASE At(p)' \notin {"staging"} \cup Working
    BY <2>2 DEF FileOK, Working
  <2>3. CASE At(p)' = "begin" /\ job[p[1]] \notin Terminal
    BY <2>3 DEF FileOK, Terminal, Working
  <2> QED
    BY <2>1, <2>2, <2>3
<1>6. ThereOK(p[1])'
  BY <1>1 DEF LeaseInv, ThereOK, IsDownload
<1> QED
  BY <1>1, <1>2, <1>4, <1>5, <1>6, LeaseFrame, UnmovedOK

\* A step of an attempt, alone with its transfer.
LEMMA AloneKeepsLease ==
  ASSUME RunsInv, LeaseInv, NEW p \in Procs, IsAttempt(p), AtWork(p),
         \A q \in Procs \ {p} : Still(q), UNCHANGED kind,
         \A t \in Transfers \ {p[1]} : SameRow(t),
         AloneOK(p)', FileOK(p)', ThereOK(p[1])'
  PROVE  LeaseInv'
<1>1. ASSUME NEW q \in Procs, q # p, q[1] = p[1] PROVE AloneOK(q)' /\ FileOK(q)'
  <2>1. Still(q) /\ (IsAttempt(q) => ~ AtWork(q))
    BY <1>1, OnlyOne
  <2> QED
    BY <2>1, RestOK, OtherOK
<1> QED
  BY <1>1, LeaseFrame

\* A row that becomes anything but completed troubles nobody.
LEMMA SetJobKeepsLease ==
  ASSUME RunsInv, LeaseInv, NEW p \in Procs, \A q \in Procs \ {p} : Still(q),
         UNCHANGED <<kind, file, queueVars>>, job'[p[1]] # "completed",
         \A t \in Transfers \ {p[1]} : job'[t] = job[t],
         IsAttempt(p) /\ AtWork(p)' => AtWork(p) /\ (stopped[p] => stopped'[p]),
         At(p)' \notin {"staging", "transfer", "complete"}
  PROVE  LeaseInv'
<1>1. UNCHANGED <<phase, tries>> /\ p[1] \in Transfers
  BY ProcFacts DEF queueVars
<1>2. \A t \in Transfers \ {p[1]} : SameRow(t)
  BY <1>1 DEF SameRow
<1>3. AloneOK(p)'
  BY <1>1 DEF LeaseInv, AloneOK, IsAttempt
<1>4. FileOK(p)'
  BY DEF FileOK, Working
<1>5. ASSUME NEW q \in Procs, q # p, q[1] = p[1] PROVE AloneOK(q)' /\ FileOK(q)'
  <2>1. Still(q) /\ AloneOK(q) /\ FileOK(q)
    BY <1>5 DEF LeaseInv
  <2>2. AloneOK(q)'
    BY <1>1, <2>1 DEF AloneOK, Still, AtWork, IsAttempt
  <2>3. At(q)' = At(q) /\ IsDownload(q[1])' = IsDownload(q[1])
    BY <2>1 DEF At, IsDownload, Still
  <2> QED
    BY <1>5, <2>1, <2>2, <2>3 DEF FileOK, IsCreator, IsAttempt
<1>6. ThereOK(p[1])'
  BY DEF ThereOK
<1> QED
  BY <1>2, <1>3, <1>4, <1>5, <1>6, LeaseFrame

\* A step of a transfer none of whose attempts is at work.
LEMMA RestKeepsLease ==
  ASSUME LeaseInv, NEW p \in Procs, \A q \in Procs \ {p} : Still(q),
         \A t \in Transfers \ {p[1]} : SameRow(t),
         \A q \in Procs : IsAttempt(q) /\ q[1] = p[1] => ~ AtWork(q),
         kind'[p[1]] = kind[p[1]] \/ IsCreator(p),
         AloneOK(p)', FileOK(p)', ThereOK(p[1])'
  PROVE  LeaseInv'
<1>1. ASSUME NEW q \in Procs, q # p, q[1] = p[1] PROVE AloneOK(q)' /\ FileOK(q)'
  <2>1. Still(q)
    BY <1>1
  <2>2. CASE IsAttempt(q)
    BY <1>1, <2>1, <2>2, RestOK
  <2>3. CASE ~ IsAttempt(q) /\ kind'[p[1]] = kind[p[1]]
    BY <1>1, <2>1, <2>3, OtherOK
  <2>4. CASE ~ IsAttempt(q) /\ IsCreator(p)
    <3>1. ~ IsCreator(q)
      BY <1>1, <2>4, ProcFacts DEF IsCreator
    <3> QED
      BY <2>4, <3>1 DEF AloneOK, FileOK, IsAttempt, IsCreator
  <2> QED
    BY <2>2, <2>3, <2>4
<1> QED
  BY <1>1, LeaseFrame

\* A step that moves nobody and writes no row keeps LeaseInv.
LEMMA AllStillKeepLease ==
  ASSUME LeaseInv, \A q \in Procs : Still(q), \A t \in Transfers : SameRow(t)
  PROVE  LeaseInv'
<1>1. \A q \in Procs : AloneOK(q)' /\ FileOK(q)'
  BY UnmovedOK, ProcFacts
<1>2. \A t \in Transfers : ThereOK(t)'
  BY DEF LeaseInv, ThereOK, IsDownload, SameRow
<1> QED
  BY <1>1, <1>2 DEF LeaseInv

\* A step of a process at work that ends in Goto and leaves row and job alone.
LEMMA GotoKeepsLease ==
  ASSUME RunsInv, LeaseInv, NEW p \in Procs, AtWork(p), NEW point, point \notin SyncPoints,
         Goto(p, point), UNCHANGED <<kind, job, file, queueVars>>,
         \/ point \notin {"staging"} \cup Working
         \/ point = At(p)
         \/ point = "begin" /\ job[p[1]] \notin Terminal
  PROVE  LeaseInv'
<1>1. /\ \A q \in Procs \ {p} : Still(q)
      /\ pc'[p] = point /\ (point # "gone" => stopped'[p] = stopped[p]) /\ At(p)' = point
  BY GotoMoves DEF RunsInv
<1>2. AtWork(p)' => point # "gone"
  BY <1>1 DEF AtWork
<1> QED
  BY <1>1, <1>2, SameRowsKeepLease

\* A step that writes neither a row nor a job.
LEMMA RowsQueueStill ==
  ASSUME UNCHANGED <<rowVars, queueVars>>
  PROVE  UNCHANGED <<kind, job, runOf, file, phase, tries>> /\ \A t \in Transfers : SameRow(t)
BY DEF rowVars, queueVars, SameRow

-----------------------------------------------------------------------------

\* syncTaskRun keeps LeaseInv.
LEMMA SyncStepLease ==
  ASSUME RunsInv, LeaseInv, NEW p \in Procs, SyncStep(p)
  PROVE  LeaseInv'
<1>1. /\ pc[p] \in SyncPoints /\ UNCHANGED <<kind, job, file, queueVars>>
      /\ AtWork(p) /\ At(p) = next[p]
  BY DEF SyncStep, ReadRow, ReadRowFails, CreateRun, CreateRunFails, BindRun, Apply, rowVars,
    SyncPoints, AtWork, At
<1>2. CASE Goto(p, next[p])
  <2>1. JobForward /\ QueueForward
    BY <1>1, QueueStays DEF JobForward, RunsInv, TypeInv
  <2>2. next[p] \notin SyncPoints
    BY <1>1, <2>1, NextLands
  <2> QED
    BY <1>1, <1>2, <2>2, GotoKeepsLease
<1>3. CASE /\ \E point \in SyncPoints : pc' = [pc EXCEPT ![p] = point]
           /\ UNCHANGED <<next, stopped>>
  <2>1. /\ \A q \in Procs \ {p} : Still(q)
        /\ pc'[p] \in SyncPoints /\ next'[p] = next[p] /\ stopped'[p] = stopped[p]
    BY <1>3 DEF RunsInv, TypeInv, ProcTypes, Still
  <2>2. At(p)' = At(p)
    BY <1>1, <2>1 DEF At
  <2> QED
    BY <1>1, <2>1, <2>2, SameRowsKeepLease
<1>4. "create" \in SyncPoints /\ "apply" \in SyncPoints /\ "bind" \in SyncPoints
  BY DEF SyncPoints
<1>5. CASE ReadRow(p)
  BY <1>2, <1>3, <1>4, <1>5 DEF ReadRow
<1>6. CASE ReadRowFails(p) \/ CreateRunFails(p) \/ Apply(p)
  BY <1>2, <1>6 DEF ReadRowFails, CreateRunFails, Apply
<1>7. CASE CreateRun(p)
  BY <1>3, <1>4, <1>7 DEF CreateRun
<1>8. CASE BindRun(p)
  BY <1>2, <1>3, <1>4, <1>8 DEF BindRun
<1> QED
  BY <1>5, <1>6, <1>7, <1>8 DEF SyncStep

\* failJob keeps LeaseInv.
LEMMA FailLease ==
  ASSUME RunsInv, LeaseInv, NEW p \in Procs, Fail(p)
  PROVE  LeaseInv'
<1> DEFINE t == p[1]
           after == IF p = Creator(t) THEN "gone" ELSE "return"
<1>1. pc[p] \in {"fail", "failctx"} /\ AtWork(p) /\ UNCHANGED queueVars /\ t \in Transfers
  BY ProcFacts DEF Fail, AtWork
<1>2. after \notin SyncPoints \cup {"staging"} \cup Working
  BY DEF SyncPoints, Working
<1>3. CASE SetJob(t, Active, "failed") /\ Sync(p, after)
  <2>1. /\ \A q \in Procs \ {p} : Still(q)
        /\ pc'[p] = "sync" /\ stopped'[p] = stopped[p] /\ At(p)' = after
    BY <1>3, SyncMoves DEF RunsInv
  <2>2. /\ job'[t] = "failed" /\ (\A x \in Transfers \ {t} : job'[x] = job[x])
        /\ UNCHANGED <<kind, file>>
    BY <1>1, <1>3 DEF SetJob, RunsInv, TypeInv, RowTypes
  <2> QED
    BY <1>1, <2>1, <2>2, SetJobKeepsLease
<1>4. CASE UNCHANGED rowVars /\ Goto(p, after)
  <2>1. UNCHANGED <<kind, job, file>>
    BY <1>4 DEF rowVars
  <2> QED
    BY <1>1, <1>2, <1>4, <2>1, GotoKeepsLease
<1> QED
  BY <1>3, <1>4 DEF Fail

\* While there is no job, no attempt is at work.
LEMMA NoJobRest ==
  ASSUME RunsInv, NEW t \in Transfers, phase[t] = "absent"
  PROVE  \A q \in Procs : IsAttempt(q) /\ q[1] = t => ~ AtWork(q)
BY DEF RunsInv, ProcessOK, QueuedOK, AtWork

\* The steps that create a row keep LeaseInv.
LEMMA AcceptLease ==
  ASSUME RunsInv, LeaseInv, NEW t \in Transfers, Accept(t)
  PROVE  LeaseInv'
<1> DEFINE p == Creator(t)
<1>1. p \in Procs /\ p[1] = t /\ IsCreator(p) /\ ~ IsAttempt(p)
  BY CreatorFacts
<1>2. pc[p] \in Early /\ UNCHANGED <<phase, tries>>
  BY DEF Accept, AcceptUpload, AcceptDownload, OpenScheduledRun, Early, queueVars
<1>3. job[t] = "absent" /\ phase[t] = "absent"
  BY <1>2, EarlyFacts
<1>4. \A q \in Procs : IsAttempt(q) /\ q[1] = t => ~ AtWork(q)
  BY <1>3, NoJobRest
<1>5. ASSUME NEW point, point \notin SyncPoints, Goto(p, point)
      PROVE  (\A q \in Procs \ {p} : Still(q)) /\ At(p)' = point
  BY <1>1, <1>5, GotoMoves DEF RunsInv
<1>6. /\ \A q \in Procs \ {p} : Still(q)
      /\ At(p)' = "staging" => kind'[t] = "upload"
  <2>1. CASE AcceptUpload(t)
    <3>1. Goto(p, "staging") /\ "staging" \notin SyncPoints /\ kind'[t] = "upload"
      BY <2>1 DEF AcceptUpload, SyncPoints, RunsInv, TypeInv, RowTypes
    <3> QED
      BY <1>5, <3>1
  <2>2. CASE AcceptDownload(t)
    <3>1. /\ pc' = [pc EXCEPT ![p] = "create"] /\ next' = [next EXCEPT ![p] = "enqueue"]
          /\ UNCHANGED stopped
      BY <2>2 DEF AcceptDownload
    <3>2. (\A q \in Procs \ {p} : Still(q)) /\ pc'[p] = "create" /\ next'[p] = "enqueue"
      BY <1>1, <3>1 DEF Still, RunsInv, TypeInv, ProcTypes
    <3> QED
      BY <3>2 DEF At, SyncPoints
  <2>3. CASE OpenScheduledRun(t)
    <3>1. Goto(p, "opened") /\ "opened" \notin SyncPoints
      BY <2>3 DEF OpenScheduledRun, SyncPoints
    <3> QED
      BY <1>5, <3>1
  <2> QED
    BY <2>1, <2>2, <2>3 DEF Accept
<1>7. (\A x \in Transfers \ {t} : SameRow(x)) /\ job'[t] # "completed"
  BY <1>2, <1>3 DEF Accept, AcceptUpload, AcceptDownload, OpenScheduledRun, SameRow, RunsInv,
    TypeInv, RowTypes
<1>8. AloneOK(p)' /\ FileOK(p)' /\ ThereOK(t)'
  BY <1>1, <1>6, <1>7 DEF AloneOK, FileOK, ThereOK, IsAttempt, IsCreator
<1> QED
  BY <1>1, <1>4, <1>6, <1>7, <1>8, RestKeepsLease

\* The end of the staging keeps LeaseInv.
LEMMA StagingLease ==
  ASSUME RunsInv, LeaseInv, NEW t \in Transfers, StagingProgress(t) \/ StagingOver(t)
  PROVE  LeaseInv'
<1> DEFINE p == Creator(t)
<1>1. p \in Procs /\ p[1] = t /\ IsCreator(p) /\ ~ IsAttempt(p)
  BY CreatorFacts
<1>2. /\ pc[p] = "staging" /\ AtWork(p) /\ At(p) = "staging"
      /\ UNCHANGED queueVars /\ UNCHANGED <<kind, phase, tries>>
  BY DEF StagingProgress, StagingOver, StagingEnds, StagingFails, SetFile, AtWork, At, SyncPoints,
    queueVars, rowVars
<1>3. kind[t] = "upload" /\ ~ IsDownload(t) /\ ~ IsDownload(t)'
  BY <1>1, <1>2 DEF LeaseInv, FileOK, IsDownload
<1>4. CASE StagingProgress(t)
  <2>1. /\ \A q \in Procs \ {p} : Still(q)
        /\ pc'[p] = "sync" /\ stopped'[p] = stopped[p] /\ At(p)' = "staging"
    BY <1>1, <1>4, SyncMoves DEF StagingProgress, RunsInv
  <2>2. UNCHANGED <<kind, job, file, queueVars>>
    BY <1>4 DEF StagingProgress, rowVars
  <2> QED
    BY <1>1, <1>2, <2>1, <2>2, SameRowsKeepLease
<1>5. CASE StagingOver(t)
  <2>1. (\A q \in Procs \ {p} : Still(q)) /\ At(p)' # "staging"
    <3>1. CASE Goto(p, "gone") \/ Goto(p, "fail")
      <4>1. "gone" \notin SyncPoints /\ "fail" \notin SyncPoints
        BY DEF SyncPoints
      <4> QED
        BY <1>1, <3>1, <4>1, GotoMoves DEF RunsInv
    <3>2. CASE /\ pc' = [pc EXCEPT ![p] = "create"] /\ next' = [next EXCEPT ![p] = "enqueue"]
               /\ UNCHANGED stopped
      <4>1. (\A q \in Procs \ {p} : Still(q)) /\ pc'[p] = "create" /\ next'[p] = "enqueue"
        BY <1>1, <3>2 DEF Still, RunsInv, TypeInv, ProcTypes
      <4> QED
        BY <4>1 DEF At, SyncPoints
    <3> QED
      BY <1>5, <3>1, <3>2 DEF StagingOver, StagingEnds, StagingFails
  <2>2. /\ \A x \in Transfers \ {t} : SameRow(x)
        /\ job'[t] = "completed" => job[t] = "completed"
    BY <1>2, <1>5 DEF StagingOver, StagingEnds, StagingFails, SetFile, SameRow, RunsInv,
      TypeInv, RowTypes
  <2>3. AloneOK(p)' /\ FileOK(p)' /\ ThereOK(t)'
    BY <1>1, <1>3, <2>1 DEF AloneOK, FileOK, ThereOK, IsAttempt, IsCreator
  <2>4. ASSUME NEW q \in Procs, q # p, q[1] = t PROVE AloneOK(q)' /\ FileOK(q)'
    <3>1. Still(q) /\ AloneOK(q) /\ FileOK(q)
      BY <2>1, <2>4 DEF LeaseInv
    <3>2. AloneOK(q)'
      BY <1>2, <3>1 DEF AloneOK, Still, AtWork, IsAttempt
    <3>3. At(q)' = At(q)
      BY <3>1 DEF At, Still
    <3> QED
      BY <1>2, <1>3, <2>2, <2>4, <3>1, <3>2, <3>3 DEF FileOK, IsCreator, IsAttempt
  <2> QED
    BY <1>1, <2>1, <2>2, <2>3, <2>4, LeaseFrame
<1> QED
  BY <1>4, <1>5

\* The other steps of the creating request keep LeaseInv.
LEMMA CreatorLease ==
  ASSUME RunsInv, LeaseInv, NEW t \in Transfers, CreatorStep(t)
  PROVE  LeaseInv'
<1> DEFINE p == Creator(t)
<1>1. p \in Procs /\ p[1] = t /\ IsCreator(p) /\ ~ IsAttempt(p)
  BY CreatorFacts
<1>2. /\ "gone" \notin SyncPoints \cup {"staging"} \cup Working
      /\ "enqueue" \notin SyncPoints \cup {"staging"} \cup Working
      /\ "fail" \notin SyncPoints \cup {"staging"} \cup Working
  BY DEF SyncPoints, Working
<1>3. CASE RejectScheduled(t) \/ EnqueueFails(t)
  <2>1. AtWork(p) /\ UNCHANGED <<kind, job, file, queueVars>>
    BY <1>3 DEF RejectScheduled, EnqueueFails, AtWork, rowVars
  <2>2. Goto(p, "gone") \/ Goto(p, "fail")
    BY <1>3 DEF RejectScheduled, EnqueueFails
  <2> QED
    BY <1>1, <1>2, <2>1, <2>2, GotoKeepsLease
<1>4. CASE AcceptScheduled(t) \/ Enqueue(t)
  <2>1. phase[t] = "absent"
    BY <1>4, EarlyFacts DEF AcceptScheduled, Enqueue, Queue!Submit, Queue!Move, Early
  <2>2. \A q \in Procs : IsAttempt(q) /\ q[1] = t => ~ AtWork(q)
    BY <2>1, NoJobRest
  <2>3. Goto(p, "enqueue") \/ Goto(p, "gone")
    BY <1>4 DEF AcceptScheduled, Enqueue
  <2>4. /\ \A q \in Procs \ {p} : Still(q)
        /\ At(p)' # "staging"
    BY <1>1, <1>2, <2>3, GotoMoves DEF RunsInv
  <2>5. /\ \A x \in Transfers \ {t} : SameRow(x)
        /\ UNCHANGED <<kind, file>> /\ (job'[t] = "completed" => job[t] = "completed")
    BY <1>4 DEF AcceptScheduled, Enqueue, Queue!Submit, Queue!Move, SameRow, RunsInv, TypeInv,
      RowTypes, QueueTypes, rowVars, queueVars
  <2>6. AloneOK(p)' /\ FileOK(p)' /\ ThereOK(t)'
    BY <1>1, <2>4, <2>5 DEF AloneOK, FileOK, ThereOK, IsDownload, IsAttempt, IsCreator, LeaseInv
  <2> QED
    BY <1>1, <2>2, <2>4, <2>5, <2>6, RestKeepsLease
<1> QED
  BY <1>3, <1>4, StagingLease DEF CreatorStep

\* The steps of the attempt at work keep LeaseInv: it is alone.
LEMMA AttemptStepLease ==
  ASSUME RunsInv, LeaseInv, NEW p \in Procs,
         \/ Load(p) \/ Begin(p) \/ Open(p) \/ OpenFails(p) \/ Progress(p) \/ Complete(p)
         \/ TransferOver(p)
  PROVE  LeaseInv'
<1> DEFINE t == p[1]
<1>1. /\ pc[p] \in {"load", "begin", "open", "transfer", "complete"}
      /\ AtWork(p) /\ At(p) = pc[p]
      /\ UNCHANGED queueVars /\ UNCHANGED <<phase, tries>>
  BY DEF Load, Begin, Open, OpenFails, Progress, Complete, TransferOver, TransferEnds,
    TransferFails, TransferStopped, AtWork, At, SyncPoints, queueVars
<1>2. t \in Transfers /\ job[t] \in Active \cup Terminal /\ RoleOK(p)
  BY <1>1, WorkFacts DEF AtWork
<1>3. IsAttempt(p) /\ ~ IsCreator(p)
  BY <1>1, <1>2, RolePoints
<1>4. /\ "return" \notin SyncPoints \cup {"staging"} \cup Working
      /\ "failctx" \notin SyncPoints \cup {"staging"} \cup Working
      /\ "fail" \notin SyncPoints \cup {"staging"} \cup Working
      /\ "broken" \notin SyncPoints \cup {"staging"} \cup Working
      /\ "begin" \notin SyncPoints /\ "transfer" \notin SyncPoints
      /\ "complete" \notin SyncPoints
  BY DEF SyncPoints, Working
<1>5. AloneOK(p) /\ FileOK(p)
  BY DEF LeaseInv
<1>6. CASE Load(p)
  <2>1. UNCHANGED <<kind, job, file>>
    BY <1>6 DEF Load, rowVars
  <2> QED
    BY <1>1, <1>4, <1>6, <2>1, GotoKeepsLease DEF Load
<1>7. CASE OpenFails(p)
  <2>1. UNCHANGED <<kind, job, file>>
    BY <1>7 DEF OpenFails, rowVars
  <2> QED
    BY <1>1, <1>4, <1>7, <2>1, GotoKeepsLease DEF OpenFails
<1>8. CASE Progress(p)
  <2>1. UNCHANGED <<kind, job, file>> /\ pc[p] = "transfer"
    BY <1>8 DEF Progress, rowVars
  <2>2. /\ \A q \in Procs \ {p} : Still(q)
        /\ stopped'[p] = stopped[p] /\ At(p)' = "transfer"
    BY <1>8, SyncMoves DEF Progress, RunsInv
  <2> QED
    BY <1>1, <2>1, <2>2, SameRowsKeepLease
<1>9. CASE Begin(p)
  <2>1. CASE SetJob(t, {"queued", "running"}, "running") /\ Sync(p, "open")
    <3>1. /\ job'[t] = "running" /\ (\A x \in Transfers \ {t} : job'[x] = job[x])
          /\ UNCHANGED <<kind, file>>
      BY <1>2, <2>1 DEF SetJob, RunsInv, TypeInv, RowTypes
    <3>2. /\ \A q \in Procs \ {p} : Still(q)
          /\ stopped'[p] = stopped[p] /\ At(p)' = "open"
      BY <2>1, SyncMoves DEF RunsInv
    <3> QED
      BY <1>1, <3>1, <3>2, SetJobKeepsLease
  <2>2. CASE (Goto(p, "return") \/ Goto(p, "failctx")) /\ UNCHANGED rowVars
    <3>1. UNCHANGED <<kind, job, file>>
      BY <2>2 DEF rowVars
    <3> QED
      BY <1>1, <1>4, <2>2, <3>1, GotoKeepsLease
  <2> QED
    BY <1>9, <2>1, <2>2 DEF Begin
<1>10. CASE Complete(p)
  <2>1. CASE SetJob(t, {"running"}, "completed") /\ Sync(p, "return")
    <3>1. /\ job'[t] = "completed" /\ (\A x \in Transfers \ {t} : job'[x] = job[x])
          /\ UNCHANGED <<kind, file>>
      BY <1>2, <2>1 DEF SetJob, RunsInv, TypeInv, RowTypes
    <3>2. /\ \A q \in Procs \ {p} : Still(q)
          /\ pc'[p] = "sync" /\ stopped'[p] = stopped[p] /\ At(p)' = "return"
      BY <2>1, SyncMoves DEF RunsInv
    <3>3. \A x \in Transfers \ {t} : SameRow(x)
      BY <1>1, <3>1 DEF SameRow
    <3>4. AloneOK(p)' /\ FileOK(p)'
      BY <1>1, <1>4, <1>5, <3>2 DEF AloneOK, FileOK, IsAttempt
    <3>5. ThereOK(t)'
      BY <1>1, <1>3, <1>5, <1>10, <3>1 DEF Complete, FileOK, ThereOK, IsDownload
    <3> QED
      BY <1>1, <1>3, <3>1, <3>2, <3>3, <3>4, <3>5, AloneKeepsLease
  <2>2. CASE Goto(p, "return") /\ UNCHANGED rowVars
    <3>1. UNCHANGED <<kind, job, file>>
      BY <2>2 DEF rowVars
    <3> QED
      BY <1>1, <1>4, <2>2, <3>1, GotoKeepsLease
  <2> QED
    BY <1>10, <2>1, <2>2 DEF Complete
<1>11. CASE Open(p) \/ TransferOver(p)
  <2>1. job[t] # "completed" /\ UNCHANGED <<kind, job>> /\ (~ IsDownload(t) => UNCHANGED file)
    BY <1>1, <1>3, <1>5, <1>11 DEF FileOK, Working, Open, TransferOver, TransferEnds,
      TransferFails, TransferStopped, SetFile, rowVars
  <2>2. \A x \in Transfers \ {t} : SameRow(x)
    BY <1>1, <1>11, <2>1 DEF SameRow, Open, TransferOver, TransferEnds, TransferFails,
      TransferStopped, SetFile, rowVars, RunsInv, TypeInv, RowTypes
  <2>3. PICK point \in {"transfer", "complete", "fail", "return"} :
          /\ Goto(p, point)
          /\ point = "transfer" /\ IsDownload(t) => file'[t] = "partial"
          /\ point = "complete" /\ IsDownload(t) => file'[t] = "whole"
    <3>1. CASE Open(p)
      BY <1>2, <3>1 DEF Open, SetFile, RunsInv, TypeInv, RowTypes
    <3>2. CASE TransferEnds(p)
      <4>1. IsDownload(t) => file[t] = "partial"
        BY <1>1, <1>3, <1>5, <3>2 DEF TransferEnds, FileOK
      <4> QED
        BY <1>2, <3>2, <4>1 DEF TransferEnds, SetFile, RunsInv, TypeInv, RowTypes
    <3>3. CASE TransferFails(p) \/ TransferStopped(p)
      BY <3>3 DEF TransferFails, TransferStopped
    <3> QED
      BY <1>11, <3>1, <3>2, <3>3 DEF TransferOver
  <2>4. /\ \A q \in Procs \ {p} : Still(q)
        /\ pc'[p] = point /\ stopped'[p] = stopped[p] /\ At(p)' = point
    BY <1>4, <2>3, GotoMoves DEF RunsInv
  <2>5. AloneOK(p)'
    BY <1>1, <1>5, <2>4 DEF AloneOK, IsAttempt
  <2>6. FileOK(p)'
    BY <1>3, <1>4, <2>1, <2>3, <2>4 DEF FileOK, IsDownload, IsCreator, IsAttempt
  <2>7. ThereOK(t)'
    BY <2>1 DEF ThereOK
  <2> QED
    BY <1>1, <1>3, <2>1, <2>2, <2>4, <2>5, <2>6, <2>7, AloneKeepsLease
<1> QED
  BY <1>6, <1>7, <1>8, <1>9, <1>10, <1>11

\* The answer of an attempt keeps LeaseInv: its job is over or waits.
LEMMA ReturnLease ==
  ASSUME RunsInv, LeaseInv, NEW p \in Procs, Return(p)
  PROVE  LeaseInv'
<1> DEFINE t == p[1]
<1>1. /\ pc[p] \in {"return", "broken"} /\ AtWork(p) /\ Goto(p, "gone")
      /\ UNCHANGED <<kind, job, file>>
  BY DEF Return, AtWork, rowVars
<1>2. t \in Transfers /\ RoleOK(p)
  BY <1>1, WorkFacts DEF AtWork
<1>3. IsAttempt(p)
  BY <1>1, <1>2, RolePoints
<1>4. "gone" \notin SyncPoints \cup {"staging"} \cup Working
  BY DEF SyncPoints, Working
<1>5. (\A q \in Procs \ {p} : Still(q)) /\ pc'[p] = "gone" /\ At(p)' = "gone"
  BY <1>1, <1>4, GotoMoves DEF RunsInv
<1>6. \A x \in Transfers \ {t} : phase'[x] = phase[x] /\ tries'[x] = tries[x]
  BY DEF Return, Release, Queue!Succeed, Queue!Retry, Queue!GiveUp, Queue!Move, queueVars,
    RunsInv, TypeInv, QueueTypes
<1>7. \A x \in Transfers \ {t} : SameRow(x)
  BY <1>1, <1>6 DEF SameRow
<1>8. AloneOK(p)' /\ FileOK(p)'
  BY <1>4, <1>5 DEF AloneOK, FileOK, AtWork
<1>9. ThereOK(t)'
  BY <1>1, <1>2 DEF LeaseInv, ThereOK, IsDownload
<1> QED
  BY <1>1, <1>3, <1>5, <1>7, <1>8, <1>9, AloneKeepsLease

\* A new attempt is alone: the one before it has given up the lease.
LEMMA TakeLease ==
  ASSUME RunsInv, LeaseInv, NEW t \in Transfers, Take(t)
  PROVE  LeaseInv'
<1>1. /\ tries[t] < MaxAttempts /\ phase[t] = "waiting" /\ tries[t] \in 0 .. MaxAttempts
      /\ phase' = [phase EXCEPT ![t] = "trying"] /\ tries' = [tries EXCEPT ![t] = tries[t] + 1]
      /\ Goto(Attempt(t, tries[t] + 1), "load") /\ UNCHANGED <<kind, job, file>>
  BY DEF Take, Queue!Try, Queue!Move, RunsInv, TypeInv, QueueTypes, rowVars
<1>2. tries[t] + 1 \in 1 .. MaxAttempts
  BY <1>1, BoundsAssumption
<1>3. PICK p \in Procs : Goto(p, "load") /\ p[1] = t /\ p[2] = tries[t] + 1 /\ IsAttempt(p)
  BY <1>1, <1>2, AttemptFacts
<1>4. phase'[t] = "trying" /\ tries'[t] = tries[t] + 1
  BY <1>1 DEF RunsInv, TypeInv, QueueTypes
<1>5. \A q \in Procs : IsAttempt(q) /\ q[1] = t => ~ AtWork(q)
  BY <1>1 DEF LeaseInv, AloneOK
<1>6. "load" \notin SyncPoints \cup {"staging"} \cup Working
  BY DEF SyncPoints, Working
<1>7. (\A q \in Procs \ {p} : Still(q)) /\ At(p)' = "load"
  BY <1>3, <1>6, GotoMoves DEF RunsInv
<1>8. \A x \in Transfers \ {t} : SameRow(x)
  BY <1>1 DEF SameRow, RunsInv, TypeInv, QueueTypes
<1>9. AloneOK(p)' /\ FileOK(p)'
  BY <1>3, <1>4, <1>6, <1>7 DEF AloneOK, FileOK, IsAttempt
<1>10. ThereOK(t)'
  BY <1>1 DEF LeaseInv, ThereOK, IsDownload
<1> QED
  BY <1>1, <1>3, <1>5, <1>7, <1>8, <1>9, <1>10, RestKeepsLease

\* The lease that expires is that of an attempt that is gone.
LEMMA ExpireLease ==
  ASSUME RunsInv, LeaseInv, ~ Stalls, NEW t \in Transfers, Expire(t)
  PROVE  LeaseInv'
<1> DEFINE p == Creator(t)
<1>1. p \in Procs /\ p[1] = t /\ IsCreator(p) /\ ~ IsAttempt(p)
  BY CreatorFacts
<1>2. /\ phase[t] = "trying" /\ pc[Attempt(t, tries[t])] = "gone"
      /\ UNCHANGED <<kind, job, file>> /\ UNCHANGED <<pc, next, stopped>>
  BY DEF Expire, Owner, rowVars, procVars
<1>3. \A q \in Procs : Still(q)
  BY <1>2 DEF Still
<1>4. ASSUME NEW q \in Procs, IsAttempt(q), q[1] = t PROVE ~ AtWork(q)
  <2> SUFFICES ASSUME AtWork(q) PROVE FALSE
    OBVIOUS
  <2>1. q[2] = tries[t]
    BY <1>4 DEF LeaseInv, AloneOK
  <2>2. q = Attempt(t, tries[t])
    BY <1>4, <2>1, ProcFacts DEF Attempt
  <2> QED
    BY <1>2, <2>2 DEF AtWork
<1>5. \A x \in Transfers \ {t} : SameRow(x)
  BY <1>2 DEF Expire, Release, Queue!Retry, Queue!GiveUp, Queue!Move, SameRow, RunsInv, TypeInv,
    QueueTypes
<1>6. AloneOK(p)' /\ FileOK(p)'
  BY <1>1, <1>2, <1>3, OtherOK
<1>7. ThereOK(t)'
  BY <1>2 DEF LeaseInv, ThereOK, IsDownload
<1> QED
  BY <1>1, <1>2, <1>3, <1>4, <1>5, <1>6, <1>7, RestKeepsLease

\* The heartbeat keeps LeaseInv.
LEMMA HeartbeatLease ==
  ASSUME RunsInv, LeaseInv, NEW p \in Procs, HeartbeatStops(p)
  PROVE  LeaseInv'
<1>1. \A q \in Procs : Still(q)
  BY DEF HeartbeatStops, Still, RunsInv, TypeInv, ProcTypes
<1>2. \A t \in Transfers : SameRow(t)
  BY RowsQueueStill DEF HeartbeatStops
<1> QED
  BY <1>1, <1>2, AllStillKeepLease

\* A cancellation tells the attempt at work.
LEMMA CancelLease ==
  ASSUME RunsInv, LeaseInv, NEW t \in Transfers,
         AskCancel(t) \/ CancelQueue(t) \/ CancelRow(t)
  PROVE  LeaseInv'
<1> DEFINE p == Canceller(t)
<1>1. p \in Procs /\ p[1] = t /\ ~ IsAttempt(p) /\ ~ IsCreator(p)
  BY CancellerFacts
<1>2. {"queue", "row", "gone"} \cap (SyncPoints \cup {"staging"} \cup Working) = {}
  BY DEF SyncPoints, Working
<1>3. ASSUME NEW point \in {"queue", "row", "gone"}, Goto(p, point),
             UNCHANGED <<rowVars, queueVars>>
      PROVE  LeaseInv'
  <2>1. (\A q \in Procs \ {p} : Still(q)) /\ At(p)' = point
    BY <1>1, <1>2, <1>3, GotoMoves DEF RunsInv
  <2>2. UNCHANGED <<kind, job, file, queueVars>>
    BY <1>3, RowsQueueStill
  <2> QED
    BY <1>1, <1>2, <2>1, <2>2, SameRowsKeepLease
<1>4. CASE AskCancel(t)
  BY <1>3, <1>4 DEF AskCancel
<1>5. CASE CancelRow(t)
  <2>1. CASE SetJob(t, Active, "cancelled") /\ Sync(p, "gone")
    <3>1. /\ job'[t] = "cancelled" /\ (\A x \in Transfers \ {t} : job'[x] = job[x])
          /\ UNCHANGED <<kind, file, queueVars>>
      BY <1>5, <2>1 DEF CancelRow, SetJob, RunsInv, TypeInv, RowTypes
    <3>2. (\A q \in Procs \ {p} : Still(q)) /\ At(p)' = "gone"
      BY <1>1, <2>1, SyncMoves DEF RunsInv
    <3> QED
      BY <1>1, <3>1, <3>2, SetJobKeepsLease
  <2> QED
    BY <1>3, <1>5, <2>1 DEF CancelRow
<1>6. CASE CancelQueue(t)
  <2>1. CASE /\ Queue!CancelAll({t})
             /\ pc' = [pc EXCEPT ![p] = "row"]
             /\ stopped' = [stopped EXCEPT ![Owner(t)] = @ \/ phase[t] = "trying"]
             /\ UNCHANGED <<next, seen, seenRun>>
    <3>1. \A q \in Procs \ {p} : Still(q)
      BY <2>1 DEF Still, RunsInv, TypeInv, ProcTypes
    <3>2. /\ phase[t] \in Queue!Open /\ phase'[t] = "cancelled" /\ UNCHANGED tries
          /\ \A x \in Transfers \ {t} : phase'[x] = phase[x]
      BY <2>1 DEF Queue!CancelAll, RunsInv, TypeInv, QueueTypes
    <3>3. UNCHANGED <<kind, job, file>>
      BY <1>6 DEF CancelQueue, rowVars
    <3>4. \A x \in Transfers \ {t} : SameRow(x)
      BY <3>2, <3>3 DEF SameRow
    <3>5. ThereOK(t)'
      BY <3>3 DEF LeaseInv, ThereOK, IsDownload
    <3>6. AloneOK(p)' /\ FileOK(p)'
      BY <1>1 DEF AloneOK, FileOK, IsAttempt, IsCreator
    <3>7. ASSUME NEW q \in Procs, q # p, q[1] = t PROVE AloneOK(q)' /\ FileOK(q)'
      <4>1. Still(q) /\ AloneOK(q) /\ FileOK(q)
        BY <3>1, <3>7 DEF LeaseInv
      <4>2. CASE IsAttempt(q) /\ AtWork(q)
        <5>1. q[2] = tries[t] /\ phase[t] = "trying"
          BY <3>2, <3>7, <4>1, <4>2 DEF AloneOK, Queue!Open
        <5>2. q = Owner(t)
          BY <3>7, <5>1, ProcFacts DEF Owner, Attempt
        <5>3. stopped'[q]
          BY <2>1, <5>1, <5>2 DEF RunsInv, TypeInv, ProcTypes
        <5>4. AloneOK(q)'
          BY <3>2, <3>7, <5>1, <5>3 DEF AloneOK
        <5>5. At(q)' = At(q) /\ IsDownload(q[1])' = IsDownload(q[1])
          BY <3>3, <4>1 DEF At, IsDownload, Still
        <5>6. FileOK(q)'
          BY <3>3, <4>1, <5>5 DEF FileOK, IsCreator, IsAttempt
        <5> QED
          BY <5>4, <5>6
      <4>3. CASE IsAttempt(q) /\ ~ AtWork(q)
        BY <4>1, <4>3, RestOK
      <4>4. CASE ~ IsAttempt(q)
        BY <3>3, <4>1, <4>4, OtherOK
      <4> QED
        BY <4>2, <4>3, <4>4
    <3> QED
      BY <1>1, <3>1, <3>4, <3>5, <3>6, <3>7, LeaseFrame
  <2> QED
    BY <1>3, <1>6, <2>1 DEF CancelQueue
<1> QED
  BY <1>4, <1>5, <1>6

\* Every step of a process keeps LeaseInv.
LEMMA ProcessStepLease ==
  ASSUME RunsInv, LeaseInv, NEW p \in Procs, ProcessStep(p) \/ TransferOver(p)
  PROVE  LeaseInv'
<1>1. p[1] \in Transfers
  BY ProcFacts
<1> QED
  BY <1>1, SyncStepLease, FailLease, AttemptStepLease, ReturnLease, HeartbeatLease,
     CreatorLease, CancelLease DEF ProcessStep, AttemptStep

\* A server that goes down leaves nobody at work.
LEMMA ServerLease ==
  ASSUME RunsInv, LeaseInv, StopServer \/ Crash \/ BootStep
  PROVE  LeaseInv'
<1>1. CASE Down
  <2>1. UNCHANGED <<kind, job, file>>
    BY <1>1 DEF Down, rowVars
  <2>2. ASSUME NEW q \in Procs PROVE AloneOK(q)' /\ FileOK(q)'
    <3>1. pc'[q] \in {"idle", "gone"}
      BY <1>1 DEF Down
    <3>2. At(q)' = pc'[q]
      BY <3>1 DEF At, SyncPoints
    <3> QED
      BY <3>1, <3>2 DEF AloneOK, FileOK, AtWork, Working
  <2>3. \A t \in Transfers : ThereOK(t)'
    BY <2>1 DEF LeaseInv, ThereOK, IsDownload
  <2> QED
    BY <2>2, <2>3 DEF LeaseInv
<1>2. CASE StopServer \/ Boot \/ RecoveryFails \/ \E r \in Procs : RecoverRun(r)
  <2>1. \A q \in Procs : Still(q)
    BY <1>2 DEF StopServer, Boot, RecoveryFails, RecoverRun, procVars, Still
  <2>2. UNCHANGED <<rowVars, queueVars>>
    BY <1>2 DEF StopServer, Boot, RecoveryFails, RecoverRun
  <2> QED
    BY <2>1, <2>2, RowsQueueStill, AllStillKeepLease
<1>3. CASE MarkStagingInterrupted
  <2>1. /\ UNCHANGED <<kind, file, phase, tries, pc, next, stopped>>
        /\ \A t \in Transfers : job'[t] = "completed" => job[t] = "completed"
    BY <1>3 DEF MarkStagingInterrupted, procVars, queueVars
  <2>2. ASSUME NEW q \in Procs PROVE AloneOK(q)' /\ FileOK(q)'
    <3>1. AloneOK(q) /\ FileOK(q) /\ q[1] \in Transfers
      BY ProcFacts DEF LeaseInv
    <3>2. At(q)' = At(q) /\ IsDownload(q[1])' = IsDownload(q[1])
      BY <2>1 DEF At, IsDownload
    <3> QED
      BY <2>1, <3>1, <3>2 DEF AloneOK, FileOK, AtWork, IsCreator, IsAttempt
  <2>3. \A t \in Transfers : ThereOK(t)'
    BY <2>1 DEF LeaseInv, ThereOK, IsDownload
  <2> QED
    BY <2>2, <2>3 DEF LeaseInv
<1> QED
  BY <1>1, <1>2, <1>3 DEF Crash, Exit, BootStep

\* Nobody is at work in the initial states.
LEMMA InitLease == Init => LeaseInv
<1> SUFFICES ASSUME Init PROVE LeaseInv
  OBVIOUS
<1>1. ASSUME NEW q \in Procs PROVE AloneOK(q) /\ FileOK(q)
  BY <1>1 DEF Init, AloneOK, FileOK, AtWork, At, SyncPoints, Working
<1>2. \A t \in Transfers : ThereOK(t)
  BY DEF Init, ThereOK
<1> QED
  BY <1>1, <1>2 DEF LeaseInv

\* Every step keeps LeaseInv while no live attempt loses its lease.
LEMMA NextKeepsLease ==
  ASSUME ~ Stalls
  PROVE  RunsInv /\ LeaseInv /\ [Next]_vars => LeaseInv'
<1> SUFFICES ASSUME RunsInv, LeaseInv, [Next]_vars PROVE LeaseInv'
  OBVIOUS
<1>1. CASE UNCHANGED vars
  <2>1. \A q \in Procs : Still(q)
    BY <1>1 DEF vars, procVars, Still
  <2> QED
    BY <1>1, <2>1, RowsQueueStill, AllStillKeepLease DEF vars
<1>2. ASSUME NEW t \in Transfers,
             Accept(t) \/ StagingOver(t) \/ Take(t) \/ Expire(t) \/ AskCancel(t)
      PROVE  LeaseInv'
  BY <1>2, AcceptLease, StagingLease, TakeLease, ExpireLease, CancelLease
<1>3. ASSUME NEW p \in Procs, ProcessStep(p) \/ TransferOver(p) PROVE LeaseInv'
  BY <1>3, ProcessStepLease
<1> QED
  BY <1>1, <1>2, <1>3, ServerLease DEF Next

\* The inductive invariant of attempts that keep their lease while they live.
THEOREM LeaseInvariance ==
  ASSUME ~ Stalls
  PROVE  Spec => [](RunsInv /\ LeaseInv)
<1>1. RunsInv /\ LeaseInv /\ [Next]_vars => LeaseInv'
  BY NextKeepsLease
<1> QED
  BY <1>1, InitRuns, InitLease, NextKeepsRuns, PTL DEF Spec

\* A completed download has its file: no attempt that was given up truncates
\* or removes it (executeDownload).
THEOREM CompletedDownloadsHaveTheirFiles ==
  ASSUME ~ Stalls
  PROVE  Spec => []CompletedHasFile
<1>1. LeaseInv => CompletedHasFile
  BY DEF LeaseInv, ThereOK, CompletedHasFile
<1> QED
  BY <1>1, LeaseInvariance, PTL

\* When a transfer and its job are both cancelled (CancelJob), no attempt
\* moves data without having been told to stop.
THEOREM CancellationsReach ==
  ASSUME ~ Stalls
  PROVE  Spec => []CancelReaches
<1>1. LeaseInv => CancelReaches
  <2> SUFFICES ASSUME LeaseInv, NEW t \in Transfers, phase[t] = "cancelled",
                      NEW k \in 1 .. MaxAttempts, pc[Attempt(t, k)] \in {"open", "transfer"}
               PROVE  stopped[Attempt(t, k)]
    BY DEF CancelReaches
  <2>1. /\ Attempt(t, k) \in Procs /\ Attempt(t, k)[1] = t /\ IsAttempt(Attempt(t, k))
    BY AttemptFacts
  <2>2. AloneOK(Attempt(t, k)) /\ AtWork(Attempt(t, k))
    BY <2>1 DEF LeaseInv, AtWork
  <2> QED
    BY <2>1, <2>2 DEF AloneOK
<1> QED
  BY <1>1, LeaseInvariance, PTL

-----------------------------------------------------------------------------
(* A transfer ends once *)

EndsStay == \A t \in Transfers : job[t] \in Terminal => job'[t] = job[t]

\* An update that is conditional on an active row undoes no end.
LEMMA SetJobEndsStay ==
  ASSUME RunsInv, NEW t \in Transfers, NEW from \in SUBSET Active, NEW to, SetJob(t, from, to)
  PROVE  EndsStay
BY DEF EndsStay, SetJob, Active, Terminal, RunsInv, TypeInv, RowTypes

\* No step undoes the end of a row.
LEMMA StepEndsStay == RunsInv /\ [Next]_vars => EndsStay
<1> SUFFICES ASSUME RunsInv, [Next]_vars PROVE EndsStay
  OBVIOUS
<1>1. CASE UNCHANGED job
  BY <1>1 DEF EndsStay
<1>2. ASSUME NEW t \in Transfers, job[t] \notin Terminal,
             job' = [job EXCEPT ![t] = "queued"] \/ job' = [job EXCEPT ![t] = "staging"]
      PROVE  EndsStay
  BY <1>2 DEF EndsStay, RunsInv, TypeInv, RowTypes
<1>3. ASSUME NEW t \in Transfers, Accept(t) PROVE EndsStay
  <2>1. pc[Creator(t)] \in Early
    BY <1>3 DEF Accept, AcceptUpload, AcceptDownload, OpenScheduledRun, Early
  <2>2. job[t] \notin Terminal
    BY <2>1, EarlyFacts DEF Terminal
  <2> QED
    BY <1>1, <1>2, <1>3, <2>2 DEF Accept, AcceptUpload, AcceptDownload, OpenScheduledRun
<1>4. ASSUME NEW t \in Transfers, StagingOver(t) \/ Take(t) \/ Expire(t) \/ AskCancel(t)
      PROVE  EndsStay
  <2>1. UNCHANGED job \/ (job[t] \notin Terminal /\ job' = [job EXCEPT ![t] = "queued"])
    BY <1>4 DEF StagingOver, StagingEnds, StagingFails, SetFile, Take, Expire, AskCancel, rowVars,
      Terminal
  <2> QED
    BY <1>1, <1>2, <2>1
<1>5. ASSUME NEW p \in Procs, ProcessStep(p) \/ TransferOver(p) PROVE EndsStay
  <2> DEFINE t == p[1]
  <2>1. t \in Transfers
    BY ProcFacts
  <2>2. CASE Fail(p) \/ Begin(p) \/ Complete(p) \/ CancelRow(t)
    <3>1. \/ SetJob(t, Active, "failed") \/ SetJob(t, {"queued", "running"}, "running")
          \/ SetJob(t, {"running"}, "completed") \/ SetJob(t, Active, "cancelled")
          \/ UNCHANGED job
      BY <2>2 DEF Fail, Begin, Complete, CancelRow, rowVars
    <3>2. Active \in SUBSET Active /\ {"queued", "running"} \in SUBSET Active
          /\ {"running"} \in SUBSET Active
      BY DEF Active
    <3> QED
      BY <1>1, <2>1, <3>1, <3>2, SetJobEndsStay
  <2>3. CASE SyncStep(p) \/ TransferOver(p)
    <3>1. UNCHANGED job
      BY <2>3 DEF SyncStep, ReadRow, ReadRowFails, CreateRun, CreateRunFails, BindRun, Apply,
        TransferOver, TransferEnds, TransferFails, TransferStopped, SetFile, rowVars
    <3> QED
      BY <1>1, <3>1
  <2>4. CASE Load(p) \/ Open(p) \/ OpenFails(p) \/ Progress(p) \/ Return(p) \/ HeartbeatStops(p)
    <3>1. UNCHANGED job
      BY <2>4 DEF Load, Open, OpenFails, Progress, Return, HeartbeatStops, SetFile, rowVars
    <3> QED
      BY <1>1, <3>1
  <2>5. CASE CreatorStep(t) \/ CancelQueue(t)
    <3>1. CASE AcceptScheduled(t)
      <4>1. job[t] \notin Terminal
        BY <2>1, <3>1, EarlyFacts DEF AcceptScheduled, Early, Terminal
      <4> QED
        BY <1>2, <2>1, <3>1, <4>1 DEF AcceptScheduled
    <3>2. CASE ~ AcceptScheduled(t)
      <4>1. UNCHANGED job
        BY <2>5, <3>2 DEF CreatorStep, StagingProgress, RejectScheduled, Enqueue, EnqueueFails,
          CancelQueue, rowVars
      <4> QED
        BY <1>1, <4>1
    <3> QED
      BY <3>1, <3>2
  <2> QED
    BY <1>5, <2>2, <2>3, <2>4, <2>5 DEF ProcessStep, AttemptStep
<1>6. CASE StopServer \/ Crash \/ BootStep
  <2>1. CASE MarkStagingInterrupted
    BY <2>1 DEF MarkStagingInterrupted, EndsStay, Terminal
  <2>2. CASE ~ MarkStagingInterrupted
    <3>1. UNCHANGED job
      BY <1>6, <2>2 DEF StopServer, Crash, Down, BootStep, Exit, Boot, RecoveryFails, RecoverRun,
        rowVars
    <3> QED
      BY <1>1, <3>1
  <2> QED
    BY <2>1, <2>2
<1>7. CASE UNCHANGED vars
  BY <1>1, <1>7 DEF vars, rowVars
<1> QED
  BY <1>3, <1>4, <1>5, <1>6, <1>7 DEF Next

\* No attempt, no request and no restart changes how a transfer ended.
THEOREM TransfersEndOnce ==
  Spec => [][\A t \in Transfers : job[t] \in Terminal => job'[t] = job[t]]_vars
<1>1. RunsInv /\ [Next]_vars => [\A t \in Transfers : job[t] \in Terminal => job'[t] = job[t]]_vars
  BY StepEndsStay DEF EndsStay
<1> QED
  BY <1>1, RunsInvariance, PTL DEF Spec

-----------------------------------------------------------------------------
(* While no statement is refused *)

\* An attempt that was not told to stop returns when its transfer has ended.
ReturnOK(p) == IsAttempt(p) /\ At(p) = "return" /\ ~ stopped[p] => job[p[1]] \in Terminal

DoneInv == (\A p \in Procs : ReturnOK(p)) /\ DoneMeansEnded

\* The invariant after a step of one process.
LEMMA DoneFrame ==
  ASSUME DoneInv, EndsStay, NEW p \in Procs, \A q \in Procs \ {p} : Still(q), ReturnOK(p)',
         \A t \in Transfers : phase'[t] = "succeeded" =>
           phase[t] = "succeeded" \/ job'[t] \in Terminal
  PROVE  DoneInv'
<1>1. ASSUME NEW q \in Procs, q # p PROVE ReturnOK(q)'
  <2>1. Still(q) /\ ReturnOK(q) /\ q[1] \in Transfers
    BY <1>1, ProcFacts DEF DoneInv
  <2>2. At(q)' = At(q)
    BY <2>1 DEF At, Still
  <2> QED
    BY <2>1, <2>2 DEF ReturnOK, EndsStay, Still, IsAttempt
<1>2. DoneMeansEnded'
  BY DEF DoneInv, DoneMeansEnded, EndsStay
<1> QED
  BY <1>1, <1>2 DEF DoneInv

\* Few steps write the end of a job of the queue.
LEMMA Unsucceeded ==
  ASSUME UNCHANGED queueVars
  PROVE  \A t \in Transfers : phase'[t] = "succeeded" => phase[t] = "succeeded"
BY DEF queueVars

\* A step of one process that goes to a point.
LEMMA GotoKeepsDone ==
  ASSUME RunsInv, DoneInv, EndsStay, NEW p \in Procs, NEW point, Goto(p, point),
         point \notin SyncPoints, UNCHANGED queueVars,
         point = "return" /\ IsAttempt(p) =>
           \/ stopped[p] \/ job'[p[1]] \in Terminal
           \/ At(p) = "return"
  PROVE  DoneInv'
<1>1. /\ \A q \in Procs \ {p} : Still(q)
      /\ pc'[p] = point /\ (point # "gone" => stopped'[p] = stopped[p]) /\ At(p)' = point
  BY GotoMoves DEF RunsInv
<1>2. ReturnOK(p) /\ p[1] \in Transfers
  BY ProcFacts DEF DoneInv
<1>3. ReturnOK(p)'
  BY <1>1, <1>2 DEF ReturnOK, IsAttempt, EndsStay
<1> QED
  BY <1>1, <1>3, Unsucceeded, DoneFrame

\* A step of one process that starts syncTaskRun.
LEMMA SyncKeepsDone ==
  ASSUME RunsInv, DoneInv, EndsStay, NEW p \in Procs, NEW after, Sync(p, after),
         UNCHANGED queueVars,
         after = "return" /\ IsAttempt(p) => job'[p[1]] \in Terminal
  PROVE  DoneInv'
<1>1. (\A q \in Procs \ {p} : Still(q)) /\ At(p)' = after
  BY SyncMoves DEF RunsInv
<1>2. ReturnOK(p)'
  BY <1>1 DEF ReturnOK, IsAttempt
<1> QED
  BY <1>1, <1>2, Unsucceeded, DoneFrame

\* syncTaskRun keeps DoneInv.
LEMMA SyncStepDone ==
  ASSUME RunsInv, DoneInv, EndsStay, NEW p \in Procs, SyncStep(p)
  PROVE  DoneInv'
<1>1. /\ pc[p] \in SyncPoints /\ UNCHANGED <<job, queueVars>> /\ At(p) = next[p]
  BY DEF SyncStep, ReadRow, ReadRowFails, CreateRun, CreateRunFails, BindRun, Apply, rowVars,
    SyncPoints, At
<1>2. CASE Goto(p, next[p])
  <2>1. JobForward /\ QueueForward
    BY <1>1, QueueStays DEF JobForward, RunsInv, TypeInv
  <2>2. next[p] \notin SyncPoints
    BY <1>1, <2>1, NextLands
  <2> QED
    BY <1>1, <1>2, <2>2, GotoKeepsDone
<1>3. CASE /\ \E point \in SyncPoints : pc' = [pc EXCEPT ![p] = point]
           /\ UNCHANGED <<next, stopped>>
  <2>1. /\ \A q \in Procs \ {p} : Still(q)
        /\ pc'[p] \in SyncPoints /\ next'[p] = next[p] /\ stopped'[p] = stopped[p]
    BY <1>3 DEF RunsInv, TypeInv, ProcTypes, Still
  <2>2. At(p)' = At(p)
    BY <1>1, <2>1 DEF At
  <2>3. ReturnOK(p)'
    BY <1>1, <2>1, <2>2 DEF DoneInv, ReturnOK, IsAttempt
  <2> QED
    BY <1>1, <2>1, <2>3, Unsucceeded, DoneFrame
<1>4. "create" \in SyncPoints /\ "apply" \in SyncPoints /\ "bind" \in SyncPoints
  BY DEF SyncPoints
<1>5. CASE ReadRow(p)
  BY <1>2, <1>3, <1>4, <1>5 DEF ReadRow
<1>6. CASE ReadRowFails(p) \/ CreateRunFails(p) \/ Apply(p)
  BY <1>2, <1>6 DEF ReadRowFails, CreateRunFails, Apply
<1>7. CASE CreateRun(p)
  BY <1>3, <1>4, <1>7 DEF CreateRun
<1>8. CASE BindRun(p)
  BY <1>2, <1>3, <1>4, <1>8 DEF BindRun
<1> QED
  BY <1>5, <1>6, <1>7, <1>8 DEF SyncStep

\* A creator or a canceller never returns to the queue.
LEMMA NoAttemptKeepsDone ==
  ASSUME RunsInv, DoneInv, EndsStay, NEW p \in Procs, ~ IsAttempt(p),
         \A q \in Procs \ {p} : Still(q),
         \A t \in Transfers : phase'[t] = "succeeded" => phase[t] = "succeeded"
  PROVE  DoneInv'
<1>1. ReturnOK(p)'
  BY DEF ReturnOK, IsAttempt
<1> QED
  BY <1>1, DoneFrame

\* The steps of the requests for a transfer, and of the queue, keep DoneInv.
LEMMA TransferStepDone ==
  ASSUME RunsInv, DoneInv, EndsStay, NEW t \in Transfers,
         \/ Accept(t) \/ StagingOver(t) \/ Take(t) \/ Expire(t) \/ AskCancel(t)
         \/ CreatorStep(t) \/ CancelQueue(t) \/ CancelRow(t)
  PROVE  DoneInv'
<1>1. /\ Creator(t) \in Procs /\ ~ IsAttempt(Creator(t))
      /\ Canceller(t) \in Procs /\ ~ IsAttempt(Canceller(t))
  BY CreatorFacts, CancellerFacts
<1>2. \A x \in Transfers : phase'[x] = "succeeded" => phase[x] = "succeeded"
  <2>1. \/ UNCHANGED queueVars
        \/ Queue!Submit(t) \/ Queue!Try(t) \/ Queue!CancelAll({t}) \/ Release(t)
    BY DEF Accept, AcceptUpload, AcceptDownload, OpenScheduledRun, StagingOver, StagingEnds,
      StagingFails, Take, Expire, AskCancel, CreatorStep, StagingProgress, AcceptScheduled,
      RejectScheduled, Enqueue, EnqueueFails, CancelQueue, CancelRow
  <2> QED
    BY <2>1 DEF queueVars, Release, Queue!Submit, Queue!Try, Queue!Retry, Queue!GiveUp,
      Queue!CancelAll, Queue!Move, RunsInv, TypeInv, QueueTypes
<1>3. CASE Expire(t)
  <2>1. \A q \in Procs : Still(q)
    BY <1>3 DEF Expire, procVars, Still
  <2> QED
    BY <1>1, <1>2, <2>1, NoAttemptKeepsDone
<1>4. CASE Take(t)
  <2>1. tries[t] < MaxAttempts /\ tries[t] \in 0 .. MaxAttempts
    BY <1>4 DEF Take, Queue!Try, RunsInv, TypeInv, QueueTypes
  <2>2. tries[t] + 1 \in 1 .. MaxAttempts
    BY <2>1, BoundsAssumption
  <2>3. PICK p \in Procs : Goto(p, "load")
    BY <1>4, <2>2, AttemptFacts DEF Take
  <2>4. "load" \notin SyncPoints
    BY DEF SyncPoints
  <2>5. (\A q \in Procs \ {p} : Still(q)) /\ At(p)' = "load"
    BY <2>3, <2>4, GotoMoves DEF RunsInv
  <2>6. ReturnOK(p)'
    BY <2>5 DEF ReturnOK
  <2> QED
    BY <1>2, <2>5, <2>6, DoneFrame
<1>5. CASE \E p \in {Creator(t), Canceller(t)} : \E point : Goto(p, point) \/ Sync(p, point)
  <2>1. PICK p \in {Creator(t), Canceller(t)} : \E point : Goto(p, point) \/ Sync(p, point)
    BY <1>5
  <2>2. \A q \in Procs \ {p} : Still(q)
    BY <1>1, <2>1, GotoMoves, SyncMoves DEF RunsInv
  <2> QED
    BY <1>1, <1>2, <2>2, NoAttemptKeepsDone
<1>6. CASE /\ pc' = [pc EXCEPT ![Creator(t)] = "create"]
           /\ next' = [next EXCEPT ![Creator(t)] = "enqueue"] /\ UNCHANGED stopped
  <2>1. \A q \in Procs \ {Creator(t)} : Still(q)
    BY <1>6 DEF Still, RunsInv, TypeInv, ProcTypes
  <2> QED
    BY <1>1, <1>2, <2>1, NoAttemptKeepsDone
<1>7. CASE /\ pc' = [pc EXCEPT ![Canceller(t)] = "row"] /\ UNCHANGED next
           /\ stopped' = [stopped EXCEPT ![Owner(t)] = @ \/ phase[t] = "trying"]
  <2>1. \A q \in Procs \ {Canceller(t)} : Still(q)
    BY <1>7 DEF Still, RunsInv, TypeInv, ProcTypes
  <2> QED
    BY <1>1, <1>2, <2>1, NoAttemptKeepsDone
<1>8. CASE Accept(t)
  BY <1>5, <1>6, <1>8 DEF Accept, AcceptUpload, AcceptDownload, OpenScheduledRun
<1>9. CASE StagingOver(t)
  BY <1>5, <1>6, <1>9 DEF StagingOver, StagingEnds, StagingFails
<1>10. CASE CreatorStep(t)
  BY <1>5, <1>10 DEF CreatorStep, StagingProgress, AcceptScheduled, RejectScheduled, Enqueue,
    EnqueueFails
<1>11. CASE AskCancel(t) \/ CancelQueue(t) \/ CancelRow(t)
  BY <1>5, <1>7, <1>11 DEF AskCancel, CancelQueue, CancelRow
<1> QED
  BY <1>3, <1>4, <1>8, <1>9, <1>10, <1>11

\* failJob keeps DoneInv: the row has ended, or the attempt was told.
LEMMA FailDone ==
  ASSUME RunsInv, DoneInv, EndsStay, ~ Outages, NEW p \in Procs, Fail(p)
  PROVE  DoneInv'
<1> DEFINE t == p[1]
           after == IF p = Creator(t) THEN "gone" ELSE "return"
<1>1. /\ pc[p] \in {"fail", "failctx"} /\ pc[p] \notin {"idle", "opened", "gone"}
      /\ UNCHANGED queueVars
  BY DEF Fail
<1>2. t \in Transfers /\ job[t] \in Active \cup Terminal /\ after \notin SyncPoints
  BY <1>1, WorkFacts DEF SyncPoints
<1>3. CASE SetJob(t, Active, "failed") /\ Sync(p, after)
  <2>1. job'[t] \in Terminal
    BY <1>2, <1>3 DEF SetJob, RunsInv, TypeInv, RowTypes, Terminal
  <2> QED
    BY <1>1, <1>3, <2>1, SyncKeepsDone
<1>4. CASE /\ job[t] \notin Active \/ stopped[p]
           /\ UNCHANGED rowVars /\ Goto(p, after)
  <2>1. stopped[p] \/ job'[t] \in Terminal
    BY <1>2, <1>4 DEF rowVars
  <2> QED
    BY <1>1, <1>2, <1>4, <2>1, GotoKeepsDone
<1> QED
  BY <1>3, <1>4 DEF Fail

\* The steps of an attempt keep DoneInv.
LEMMA AttemptStepDone ==
  ASSUME RunsInv, DoneInv, EndsStay, ~ Outages, NEW p \in Procs,
         \/ Load(p) \/ Begin(p) \/ Open(p) \/ OpenFails(p) \/ Progress(p) \/ Complete(p)
         \/ TransferOver(p)
  PROVE  DoneInv'
<1> DEFINE t == p[1]
<1>1. /\ pc[p] \in {"load", "begin", "open", "transfer", "complete"}
      /\ pc[p] \notin {"idle", "opened", "gone"} /\ At(p) = pc[p] /\ UNCHANGED queueVars
  BY DEF Load, Begin, Open, OpenFails, Progress, Complete, TransferOver, TransferEnds,
    TransferFails, TransferStopped, At, SyncPoints
<1>2. /\ t \in Transfers /\ job[t] \in Active \cup Terminal /\ RoleOK(p) /\ QueuedOK(p)
      /\ IsAttempt(p) => phase[t] # "absent"
  BY <1>1, WorkFacts
<1>3. IsAttempt(p) /\ job[t] # "staging" /\ TransferOK(t)
  BY <1>1, <1>2, RolePoints DEF RunsInv, TransferOK
<1>4. {"return", "begin", "broken", "failctx", "transfer", "complete", "fail"} \cap SyncPoints = {}
  BY DEF SyncPoints
<1>5. CASE Load(p)
  <2>1. UNCHANGED job
    BY <1>5 DEF Load, rowVars
  <2> QED
    BY <1>1, <1>4, <1>5, <2>1, GotoKeepsDone DEF Load
<1>6. CASE Begin(p)
  <2>1. CASE Goto(p, "return") /\ UNCHANGED rowVars /\ job[t] \notin {"queued", "running"}
    <3>1. job'[t] \in Terminal
      BY <1>2, <1>3, <2>1 DEF rowVars, Active
    <3> QED
      BY <1>1, <1>4, <2>1, <3>1, GotoKeepsDone
  <2>2. CASE Sync(p, "open")
    BY <1>1, <2>2, SyncKeepsDone
  <2>3. CASE Goto(p, "failctx")
    BY <1>1, <1>4, <2>3, GotoKeepsDone
  <2> QED
    BY <1>6, <2>1, <2>2, <2>3 DEF Begin
<1>7. CASE Complete(p)
  <2>1. CASE SetJob(t, {"running"}, "completed") /\ Sync(p, "return")
    <3>1. job'[t] \in Terminal
      BY <1>2, <2>1 DEF SetJob, RunsInv, TypeInv, RowTypes, Terminal
    <3> QED
      BY <1>1, <2>1, <3>1, SyncKeepsDone
  <2>2. CASE job[t] # "running" /\ Goto(p, "return") /\ UNCHANGED rowVars
    <3>1. job'[t] \in Terminal
      BY <1>1, <1>2, <1>3, <1>7, <2>2 DEF QueuedOK, rowVars, Complete
    <3> QED
      BY <1>1, <1>4, <2>2, <3>1, GotoKeepsDone
  <2> QED
    BY <1>7, <2>1, <2>2 DEF Complete
<1>8. CASE TransferStopped(p)
  BY <1>1, <1>4, <1>8, GotoKeepsDone DEF TransferStopped
<1>9. CASE Open(p) \/ OpenFails(p) \/ TransferEnds(p) \/ TransferFails(p)
  <2>1. Goto(p, "transfer") \/ Goto(p, "failctx") \/ Goto(p, "complete") \/ Goto(p, "fail")
    BY <1>9 DEF Open, OpenFails, TransferEnds, TransferFails
  <2> QED
    BY <1>1, <1>4, <2>1, GotoKeepsDone
<1>10. CASE Progress(p)
  BY <1>1, <1>10, SyncKeepsDone DEF Progress
<1> QED
  BY <1>5, <1>6, <1>7, <1>8, <1>9, <1>10 DEF TransferOver

\* The queue counts as a success what ended before the attempt returned.
LEMMA ReturnDone ==
  ASSUME RunsInv, DoneInv, EndsStay, NEW p \in Procs, Return(p)
  PROVE  DoneInv'
<1> DEFINE t == p[1]
<1>1. /\ pc[p] \in {"return", "broken"} /\ pc[p] \notin {"idle", "opened", "gone"}
      /\ At(p) = pc[p] /\ Goto(p, "gone") /\ UNCHANGED job
  BY DEF Return, rowVars, At, SyncPoints
<1>2. t \in Transfers /\ RoleOK(p)
  BY <1>1, WorkFacts
<1>3. IsAttempt(p)
  BY <1>1, <1>2, RolePoints
<1>4. "gone" \notin SyncPoints
  BY DEF SyncPoints
<1>5. (\A q \in Procs \ {p} : Still(q)) /\ At(p)' = "gone"
  BY <1>1, <1>4, GotoMoves DEF RunsInv
<1>6. ReturnOK(p)'
  BY <1>5 DEF ReturnOK
<1>7. CASE Queue!Succeed(t) /\ ~ (pc[p] = "broken" \/ stopped[p])
  <2>1. job'[t] \in Terminal
    BY <1>1, <1>3, <1>7 DEF DoneInv, ReturnOK
  <2>2. \A x \in Transfers : phase'[x] = "succeeded" => phase[x] = "succeeded" \/ x = t
    BY <1>7 DEF Queue!Succeed, Queue!Move, RunsInv, TypeInv, QueueTypes
  <2> QED
    BY <1>5, <1>6, <2>1, <2>2, DoneFrame
<1>8. CASE Release(t) \/ UNCHANGED queueVars
  <2>1. \A x \in Transfers : phase'[x] = "succeeded" => phase[x] = "succeeded"
    BY <1>8 DEF Release, Queue!Retry, Queue!GiveUp, Queue!Move, queueVars, RunsInv, TypeInv,
      QueueTypes
  <2> QED
    BY <1>5, <1>6, <2>1, DoneFrame
<1> QED
  BY <1>7, <1>8 DEF Return

\* Every step of a process keeps DoneInv.
LEMMA ProcessStepDone ==
  ASSUME RunsInv, DoneInv, EndsStay, ~ Outages, NEW p \in Procs,
         ProcessStep(p) \/ TransferOver(p)
  PROVE  DoneInv'
<1>1. p[1] \in Transfers
  BY ProcFacts
<1>2. CASE HeartbeatStops(p)
  <2>1. /\ UNCHANGED <<pc, next, job>> /\ UNCHANGED queueVars /\ stopped'[p]
        /\ \A q \in Procs : Still(q)
    BY <1>2 DEF HeartbeatStops, Still, rowVars, RunsInv, TypeInv, ProcTypes
  <2>2. ReturnOK(p)'
    BY <2>1 DEF ReturnOK
  <2> QED
    BY <2>1, <2>2, Unsucceeded, DoneFrame
<1> QED
  BY <1>1, <1>2, SyncStepDone, FailDone, AttemptStepDone, ReturnDone, TransferStepDone
  DEF ProcessStep, AttemptStep

\* The steps of the server keep DoneInv.
LEMMA ServerDone ==
  ASSUME RunsInv, DoneInv, EndsStay, StopServer \/ Crash \/ BootStep \/ UNCHANGED vars
  PROVE  DoneInv'
<1>1. UNCHANGED <<phase, tries>>
  BY DEF StopServer, Crash, Down, BootStep, Exit, Boot, RecoveryFails, MarkStagingInterrupted,
    RecoverRun, queueVars, vars
<1>2. DoneMeansEnded'
  BY <1>1 DEF DoneInv, DoneMeansEnded, EndsStay
<1>3. ASSUME NEW q \in Procs PROVE ReturnOK(q)'
  <2>1. CASE Down
    <3>1. pc'[q] \in {"idle", "gone"}
      BY <2>1 DEF Down
    <3>2. At(q)' = pc'[q]
      BY <3>1 DEF At, SyncPoints
    <3> QED
      BY <3>1, <3>2 DEF ReturnOK
  <2>2. CASE ~ Down
    <3>1. Still(q)
      BY <2>2 DEF StopServer, Crash, BootStep, Exit, Boot, RecoveryFails, MarkStagingInterrupted,
        RecoverRun, procVars, vars, Still
    <3>2. At(q)' = At(q) /\ q[1] \in Transfers /\ ReturnOK(q)
      BY <3>1, ProcFacts DEF At, Still, DoneInv
    <3> QED
      BY <3>1, <3>2 DEF ReturnOK, EndsStay, Still, IsAttempt
  <2> QED
    BY <2>1, <2>2
<1> QED
  BY <1>2, <1>3 DEF DoneInv

\* No job has succeeded in the initial states.
LEMMA InitDone == Init => DoneInv
<1> SUFFICES ASSUME Init PROVE DoneInv
  OBVIOUS
<1>1. \A q \in Procs : ReturnOK(q)
  BY DEF Init, ReturnOK, At, SyncPoints
<1>2. DoneMeansEnded
  BY DEF Init, Queue!Init, DoneMeansEnded
<1> QED
  BY <1>1, <1>2 DEF DoneInv

\* Every step keeps DoneInv while no statement is refused.
LEMMA NextKeepsDone ==
  ASSUME ~ Outages
  PROVE  RunsInv /\ DoneInv /\ [Next]_vars => DoneInv'
<1> SUFFICES ASSUME RunsInv, DoneInv, [Next]_vars PROVE DoneInv'
  OBVIOUS
<1>1. EndsStay
  BY StepEndsStay
<1> QED
  BY <1>1, TransferStepDone, ProcessStepDone, ServerDone DEF Next

\* While no statement is refused, the queue counts no transfer as a success
\* that is still open, even if attempts stall.
THEOREM SuccessMeansEnded ==
  ASSUME ~ Outages
  PROVE  Spec => []DoneMeansEnded
<1>1. RunsInv /\ DoneInv /\ [Next]_vars => DoneInv'
  BY NextKeepsDone
<1>2. DoneInv => DoneMeansEnded
  BY DEF DoneInv
<1> QED
  BY <1>1, <1>2, InitRuns, InitDone, NextKeepsRuns, PTL DEF Spec

\* The same in the calm weather of the runs, where only a storm refuses
\* statements.
THEOREM CalmSuccessMeansEnded ==
  ASSUME ~ Outages
  PROVE  Forecast => []CalmDoneMeansEnded
<1> DEFINE CalmInv == weather = "calm" => RunsInv /\ DoneInv
<1>1. WeatherInit => CalmInv
  BY InitRuns, InitDone DEF WeatherInit
<1>2. CalmInv /\ [WeatherNext]_weatherVars => CalmInv'
  <2> SUFFICES ASSUME CalmInv, [WeatherNext]_weatherVars, weather' = "calm"
               PROVE  RunsInv' /\ DoneInv'
    OBVIOUS
  <2>1. weather = "calm" /\ [Next]_vars
    BY DEF WeatherNext, weatherVars, Calm, Storm
  <2> QED
    BY <2>1, NextKeepsRuns, NextKeepsDone
<1>3. CalmInv => CalmDoneMeansEnded
  BY DEF DoneInv, CalmDoneMeansEnded
<1> QED
  BY <1>1, <1>2, <1>3, PTL DEF Forecast

-----------------------------------------------------------------------------
(* Runs that a restart interrupts *)

\* A request that has not come yet has no run, and only the runs of scheduled
\* transfers are interrupted.
FreshOK(t) ==
  pc[Creator(t)] = "idle" => \A r \in Procs : r[1] = t => runStatus[r] = "absent"
OnlyScheduledInterrupted ==
  \A p \in Procs : runStatus[p] = "interrupted" => kind[p[1]] = "scheduled"

InterruptInv == (\A t \in Transfers : FreshOK(t)) /\ OnlyScheduledInterrupted

\* A run that a step touches: it is told something else, once its transfer is
\* asked for or the run is there, or it is interrupted.
RunTouched(r) ==
  \/ runStatus'[r] # "interrupted" /\ (pc'[Creator(r[1])] # "idle" \/ runStatus[r] # "absent")
  \/ runStatus'[r] = "interrupted" /\ kind[r[1]] = "scheduled" /\ runStatus[r] # "absent"

InterruptStep ==
  /\ \A r \in Procs : runStatus'[r] = runStatus[r] \/ RunTouched(r)
  /\ \A t \in Transfers :
       /\ kind'[t] = kind[t] \/ (pc[Creator(t)] = "idle" /\ pc'[Creator(t)] # "idle")
       /\ pc'[Creator(t)] = "idle" => pc[Creator(t)] = "idle"

\* A step that touches the runs as InterruptStep says keeps InterruptInv.
LEMMA InterruptFrame ==
  ASSUME InterruptInv, InterruptStep
  PROVE  InterruptInv'
<1>1. ASSUME NEW t \in Transfers PROVE FreshOK(t)'
  <2> SUFFICES ASSUME pc'[Creator(t)] = "idle", NEW r \in Procs, r[1] = t
               PROVE  runStatus'[r] = "absent"
    BY DEF FreshOK, Creator
  <2>1. runStatus[r] = "absent"
    BY DEF InterruptInv, InterruptStep, FreshOK
  <2> QED
    BY <2>1 DEF InterruptStep, RunTouched
<1>2. ASSUME NEW p \in Procs, runStatus'[p] = "interrupted" PROVE kind'[p[1]] = "scheduled"
  <2>1. p[1] \in Transfers
    BY ProcFacts
  <2>2. runStatus[p] # "absent" /\ kind[p[1]] = "scheduled"
    BY <1>2 DEF InterruptStep, RunTouched, InterruptInv, OnlyScheduledInterrupted
  <2>3. pc[Creator(p[1])] # "idle"
    BY <2>1, <2>2 DEF InterruptInv, FreshOK
  <2> QED
    BY <2>1, <2>2, <2>3 DEF InterruptStep
<1> QED
  BY <1>1, <1>2 DEF InterruptInv, OnlyScheduledInterrupted

\* A step of p that writes no run.
LEMMA InterruptMoves ==
  ASSUME UNCHANGED <<kind, runStatus>>, NEW p \in Procs, pc'[p] # "idle",
         \A q \in Procs : q # p => pc'[q] = pc[q]
  PROVE  InterruptStep
BY CreatorFacts DEF InterruptStep

\* A process that goes to a point takes no request back.
LEMMA GotoInterrupts ==
  ASSUME RunsInv, UNCHANGED <<kind, runStatus>>, NEW p \in Procs, NEW point, point # "idle",
         Goto(p, point) \/ Sync(p, point)
  PROVE  InterruptStep
<1>1. pc'[p] # "idle" /\ \A q \in Procs : q # p => pc'[q] = pc[q]
  BY DEF Goto, Sync, RunsInv, TypeInv, ProcTypes
<1> QED
  BY <1>1, InterruptMoves

\* The creator of a transfer that somebody works for has come.
LEMMA CreatorCame ==
  ASSUME RunsInv, NEW t \in Transfers, job[t] # "absent"
  PROVE  pc[Creator(t)] # "idle"
BY CreatorFacts DEF RunsInv, ProcessOK, AcceptedOK

\* syncTaskRun interrupts no run.
LEMMA SyncInterrupts ==
  ASSUME RunsInv, NEW p \in Procs, SyncStep(p)
  PROVE  InterruptStep
<1> DEFINE t == p[1]
<1>1. /\ pc[p] \in SyncPoints /\ pc[p] \notin {"idle", "opened", "gone"}
      /\ UNCHANGED <<kind, job, queueVars>>
  BY DEF SyncStep, ReadRow, ReadRowFails, CreateRun, CreateRunFails, BindRun, Apply, rowVars,
    SyncPoints
<1>2. t \in Transfers /\ job[t] # "absent" /\ RoleOK(p) /\ CopyOK(p)
  BY <1>1, WorkFacts DEF Active, Terminal
<1>3. next[p] # "idle"
  BY <1>1, <1>2 DEF RoleOK, After
<1>4. pc'[p] # "idle" /\ \A q \in Procs : q # p => pc'[q] = pc[q]
  <2>1. CASE Goto(p, next[p])
    BY <1>3, <2>1, GotoTypes DEF Goto, RunsInv, TypeInv, ProcTypes
  <2>2. CASE \E point \in SyncPoints : pc' = [pc EXCEPT ![p] = point]
    BY <2>2 DEF SyncPoints, RunsInv, TypeInv, ProcTypes
  <2>3. "create" \in SyncPoints /\ "apply" \in SyncPoints /\ "bind" \in SyncPoints
    BY DEF SyncPoints
  <2> QED
    BY <2>1, <2>2, <2>3 DEF SyncStep, ReadRow, ReadRowFails, CreateRun, CreateRunFails, BindRun,
      Apply
<1>5. pc'[Creator(t)] # "idle"
  BY <1>2, <1>4, CreatorCame, CreatorFacts
<1>6. CASE UNCHANGED runStatus
  BY <1>1, <1>4, <1>6, InterruptMoves
<1>7. CASE \E r \in Procs, status \in {"queued", "running", "succeeded", "failed", "canceled"} :
             r[1] = t /\ runStatus' = [runStatus EXCEPT ![r] = status]
  <2>1. \A r \in Procs : runStatus'[r] = runStatus[r] \/ RunTouched(r)
    BY <1>5, <1>7 DEF RunTouched, RunsInv, TypeInv, RunTypes
  <2> QED
    BY <1>1, <1>4, <2>1, CreatorFacts DEF InterruptStep
<1>8. CASE Apply(p)
  <2>1. seenRun[p] \in Procs /\ seenRun[p][1] = t
    BY <1>2, <1>8 DEF Apply, CopyOK, RunsInv, TypeInv, ProcTypes
  <2>2. \A status \in Terminal : Shown(status) \in {"succeeded", "failed", "canceled"}
    BY ShownFacts DEF Terminal
  <2> QED
    BY <1>6, <1>7, <1>8, <2>1, <2>2 DEF Apply, CopyStatus, Task!Start, Task!Move
<1>9. CASE CreateRun(p)
  BY <1>7, <1>9 DEF CreateRun, Task!Create, Task!Move
<1> QED
  BY <1>6, <1>8, <1>9 DEF SyncStep, ReadRow, ReadRowFails, CreateRunFails, BindRun

\* The steps that create a row interrupt no run.
LEMMA AcceptInterrupts ==
  ASSUME RunsInv, NEW t \in Transfers, Accept(t)
  PROVE  InterruptStep
<1> DEFINE p == Creator(t)
<1>1. p \in Procs /\ p[1] = t /\ pc[p] = "idle"
  BY CreatorFacts DEF Accept, AcceptUpload, AcceptDownload, OpenScheduledRun
<1>2. pc'[p] # "idle" /\ \A q \in Procs : q # p => pc'[q] = pc[q]
  BY <1>1 DEF Accept, AcceptUpload, AcceptDownload, OpenScheduledRun, Goto, RunsInv, TypeInv,
    ProcTypes
<1>3. \A x \in Transfers : x # t => kind'[x] = kind[x]
  BY DEF Accept, AcceptUpload, AcceptDownload, OpenScheduledRun, RunsInv, TypeInv, RowTypes
<1>4. \A r \in Procs : r # p => runStatus'[r] = runStatus[r]
  BY DEF Accept, AcceptUpload, AcceptDownload, OpenScheduledRun, RunsInv, TypeInv, RunTypes
<1>5. runStatus'[p] = runStatus[p] \/ runStatus'[p] = "running"
  BY <1>1 DEF Accept, AcceptUpload, AcceptDownload, OpenScheduledRun, RunsInv, TypeInv, RunTypes
<1>6. \A r \in Procs : runStatus'[r] = runStatus[r] \/ RunTouched(r)
  BY <1>1, <1>2, <1>4, <1>5 DEF RunTouched
<1>7. ASSUME NEW x \in Transfers
      PROVE  /\ kind'[x] = kind[x] \/ (pc[Creator(x)] = "idle" /\ pc'[Creator(x)] # "idle")
             /\ pc'[Creator(x)] = "idle" => pc[Creator(x)] = "idle"
  BY <1>1, <1>2, <1>3, CreatorFacts
<1> QED
  BY <1>6, <1>7 DEF InterruptStep

\* The other steps of the creating request interrupt no run.
LEMMA CreatorInterrupts ==
  ASSUME RunsInv, NEW t \in Transfers,
         CreatorStep(t) \/ StagingOver(t) \/ AskCancel(t) \/ CancelQueue(t) \/ CancelRow(t)
  PROVE  InterruptStep
<1>1. Creator(t) \in Procs /\ Creator(t)[1] = t /\ Canceller(t) \in Procs
  BY CreatorFacts, CancellerFacts
<1>2. CASE RejectScheduled(t)
  <2>1. pc'[Creator(t)] = "gone" /\ \A q \in Procs : q # Creator(t) => pc'[q] = pc[q]
    BY <1>1, <1>2 DEF RejectScheduled, Goto, RunsInv, TypeInv, ProcTypes
  <2>2. \A r \in Procs : runStatus'[r] = runStatus[r] \/ RunTouched(r)
    BY <1>1, <1>2, <2>1 DEF RejectScheduled, Task!Move, RunTouched, RunsInv, TypeInv, RunTypes
  <2>3. UNCHANGED kind
    BY <1>2 DEF RejectScheduled, rowVars
  <2> QED
    BY <2>1, <2>2, <2>3, CreatorFacts DEF InterruptStep
<1>3. CASE ~ RejectScheduled(t)
  <2>1. UNCHANGED <<kind, runStatus>>
    BY <1>3 DEF CreatorStep, StagingProgress, AcceptScheduled, Enqueue, EnqueueFails, StagingOver,
      StagingEnds, StagingFails, AskCancel, CancelQueue, CancelRow, SetFile, SetJob, rowVars
  <2>2. CASE \E p \in {Creator(t), Canceller(t)} : \E point :
               point # "idle" /\ (Goto(p, point) \/ Sync(p, point))
    BY <1>1, <2>1, <2>2, GotoInterrupts
  <2>3. CASE \E p \in {Creator(t), Canceller(t)} : \E point :
               point # "idle" /\ pc' = [pc EXCEPT ![p] = point]
    BY <1>1, <2>1, <2>3, InterruptMoves DEF RunsInv, TypeInv, ProcTypes
  <2>4. CASE CreatorStep(t)
    BY <1>3, <2>2, <2>4 DEF CreatorStep, StagingProgress, AcceptScheduled, Enqueue, EnqueueFails
  <2>5. CASE StagingOver(t)
    BY <2>2, <2>3, <2>5 DEF StagingOver, StagingEnds, StagingFails
  <2>6. CASE AskCancel(t) \/ CancelQueue(t) \/ CancelRow(t)
    BY <2>2, <2>3, <2>6 DEF AskCancel, CancelQueue, CancelRow
  <2> QED
    BY <2>4, <2>5, <2>6
<1> QED
  BY <1>2, <1>3

\* The steps of an attempt interrupt no run.
LEMMA AttemptInterrupts ==
  ASSUME RunsInv, NEW p \in Procs, Fail(p) \/ AttemptStep(p) \/ TransferOver(p)
  PROVE  InterruptStep
<1>1. UNCHANGED <<kind, runStatus>>
  BY DEF Fail, AttemptStep, Load, Begin, Open, OpenFails, Progress, Complete, Return,
    HeartbeatStops, TransferOver, TransferEnds, TransferFails, TransferStopped, SetJob, SetFile,
    rowVars
<1>2. CASE HeartbeatStops(p)
  BY <1>1, <1>2, InterruptMoves DEF HeartbeatStops
<1>3. CASE \E point : point # "idle" /\ (Goto(p, point) \/ Sync(p, point))
  BY <1>1, <1>3, GotoInterrupts
<1>4. CASE Fail(p)
  BY <1>3, <1>4 DEF Fail
<1>5. CASE AttemptStep(p) /\ ~ HeartbeatStops(p)
  BY <1>3, <1>5 DEF AttemptStep, Load, Begin, Open, OpenFails, Progress, Complete, Return
<1>6. CASE TransferOver(p)
  BY <1>3, <1>6 DEF TransferOver, TransferEnds, TransferFails, TransferStopped
<1> QED
  BY <1>2, <1>4, <1>5, <1>6

\* A restart interrupts the active runs of scheduled transfers.
LEMMA ServerInterrupts ==
  ASSUME RunsInv, StopServer \/ Crash \/ BootStep \/ UNCHANGED vars
  PROVE  InterruptStep
<1>1. /\ UNCHANGED kind
      /\ \A q \in Procs : pc'[q] = "idle" => pc[q] = "idle"
  BY DEF StopServer, Crash, Down, BootStep, Exit, Boot, RecoveryFails, MarkStagingInterrupted,
    RecoverRun, rowVars, procVars, vars
<1>2. ASSUME NEW r \in Procs PROVE runStatus'[r] = runStatus[r] \/ RunTouched(r)
  <2>1. CASE UNCHANGED runStatus
    BY <2>1
  <2>2. ASSUME NEW x \in Procs, RecoverRun(x)
        PROVE  runStatus'[r] = runStatus[r] \/ RunTouched(r)
    <3>1. CASE r # x
      BY <2>2, <3>1 DEF RecoverRun, Task!Move, Task!Resume, RunsInv, TypeInv, RunTypes
    <3>2. CASE r = x /\ runStatus[x] \in Task!Active
      <4>1. runStatus[x] # "absent"
        BY <3>2 DEF Task!Active
      <4>2. CASE kind[x[1]] = "scheduled"
        BY <2>2, <3>2, <4>1, <4>2 DEF RecoverRun, Task!Move, RunTouched, RunsInv, TypeInv, RunTypes
      <4>3. CASE kind[x[1]] # "scheduled"
        <5>1. runStatus'[x] = "queued"
          BY <2>2, <4>3 DEF RecoverRun, Task!Move, Task!Resume, RunsInv, TypeInv, RunTypes
        <5> QED
          BY <3>2, <4>1, <5>1 DEF RunTouched
      <4> QED
        BY <4>2, <4>3
    <3> QED
      BY <2>2, <3>1, <3>2 DEF RecoverRun, Task!Move, Task!Resume
  <2>3. UNCHANGED runStatus \/ \E x \in Procs : RecoverRun(x)
    BY DEF StopServer, Crash, Down, BootStep, Exit, Boot, RecoveryFails, MarkStagingInterrupted, vars
  <2> QED
    BY <2>1, <2>2, <2>3
<1> QED
  BY <1>1, <1>2, CreatorFacts DEF InterruptStep

\* The queue and a cancellation interrupt no run.
LEMMA QueueInterrupts ==
  ASSUME RunsInv, NEW t \in Transfers, Take(t) \/ Expire(t)
  PROVE  InterruptStep
<1>1. UNCHANGED <<kind, runStatus>>
  BY DEF Take, Expire, rowVars
<1>2. CASE Expire(t)
  BY <1>1, <1>2, CreatorFacts DEF Expire, procVars, InterruptStep
<1>3. CASE Take(t)
  <2>1. tries[t] + 1 \in 1 .. MaxAttempts
    BY <1>3, BoundsAssumption DEF Take, Queue!Try, RunsInv, TypeInv, QueueTypes
  <2>2. PICK p \in Procs : Goto(p, "load")
    BY <1>3, <2>1, AttemptFacts DEF Take
  <2> QED
    BY <1>1, <2>2, GotoInterrupts
<1> QED
  BY <1>2, <1>3

\* There is no run in the initial states.
LEMMA InterruptStart == Init => InterruptInv
BY ProcFacts DEF Init, Task!Init, InterruptInv, FreshOK, OnlyScheduledInterrupted

\* Every step keeps InterruptInv.
LEMMA InterruptNext ==
  ASSUME RunsInv, InterruptInv, [Next]_vars
  PROVE  InterruptInv'
<1>1. CASE \E t \in Transfers : Accept(t) \/ StagingOver(t) \/ Take(t) \/ Expire(t) \/ AskCancel(t)
  BY <1>1, AcceptInterrupts, CreatorInterrupts, QueueInterrupts, InterruptFrame
<1>2. CASE \E p \in Procs : ProcessStep(p) \/ TransferOver(p)
  <2> PICK p \in Procs : ProcessStep(p) \/ TransferOver(p)
    BY <1>2
  <2>1. p[1] \in Transfers
    BY ProcFacts
  <2>2. \/ SyncStep(p) \/ Fail(p) \/ AttemptStep(p) \/ TransferOver(p)
        \/ CreatorStep(p[1]) \/ CancelQueue(p[1]) \/ CancelRow(p[1])
    BY DEF ProcessStep
  <2>3. InterruptStep
    BY <2>1, <2>2, SyncInterrupts, AttemptInterrupts, CreatorInterrupts
  <2> QED
    BY <2>3, InterruptFrame
<1>3. CASE StopServer \/ Crash \/ BootStep \/ UNCHANGED vars
  BY <1>3, ServerInterrupts, InterruptFrame
<1> QED
  BY <1>1, <1>2, <1>3 DEF Next

\* Only the run of a scheduled task is ever shown as interrupted by a restart:
\* the run of a transfer that a user asked for goes back to the queue with it
\* (RecoverInterrupted, ResumeQueued).
THEOREM OnlyScheduledAreInterrupted == Spec => []OnlyScheduledInterrupted
<1>1. Init => InterruptInv
  BY InterruptStart
<1>2. InterruptInv /\ RunsInv /\ [Next]_vars => InterruptInv'
  BY InterruptNext
<1>3. InterruptInv => OnlyScheduledInterrupted
  BY DEF InterruptInv
<1> QED
  BY <1>1, <1>2, <1>3, RunsInvariance, PTL DEF Spec
=============================================================================
