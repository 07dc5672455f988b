------------------------------- MODULE Uploads -------------------------------
(***************************************************************************)
(* Uploads of the web client with their progress (uploadFile of the        *)
(* transfer manager) and the server's side of them (ws/sftp_upload.go,     *)
(* UploadFileStream).  The page runs a few uploads at a time, the others   *)
(* queue; each creates a task on the server, may watch it on a socket or   *)
(* poll it, and sends the file.  The entry in the list is written by the   *)
(* call, by its HTTP progress, by the socket, by the polling and by the    *)
(* answer to a cancellation, which the server may get before, while or     *)
(* after it has the file.                                                  *)
(***************************************************************************)
EXTENDS Naturals, Sequences, FiniteSets

CONSTANTS
  Files,         \* the uploads of a page
  Watched,       \* those that want a progress socket (enableWebSocket)
  Cancellable,   \* those the user may cancel
  MaxConcurrent  \* of the limiter of the page

ASSUME UploadAssumption ==
  /\ IsFiniteSet(Files)
  /\ Watched \subseteq Files /\ Cancellable \subseteq Files
  /\ MaxConcurrent \in Nat \ {0}

VARIABLES
  \* the page
  upload,   \* uploadFile
  bar,      \* the status of the entry in the list
  active,   \* state.active of the limiter
  queue,    \* state.queue
  mark,     \* cancelledBeforeStart
  watcher,  \* the socket, as the page sees it
  polling,  \* the timer that polls the task
  post,     \* the POST of a cancellation
  word,     \* a cancel message is on its way on the socket
  \* the server
  record,   \* the status of the task
  stream,   \* UploadFileStream
  cut,      \* its context is cancelled
  reply,    \* its answer
  joined,   \* connections[f] is the page's socket
  tidings,  \* statuses on their way to the page on the socket
  heard     \* the server took a cancellation before it began to copy

limiterVars == <<active, queue>>
listVars == <<upload, bar, mark, watcher, polling>>
cancelVars == <<post, word>>
taskVars == <<record, stream, cut, reply, heard>>
uploadVars == <<limiterVars, listVars, cancelVars, taskVars, joined, tidings>>

Settled == {"completed", "failed", "cancelled"}
Working == {"ticket", "opening", "token", "sending"}
Registered == {"registered", "copying", "stopping"}

UploadTypeOK ==
  /\ upload \in [Files -> {"idle", "creating", "queued", "returned"} \cup Working]
  /\ bar \in [Files -> {"absent", "pending", "uploading"} \cup Settled]
  /\ active \in 0 .. MaxConcurrent
  /\ queue \in Seq(Files)
  /\ mark \in [Files -> BOOLEAN]
  /\ watcher \in [Files -> {"none", "dialing", "open", "closed"}]
  /\ polling \in [Files -> BOOLEAN]
  /\ post \in [Files -> {"none", "sent", "answered"}]
  /\ word \in [Files -> BOOLEAN]
  /\ record \in [Files -> {"absent", "pending", "uploading"} \cup Settled]
  /\ stream \in [Files -> {"none", "sent", "prepared", "ended"} \cup Registered]
  /\ cut \in [Files -> BOOLEAN]
  /\ reply \in [Files -> {"none"} \cup Settled]
  /\ joined \in [Files -> BOOLEAN]
  /\ tidings \in [Files -> Seq({"uploading", "completed", "cancelled"})]
  /\ heard \in [Files -> BOOLEAN]

UploadInit ==
  /\ upload = [f \in Files |-> "idle"]
  /\ bar = [f \in Files |-> "absent"]
  /\ active = 0
  /\ queue = <<>>
  /\ mark = [f \in Files |-> FALSE]
  /\ watcher = [f \in Files |-> "none"]
  /\ polling = [f \in Files |-> FALSE]
  /\ post = [f \in Files |-> "none"]
  /\ word = [f \in Files |-> FALSE]
  /\ record = [f \in Files |-> "absent"]
  /\ stream = [f \in Files |-> "none"]
  /\ cut = [f \in Files |-> FALSE]
  /\ reply = [f \in Files |-> "none"]
  /\ joined = [f \in Files |-> FALSE]
  /\ tidings = [f \in Files |-> <<>>]
  /\ heard = [f \in Files |-> FALSE]

-----------------------------------------------------------------------------
(* The entry, the limiter and the end of a call *)

\* An update of an entry that was cleared changes nothing.
Show(f, status) == IF bar[f] = "absent" THEN "absent" ELSE status

SetBar(f, status) == bar' = [bar EXCEPT ![f] = Show(f, status)]
SetUpload(f, step) == upload' = [upload EXCEPT ![f] = step]

\* Those in the queue whose call goes on when their turn comes.
Unmarked == {i \in DOMAIN queue : ~mark[queue[i]]}

\* The place in the queue of the one that gets the slot that f gives up.
\* Those before it find their mark, and give the slot up at once.
IsTurn(k) == k \in Unmarked /\ \A i \in Unmarked : k <= i
Passed(k) == {queue[i] : i \in 1 .. k - 1}

\* Mutant of GiveUpSlot: who finds its mark returns with the slot.
MutantGiveUpSlot(f, status) ==
  \/ /\ queue = <<>>
     /\ active' = active - 1
     /\ upload' = [upload EXCEPT ![f] = "returned"]
     /\ bar' = [bar EXCEPT ![f] = Show(f, status)]
     /\ mark' = [mark EXCEPT ![f] = FALSE]
     /\ UNCHANGED queue
  \/ /\ queue # <<>>
     /\ LET g == Head(queue) IN
        /\ upload' = [upload EXCEPT ![f] = "returned",
                                    ![g] = IF mark[g] THEN "returned" ELSE "ticket"]
        /\ bar' = [bar EXCEPT ![f] = Show(f, status),
                              ![g] = IF mark[g] THEN Show(g, "cancelled") ELSE @]
        /\ mark' = [mark EXCEPT ![f] = FALSE, ![g] = FALSE]
     /\ queue' = Tail(queue)
     /\ UNCHANGED active

\* release(), with what the calls it wakes do before they wait again.
GiveUpSlot(f, status) ==
  LET Ends(passed, next) ==
        /\ upload' = [g \in Files |->
             IF g = f \/ g \in passed THEN "returned"
             ELSE IF g = next THEN "ticket" ELSE upload[g]]
        /\ bar' = [g \in Files |->
             IF g = f THEN Show(f, status)
             ELSE IF g \in passed THEN Show(g, "cancelled") ELSE bar[g]]
        /\ mark' = [g \in Files |-> mark[g] /\ g # f /\ g \notin passed]
  IN
  \/ \E k \in DOMAIN queue :
       /\ IsTurn(k)
       /\ Ends(Passed(k), queue[k])
       /\ queue' = SubSeq(queue, k + 1, Len(queue))
       /\ UNCHANGED active
  \/ /\ Unmarked = {}
     /\ Ends(Passed(Len(queue) + 1), f)
     /\ queue' = <<>>
     /\ active' = active - 1

\* The socket is closed, also if it is still connecting.
CloseWatcher(f) ==
  /\ watcher' = [watcher EXCEPT ![f] = IF @ = "none" THEN "none" ELSE "closed"]
  /\ joined' = [joined EXCEPT ![f] = FALSE]
  /\ tidings' = [tidings EXCEPT ![f] = <<>>]

\* Mutant of Return: the socket stays open.
MutantReturn(f, status) ==
  /\ GiveUpSlot(f, status)
  /\ polling' = [polling EXCEPT ![f] = FALSE]
  /\ UNCHANGED <<watcher, joined, tidings>>

\* uploadFile ends: its last update of the entry, and its finally.
Return(f, status) ==
  /\ GiveUpSlot(f, status)
  /\ polling' = [polling EXCEPT ![f] = FALSE]
  /\ CloseWatcher(f)

-----------------------------------------------------------------------------
(* The call *)

StartUpload(f) ==
  /\ upload[f] = "idle"
  /\ SetUpload(f, "creating")
  /\ UNCHANGED <<bar, mark, watcher, polling, limiterVars, cancelVars, taskVars, joined, tidings>>

\* The server has a task for it, the list an entry; acquire().
UploadCreated(f) ==
  /\ upload[f] = "creating"
  /\ record' = [record EXCEPT ![f] = "pending"]
  /\ bar' = [bar EXCEPT ![f] = "pending"]
  /\ \/ /\ active < MaxConcurrent
        /\ active' = active + 1
        /\ SetUpload(f, "ticket")
        /\ UNCHANGED queue
     \/ /\ active >= MaxConcurrent
        /\ queue' = Append(queue, f)
        /\ SetUpload(f, "queued")
        /\ UNCHANGED active
  /\ UNCHANGED <<mark, watcher, polling, cancelVars, stream, cut, reply, heard, joined, tidings>>

UploadNotCreated(f) ==
  /\ upload[f] = "creating"
  /\ SetUpload(f, "returned")
  /\ UNCHANGED <<bar, mark, watcher, polling, limiterVars, cancelVars, taskVars, joined, tidings>>

UploadDials(f) ==
  /\ upload[f] = "ticket"
  /\ f \in Watched
  /\ SetUpload(f, "opening")
  /\ watcher' = [watcher EXCEPT ![f] = "dialing"]
  /\ UNCHANGED <<bar, mark, polling, limiterVars, cancelVars, taskVars, joined, tidings>>

\* No ticket, or no progress socket is wanted: the task is polled.
UploadPolls(f) ==
  /\ upload[f] = "ticket"
  /\ SetUpload(f, "token")
  /\ polling' = [polling EXCEPT ![f] = TRUE]
  /\ UNCHANGED <<bar, mark, watcher, limiterVars, cancelVars, taskVars, joined, tidings>>

\* waitForTransferWebSocketOpen: after two seconds the upload goes on without.
UploadOpens(f) ==
  /\ watcher[f] = "dialing"
  /\ joined[f]
  /\ watcher' = [watcher EXCEPT ![f] = "open"]
  /\ SetUpload(f, IF upload[f] = "opening" THEN "token" ELSE upload[f])
  /\ UNCHANGED <<bar, mark, polling, limiterVars, cancelVars, taskVars, joined, tidings>>

UploadOpenTimesOut(f) ==
  /\ upload[f] = "opening"
  /\ SetUpload(f, "token")
  /\ UNCHANGED <<bar, mark, watcher, polling, limiterVars, cancelVars, taskVars, joined, tidings>>

WatcherDies(f) ==
  /\ watcher[f] \in {"dialing", "open"}
  /\ CloseWatcher(f)
  /\ UNCHANGED <<upload, bar, mark, polling, limiterVars, cancelVars, taskVars>>

\* ensureFreshAccessToken has a token: the request is registered and sent.
UploadSends(f) ==
  /\ upload[f] = "token"
  /\ SetUpload(f, "sending")
  /\ stream' = [stream EXCEPT ![f] = "sent"]
  /\ UNCHANGED <<bar, mark, watcher, polling, limiterVars, cancelVars, record, cut, reply, heard, joined, tidings>>

UploadHasNoToken(f) ==
  /\ upload[f] = "token"
  /\ Return(f, "failed")
  /\ UNCHANGED <<cancelVars, taskVars>>

HttpProgress(f) ==
  /\ upload[f] = "sending"
  /\ SetBar(f, "uploading")
  /\ UNCHANGED <<upload, mark, watcher, polling, limiterVars, cancelVars, taskVars, joined, tidings>>

\* onmessage of bindUploadTransferProgressSocket.
WatcherReads(f) ==
  /\ watcher[f] = "open"
  /\ tidings[f] # <<>>
  /\ SetBar(f, Head(tidings[f]))
  /\ tidings' = [tidings EXCEPT ![f] = Tail(@)]
  /\ UNCHANGED <<upload, mark, watcher, polling, limiterVars, cancelVars, taskVars, joined>>

\* A question and its answer: what comes back when the timer is stopped, or
\* the entry settled, is not used.
Poll(f) ==
  /\ polling[f]
  /\ record[f] # "absent"
  /\ IF bar[f] \in Settled
     THEN polling' = [polling EXCEPT ![f] = FALSE] /\ UNCHANGED bar
     ELSE /\ SetBar(f, record[f])
          /\ polling' = [polling EXCEPT ![f] = record[f] \notin Settled]
  /\ UNCHANGED <<upload, mark, watcher, limiterVars, cancelVars, taskVars, joined, tidings>>

\* The answer to the request.
UploadAnswered(f) ==
  /\ upload[f] = "sending"
  /\ reply[f] # "none"
  /\ Return(f, reply[f])
  /\ UNCHANGED <<cancelVars, taskVars>>

UploadConnectionFails(f) ==
  /\ upload[f] = "sending"
  /\ Return(f, "failed")
  /\ UNCHANGED <<cancelVars, taskVars>>

-----------------------------------------------------------------------------
(* Cancellation and the list *)

\* cancelTransferRuntimeTask for an entry that is active: the mark, the
\* message, the abort of the request, which ends the call, and the POST (one
\* at a time: a bound).
CancelUpload(f) ==
  /\ f \in Cancellable
  /\ bar[f] \in {"pending", "uploading"}
  /\ post[f] = "none"
  /\ word' = [word EXCEPT ![f] = @ \/ watcher[f] = "open"]
  /\ post' = [post EXCEPT ![f] = "sent"]
  /\ \/ /\ upload[f] = "sending"
        /\ Return(f, "cancelled")
     \/ /\ upload[f] # "sending"
        /\ mark' = [mark EXCEPT ![f] = TRUE]
        /\ UNCHANGED <<upload, bar, watcher, polling, limiterVars, joined, tidings>>
  /\ UNCHANGED taskVars

\* markCancelled, whatever the answer and whatever happened meanwhile.
CancelUploadShown(f) ==
  /\ post[f] = "answered"
  /\ post' = [post EXCEPT ![f] = "none"]
  /\ SetBar(f, "cancelled")
  /\ UNCHANGED <<upload, mark, watcher, polling, limiterVars, word, taskVars, joined, tidings>>

\* clearCompleted: the handles of what has settled go, their marks too.
ClearSettled ==
  LET old == {f \in Files : bar[f] \in Settled} IN
  /\ old # {}
  /\ bar' = [f \in Files |-> IF f \in old THEN "absent" ELSE bar[f]]
  /\ mark' = [f \in Files |-> mark[f] /\ f \notin old]
  /\ watcher' = [f \in Files |->
       IF f \in old /\ watcher[f] # "none" THEN "closed" ELSE watcher[f]]
  /\ joined' = [f \in Files |-> joined[f] /\ f \notin old]
  /\ tidings' = [f \in Files |-> IF f \in old THEN <<>> ELSE tidings[f]]
  /\ UNCHANGED <<upload, polling, limiterVars, cancelVars, taskVars>>

-----------------------------------------------------------------------------
(* The server *)

\* SendProgress: the status of the task, and the message for its socket.
\* The page makes no use of "error".  What it has not read is not repeated.
Tell(f, status) ==
  /\ record' = [record EXCEPT ![f] = IF @ = "absent" THEN "absent" ELSE status]
  /\ tidings' = [tidings EXCEPT ![f] =
       IF /\ joined[f]
          /\ status # "failed"
          /\ @ = <<>> \/ @[Len(@)] # status
       THEN Append(@, status) ELSE @]

SetStream(f, step) == stream' = [stream EXCEPT ![f] = step]

\* The handler of the socket: the task is there; it is registered.
WatcherJoins(f) ==
  /\ watcher[f] = "dialing"
  /\ record[f] # "absent"
  /\ ~joined[f]
  /\ joined' = [joined EXCEPT ![f] = TRUE]
  /\ UNCHANGED <<listVars, limiterVars, cancelVars, taskVars, tidings>>

Answer(f, status) ==
  /\ SetStream(f, "ended")
  /\ reply' = [reply EXCEPT ![f] = status]

\* Mutant of StreamArrives: a cancelled upload is dropped without an answer.
MutantStreamArrives(f) ==
  /\ stream[f] = "sent"
  /\ SetStream(f, IF record[f] \in {"absent", "cancelled"} THEN "ended" ELSE "prepared")
  /\ UNCHANGED <<reply, record, cut, heard, listVars, limiterVars, cancelVars, joined, tidings>>

\* ValidateTaskOwnership, PrepareTask, IsTaskCancelled.
StreamArrives(f) ==
  /\ stream[f] = "sent"
  /\ \/ record[f] = "absent" /\ Answer(f, "failed")
     \/ record[f] = "cancelled" /\ Answer(f, "cancelled")
     \/ /\ record[f] \notin {"absent", "cancelled"}
        /\ SetStream(f, "prepared")
        /\ UNCHANGED reply
  /\ UNCHANGED <<record, cut, heard, listVars, limiterVars, cancelVars, joined, tidings>>

\* A request that was aborted may not arrive at all.
StreamLost(f) ==
  /\ stream[f] = "sent"
  /\ upload[f] = "returned"
  /\ SetStream(f, "ended")
  /\ UNCHANGED <<record, cut, reply, heard, listVars, limiterVars, cancelVars, joined, tidings>>

\* Mutant of StreamRegisters: a cancellation since the last look is not seen.
MutantStreamRegisters(f) ==
  /\ stream[f] = "prepared"
  /\ SetStream(f, "registered")
  /\ UNCHANGED <<cut, record, reply, heard, listVars, limiterVars, cancelVars, joined, tidings>>

\* RegisterCancelFunc.
StreamRegisters(f) ==
  /\ stream[f] = "prepared"
  /\ SetStream(f, "registered")
  /\ cut' = [cut EXCEPT ![f] = @ \/ record[f] = "cancelled"]
  /\ UNCHANGED <<record, reply, heard, listVars, limiterVars, cancelVars, joined, tidings>>

\* There is a connection of the pool: "started", whatever the task said.  The
\* copy looks at the context before it reads.
StreamStarts(f) ==
  /\ stream[f] = "registered"
  /\ SetStream(f, IF cut[f] THEN "stopping" ELSE "copying")
  /\ Tell(f, "uploading")
  /\ UNCHANGED <<cut, reply, heard, listVars, limiterVars, cancelVars, joined>>

StreamGoesOn(f) ==
  /\ stream[f] = "copying"
  /\ Tell(f, "uploading")
  /\ UNCHANGED <<stream, cut, reply, heard, listVars, limiterVars, cancelVars, joined>>

\* A cancellation after the last look at the context is too late.
StreamDone(f) ==
  /\ stream[f] = "copying"
  /\ Tell(f, "completed")
  /\ Answer(f, "completed")
  /\ UNCHANGED <<cut, heard, listVars, limiterVars, cancelVars, joined>>

\* No connection, an error of the file or of the body, or the context.
StreamFails(f) ==
  /\ stream[f] \in Registered
  /\ \E status \in {"failed", "cancelled"} :
       /\ status = "cancelled" => cut[f] /\ stream[f] # "registered"
       /\ Tell(f, status)
       /\ Answer(f, status)
  /\ UNCHANGED <<cut, heard, listVars, limiterVars, cancelVars, joined>>

\* The context of a request whose client is gone.
StreamCut(f) ==
  /\ stream[f] \in {"prepared"} \cup Registered
  /\ upload[f] = "returned"
  /\ ~cut[f]
  /\ cut' = [cut EXCEPT ![f] = TRUE]
  /\ UNCHANGED <<record, stream, reply, heard, listVars, limiterVars, cancelVars, joined, tidings>>

\* CancelTaskForUser.
TakeCancel(f) ==
  /\ cut' = [cut EXCEPT ![f] = @ \/ stream[f] \in Registered]
  /\ record' = [record EXCEPT ![f] =
       IF stream[f] \in Registered \/ @ \in {"absent", "completed", "failed"}
       THEN @ ELSE "cancelled"]
  /\ heard' = [heard EXCEPT ![f] =
       @ \/ (record[f] # "absent" /\ stream[f] \notin {"copying", "ended"})]
  /\ UNCHANGED <<stream, reply>>

PostCancelsUpload(f) ==
  /\ post[f] = "sent"
  /\ TakeCancel(f)
  /\ post' = [post EXCEPT ![f] = "answered"]
  /\ UNCHANGED <<word, listVars, limiterVars, joined, tidings>>

PostLost(f) ==
  /\ post[f] = "sent"
  /\ post' = [post EXCEPT ![f] = "answered"]
  /\ UNCHANGED <<word, taskVars, listVars, limiterVars, joined, tidings>>

WordCancelsUpload(f) ==
  /\ word[f]
  /\ TakeCancel(f)
  /\ word' = [word EXCEPT ![f] = FALSE]
  /\ UNCHANGED <<post, listVars, limiterVars, joined, tidings>>

\* cleanupExpiredTasks: a task of an hour without socket and cancel function.
TaskExpires(f) ==
  /\ record[f] # "absent"
  /\ ~joined[f]
  /\ stream[f] \notin Registered
  /\ record' = [record EXCEPT ![f] = "absent"]
  /\ UNCHANGED <<stream, cut, reply, heard, listVars, limiterVars, cancelVars, joined, tidings>>

-----------------------------------------------------------------------------

CreatingEnds(f) == UploadCreated(f) \/ UploadNotCreated(f)
TicketEnds(f) == UploadDials(f) \/ UploadPolls(f)
WatcherStep(f) ==
  WatcherJoins(f) \/ UploadOpens(f) \/ WatcherDies(f) \/ WatcherReads(f)
TokenEnds(f) == UploadSends(f) \/ UploadHasNoToken(f)
StreamOver(f) == StreamDone(f) \/ StreamFails(f)
CancelStep(f) == PostCancelsUpload(f) \/ PostLost(f) \/ CancelUploadShown(f)

UploadStep(f) ==
  \/ StartUpload(f) \/ CreatingEnds(f) \/ TicketEnds(f)
  \/ UploadOpenTimesOut(f) \/ TokenEnds(f) \/ WatcherStep(f)
  \/ HttpProgress(f) \/ Poll(f) \/ UploadAnswered(f) \/ UploadConnectionFails(f)
  \/ CancelUpload(f) \/ CancelStep(f) \/ WordCancelsUpload(f)
  \/ StreamArrives(f) \/ StreamLost(f) \/ StreamRegisters(f) \/ StreamStarts(f)
  \/ StreamGoesOn(f) \/ StreamOver(f) \/ StreamCut(f) \/ TaskExpires(f)

UploadNext == ClearSettled \/ \E f \in Files : UploadStep(f)

UploadSpec == UploadInit /\ [][UploadNext]_uploadVars

\* Requests are answered or fail, the wait for a socket has its limit, the
\* server goes on with a request, and a body that is being sent ends.
UploadFairness ==
  \A f \in Files :
    /\ WF_uploadVars(CreatingEnds(f))
    /\ WF_uploadVars(TicketEnds(f))
    /\ WF_uploadVars(UploadOpenTimesOut(f))
    /\ WF_uploadVars(TokenEnds(f))
    /\ WF_uploadVars(StreamArrives(f))
    /\ WF_uploadVars(StreamRegisters(f))
    /\ WF_uploadVars(StreamStarts(f))
    /\ WF_uploadVars(StreamOver(f))
    /\ WF_uploadVars(UploadAnswered(f))
-----------------------------------------------------------------------------
(* Properties *)

\* Every slot is with a call that works, and nobody queues while one is free:
\* a call that is cancelled in the queue hands on the slot it gets, a call
\* that is aborted gives up its own once (transfer-runtime.ts:399).
SlotsBalance ==
  /\ active = Cardinality({f \in Files : upload[f] \in Working})
  /\ queue # <<>> => active = MaxConcurrent

\* What has been cancelled before the server began to copy is never
\* completed: wherever the request was, also between the look at the task
\* and the registration of its cancel function (sftp_upload.go:512), and
\* although "started" overwrites the cancelled task.
CancelSticks ==
  \A f \in Files : heard[f] => record[f] # "completed"

\* When a call has returned, its entry has settled, and stays so: no message,
\* poll or progress that was under way turns it back (releaseTransferRuntimeTaskHandles).
EndedStaysEnded ==
  \A f \in Files : upload[f] = "returned" => bar[f] \in Settled \cup {"absent"}

\* Every upload that waits for its turn gets it or is cancelled, and its call
\* returns, whatever the others do.
UploadsEnd ==
  \A f \in Files : upload[f] = "queued" ~> upload[f] = "returned"
=============================================================================
