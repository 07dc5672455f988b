------------------------------ MODULE Transfers ------------------------------
(***************************************************************************)
(* Background transfers (domain/transferjob): a transfer has a row of its  *)
(* own, a job in the job queue that moves it on, a run in the task center  *)
(* that shows it, and a file on the disk of the server.  Three kinds of    *)
(* process write them: the request that creates the transfer, the attempts *)
(* of the queue, and a request to cancel.  Each writes the row with a      *)
(* conditional update and then copies the row it reads back into the run   *)
(* (syncTaskRun), in statements of their own.                              *)
(*                                                                         *)
(* The queue and the task center are used through what they promise:       *)
(* JobLifecycle and TaskLifecycle.                                         *)
(***************************************************************************)
EXTENDS Naturals

CONSTANTS
  Transfers,    \* transfers, one row each
  Kinds,        \* the kinds of transfer that are asked for
  MaxAttempts,  \* attempts of the queue (EnqueueOptions.MaxAttempts)
  Cancellable,  \* the transfers that a user asks to cancel
  Stalls,       \* TRUE if a live attempt may lose its lease
  Outages,      \* TRUE if a statement may be refused, or its client be gone
  MaxCrashes,   \* bound on the times the server stops
  NoRun

ASSUME KindsAssumption == Kinds \subseteq {"upload", "download", "scheduled"}

ASSUME BoundsAssumption ==
  /\ MaxAttempts \in Nat \ {0}
  /\ MaxCrashes \in Nat
  /\ Stalls \in BOOLEAN
  /\ Outages \in BOOLEAN

ASSUME CancellableAssumption == Cancellable \subseteq Transfers

\* Processes.  A task run is named after the process that creates it.
Procs == Transfers \X (0 .. MaxAttempts + 1)
Creator(t) == <<t, 0>>
Attempt(t, k) == <<t, k>>
Canceller(t) == <<t, MaxAttempts + 1>>
IsAttempt(p) == p[2] \in 1 .. MaxAttempts

ASSUME NoRunAssumption == NoRun \notin Procs

VARIABLES
  kind,       \* kind[t]: what was asked for; scheduled: a task's download
  job,        \* job[t]: the status of the transfer's row
  runOf,      \* runOf[t]: its task_run_id
  file,       \* file[t]: the upload waiting to be sent, or the download
  phase,      \* phase[t], tries[t]: the transfer's job in the queue
  tries,
  runStatus,  \* runStatus[p]: the task run that process p created
  pc,         \* pc[p]: the next step of process p
  next,       \* next[p]: the step after the synchronization p is in
  seen,       \* seen[p]: the row's status that p read
  seenRun,    \* seenRun[p]: the task_run_id that p read
  stopped,    \* stopped[p]: the context of attempt p is cancelled
  server,     \* what the server is doing
  unfinished, \* task runs that the recovery has not visited yet
  crashes     \* times the server stopped so far

rowVars == <<kind, job, runOf, file>>
queueVars == <<phase, tries>>
procVars == <<pc, next, seen, seenRun, stopped>>
serverVars == <<server, unfinished, crashes>>
vars == <<rowVars, queueVars, runStatus, procVars, serverVars>>

Queue == INSTANCE JobLifecycle WITH Jobs <- Transfers
Task == INSTANCE TaskLifecycle WITH Runs <- Procs, status <- runStatus

Active == {"staging", "queued", "running"}
Terminal == {"completed", "failed", "cancelled"}

SyncPoints == {"sync", "create", "bind", "apply"}
CreatorPoints ==
  SyncPoints \cup {"idle", "opened", "staging", "enqueue", "fail", "gone"}
AttemptPoints ==
  SyncPoints \cup {"idle", "load", "begin", "open", "transfer", "complete",
                   "failctx", "fail", "return", "broken", "gone"}
CancellerPoints == SyncPoints \cup {"idle", "queue", "row", "gone"}

TypeOK ==
  /\ kind \in [Transfers -> Kinds \cup {"none"}]
  /\ job \in [Transfers -> {"absent"} \cup Active \cup Terminal]
  /\ runOf \in [Transfers -> Procs \cup {NoRun}]
  /\ file \in [Transfers -> {"none", "partial", "whole"}]
  /\ Queue!TypeOK
  /\ Task!TypeOK
  /\ next \in [Procs -> CreatorPoints \cup AttemptPoints \cup CancellerPoints]
  /\ seen \in [Procs -> {"absent"} \cup Active \cup Terminal]
  /\ seenRun \in [Procs -> Procs \cup {NoRun}]
  /\ stopped \in [Procs -> BOOLEAN]
  /\ server \in {"up", "stopping", "down", "recovering"}
  /\ unfinished \in SUBSET Procs
  /\ crashes \in Nat
  /\ DOMAIN pc = Procs
  /\ \A t \in Transfers :
       /\ pc[Creator(t)] \in CreatorPoints
       /\ \A k \in 1 .. MaxAttempts : pc[Attempt(t, k)] \in AttemptPoints
       /\ pc[Canceller(t)] \in CancellerPoints

Init ==
  /\ kind = [t \in Transfers |-> "none"]
  /\ job = [t \in Transfers |-> "absent"]
  /\ runOf = [t \in Transfers |-> NoRun]
  /\ file = [t \in Transfers |-> "none"]
  /\ Queue!Init
  /\ Task!Init
  /\ pc = [p \in Procs |-> "idle"]
  /\ next = [p \in Procs |-> "idle"]
  /\ seen = [p \in Procs |-> "absent"]
  /\ seenRun = [p \in Procs |-> NoRun]
  /\ stopped = [p \in Procs |-> FALSE]
  /\ server = "up"
  /\ unfinished = {}
  /\ crashes = 0

-----------------------------------------------------------------------------
(* Steps of a process *)

\* The locals of syncTaskRun go out of scope, and the context at the end.
Goto(p, point) ==
  /\ pc' = [pc EXCEPT ![p] = point]
  /\ next' = [next EXCEPT ![p] = "idle"]
  /\ seen' = [seen EXCEPT ![p] = "absent"]
  /\ seenRun' = [seenRun EXCEPT ![p] = NoRun]
  /\ stopped' = [stopped EXCEPT ![p] = @ /\ point # "gone"]

\* syncTaskRun, and what comes after it.
Sync(p, after) ==
  /\ pc' = [pc EXCEPT ![p] = "sync"]
  /\ next' = [next EXCEPT ![p] = after]
  /\ UNCHANGED <<seen, seenRun, stopped>>

SetJob(t, from, to) ==
  /\ job[t] \in from
  /\ job' = [job EXCEPT ![t] = to]
  /\ UNCHANGED <<kind, runOf, file>>

SetFile(t, content) ==
  /\ file' = [file EXCEPT ![t] = content]
  /\ UNCHANGED <<kind, job, runOf>>

\* The file is the server's copy of what a download brings.
IsDownload(t) == kind[t] \in {"download", "scheduled"}

\* Requests are served until the process exits, new ones too.
Serving == server \in {"up", "stopping"}

-----------------------------------------------------------------------------
(* syncTaskRun: read the row, make sure it has a run, copy the status *)

\* ensureTaskRun creates a run for a row without one, unless the row is
\* still being staged.
ReadRow(p) ==
  LET t == p[1]
      shown == runOf[t] # NoRun \/ job[t] # "staging" IN
  /\ pc[p] = "sync"
  /\ \/ /\ shown
        /\ pc' = [pc EXCEPT ![p] = IF runOf[t] = NoRun THEN "create" ELSE "apply"]
        /\ seen' = [seen EXCEPT ![p] = job[t]]
        /\ seenRun' = [seenRun EXCEPT ![p] = runOf[t]]
        /\ UNCHANGED <<next, stopped>>
     \/ /\ ~shown
        /\ Goto(p, next[p])
  /\ UNCHANGED <<rowVars, queueVars, runStatus, serverVars>>

ReadRowFails(p) ==
  /\ pc[p] = "sync"
  /\ Outages
  /\ Goto(p, next[p])
  /\ UNCHANGED <<rowVars, queueVars, runStatus, serverVars>>

CreateRun(p) ==
  /\ pc[p] = "create"
  /\ Task!Create(p)
  /\ pc' = [pc EXCEPT ![p] = "bind"]
  /\ seenRun' = [seenRun EXCEPT ![p] = p]
  /\ UNCHANGED <<next, seen, stopped, rowVars, queueVars, serverVars>>

\* Refused; or p has created its run already: a bound, since a process
\* whose binding is refused creates another one at its next step.
CreateRunFails(p) ==
  /\ pc[p] = "create"
  /\ Outages
  /\ Goto(p, next[p])
  /\ UNCHANGED <<rowVars, queueVars, runStatus, serverVars>>

\* The row gets the run whatever it refers to by now.  The request that
\* created the transfer calls ensureTaskRun only and enqueues next.
BindRun(p) ==
  /\ pc[p] = "bind"
  /\ \/ runOf' = [runOf EXCEPT ![p[1]] = p]
     \/ Outages /\ UNCHANGED runOf
  /\ \/ /\ next[p] = "enqueue"
        /\ Goto(p, "enqueue")
     \/ /\ next[p] # "enqueue"
        /\ pc' = [pc EXCEPT ![p] = "apply"]
        /\ UNCHANGED <<next, seen, seenRun, stopped>>
  /\ UNCHANGED <<kind, job, file, queueVars, runStatus, serverVars>>

\* The status of the run for a status of the row; none: no change.
Shown(status) ==
  CASE status = "completed" -> "succeeded"
    [] status = "failed" -> "failed"
    [] status = "cancelled" -> "canceled"
    [] OTHER -> "none"

\* Start and Complete are conditional updates, of an active run.
CopyStatus(r, status) ==
  \/ /\ status = "running"
     /\ Task!Start(r)
  \/ /\ status \in Terminal
     /\ Task!Move(r, Task!Active, Shown(status))
  \/ /\ \/ status = "running" /\ runStatus[r] # "queued"
        \/ status \in Terminal /\ runStatus[r] \notin Task!Active
        \/ status \notin Terminal \cup {"running"}
        \/ Outages
     /\ UNCHANGED runStatus

Apply(p) ==
  /\ pc[p] = "apply"
  /\ CopyStatus(seenRun[p], seen[p])
  /\ Goto(p, next[p])
  /\ UNCHANGED <<rowVars, queueVars, serverVars>>

\* Mutant of Fail: the run is not told.
MutantFail(p) ==
  /\ pc[p] \in {"fail", "failctx"}
  /\ SetJob(p[1], Active, "failed")
  /\ Goto(p, IF p = Creator(p[1]) THEN "gone" ELSE "return")
  /\ UNCHANGED <<queueVars, runStatus, serverVars>>

\* failJob; failctx: its statement runs in the context of the attempt.
Fail(p) ==
  LET t == p[1]
      after == IF p = Creator(t) THEN "gone" ELSE "return" IN
  /\ pc[p] \in {"fail", "failctx"}
  /\ \/ /\ pc[p] = "failctx" => ~stopped[p]
        /\ SetJob(t, Active, "failed")
        /\ Sync(p, after)
     \/ /\ \/ job[t] \notin Active
           \/ Outages
           \/ pc[p] = "failctx" /\ stopped[p]
        /\ UNCHANGED rowVars
        /\ Goto(p, after)
  /\ UNCHANGED <<queueVars, runStatus, serverVars>>

-----------------------------------------------------------------------------
(* The request that creates a transfer *)

\* CreateUploadJob: the row, then the body of the request is staged.
AcceptUpload(t) ==
  /\ Serving
  /\ pc[Creator(t)] = "idle"
  /\ kind' = [kind EXCEPT ![t] = "upload"]
  /\ job' = [job EXCEPT ![t] = "staging"]
  /\ file' = [file EXCEPT ![t] = "partial"]
  /\ Goto(Creator(t), "staging")
  /\ UNCHANGED <<runOf, queueVars, runStatus, serverVars>>

\* updateProgress while staging, with its syncTaskRun.
StagingProgress(t) ==
  /\ pc[Creator(t)] = "staging"
  /\ Sync(Creator(t), "staging")
  /\ UNCHANGED <<rowVars, queueVars, runStatus, serverVars>>

\* The file is there: the row is queued if it is still staging.  The
\* request goes on with ensureTaskRun for the row it has in memory.
StagingEnds(t) ==
  LET p == Creator(t) IN
  /\ pc[p] = "staging"
  /\ \/ /\ job[t] = "staging"
        /\ job' = [job EXCEPT ![t] = "queued"]
        /\ file' = [file EXCEPT ![t] = "whole"]
        /\ pc' = [pc EXCEPT ![p] = "create"]
        /\ next' = [next EXCEPT ![p] = "enqueue"]
        /\ seen' = [seen EXCEPT ![p] = "queued"]
        /\ seenRun' = [seenRun EXCEPT ![p] = NoRun]
        /\ UNCHANGED stopped
     \/ /\ job[t] # "staging"
        /\ file' = [file EXCEPT ![t] = "none"]
        /\ Goto(p, "gone")
        /\ UNCHANGED job
  /\ UNCHANGED <<kind, runOf, queueVars, runStatus, serverVars>>

\* The body ends early or is too large, the disk is full, the quota is
\* used up, or the statement that queues the row is refused.
StagingFails(t) ==
  /\ pc[Creator(t)] = "staging"
  /\ SetFile(t, "none")
  /\ Goto(Creator(t), "fail")
  /\ UNCHANGED <<queueVars, runStatus, serverVars>>

\* CreateDownloadJob for a user.
AcceptDownload(t) ==
  LET p == Creator(t) IN
  /\ Serving
  /\ pc[p] = "idle"
  /\ kind' = [kind EXCEPT ![t] = "download"]
  /\ job' = [job EXCEPT ![t] = "queued"]
  /\ pc' = [pc EXCEPT ![p] = "create"]
  /\ next' = [next EXCEPT ![p] = "enqueue"]
  /\ seen' = [seen EXCEPT ![p] = "queued"]
  /\ UNCHANGED <<runOf, file, seenRun, stopped, queueVars, runStatus, serverVars>>

\* The executor opens a run for a scheduled task: Create, then Start.
OpenScheduledRun(t) ==
  LET p == Creator(t) IN
  /\ Serving
  /\ pc[p] = "idle"
  /\ kind' = [kind EXCEPT ![t] = "scheduled"]
  /\ runStatus' = [runStatus EXCEPT ![p] = "running"]
  /\ Goto(p, "opened")
  /\ UNCHANGED <<job, runOf, file, queueVars, serverVars>>

\* RunScheduledTask: the row is created with that run.
AcceptScheduled(t) ==
  LET p == Creator(t) IN
  /\ pc[p] = "opened"
  /\ job' = [job EXCEPT ![t] = "queued"]
  /\ runOf' = [runOf EXCEPT ![t] = p]
  /\ Goto(p, "enqueue")
  /\ UNCHANGED <<kind, file, queueVars, runStatus, serverVars>>

\* No row was created: the executor fails the run.
RejectScheduled(t) ==
  LET p == Creator(t) IN
  /\ pc[p] = "opened"
  /\ \/ Task!Move(p, Task!Active, "failed")
     \/ Outages /\ UNCHANGED runStatus
  /\ Goto(p, "gone")
  /\ UNCHANGED <<rowVars, queueVars, serverVars>>

Enqueue(t) ==
  /\ pc[Creator(t)] = "enqueue"
  /\ Queue!Submit(t)
  /\ Goto(Creator(t), "gone")
  /\ UNCHANGED <<rowVars, runStatus, serverVars>>

EnqueueFails(t) ==
  /\ pc[Creator(t)] = "enqueue"
  /\ Outages
  /\ Goto(Creator(t), "fail")
  /\ UNCHANGED <<rowVars, queueVars, runStatus, serverVars>>

-----------------------------------------------------------------------------
(* The attempts of the queue *)

Owner(t) == Attempt(t, tries[t])

\* A worker takes the job and calls HandleQueueJob.
Take(t) ==
  /\ server = "up"
  /\ Queue!Try(t)
  /\ Goto(Attempt(t, tries[t] + 1), "load")
  /\ UNCHANGED <<rowVars, runStatus, serverVars>>

\* The handler reads the row, and waits for a place among those transferring.
Load(p) ==
  /\ pc[p] = "load"
  /\ \/ /\ job[p[1]] \in Terminal
        /\ Goto(p, "return")
     \/ /\ job[p[1]] \notin Terminal
        /\ \/ Goto(p, "begin")
           \/ stopped[p] /\ Goto(p, "return")
     \/ /\ Outages
        /\ Goto(p, "broken")
  /\ UNCHANGED <<rowVars, queueVars, runStatus, serverVars>>

\* Mutant of Begin: a row that another attempt had set running is refused.
MutantBegin(p) ==
  /\ pc[p] = "begin"
  /\ \/ /\ SetJob(p[1], {"queued"}, "running")
        /\ Sync(p, "open")
     \/ /\ job[p[1]] # "queued"
        /\ Goto(p, "return")
        /\ UNCHANGED rowVars
  /\ UNCHANGED <<queueVars, runStatus, serverVars>>

\* executeUpload, executeDownload: a row that is queued, or that an earlier
\* attempt left running, becomes running.
Begin(p) ==
  LET t == p[1] IN
  /\ pc[p] = "begin"
  /\ \/ /\ ~stopped[p]
        /\ SetJob(t, {"queued", "running"}, "running")
        /\ Sync(p, "open")
     \/ /\ ~stopped[p]
        /\ job[t] \notin {"queued", "running"}
        /\ Goto(p, "return")
        /\ UNCHANGED rowVars
     \/ /\ stopped[p] \/ Outages
        /\ Goto(p, "failctx")
        /\ UNCHANGED rowVars
  /\ UNCHANGED <<queueVars, runStatus, serverVars>>

\* The connection is there; a download truncates the file or creates it.
Open(p) ==
  LET t == p[1] IN
  /\ pc[p] = "open"
  /\ ~stopped[p]
  /\ IF IsDownload(t) THEN SetFile(t, "partial") ELSE UNCHANGED rowVars
  /\ Goto(p, "transfer")
  /\ UNCHANGED <<queueVars, runStatus, serverVars>>

\* No connection, no such file, no room.
OpenFails(p) ==
  /\ pc[p] = "open"
  /\ Goto(p, "failctx")
  /\ UNCHANGED <<rowVars, queueVars, runStatus, serverVars>>

\* updateProgress changes columns that no property is about, then syncs.
Progress(p) ==
  /\ pc[p] = "transfer"
  /\ Sync(p, "transfer")
  /\ UNCHANGED <<rowVars, queueVars, runStatus, serverVars>>

\* A file that another attempt removed meanwhile stays removed.
TransferEnds(p) ==
  LET t == p[1] IN
  /\ pc[p] = "transfer"
  /\ IF IsDownload(t) /\ file[t] = "partial"
     THEN SetFile(t, "whole") ELSE UNCHANGED rowVars
  /\ Goto(p, "complete")
  /\ UNCHANGED <<queueVars, runStatus, serverVars>>

\* Mutant of TransferFails: the attempt returns without failing the row.
MutantTransferFails(p) ==
  LET t == p[1] IN
  /\ pc[p] = "transfer"
  /\ IF IsDownload(t) THEN SetFile(t, "none") ELSE UNCHANGED rowVars
  /\ Goto(p, "return")
  /\ UNCHANGED <<queueVars, runStatus, serverVars>>

\* Mutant of TransferFails: the attempt goes on as after a success.
MutantTransferSwallowed(p) ==
  LET t == p[1] IN
  /\ pc[p] = "transfer"
  /\ IF IsDownload(t) THEN SetFile(t, "none") ELSE UNCHANGED rowVars
  /\ Goto(p, "complete")
  /\ UNCHANGED <<queueVars, runStatus, serverVars>>

\* A download that fails, or whose file does not fit, is removed.
TransferFails(p) ==
  LET t == p[1] IN
  /\ pc[p] = "transfer"
  /\ IF IsDownload(t) THEN SetFile(t, "none") ELSE UNCHANGED rowVars
  /\ Goto(p, "fail")
  /\ UNCHANGED <<queueVars, runStatus, serverVars>>

\* The context was cancelled: the attempt writes nothing about the row.
TransferStopped(p) ==
  LET t == p[1] IN
  /\ pc[p] = "transfer"
  /\ stopped[p]
  /\ IF IsDownload(t) THEN SetFile(t, "none") ELSE UNCHANGED rowVars
  /\ Goto(p, "return")
  /\ UNCHANGED <<queueVars, runStatus, serverVars>>

\* completeJob: only a running row.
Complete(p) ==
  LET t == p[1] IN
  /\ pc[p] = "complete"
  /\ \/ /\ SetJob(t, {"running"}, "completed")
        /\ Sync(p, "return")
     \/ /\ job[t] # "running" \/ Outages
        /\ Goto(p, "return")
        /\ UNCHANGED rowVars
  /\ UNCHANGED <<queueVars, runStatus, serverVars>>

\* The queue's writes are conditional on the lease; Queue!Retry and
\* Queue!GiveUp exclude one another.
Release(t) == Queue!Retry(t) \/ Queue!GiveUp(t)

\* The handler returned nil, or an error (the context's, too).  A server
\* that is stopping writes nothing.
Return(p) ==
  LET t == p[1]
      owner == phase[t] = "trying" /\ p = Owner(t)
      error == pc[p] = "broken" \/ stopped[p] IN
  /\ pc[p] \in {"return", "broken"}
  /\ \/ /\ server = "up" /\ owner /\ ~error
        /\ Queue!Succeed(t)
     \/ /\ server = "up" /\ owner /\ error
        /\ Release(t)
     \/ /\ server = "stopping" \/ ~owner \/ Outages
        /\ UNCHANGED queueVars
  /\ Goto(p, "gone")
  /\ UNCHANGED <<rowVars, runStatus, serverVars>>

\* The heartbeat finds that the lease is not the attempt's any more, or
\* is refused.
HeartbeatStops(p) ==
  LET t == p[1] IN
  /\ pc[p] \notin {"idle", "gone"}
  /\ IsAttempt(p)
  /\ ~stopped[p]
  /\ phase[t] # "trying" \/ p # Owner(t) \/ Outages
  /\ stopped' = [stopped EXCEPT ![p] = TRUE]
  /\ UNCHANGED <<pc, next, seen, seenRun, rowVars, queueVars, runStatus, serverVars>>

\* The lease of an attempt that is gone, or that stalls, expires.
Expire(t) ==
  /\ server = "up"
  /\ phase[t] = "trying"
  /\ pc[Owner(t)] = "gone" \/ Stalls
  /\ Release(t)
  /\ UNCHANGED <<rowVars, runStatus, procVars, serverVars>>

-----------------------------------------------------------------------------
(* CancelJob *)

AskCancel(t) ==
  /\ Serving
  /\ t \in Cancellable
  /\ pc[Canceller(t)] = "idle"
  /\ job[t] \in Active
  /\ Goto(Canceller(t), "queue")
  /\ UNCHANGED <<rowVars, queueVars, runStatus, serverVars>>

\* Mutant of CancelQueue: the attempt that runs is not told.
MutantCancelQueue(t) ==
  LET p == Canceller(t) IN
  /\ pc[p] = "queue"
  /\ \/ /\ Queue!CancelAll({t})
        /\ Goto(p, "row")
     \/ /\ phase[t] \notin Queue!Open
        /\ Goto(p, "row")
        /\ UNCHANGED queueVars
     \/ /\ Outages
        /\ Goto(p, "gone")
        /\ UNCHANGED queueVars
  /\ UNCHANGED <<rowVars, runStatus, serverVars>>

\* CancelBySource: the queue's job, and the context of its attempt.
CancelQueue(t) ==
  LET p == Canceller(t) IN
  /\ pc[p] = "queue"
  /\ \/ /\ Queue!CancelAll({t})
        /\ pc' = [pc EXCEPT ![p] = "row"]
        /\ stopped' = [stopped EXCEPT ![Owner(t)] = @ \/ phase[t] = "trying"]
        /\ UNCHANGED <<next, seen, seenRun>>
     \/ /\ phase[t] \notin Queue!Open
        /\ Goto(p, "row")
        /\ UNCHANGED queueVars
     \/ /\ Outages
        /\ Goto(p, "gone")
        /\ UNCHANGED queueVars
  /\ UNCHANGED <<rowVars, runStatus, serverVars>>

\* Mutant of CancelRow: the update does not test the status.
MutantCancelRow(t) ==
  LET p == Canceller(t) IN
  /\ pc[p] = "row"
  /\ SetJob(t, Active \cup Terminal, "cancelled")
  /\ Sync(p, "gone")
  /\ UNCHANGED <<queueVars, runStatus, serverVars>>

\* The transfer's row, unless it ended meanwhile.
CancelRow(t) ==
  LET p == Canceller(t) IN
  /\ pc[p] = "row"
  /\ \/ /\ SetJob(t, Active, "cancelled")
        /\ Sync(p, "gone")
     \/ /\ job[t] \notin Active \/ Outages
        /\ Goto(p, "gone")
        /\ UNCHANGED rowVars
  /\ UNCHANGED <<queueVars, runStatus, serverVars>>

-----------------------------------------------------------------------------
(* The server *)

\* Stop: the queue cancels the contexts of its attempts before the process
\* exits; the requests in progress are answered if there is time.
StopServer ==
  /\ server = "up"
  /\ crashes < MaxCrashes
  /\ server' = "stopping"
  /\ crashes' = crashes + 1
  /\ stopped' = [p \in Procs |-> stopped[p] \/ (IsAttempt(p) /\ pc[p] \notin {"idle", "gone"})]
  /\ UNCHANGED <<unfinished, pc, next, seen, seenRun, rowVars, queueVars, runStatus>>

Down ==
  /\ server' = "down"
  /\ pc' = [p \in Procs |-> IF pc[p] = "idle" THEN "idle" ELSE "gone"]
  /\ next' = [p \in Procs |-> "idle"]
  /\ seen' = [p \in Procs |-> "absent"]
  /\ seenRun' = [p \in Procs |-> NoRun]
  /\ stopped' = [p \in Procs |-> FALSE]
  /\ UNCHANGED unfinished
  /\ UNCHANGED <<rowVars, queueVars, runStatus>>

Crash ==
  /\ server = "up"
  /\ crashes < MaxCrashes
  /\ crashes' = crashes + 1
  /\ Down

Exit ==
  /\ server = "stopping"
  /\ Down
  /\ UNCHANGED crashes

\* RecoverInterrupted lists the active runs.
Boot ==
  /\ server = "down"
  /\ server' = "recovering"
  /\ unfinished' = {p \in Procs : runStatus[p] \in Task!Active}
  /\ UNCHANGED <<crashes, rowVars, queueVars, runStatus, procVars>>

\* A run that a transfer created goes back to the queue; the run of a
\* scheduled task is failed, whatever the task does.
RecoverRun(p) ==
  /\ server = "recovering"
  /\ p \in unfinished
  /\ IF kind[p[1]] = "scheduled"
     THEN Task!Move(p, Task!Active, "interrupted")
     ELSE Task!Resume(p)
  /\ unfinished' = unfinished \ {p}
  /\ UNCHANGED <<server, crashes, rowVars, queueVars, procVars>>

RecoveryFails ==
  /\ server = "recovering"
  /\ Outages
  /\ unfinished # {}
  /\ unfinished' = {}
  /\ UNCHANGED <<server, crashes, rowVars, queueVars, runStatus, procVars>>

\* StartMaintenance: no request is staging any file; then the queue starts.
MarkStagingInterrupted ==
  /\ server = "recovering"
  /\ unfinished = {}
  /\ \/ job' = [t \in Transfers |-> IF job[t] = "staging" THEN "failed" ELSE job[t]]
     \/ Outages /\ UNCHANGED job
  /\ server' = "up"
  /\ UNCHANGED <<kind, runOf, file, unfinished, crashes, queueVars, runStatus, procVars>>

-----------------------------------------------------------------------------

SyncStep(p) ==
  \/ ReadRow(p) \/ ReadRowFails(p) \/ CreateRun(p) \/ CreateRunFails(p)
  \/ BindRun(p) \/ Apply(p)

CreatorStep(t) ==
  \/ StagingProgress(t)
  \/ AcceptScheduled(t) \/ RejectScheduled(t) \/ Enqueue(t) \/ EnqueueFails(t)

StagingOver(t) == StagingEnds(t) \/ StagingFails(t)

AttemptStep(p) ==
  \/ Load(p) \/ Begin(p) \/ Open(p) \/ OpenFails(p) \/ Progress(p)
  \/ Complete(p) \/ Return(p) \/ HeartbeatStops(p)

TransferOver(p) == TransferEnds(p) \/ TransferFails(p) \/ TransferStopped(p)

ProcessStep(p) ==
  \/ SyncStep(p) \/ Fail(p) \/ AttemptStep(p)
  \/ /\ p = Creator(p[1])
     /\ CreatorStep(p[1])
  \/ /\ p = Canceller(p[1])
     /\ CancelQueue(p[1]) \/ CancelRow(p[1])

Accept(t) ==
  \/ "upload" \in Kinds /\ AcceptUpload(t)
  \/ "download" \in Kinds /\ AcceptDownload(t)
  \/ "scheduled" \in Kinds /\ OpenScheduledRun(t)

BootStep ==
  \/ Exit \/ Boot \/ RecoveryFails \/ MarkStagingInterrupted
  \/ \E p \in Procs : RecoverRun(p)

Next ==
  \/ \E t \in Transfers :
       Accept(t) \/ StagingOver(t) \/ Take(t) \/ Expire(t) \/ AskCancel(t)
  \/ \E p \in Procs : ProcessStep(p) \/ TransferOver(p)
  \/ StopServer \/ Crash \/ BootStep

Spec == Init /\ [][Next]_vars

\* Processes that can take a step take it; workers poll and leases expire;
\* a body that is being received ends, and so does a file's transfer; a
\* server that went down is started again.
Fairness ==
  /\ \A p \in Procs : WF_vars(ProcessStep(p)) /\ SF_vars(TransferOver(p))
  /\ \A t \in Transfers :
       SF_vars(StagingOver(t)) /\ WF_vars(Take(t)) /\ WF_vars(Expire(t))
  /\ WF_vars(BootStep)

FairSpec == Spec /\ Fairness
-----------------------------------------------------------------------------
(* Properties *)

RunsOfTransfer(t) == {p \in Procs : p[1] = t}

\* A run that has ended tells what became of the transfer, although it is
\* written from copies of the row that may be old (syncTaskRun), by the
\* request, by attempts that a crash or a lost lease left behind and by a
\* cancellation.  A run that a restart interrupted is another matter.
RunMatchesJob ==
  \A t \in Transfers : \A p \in RunsOfTransfer(t) :
    runStatus[p] \in Task!Ended \ {"interrupted"} /\ job[t] # "absent" =>
      runStatus[p] = Shown(job[t])

\* A run that is shown as interrupted by a restart of the service belongs to
\* a transfer that goes no further.  The runs of scheduled tasks break it,
\* since the queue takes their transfers up again: see the run.
InterruptedIsOver ==
  \A t \in Transfers : \A p \in RunsOfTransfer(t) :
    runStatus[p] = "interrupted" => job[t] \notin {"running", "completed"}

\* A completed download has its file, although attempts create, truncate
\* and remove the same path (executeDownload).
CompletedHasFile ==
  \A t \in Transfers :
    IsDownload(t) /\ job[t] = "completed" => file[t] = "whole"

\* When the transfer and its job in the queue are both cancelled, no attempt
\* moves data without having been told to stop.
CancelReaches ==
  \A t \in Transfers :
    job[t] = "cancelled" /\ phase[t] = "cancelled" =>
      \A k \in 1 .. MaxAttempts :
        pc[Attempt(t, k)] \in {"open", "transfer"} => stopped[Attempt(t, k)]

\* A job that the queue counts as a success leaves no transfer open.  The
\* handler tells the queue nothing but the error of its context.
DoneMeansEnded ==
  \A t \in Transfers : phase[t] = "succeeded" => job[t] \in Terminal

\* While the server keeps running, every transfer that has been accepted ends,
\* whenever a cancellation comes: also between the row of the transfer and
\* its job in the queue, or while the attempt waits for its turn.
TransfersEnd ==
  \A t \in Transfers :
    job[t] \in Active ~> (job[t] \in Terminal \/ crashes > 0)

\* While the server keeps running, every run that was created for a transfer
\* ends, unless a user cancels the transfer: the request that cancels and the
\* one that creates may then both find no run and create one (ensureTaskRun).
RunsEnd ==
  \A p \in Procs :
    runStatus[p] \in Task!Active ~>
      \/ runStatus[p] \in Task!Ended
      \/ crashes > 0
      \/ pc[Canceller(p[1])] # "idle"
=============================================================================
