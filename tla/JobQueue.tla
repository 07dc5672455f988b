------------------------------- MODULE JobQueue -------------------------------
(***************************************************************************)
(* The database-backed job queue of EasySSH                                *)
(* (server/internal/domain/jobqueue).  Several server processes share one  *)
(* table; each runs a fixed set of worker goroutines that claim a row,     *)
(* hold it under a lease, call the handler and write the outcome back.     *)
(*                                                                         *)
(* Time is relative: a lease, a retry delay and a heartbeat ticker are     *)
(* counted in ticks left, so that a behaviour may be arbitrarily long.     *)
(* Every SQL statement is one step; what a goroutine does between two      *)
(* statements belongs to the step before or after it.                      *)
(***************************************************************************)
EXTENDS Integers, FiniteSets

CONSTANTS
  Jobs,         \* the rows that requests may insert into job_queue
  Sources,      \* the owners named by (source_type, source_id)
  SourceOf,     \* SourceOf[j]: the owner of row j
  Priority,     \* Priority[j]: EnqueueOptions.Priority
  Instances,    \* the server processes that share the database
  Workers,      \* the worker goroutines of all instances
  Home,         \* Home[w]: the instance that runs worker w
  NoWorker,     \* claimed_by = "", and an empty entry of queue.running
  DeadWorker,   \* claimed_by names a worker of a process that is gone
  NoJob,        \* the worker holds no row
  MaxAttempts,  \* job.MaxAttempts
  LeaseTicks,   \* Options.LeaseDuration
  BeatTicks,    \* the heartbeat interval, LeaseDuration / 3 in the code
  RetryDelay,   \* RetryDelay[a]: retryBackoff(a)
  MaxScan,      \* how many ticks one RecoverExpiredLeases pass may take
  MaxCrashes,   \* how many times the processes may stop or crash
  RowLock,      \* TRUE: SELECT .. FOR UPDATE SKIP LOCKED; FALSE: SQLite
  Stalls,       \* TRUE: a process may stall past a due heartbeat
  DbErrors      \* TRUE: a statement may return an error

ASSUME WorkerAssumption ==
  /\ Home \in [Workers -> Instances]
  /\ NoWorker \notin Workers
  /\ DeadWorker \notin Workers
  /\ NoWorker # DeadWorker

ASSUME JobAssumption ==
  /\ NoJob \notin Jobs
  /\ SourceOf \in [Jobs -> Sources]
  /\ Priority \in [Jobs -> Int]

ASSUME TimeAssumption ==
  /\ MaxAttempts \in Nat \ {0}
  /\ LeaseTicks \in Nat \ {0}
  /\ BeatTicks \in 1 .. (LeaseTicks - 1)
  /\ RetryDelay \in [1 .. MaxAttempts -> Nat]
  /\ MaxScan \in Nat
  /\ MaxCrashes \in Nat

ASSUME SwitchAssumption ==
  /\ RowLock \in BOOLEAN
  /\ Stalls \in BOOLEAN
  /\ DbErrors \in BOOLEAN

VARIABLES
  status,       \* status[j]; "absent" before the insert, "purged" after cleanup
  holder,       \* holder[j]: claimed_by
  lease,        \* lease[j]: ticks until lease_expires_at; <= 0 is expired
  delay,        \* delay[j]: ticks until available_at
  attempt,      \* attempt[j]
  mode,         \* mode[i]: life cycle of process i
  running,      \* running[i][j]: whose cancel function queue.running holds
  scan,         \* scan[i]: rows (with the attempt read) a recovery pass has yet to update
  scanAge,      \* scanAge[i]: ticks since that pass took its `now`
  cancelIds,    \* cancelIds[i]: rows selected by a CancelBySource call
  cancelAt,     \* cancelAt[i]: how far that call has come
  pc,           \* pc[w]: the next step of worker w
  cur,          \* cur[w]: the row worker w selected or claimed
  mine,         \* mine[w]: job.Attempt in the copy of the row worker w holds
  seen,         \* seen[w]: job.Attempt as read again by Fail
  alive,        \* alive[w]: the handler's context is not cancelled
  beat,         \* beat[w]: ticks until the heartbeat ticker of worker w fires
  crashes       \* how many stops and crashes so far

rowVars    == <<status, holder, lease, delay, attempt>>
workerVars == <<pc, cur, mine, seen, alive, beat>>
scanVars   == <<scan, scanAge>>
cancelVars == <<cancelIds, cancelAt>>
procVars   == <<mode, crashes>>
vars == <<rowVars, procVars, running, scanVars, cancelVars, workerVars>>

Active   == {"queued", "claimed", "running"}
Held     == {"claimed", "running"}
Terminal == {"succeeded", "failed", "cancelled"}
Statuses == Active \cup Terminal \cup {"absent", "purged"}
Modes    == {"down", "starting", "up", "stopping"}
Steps    == {"idle", "selected", "reread", "claimed", "register", "check",
             "handling", "completing", "failing", "failing2", "leaving"}

Init ==
  /\ status = [j \in Jobs |-> "absent"]
  /\ holder = [j \in Jobs |-> NoWorker]
  /\ lease = [j \in Jobs |-> 0]
  /\ delay = [j \in Jobs |-> 0]
  /\ attempt = [j \in Jobs |-> 0]
  /\ mode = [i \in Instances |-> "down"]
  /\ running = [i \in Instances |-> [j \in Jobs |-> NoWorker]]
  /\ scan = [i \in Instances |-> {}]
  /\ scanAge = [i \in Instances |-> 0]
  /\ cancelIds = [i \in Instances |-> {}]
  /\ cancelAt = [i \in Instances |-> "none"]
  /\ pc = [w \in Workers |-> "idle"]
  /\ cur = [w \in Workers |-> NoJob]
  /\ mine = [w \in Workers |-> 0]
  /\ seen = [w \in Workers |-> 0]
  /\ alive = [w \in Workers |-> FALSE]
  /\ beat = [w \in Workers |-> 0]
  /\ crashes = 0

-----------------------------------------------------------------------------
(* The statements on one row. *)

\* Inserting a row: repository.Create with the defaults of BeforeCreate.
Enqueue(j) ==
  /\ status[j] = "absent"
  /\ \E i \in Instances : mode[i] \in {"up", "stopping"}
  /\ status' = [status EXCEPT ![j] = "queued"]
  /\ UNCHANGED <<holder, lease, delay, attempt, procVars, running, scanVars,
                 cancelVars, workerVars>>

Claimable(j) ==
  /\ status[j] = "queued"
  /\ delay[j] = 0
  /\ attempt[j] < MaxAttempts

\* ORDER BY priority DESC; rows of one priority come in any order here.
Candidate(j) ==
  /\ Claimable(j)
  /\ \A k \in Jobs : Claimable(k) => Priority[k] <= Priority[j]

\* The UPDATE of a claim: a new holder, a new lease, one more attempt.
StampClaim(j, w) ==
  /\ status' = [status EXCEPT ![j] = "claimed"]
  /\ holder' = [holder EXCEPT ![j] = w]
  /\ lease' = [lease EXCEPT ![j] = LeaseTicks]
  /\ attempt' = [attempt EXCEPT ![j] = @ + 1]
  /\ UNCHANGED delay

\* The UPDATE that ends row j: claimed_by and the lease are cleared.
FinishRow(j, s) ==
  /\ status' = [status EXCEPT ![j] = s]
  /\ holder' = [holder EXCEPT ![j] = NoWorker]
  /\ lease' = [lease EXCEPT ![j] = 0]
  /\ delay' = [delay EXCEPT ![j] = 0]
  /\ UNCHANGED attempt

\* The UPDATE that gives row j back for another attempt after d ticks.
RequeueRow(j, d) ==
  /\ status' = [status EXCEPT ![j] = "queued"]
  /\ holder' = [holder EXCEPT ![j] = NoWorker]
  /\ lease' = [lease EXCEPT ![j] = 0]
  /\ delay' = [delay EXCEPT ![j] = d]
  /\ UNCHANGED attempt

\* WHERE id = ? AND status IN (claimed, running) AND claimed_by = w
Owns(w, j) ==
  /\ status[j] \in Held
  /\ holder[j] = w

\* Mutant of RenewLease: heartbeat_at is written, lease_expires_at is not.
RenewLeaseForgotten(j) == UNCHANGED rowVars

RenewLease(j) ==
  /\ lease' = [lease EXCEPT ![j] = LeaseTicks]
  /\ UNCHANGED <<status, holder, delay, attempt>>

-----------------------------------------------------------------------------
(* A worker goroutine: claim, process, write the outcome. *)

Goto(w, step) == pc' = [pc EXCEPT ![w] = step]

\* Contexts derived from q.ctx are cancelled and statements on it fail.
QueueCtxDone(w) == mode[Home[w]] = "stopping"

Serving(w) == mode[Home[w]] = "up"

\* A worker returns to its loop without holding a row any more.
BackToLoop(w) ==
  /\ Goto(w, "idle")
  /\ cur' = [cur EXCEPT ![w] = NoJob]
  /\ mine' = [mine EXCEPT ![w] = 0]
  /\ seen' = [seen EXCEPT ![w] = 0]
  /\ alive' = [alive EXCEPT ![w] = FALSE]
  /\ beat' = [beat EXCEPT ![w] = 0]

\* claimWithRowLock: select, update and read again in one transaction.
ClaimLocked(w) ==
  /\ RowLock
  /\ Serving(w)
  /\ pc[w] = "idle"
  /\ \E j \in Jobs :
       /\ Candidate(j)
       /\ StampClaim(j, w)
       /\ cur' = [cur EXCEPT ![w] = j]
       /\ mine' = [mine EXCEPT ![w] = attempt[j] + 1]
  /\ Goto(w, "claimed")
  /\ UNCHANGED <<procVars, running, scanVars, cancelVars, seen, alive, beat>>

\* claimSQLite, first statement: choose a candidate.
ClaimSelect(w) ==
  /\ ~RowLock
  /\ Serving(w)
  /\ pc[w] = "idle"
  /\ \E j \in Jobs :
       /\ Candidate(j)
       /\ cur' = [cur EXCEPT ![w] = j]
  /\ Goto(w, "selected")
  /\ UNCHANGED <<rowVars, procVars, running, scanVars, cancelVars, mine, seen,
                 alive, beat>>

\* claimSQLite, second statement: the conditional update of the candidate.
ClaimUpdate(w) ==
  LET j == cur[w] IN
  /\ pc[w] = "selected"
  /\ Serving(w)
  /\ Claimable(j)
  /\ StampClaim(j, w)
  /\ Goto(w, "reread")
  /\ UNCHANGED <<procVars, running, scanVars, cancelVars, cur, mine, seen,
                 alive, beat>>

\* claimSQLite: no row was updated, another worker was faster.
ClaimLost(w) ==
  /\ pc[w] = "selected"
  /\ Serving(w)
  /\ ~Claimable(cur[w])
  /\ BackToLoop(w)
  /\ UNCHANGED <<rowVars, procVars, running, scanVars, cancelVars>>

\* claimSQLite, third statement: read the claimed row as it is by now.
ClaimReread(w) ==
  /\ pc[w] = "reread"
  /\ Serving(w)
  /\ status[cur[w]] # "purged"
  /\ mine' = [mine EXCEPT ![w] = attempt[cur[w]]]
  /\ Goto(w, "claimed")
  /\ UNCHANGED <<rowVars, procVars, running, scanVars, cancelVars, cur, seen,
                 alive, beat>>

MarkRunning(w) ==
  LET j == cur[w] IN
  /\ pc[w] = "claimed"
  /\ Serving(w)
  /\ status[j] = "claimed"
  /\ holder[j] = w
  /\ status' = [status EXCEPT ![j] = "running"]
  /\ Goto(w, "register")
  /\ UNCHANGED <<holder, lease, delay, attempt, procVars, running, scanVars,
                 cancelVars, cur, mine, seen, alive, beat>>

\* MarkRunning changed no row: process returns at once.
MarkRunningLost(w) ==
  LET j == cur[w] IN
  /\ pc[w] = "claimed"
  /\ Serving(w)
  /\ ~(status[j] = "claimed" /\ holder[j] = w)
  /\ BackToLoop(w)
  /\ UNCHANGED <<rowVars, procVars, running, scanVars, cancelVars>>

\* Create the handler's context and put its cancel function in queue.running.
Register(w) ==
  /\ pc[w] = "register"
  /\ running' = [running EXCEPT ![Home[w]][cur[w]] = w]
  /\ alive' = [alive EXCEPT ![w] = Serving(w)]
  /\ Goto(w, "check")
  /\ UNCHANGED <<rowVars, procVars, scanVars, cancelVars, cur, mine, seen, beat>>

\* The heartbeat before the handler starts: was the job cancelled meanwhile?
FirstHeartbeat(w) ==
  /\ pc[w] = "check"
  /\ Serving(w)
  /\ IF Owns(w, cur[w])
     THEN /\ RenewLease(cur[w])
          /\ beat' = [beat EXCEPT ![w] = BeatTicks]
          /\ Goto(w, "handling")
     ELSE /\ Goto(w, "leaving")
          /\ UNCHANGED <<rowVars, beat>>
  /\ UNCHANGED <<procVars, running, scanVars, cancelVars, cur, mine, seen, alive>>

\* Mutant of Heartbeat: the goroutine ignores that no row was updated.
HeartbeatIgnoresLoss(w) ==
  /\ pc[w] = "handling"
  /\ alive[w]
  /\ beat[w] = 0
  /\ Serving(w)
  /\ beat' = [beat EXCEPT ![w] = BeatTicks]
  /\ IF Owns(w, cur[w]) THEN RenewLease(cur[w]) ELSE UNCHANGED rowVars
  /\ UNCHANGED <<procVars, running, scanVars, cancelVars, pc, cur, mine, seen,
                 alive>>

\* The heartbeat goroutine, while the handler runs with a live context.
Heartbeat(w) ==
  /\ pc[w] = "handling"
  /\ alive[w]
  /\ beat[w] = 0
  /\ Serving(w)
  /\ beat' = [beat EXCEPT ![w] = BeatTicks]
  /\ IF Owns(w, cur[w])
     THEN /\ RenewLease(cur[w])
          /\ UNCHANGED alive
     ELSE /\ alive' = [alive EXCEPT ![w] = FALSE]
          /\ UNCHANGED rowVars
  /\ UNCHANGED <<procVars, running, scanVars, cancelVars, pc, cur, mine, seen>>

\* The handler returns (a panic counts as an error); the heartbeat goroutine
\* is joined; with the queue stopping, no outcome is written.
HandlerReturns(w) ==
  /\ pc[w] = "handling"
  /\ alive' = [alive EXCEPT ![w] = FALSE]
  /\ IF QueueCtxDone(w)
     THEN Goto(w, "leaving")
     ELSE Goto(w, "completing") \/ Goto(w, "failing")
  /\ UNCHANGED <<rowVars, procVars, running, scanVars, cancelVars, cur, mine,
                 seen, beat>>

Complete(w) ==
  /\ pc[w] = "completing"
  /\ Serving(w)
  /\ IF Owns(w, cur[w])
     THEN FinishRow(cur[w], "succeeded")
     ELSE UNCHANGED rowVars
  /\ Goto(w, "leaving")
  /\ UNCHANGED <<procVars, running, scanVars, cancelVars, cur, mine, seen,
                 alive, beat>>

\* Fail, first statement: read the row; an error if it is gone.
FailRead(w) ==
  /\ pc[w] = "failing"
  /\ Serving(w)
  /\ IF status[cur[w]] = "purged"
     THEN /\ Goto(w, "leaving")
          /\ UNCHANGED seen
     ELSE /\ Goto(w, "failing2")
          /\ seen' = [seen EXCEPT ![w] = attempt[cur[w]]]
  /\ UNCHANGED <<rowVars, procVars, running, scanVars, cancelVars, cur, mine,
                 alive, beat>>

\* Fail, second statement: retry or fail for good, by the attempt read before.
FailWrite(w) ==
  LET j == cur[w] IN
  /\ pc[w] = "failing2"
  /\ Serving(w)
  /\ \/ /\ ~Owns(w, j)
        /\ UNCHANGED rowVars
     \/ /\ Owns(w, j)
        /\ seen[w] < MaxAttempts
        /\ RequeueRow(j, RetryDelay[mine[w]])
     \/ /\ Owns(w, j)
        /\ seen[w] >= MaxAttempts
        /\ FinishRow(j, "failed")
  /\ Goto(w, "leaving")
  /\ UNCHANGED <<procVars, running, scanVars, cancelVars, cur, mine, seen,
                 alive, beat>>

\* The deferred function: drop whatever entry queue.running has for the row.
Leave(w) ==
  /\ pc[w] = "leaving"
  /\ running' = [running EXCEPT ![Home[w]][cur[w]] = NoWorker]
  /\ BackToLoop(w)
  /\ UNCHANGED <<rowVars, procVars, scanVars, cancelVars>>

\* A statement of worker w returns an error and has had no effect: the
\* database refused it, or q.ctx is cancelled because the queue stops.
StatementFails(w) ==
  /\ DbErrors \/ QueueCtxDone(w)
  /\ \/ /\ pc[w] \in {"selected", "reread", "claimed"}
        /\ BackToLoop(w)
     \/ /\ pc[w] \in {"check", "completing", "failing", "failing2"}
        /\ Goto(w, "leaving")
        /\ UNCHANGED <<cur, mine, seen, alive, beat>>
     \/ /\ pc[w] = "handling"
        /\ alive[w]
        /\ beat[w] = 0
        /\ alive' = [alive EXCEPT ![w] = FALSE]
        /\ UNCHANGED <<pc, cur, mine, seen, beat>>
  /\ UNCHANGED <<rowVars, procVars, running, scanVars, cancelVars>>

-----------------------------------------------------------------------------
(* CancelBySource, called by a request on instance i. *)

\* The rows of one owner that are not terminal.
CancelSelect(i) ==
  /\ mode[i] \in {"up", "stopping"}
  /\ cancelAt[i] = "none"
  /\ \E s \in Sources :
       LET ids == {j \in Jobs : SourceOf[j] = s /\ status[j] \in Active} IN
       /\ ids # {}
       /\ cancelIds' = [cancelIds EXCEPT ![i] = ids]
  /\ cancelAt' = [cancelAt EXCEPT ![i] = "update"]
  /\ UNCHANGED <<rowVars, procVars, running, scanVars, workerVars>>

\* Mutant of CancelUpdate: the UPDATE trusts the earlier SELECT.
CancelUpdateBlind(i) ==
  LET hit == cancelIds[i] IN
  /\ cancelAt[i] = "update"
  /\ status' = [j \in Jobs |-> IF j \in hit THEN "cancelled" ELSE status[j]]
  /\ holder' = [j \in Jobs |-> IF j \in hit THEN NoWorker ELSE holder[j]]
  /\ lease' = [j \in Jobs |-> IF j \in hit THEN 0 ELSE lease[j]]
  /\ delay' = [j \in Jobs |-> IF j \in hit THEN 0 ELSE delay[j]]
  /\ cancelAt' = [cancelAt EXCEPT ![i] = "notify"]
  /\ UNCHANGED <<attempt, cancelIds, procVars, running, scanVars, workerVars>>

\* Those of them that are still not terminal become cancelled.
CancelUpdate(i) ==
  LET hit == {j \in cancelIds[i] : status[j] \in Active} IN
  /\ cancelAt[i] = "update"
  /\ status' = [j \in Jobs |-> IF j \in hit THEN "cancelled" ELSE status[j]]
  /\ holder' = [j \in Jobs |-> IF j \in hit THEN NoWorker ELSE holder[j]]
  /\ lease' = [j \in Jobs |-> IF j \in hit THEN 0 ELSE lease[j]]
  /\ delay' = [j \in Jobs |-> IF j \in hit THEN 0 ELSE delay[j]]
  /\ cancelAt' = [cancelAt EXCEPT ![i] = "notify"]
  /\ UNCHANGED <<attempt, cancelIds, procVars, running, scanVars, workerVars>>

\* Cancel the contexts that this process has registered for all selected rows.
CancelNotify(i) ==
  /\ cancelAt[i] = "notify"
  /\ alive' = [w \in Workers |->
                 alive[w] /\ \A j \in cancelIds[i] : running[i][j] # w]
  /\ cancelAt' = [cancelAt EXCEPT ![i] = "none"]
  /\ cancelIds' = [cancelIds EXCEPT ![i] = {}]
  /\ UNCHANGED <<rowVars, procVars, running, scanVars, pc, cur, mine, seen, beat>>

-----------------------------------------------------------------------------
(* RecoverExpiredLeases: at start and on a ticker of every instance. *)

\* Mutant of Expired: a worker lost between its claim and MarkRunning is forgotten.
ExpiredRunning == {j \in Jobs : status[j] = "running" /\ lease[j] <= 0}

Expired == {j \in Jobs : status[j] \in Held /\ lease[j] <= 0}

\* The SELECT; scanAge counts from the `now` it compares with.
ScanSelect(i) ==
  /\ mode[i] = "up"
  /\ scan[i] = {}
  /\ Expired # {}
  /\ scan' = [scan EXCEPT ![i] = {<<j, attempt[j]>> : j \in Expired}]
  /\ scanAge' = [scanAge EXCEPT ![i] = 0]
  /\ UNCHANGED <<rowVars, procVars, running, cancelVars, workerVars>>

\* Mutant of ExpiredAtScan: the UPDATE does not look at the lease again.
HeldAtScan(i, j) == status[j] \in Held

\* WHERE status IN (claimed, running) AND lease_expires_at <= now
ExpiredAtScan(i, j) ==
  /\ status[j] \in Held
  /\ lease[j] + scanAge[i] <= 0

\* The conditional UPDATE of one selected row, by the attempt the SELECT read.
ScanUpdate(i) ==
  /\ mode[i] \in {"starting", "up"}
  /\ \E r \in scan[i] :
       /\ scan' = [scan EXCEPT ![i] = @ \ {r}]
       /\ \/ /\ ~ExpiredAtScan(i, r[1])
             /\ UNCHANGED rowVars
          \/ /\ ExpiredAtScan(i, r[1])
             /\ r[2] < MaxAttempts
             /\ RequeueRow(r[1], 0)
          \/ /\ ExpiredAtScan(i, r[1])
             /\ r[2] >= MaxAttempts
             /\ FinishRow(r[1], "failed")
  /\ UNCHANGED <<scanAge, procVars, running, cancelVars, workerVars>>

\* Mutant of ScanAborts: the pass does not notice that the queue stops.
ScanAbortsOnError(i) ==
  /\ DbErrors
  /\ mode[i] = "up"
  /\ scan[i] # {}
  /\ scan' = [scan EXCEPT ![i] = {}]
  /\ UNCHANGED <<rowVars, scanAge, procVars, running, cancelVars, workerVars>>

\* A pass ends early: an update failed, or the queue is stopping.
ScanAborts(i) ==
  /\ \/ mode[i] = "stopping"
     \/ DbErrors /\ mode[i] = "up"
  /\ scan[i] # {}
  /\ scan' = [scan EXCEPT ![i] = {}]
  /\ UNCHANGED <<rowVars, scanAge, procVars, running, cancelVars, workerVars>>

\* CleanupTerminalBefore, with the retention period left open.
CleanupTerminal(j) ==
  /\ status[j] \in Terminal
  /\ \E i \in Instances : mode[i] = "up"
  /\ status' = [status EXCEPT ![j] = "purged"]
  /\ UNCHANGED <<holder, lease, delay, attempt, procVars, running, scanVars,
                 cancelVars, workerVars>>

-----------------------------------------------------------------------------
(* Processes and time. *)

\* Start: expired leases are recovered before the workers are spawned.
Start(i) ==
  /\ mode[i] = "down"
  /\ mode' = [mode EXCEPT ![i] = "starting"]
  /\ scan' = [scan EXCEPT ![i] = {<<j, attempt[j]>> : j \in Expired}]
  /\ scanAge' = [scanAge EXCEPT ![i] = 0]
  /\ UNCHANGED <<rowVars, crashes, running, cancelVars, workerVars>>

SpawnWorkers(i) ==
  /\ mode[i] = "starting"
  /\ scan[i] = {}
  /\ mode' = [mode EXCEPT ![i] = "up"]
  /\ UNCHANGED <<rowVars, crashes, running, scanVars, cancelVars, workerVars>>

\* Stop: q.ctx and every registered handler context are cancelled.
Stop(i) ==
  /\ mode[i] = "up"
  /\ crashes < MaxCrashes
  /\ crashes' = crashes + 1
  /\ mode' = [mode EXCEPT ![i] = "stopping"]
  /\ alive' = [w \in Workers |-> alive[w] /\ Home[w] # i]
  /\ UNCHANGED <<rowVars, running, scanVars, cancelVars, pc, cur, mine, seen, beat>>

\* What the process leaves behind: nothing but the rows, and the names of its
\* workers in claimed_by, which no later worker will carry.
ProcessGone(i) ==
  /\ mode' = [mode EXCEPT ![i] = "down"]
  /\ holder' = [j \in Jobs |->
       IF \E w \in Workers : Home[w] = i /\ holder[j] = w
       THEN DeadWorker ELSE holder[j]]
  /\ running' = [running EXCEPT ![i] = [j \in Jobs |-> NoWorker]]
  /\ scan' = [scan EXCEPT ![i] = {}]
  /\ cancelIds' = [cancelIds EXCEPT ![i] = {}]
  /\ cancelAt' = [cancelAt EXCEPT ![i] = "none"]
  /\ pc' = [w \in Workers |-> IF Home[w] = i THEN "idle" ELSE pc[w]]
  /\ cur' = [w \in Workers |-> IF Home[w] = i THEN NoJob ELSE cur[w]]
  /\ mine' = [w \in Workers |-> IF Home[w] = i THEN 0 ELSE mine[w]]
  /\ seen' = [w \in Workers |-> IF Home[w] = i THEN 0 ELSE seen[w]]
  /\ alive' = [w \in Workers |-> alive[w] /\ Home[w] # i]
  /\ beat' = [w \in Workers |-> IF Home[w] = i THEN 0 ELSE beat[w]]
  /\ UNCHANGED <<status, lease, delay, attempt, scanAge>>

\* wg.Wait returned: every worker has left its loop.
StopReturns(i) ==
  /\ mode[i] = "stopping"
  /\ scan[i] = {}
  /\ \A w \in Workers : Home[w] = i => pc[w] = "idle"
  /\ ProcessGone(i)
  /\ UNCHANGED crashes

\* The process dies at any point.
Crash(i) ==
  /\ mode[i] # "down"
  /\ crashes < MaxCrashes
  /\ crashes' = crashes + 1
  /\ ProcessGone(i)

\* A heartbeat is due and must be sent before time goes on.
BeatDue(w) ==
  /\ pc[w] = "handling"
  /\ alive[w]
  /\ beat[w] = 0
  /\ ~Stalls

CountDown(n) == IF n > 0 THEN n - 1 ELSE 0

\* One tick passes.  A lease counts below zero, down to -MaxScan, so that it
\* can be compared with the older `now` of a recovery pass.
Tick ==
  /\ \A w \in Workers : ~BeatDue(w)
  /\ \A i \in Instances : scan[i] # {} => scanAge[i] < MaxScan
  /\ lease' = [j \in Jobs |->
       IF status[j] \in Held /\ lease[j] > -MaxScan THEN lease[j] - 1 ELSE lease[j]]
  /\ delay' = [j \in Jobs |-> CountDown(delay[j])]
  /\ beat' = [w \in Workers |-> CountDown(beat[w])]
  /\ scanAge' = [i \in Instances |-> IF scan[i] # {} THEN scanAge[i] + 1 ELSE 0]
  /\ UNCHANGED <<status, holder, attempt, procVars, running, scan, cancelVars,
                 pc, cur, mine, seen, alive>>

Worker(w) ==
  \/ ClaimLocked(w) \/ ClaimSelect(w) \/ ClaimUpdate(w) \/ ClaimLost(w)
  \/ ClaimReread(w) \/ MarkRunning(w) \/ MarkRunningLost(w) \/ Register(w)
  \/ FirstHeartbeat(w) \/ Heartbeat(w) \/ Complete(w) \/ FailRead(w)
  \/ FailWrite(w) \/ Leave(w)

Cancel(i) == CancelSelect(i) \/ CancelUpdate(i) \/ CancelNotify(i)

Recovery(i) == ScanSelect(i) \/ ScanUpdate(i)

Boot(i) == Start(i) \/ SpawnWorkers(i)

Next ==
  \/ Tick
  \/ \E j \in Jobs : Enqueue(j) \/ CleanupTerminal(j)
  \/ \E w \in Workers : Worker(w) \/ HandlerReturns(w) \/ StatementFails(w)
  \/ \E i \in Instances :
       \/ Cancel(i) \/ Recovery(i) \/ ScanAborts(i)
       \/ Boot(i) \/ Stop(i) \/ StopReturns(i) \/ Crash(i)

Spec == Init /\ [][Next]_vars

\* What the goroutines and the runtime provide: every loop keeps running, a
\* process that is down is restarted, a statement that is tried again and
\* again is not refused for ever.
SystemFairness ==
  /\ WF_vars(Tick)
  /\ \A w \in Workers : WF_vars(Worker(w))
  /\ \A w \in Workers : WF_vars(QueueCtxDone(w) /\ StatementFails(w))
  /\ \A i \in Instances :
       /\ WF_vars(CancelUpdate(i) \/ CancelNotify(i))
       /\ WF_vars(ScanSelect(i))
       /\ SF_vars(ScanUpdate(i))
       /\ WF_vars(mode[i] = "stopping" /\ ScanAborts(i))
       /\ WF_vars(Boot(i))
       /\ WF_vars(StopReturns(i))

\* A handler whose context is cancelled returns; another one may run for ever.
HandlerFairness ==
  \A w \in Workers : WF_vars(~alive[w] /\ HandlerReturns(w))

FairSpec == Spec /\ SystemFairness /\ HandlerFairness

-----------------------------------------------------------------------------
(* Properties. *)

RowsOK ==
  /\ status \in [Jobs -> Statuses]
  /\ holder \in [Jobs -> Workers \cup {NoWorker, DeadWorker}]
  /\ lease \in [Jobs -> (-MaxScan) .. LeaseTicks]
  /\ delay \in [Jobs -> Nat]
  /\ attempt \in [Jobs -> 0 .. MaxAttempts]
  /\ \A j \in Jobs : status[j] \in Held <=> holder[j] # NoWorker

ProcessesOK ==
  /\ mode \in [Instances -> Modes]
  /\ running \in [Instances -> [Jobs -> Workers \cup {NoWorker}]]
  /\ scan \in [Instances -> SUBSET (Jobs \X (0 .. MaxAttempts))]
  /\ scanAge \in [Instances -> 0 .. MaxScan]
  /\ cancelIds \in [Instances -> SUBSET Jobs]
  /\ cancelAt \in [Instances -> {"none", "update", "notify"}]
  /\ crashes \in 0 .. MaxCrashes

WorkersOK ==
  /\ pc \in [Workers -> Steps]
  /\ cur \in [Workers -> Jobs \cup {NoJob}]
  /\ mine \in [Workers -> 0 .. MaxAttempts]
  /\ seen \in [Workers -> 0 .. MaxAttempts]
  /\ alive \in [Workers -> BOOLEAN]
  /\ beat \in [Workers -> 0 .. BeatTicks]

\* Every variable stays in its range, and claimed_by is set exactly on the
\* rows that are claimed or running (model.go).
TypeOK ==
  /\ RowsOK
  /\ ProcessesOK
  /\ WorkersOK

\* A queued row can always be claimed again: however cancels, failures,
\* expired leases and concurrent recovery passes interleave, no row is put
\* back with its attempts used up, where the claim would skip it for ever
\* (repository.go, Fail and RecoverExpiredLeases decide by an attempt number
\* they read in an earlier statement).
QueuedCanBeClaimed ==
  \A j \in Jobs : status[j] = "queued" => attempt[j] < MaxAttempts

\* A job is given up only when all its attempts were used: neither a late
\* Fail nor a recovery pass working on an old read fails it early.
FailedMeansExhausted ==
  \A j \in Jobs : status[j] = "failed" => attempt[j] = MaxAttempts

\* A worker that still passes the claimed_by test of the row it processes
\* holds the latest attempt: the worker name alone, without the attempt
\* number, fences off the workers of earlier attempts (repository.go,
\* Heartbeat, Complete and Fail).
HolderHasLatestAttempt ==
  \A w \in Workers :
    /\ pc[w] \notin {"idle", "selected", "reread"}
    /\ Owns(w, cur[w])
    => mine[w] = attempt[cur[w]]

\* While no process stalls past a due heartbeat, two handlers of one job
\* never run with live contexts, whatever crashes, cancels, refused
\* statements and recovery passes happen (queue.go, heartbeat).
OneLiveHandler ==
  \A v, w \in Workers :
    /\ pc[v] = "handling" /\ alive[v]
    /\ pc[w] = "handling" /\ alive[w]
    /\ cur[v] = cur[w]
    => v = w

\* A job succeeds only by the worker of its latest attempt, after that
\* worker's handler returned: a superseded worker's late Complete is lost.
SucceedsByLatestAttempt ==
  [][\A j \in Jobs :
       status[j] # "succeeded" /\ status'[j] = "succeeded"
       => \E w \in Workers :
            /\ pc[w] = "completing"
            /\ cur[w] = j
            /\ mine[w] = attempt[j]]_vars

\* The life of a job as the enqueuing code sees it, read off the row.
PhaseOf(s) ==
  CASE s = "queued" -> "waiting"
    [] s \in Held -> "trying"
    [] OTHER      -> s

Phase == [j \in Jobs |-> PhaseOf(status[j])]

Life == INSTANCE JobLifecycle WITH phase <- Phase, tries <- attempt

\* The queue keeps its promise: every step on the table, by whichever worker,
\* recovery pass or cancellation, is a step of the job's life or none.
LifecycleHolds == Life!Spec

\* A job that was enqueued ends, through crashes of the processes, lost workers
\* and refused statements, unless a handler of it runs for ever.
JobsSettle ==
  \A j \in Jobs :
    LET handled == \E w \in Workers : pc[w] = "handling" /\ cur[w] = j /\ alive[w]
    IN  status[j] \in Active ~> (status[j] \in Terminal \cup {"purged"} \/ []handled)

\* A cancelled job's handler has its context cancelled in the end, even on
\* another instance than the one that took the request, and even when the
\* deferred delete of a superseded worker removed its cancel function from
\* queue.running.
CancelReachesHandler ==
  \A w \in Workers, j \in Jobs :
    (pc[w] = "handling" /\ cur[w] = j /\ status[j] = "cancelled")
    ~> ~(pc[w] = "handling" /\ cur[w] = j /\ alive[w])

\* Stop returns: no worker waits for ever on its heartbeat goroutine.
StopEnds ==
  \A i \in Instances : mode[i] = "stopping" ~> mode[i] = "down"

-----------------------------------------------------------------------------
(* The inductive strengthening of the safety properties. *)

\* A worker that is past its loop has a row in hand.
WorkerHasRow == \A w \in Workers : pc[w] # "idle" => cur[w] \in Jobs

\* A row starts with no attempt, and one that is claimed or running had one.
AttemptsCounted ==
  \A j \in Jobs :
    /\ status[j] = "absent" => attempt[j] = 0
    /\ status[j] \in Held => attempt[j] >= 1

\* The attempt Fail has read is still that of the row, if the worker owns it.
SeenIsLatest ==
  \A w \in Workers :
    pc[w] = "failing2" /\ Owns(w, cur[w]) => seen[w] = attempt[cur[w]]

\* The attempt a recovery pass has read is still that of the row, if the
\* row's lease has not been renewed since the `now` of that pass.
ScanIsLatest ==
  \A i \in Instances : \A r \in scan[i] :
    ExpiredAtScan(i, r[1]) => r[2] = attempt[r[1]]

IInv ==
  /\ TypeOK
  /\ WorkerHasRow
  /\ AttemptsCounted
  /\ HolderHasLatestAttempt
  /\ SeenIsLatest
  /\ ScanIsLatest
  /\ QueuedCanBeClaimed
  /\ FailedMeansExhausted

\* A handler with a live context owns its row under a lease that outlives the
\* next heartbeat, unless the job was cancelled under it.
LiveLease ==
  \A w \in Workers :
    pc[w] = "handling" /\ alive[w]
    => \/ /\ Owns(w, cur[w])
          /\ lease[cur[w]] = beat[w] + (LeaseTicks - BeatTicks)
       \/ status[cur[w]] \in {"cancelled", "purged"}

LInv == IInv /\ LiveLease /\ OneLiveHandler
=============================================================================
