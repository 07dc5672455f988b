# EasySSH: specifications, model checking and proofs

This directory specifies the parts of EasySSH, its server and its web client, whose
correctness depends on the order in which several goroutines, processes, requests or
callbacks act. It holds TLA+ modules, the TLC
configurations that check small instances of them, and proofs that TLAPS checks for
instances of any size. `PROJECT.json` lists the runs, the theorems, the lines each
definition translates, and the hazards the properties are aimed at.

Paths below are relative to `src/server/internal`, those of the web client (sections 8 to
10) to `src/web/src`, unless they start with `src/`.

```
tlc -workers 2 -config JobQueueLive.cfg MCJobQueue      # one run
tlapm JobQueueProofs.tla                                 # one proof module
```

1. [The system](#1-the-system) · 2. [Plan](#2-plan) · 3. [Job queue](#3-job-queue) ·
4. [Task center](#4-task-center) · 5. [Background transfers](#5-background-transfers) ·
6. [SFTP connection pool](#6-sftp-connection-pool) · 7. [AI chat](#7-ai-chat-runtime) ·
8. [Web session](#8-web-client-session) · 9. [Terminal tab](#9-web-client-terminal-tab) ·
10. [File transfers](#10-file-transfers) · 11. [Proofs](#11-what-is-proved) ·
12. [Disagreements found](#12-where-the-code-disagrees-with-its-own-words) ·
13. [Not modelled](#13-what-is-not-modelled)

## 1. The system

EasySSH is a Go server (`src/server`) with a React client (`src/web`) and a desktop shell
(`src/desktop`). The server opens SSH connections on behalf of its users: terminals, SFTP,
monitoring, batch and scheduled commands, transfers and an AI assistant that runs tools.
Its state is in a database (SQLite, MySQL or PostgreSQL; several instances may share the
last two), on its disk, and in maps of each process. `src/server/cmd/api/main.go` builds
the services, recovers what the last process left behind and starts the workers (lines
366-493), and stops them in a fixed order (1183-1217).

| Component | State | Operations | Hard behaviour | Correct when | Here |
|---|---|---|---|---|---|
| Job queue `domain/jobqueue` | table `job_queue`: status, attempt, claimed_by, lease; per process: workers, map of cancel functions | Enqueue, Claim, MarkRunning, Heartbeat, Complete, Fail, CancelBySource, RecoverExpiredLeases, cleanup, Start, Stop | processes share the table; a statement may fail; a worker may lose its lease and go on | no row gets stuck; no attempt is counted wrongly; the outcome is that of the latest attempt; one live handler per job; jobs end | `JobQueue` |
| Task center `domain/taskcenter` | table of task runs with a status; per process: cancel functions | Create, Start, Complete, RequestCancel, RecoverInterrupted, Purge | four kinds of process write one row in several statements each | a run ends once and is told once; a request to stop is heard; only dead runs are failed by a restart | `TaskCenter` |
| Task executor `domain/taskexecutor` | run counters of scheduled tasks | run a command on servers, count, notify | the row, the counter and the notice are written apart | a run is counted and told at most once | `TaskCenter` |
| Background transfers `domain/transferjob` | row of the transfer, file on disk; its job in the queue; its run in the task center | accept an upload / download / scheduled transfer, attempt, cancel, recover, expire | one transfer is in three tables and on disk; attempts overlap; the server stops between statements | the run tells what became of the transfer; a completed download has its file; everything accepted ends | `Transfers` |
| SFTP connection pool `domain/sftp/pool.go` | one connection per (user, server), reference counts, marks, permits | get, release, CloseByKey, cleanup loop with keepalive, CloseAll | the lock is let go between looking and counting, and around every dial and close | permits and references balance; the pool hands out usable connections; none is cut under its users; none leaks | `SftpPool` |
| AI chat runtime `domain/aichat` | sessions: messages, tasks, status, current run, subscribers; stored snapshots | send, regenerate, confirm, cancel, close, restore, cleanup | the run goes on while the user acts; one lock, let go around every call of the model or a tool | one run at work at a time; no tool unasked; a cancelled tool does not run; a busy session becomes free; the last snapshot wins | `AiChat`, without snapshots |
| Scheduler `domain/taskscheduler`, `scheduledtask`; batch tasks `domain/batchtask` | cron entries; rows of tasks; row of a batch | add, update, toggle, delete, fire; start, execute, complete | the row is written, read and handed over in steps; the row says queued before the job exists | the entry follows the row; a batch ends when its job does | planned |
| Notification outbox `domain/inboxnotification` | deliveries with lock time and attempts | notify, claim, deliver, retry | leases without an owner | sent at least once, a sent one is not sent again | planned |
| Authentication `domain/auth`, `oauth`, `oauthprovider`, `verification` | users, sessions, tickets, counters, grants, codes | login, refresh, second factor, revoke, lock | read-modify-write of the user's row; counters per process | a one-time thing is used once; a revoked session stays revoked | planned |
| Monitoring `domain/monitor`, `monitoring` | pooled connections, one collector per server | acquire, release, subscribe, unsubscribe | references counted outside the lock, a dial that outlives its caller | no connection closed under a subscriber, none leaked | planned |
| Uploads `api/ws/sftp_upload.go`, `api/rest/sftp.go` and the page's `uploadFile` | tasks, sockets and cancel functions by id; the page's slots, queue, marks and entries | create, queue, watch, poll, send, cancel, clear | five writers of one entry; a cancellation before, while and after the copy | slots are handed on; a cancelled upload is not completed; an entry that ended stays so | `Uploads` |
| Direct transfers `api/ws/sftp_transfer.go` and the page's `directTransfer` | tasks, last messages, sockets by id; the page's entry | start, watch, cancel | the socket comes late: the copy goes on, ends and is forgotten meanwhile | the page learns how the copy ended | `DirectTransfers` |
| Other sockets `api/ws` | terminals, monitoring | open, input, resize, close | set-up races with the timeout; reconnects | a session has one owner that closes it | planned |
| Realtime events `domain/realtime` | channels per user | publish, subscribe | full channels drop events | events are only hints | no |
| HTTP interface `api/rest`, `api/middleware` | none of its own | decode, authorize, call services | – | – | through the services |
| Servers, keys, scripts, settings, permissions, logs | rows | one statement each | – | – | no |
| Web client session `src/web/src/lib/session-refresh.ts` and around | access token, the shared refresh, its suspension, the mark of an idle session shared by the tabs | request, refresh, load the configuration, log in, log out, expire | everything awaits one refresh; answers come after the sign-out | nobody waits for ever; a page that is out stays out | `WebSession` |
| Web client terminal tab `src/web/src/lib/websocket-terminal.ts` and around | connection objects, refs of the hook, entry of the store | connect, reconnect, turn to another server, unmount, mount, close | tickets, dials and timers that end after the tab has left | the connection that lives is the tab's | `TerminalSocket` |
| Web client monitoring connections `src/web/src/stores/monitor-store.ts`, `useMonitorWebSocket.ts` | one connection, count and timer per server; each hook's socket and reconnects | subscribe, dial, reconnect, unsubscribe, destroy | the timer that closes, tickets and reconnects race with tabs that come and go | a live connection is wanted or about to be closed; who watches gets one | `MonitorSocket` |
| Rest of the web client, desktop client, shared libraries, packaging | the clients' own | – | – | – | no |

**How they interact.** A scheduled or batch task and a transfer become jobs of the *job
queue*; its handlers are the *task executor*, the batch service and the *transfer service*
(main.go:484-486). Each of these shows what it does as a run of the *task center*. A user's
cancellation goes to the task center, from there to the source of the run, and, for
transfers, to the queue and to the row of the transfer. The end of a run reaches the
*notification outbox* and, as an event, the *realtime hub*. Transfers, the file manager and
the file tools of the *AI runtime* take their connections from the *SFTP pool*; terminals,
the executor and monitoring dial their own.

**What is hard.** Hardly any lock or transaction spans two statements, so that between any two of them another
goroutine, another process, or a restart may act; almost every operation is a sequence of
them. Leases time out while their holder is alive. Functions that cancel something live in
maps of one process while the request arrives at any. Errors of the database are mostly
logged and passed over. `PROJECT.json` has the list, each at its line.

## 2. Plan

The order follows what everything else rests on: the queue, then what the queue runs.

| | Module | Composes / implements | State |
|---|---|---|---|
| 1 | `JobLifecycle` (abstract), `JobQueue` | `JobQueue` implements `JobLifecycle` | modelled, checked, proved |
| 2 | `TaskLifecycle` (abstract), `TaskCenter` | `TaskCenter` implements `TaskLifecycle` | modelled, checked, proved |
| 3 | `Transfers` | uses `JobLifecycle` and `TaskLifecycle` by `INSTANCE` | modelled, checked, proved but for the liveness |
| 4 | `SftpPool` | – | modelled, checked, proved |
| 5 | `AiChat` | – | modelled but for snapshots, checked, proved but for the liveness |
| 6 | `WebSession`, `TerminalSocket`, `MonitorSocket` | `MCWebClient` runs each, as scenes of one run | modelled, checked, proved but for the liveness |
| 7 | `Uploads`, `DirectTransfers` | `MCFileTransfers` runs either, as scenes of one run | modelled, checked, proved but for the liveness |
| 8 | `TransfersProofs`, and the safety that was only model-checked in the other modules | every invariant and action property a run checks is a theorem | proved |
| | AI snapshots | what is stored is restored, the last one wins | later |
| | staged inputs of scheduled transfers | what a task refers to is on disk; an input serves one task; none is left | later |
| | scheduler and batch tasks | batch rows over `JobLifecycle` | later |
| | notification outbox, monitor pool, terminals, authentication | – | as far as the time of the checks allows |

Each component has: the module with its constants and their assumptions, one action per
step of the code, and the properties; an `MC` module with the values TLC cannot write in a
configuration; a configuration with the safety properties under faults, one with fairness
when something must happen, or one run with both where an outage is part of its initial
state; and a proof module. No module declares a recursive operator. Sizes are chosen so that
a run ends in about a minute. A type invariant that is proved for every instance is not
checked by a run as well, and the same holds for a few other invariants (section 11).

## 3. Job queue

*Code*: `domain/jobqueue/{queue,repository,model}.go`. *Modules*: `JobQueue`, `JobLifecycle`,
`MCJobQueue`, `JobQueueProofs`.

**State.** `status`, `attempt`, `owner` (claimed_by), `lease` and `delay` are the columns of a
row. Each worker goroutine has a `pc`, the row in its hand and the attempt it believes it is;
`alive` says whether its handler's context is still live, `beat` is the ticker of its
heartbeat. `running` is the map of cancel functions of one process, `mode` the life of a
process, `scan` what its recovery pass has read, `cancel` what a CancelBySource has read.

**Steps.** One SQL statement is one step. What a goroutine does between two statements has no
effect on others and belongs to a neighbouring step. `ClaimLocked` is the transaction with
`FOR UPDATE SKIP LOCKED`; `ClaimSelect`, `ClaimUpdate` / `ClaimLost` and `ClaimReread` are
the three statements SQLite gets instead (repository.go:58-134). `Heartbeat` and
`FirstHeartbeat` renew the lease or find that it is lost. `FailRead` and `FailWrite` are the
two halves of `Fail`, `ScanSelect` and `ScanUpdate` those of `RecoverExpiredLeases`.
`StatementFails` abandons whatever the worker was about to write, `ProcessGone` is what is
left of a process that died: its rows keep a claim in the name of a worker that no longer
exists (`DeadWorker`).

**Time** is relative: a lease, a delay and a ticker are numbers of ticks left, so that a
behaviour has no last moment. `Stalls` lets a process miss a heartbeat that is due; without
it time waits for the heartbeat, as a process that is scheduled would have it. The code's
ratio (lease 60 s, heartbeat 20 s, poll 0.5 s) becomes a lease of two ticks and a heartbeat
of one.

**Abstractions.** Rows with the same priority and time are taken in any order. The clocks
of the instances agree. Cleanup may remove an ended row at any time after its end. A
payload is nothing: handlers are free to do and return what they like. `Enqueue` always makes a row: with
a deduplication key whose row is there the code makes none and hands that one out (repository.go:41-48); only scheduled
commands have a key (taskscheduler/scheduler.go:259). `HandlerReturns` cancels the handler's context and waits for the
heartbeat in one step (queue.go:211-212): the cancellation only makes the heartbeat end, and a renewal that is still under
way then is one that came just before.

| Run | Instance | Properties |
|---|---|---|
| `jobqueue_sqlite` | 1 process, 2 workers, 1 job, 2 attempts; SQLite's claim, stalls, refused statements, cancellation, one stop or crash, recovery passes that take up to 2 ticks | `QueuedCanBeClaimed`, `LifecycleHolds` |
| `jobqueue_live` | the same with row locks and without stalls, and with fairness | `OneLiveHandler`, `JobsSettle`, `StopEnds`, `CancelReachesHandler` |

*What they show.* `QueuedCanBeClaimed`: the claim skips rows whose attempts are used up, so a
row put back with none left would wait for ever; no interleaving of `Fail`, the recovery
pass and the claim does that, although the first two decide by an attempt number they read
in an earlier statement. `HolderHasLatestAttempt` and `SucceedsByLatestAttempt`, which are proved: the tests on
claimed_by carry only the worker's name; since a worker is not back in its loop while it has
an old attempt in hand, the name is enough to keep old attempts from writing.
`LifecycleHolds`: the table implements `JobLifecycle`, which is what `Transfers` builds on.
`OneLiveHandler`: with heartbeats on time no two handlers of a job run with live contexts,
whatever crashes. With stalls this is false, and the code does not claim it. `JobsSettle`: a
job ends unless its handler runs for ever (the code sets no limit). `CancelReachesHandler`: a
cancelled job's handler is told, on whichever instance, if only by its next heartbeat.

*Bounds.* One process and one job suffice for TLC: jobs interact only in the order of the
claim, and processes differ from workers only in the map of cancel functions and in crashing
together. The interesting races need two workers (an old and a new attempt) and two attempts.
The theorems of section 11 cover any numbers.

*Fairness.* Every goroutine's loop goes on (weak fairness of each worker, of the recovery pass
and of the clock); a process that is down is started again (`restart: unless-stopped` in
`src/docker/docker-compose.yml`); the recovery pass, tried again and again, is not refused
each time (strong fairness of `ScanUpdate`). A handler must return only if its context is
cancelled.

## 4. Task center

*Code*: `domain/taskcenter/{service,repository,model}.go`, `domain/taskexecutor/executor.go`.
*Modules*: `TaskCenter`, `TaskLifecycle`, `MCTaskCenter`, `TaskCenterProofs`.

**State.** The status of each row; for each execution where it is, on which instance, and
whether it was told to stop (`execution`, `host`, `stopped`); `registered` is the map of cancel
functions, of which each execution has one, on its host; a request to cancel has a state, a
target and the status it read; `life` and `unfinished` are an instance's start-up and the rows
its recovery has read; whoever ends a row (`completer`) then counts it in its definition and
tells the notifier.

**Steps.** `CreateRow`, `StartRow`, `Decide`, `CompleteExecution` and `Leave` are the executor's;
`Ask`, `Mark`, `Signal` and `Revert` are RequestCancel (service.go:320-345), which marks the row,
calls the function of its own instance, and, when that is not there, writes back the status it
had read. `Boot`, `FailInterrupted` and `RecoveryFails` are RecoverInterrupted. "interrupted" is
the status failed with the error code `server_restarted`. A read followed by an update whose
`WHERE` repeats the test is one step. Progress and stages are left out, they are data nothing
depends on. The branch for transfers is in `Transfers`.

| Run | Instance | Properties |
|---|---|---|
| `taskcenter_single` | 1 instance, 1 run, 2 requests, 2 crashes; calm or stormy; fairness when calm | `InterruptedIsDead`, `CalmCancelingIsHeard`, `ToldOnce`, `StartedStaysStarted`, `CalmRunsEnd`, `ImplementsLifecycle` |

`weather`, chosen once in `MCTaskCenter`, says whether the database may refuse statements: in a
storm every statement may fail, when it is calm none does. The two properties that need a
database that works, `CancelingIsHeard` and `RunsEnd`, are claimed for calm weather; the others
for both.

*What they show.* However many processes end a row, its end is told and counted at most once.
With one instance, only dead runs are failed by a restart, a row never stays in "canceling"
without somebody who will end it, a run that was seen running is not shown as queued by a
refused request, and every run ends. With two instances the first of these is false: a second
instance that starts fails the runs the first one is executing (section 12).
The converse of `ToldOnce` does not hold: a crash between the row and the notice loses the
notice for good.

*Bounds.* Runs interact only through the counter of a definition; one run with several completers
is where it could be counted twice. Two requests and two crashes let a recovery meet a request of the life before.
That several instances share the table changes who completes a row, not how often it is told:
`ToldOnce`, the refinement and `CalmCancelingIsHeard` are proved for any number of instances (section 11).

*Fairness.* Weak fairness of each execution, completer, request and of the start of an instance:
they are goroutines, commands have a timeout, and containers are restarted.

## 5. Background transfers

*Code*: `domain/transferjob/{service,repository,model}.go`. *Modules*: `Transfers`, with
`JobLifecycle` for the queue and `TaskLifecycle` for the runs, and `TransfersProofs`.

**State.** `job` (the row), `file` (absent, partial, whole), `phase` and `tries` (the queue's row),
`runOf` (task_run_id), and per process `pc`, the copy of the row it has read, and whether it was
told to stop. Processes of a transfer are the request that creates it, each attempt of the
queue, and a request to cancel; a run is named after the process that created it, which
creates one at most. `server` goes up, stopping, down and recovering.

**Steps.** `syncTaskRun` is five statements (`ReadRow`, `CreateRun`, `BindRun`, `Apply` and their
failures) that every process goes through after each of its own; that is where copies grow old.
`AcceptUpload`, `StagingEnds`, `AcceptDownload`, `OpenScheduledRun`, `AcceptScheduled` and `Enqueue`
are creation; `Take`, `Load`, `Begin`, `Open`, `TransferEnds` / `TransferFails` / `TransferStopped`,
`Complete` and `Return` an attempt; `AskCancel`, `CancelQueue` and `CancelRow` a cancellation;
`StopServer`, `Down`, `Crash`, `Boot`, `RecoverRun`, `MarkStagingInterrupted` the server's life.

| Run | Instance | Properties |
|---|---|---|
| `transfers_faults` | one transfer of any kind, 2 attempts, cancellation; calm: 2 stops or crashes, fairness; stormy: refused statements, clients that disconnect, 1 stop or crash | `RunMatchesJob`, `CompletedHasFile`, `CancelReaches`, `CalmDoneMeansEnded`, `CalmTransfersEnd`, `CalmRunsEnd` |
| `transfers_scheduled` | a scheduled transfer and one stop | violates `InterruptedIsOver`: section 12 |

*What they show.* A run that ended tells what became of its transfer although it is written from
old copies; a completed download has its file; when both rows are cancelled nobody goes on
moving data unaware; what the queue counts as done is final; a transfer ends. `MCTransfers` adds
`weather` as `MCTaskCenter` does: the stormy steps are those of an instance of `Transfers` with
`Outages` set, and the three properties named `Calm...` need a database that refuses nothing.

*Exceptions the model insists on*, each stated in the property:
`RunsEnd` excepts a cancelled transfer (the request that creates and the one that cancels may
each find no run and create one; the first is overwritten and never completed) and stops of the
server (a crash between the row's end and its run's leaves the run open, the next attempt
returns early). `TransfersEnd` excepts stops (a crash before the row is enqueued leaves it
there; and with as many stops as attempts the queue gives up and the row stays running). `CompletedHasFile` and `CancelReaches` are checked without stalls: with a lost
lease two attempts share the file's path. An error of the connection or of the copy fails the
transfer at once (service.go:805), the retries of the queue serve only stops and crashes.

*Bounds.* Transfers meet only in the limiter and the quota, which are abstracted (an attempt may
wait or be refused at any time), and in the server, so that one transfer suffices.

*Fairness.* Weak fairness of each process, of workers, leases and the start; strong fairness of
the end of a body being received and of a copy, that is: the network neither delivers for ever
nor hangs for ever.

*Left out*: deletion and expiry of artifacts, and staged inputs. Transfers between two servers
that a page watches are `DirectTransfers` (section 10).

## 6. SFTP connection pool

*Code*: `domain/sftp/pool.go`, `Close` of `domain/ssh/client.go`. *Modules*: `SftpPool`,
`MCSftpPool`, `SftpPoolProofs`.

**State.** For one key (keys share only the lock): `pooled` is the entry of the map, `permits` the
channel of the key, `conns`, `refs` and `closing` the state of each connection, `toClose` the
connections a goroutine has taken on itself to close. A request dials once at most, so its
connection has its name. `how` tells how a request got its connection: found under the lock,
dialed, or found on the second look and counted after the unlock ("late").

**Steps.** One acquisition of a lock is one step. `Get` and `Recheck` are the two looks of `get`
and `createNewSSH`, `CountLate` the late reference, `Connect` the dial, `Insert` and `Put` the
insertion, `OpenSession` and `SessionFails` the session. `ReadCurrent`, `ReleaseRef` and `Settle` are
`releaseSSH`; `Invalidate`, `Uncount`, `Condemn` and `Bury` `invalidateSSHConn`; `MarkClosing` and
`MaybeClose` `markClosingAndMaybeClose`. `SweepExpired`, `SweepIdle`, `ProbeAnswered` and `Evict` are a
turn of the cleanup loop, `CloseAll` its end.

**Abstractions.** The idle time and the life time of a connection may run out whenever nobody
uses it; a keepalive may time out at any time; only the connections of `Flaky` requests refuse
sessions, and they may do so each time. `IsConnected` is cleared by `Close` only (client.go), so a
broken link shows only as a refused session or keepalive. No limit (`MaxSFTPSessionsPerConn = 0`)
is left out; `PooledClient.Close` and `forceRemoveSSH` have no caller.

| Run | Instance | Properties |
|---|---|---|
| `sftppool_sessions` | 3 requests, one with its own credential, one on whose connection sessions may be refused, 2 permits, one CloseByKey, cleanup loop, shutdown | `CountsMatch` (`PermitsCounted` and `RefsCounted`), `NothingLeaks` |
| `sftppool_cut` | 2 plain requests and one CloseByKey | violates `InUseIsOpen`: section 12 |

*What they show.* Permits and references balance on every way out, so that the limit of sessions
is neither exceeded nor eaten up; the pool's entry is always usable (`PooledIsUsable`, proved); while the server runs, a
connection in use is closed only if it had been marked (`CutOnlyIfMarked`, proved). That is weaker than it should be, for
two reasons the model shows: `releaseSSH` acts on a count and on `isCurrent` it has read before,
and a late reference is counted after the unlock. `NothingLeaks` likewise excepts two leaks: a
connection on which a session was refused (`invalidateSSHConn` drops its reference, pool.go:733,
before it marks the connection; a release in between sees neither reason to close it), and one
that a request with its own credential overwrites in the map (pool.go:528).

*Bounds.* Three requests are one that dialed, one that shares, and one that replaces. There is no
liveness claim: a request waits for a permit as long as its context allows.

## 7. AI chat runtime

*Code*: `domain/aichat/runtime/manager.go`. *Modules*: `AiChat`, `MCAiChat`, `AiChatProofs`.

**State.** One session. `closed`, `status`, `processing`, `currentRun`, `currentRunID`, `toolRun` and
`active` are the fields of `sessionState` that decide who may act; `task` is the status of each
task. A run is numbered; its number also names its context (`ctx`) and its cancel function, which is
taken under the lock and called after the unlock (`doomed`). `pc`, `todo`, `autos`, `wait` and `cur` are
where a run's goroutine is; `tpc`, `trun` and `decision` the same for the goroutine that
resolves a task. `early` remembers that a confirmation came while a run was at work.

What was said is in two lists: `messageViews`, what the user sees, and `messages`, what the language model is
told. Neither is kept as a list. Of the first the model has the length (`views`), the places of the messages of the user
(`users`), of the answers that called tools (`homeAt`) and of the words that are being heard (`shownAt`); of the
second the length (`turns`) and the places of the calls (`callAt`) and of their results (`replyAt`). The
cut counts messages that are not of a tool, so a result has the place of the message before it. The
lists need not correspond: an answer without words is only in the second (manager.go:1840), the words of an answer
that failed or was cancelled are only in the first (:1800-1814).

**Steps.** What runs under one acquisition of `Manager.mu` is one step. `SendUserMessage`,
`RegenerateAfterUserMessage`, `UpdateUserMessage`, `DeleteMessage`, `ConfirmTasks`, `CancelSession`,
`CloseSession`, `DeleteSession` and `CleanupLoop` are the requests and the cleanup. The three edits take any message of the
user and cut both lists by one count (`Truncate`). `Start`, `Ask`, `AppendDelta`, `StreamEnds` / `StreamFails`,
`MakeUnknown` / `MakeTask` / `MarkWaiting`, `AutoBegin` / `AutoEnd`, `Check`, `Again`, `Wrap` and `Complete` are the loop of
`runSessionWithContext`: the model is asked, its tool calls become tasks, those that need no
confirmation are executed, and it is asked again unless one waits. `ResolveGone` to `ResolveAfter`
are `resolvePendingTask`; the last resolver of a tool run goes on as the loop of that run.

**Abstractions.** Texts, events, titles and stored snapshots are left out; a session restored
from a snapshot is therefore not modelled. Each tool call occurs once. A request to confirm names a task once:
`ConfirmTasks` takes a set, while the code (manager.go:673-683, 700-721) lets one request name a task twice and then
starts two goroutines for it. The places of the user's own messages in `messages` are not kept: after answers without
words an edit may cut the message it is made at, or change another (see the hazards).

| Run | Instance | Properties |
|---|---|---|
| `aichat_turns` | 3 runs and cancellations, in two scenes: 2 tools that need a confirmation; or 1 such tool, edits at any message, words, and 1 run cancelled | `ConfirmedFirst`, `OneRunAtWork`, `CancelledStays`, `AskedWithAnswers` |
| `aichat_ends` | 1 tool that needs a confirmation and 1 that does not, 2 runs of which 1 is cancelled, timeouts, closing, deletion, cleanup, under fairness | `QuietMeansQuiet`, `BusyEnds`, `TaskEnds` |

*What they show.* No tool that needs a confirmation is executed without; the result of a tool
that was cancelled meanwhile is dropped; the last resolver, and only it, goes on (`CountsResolvers`, proved). A run that was
cancelled before it had registered its cancel function finds, when it starts, that it is not the
current one (manager.go:889), so that the next message does not find two at work; a session that accepts
messages has nothing at work for it; and a busy session becomes free. The language model is asked with the result of each
of its calls and with no result whose call is gone, at whatever message the history was cut, also while a call waits for its
confirmation, as long as the lists correspond.

*What they except, and why.* A user may confirm a task while the run that asked for it still makes or executes
others: events tell him at once, and the repository's own test (`aichat/runtime/manager_test.go`)
confirms on that event. Then two goroutines act for one turn, and `OneRunAtWork`, `QuietMeansQuiet` and
`AskedWithAnswers` are false: the last resolver asks the model again while a call of the first
run is unanswered, and registers its cancel function over that of the other. The properties say
`~early`; without it TLC finds each violated in a few steps. `ConfirmedFirst`, `CountsResolvers` and
`CancelledStays` hold nevertheless.

`AskedWithAnswers` also says `~askew`. The lists have ceased to correspond in one of two ways. A message of the user may go
further down the visible list than the other, behind the words of a failed or cancelled answer: then
a cut at it spares what it should cut, and a call whose task it deletes stays behind unanswered. Or the answer of a
run that was told to stop, which `finalizeAssistantTurn` appends without asking whether the run is the current one, comes
between a call that waits and its result. Without `~askew` TLC finds the property violated in the second scene of `aichat_turns`.
The other way round, a visible list that is shorter, does no harm to calls and results, since what
is unanswered is at the end of both, and is not excepted.

`TaskEnds` excepts tasks whose run is at its end: a timeout
leaves the rest of the tasks of a turn queued (manager.go:1004), and a decision that comes as the tool
run expires leaves its task running (manager.go:1047). Between its creation and its marking
(manager.go:1329) a task may be cancelled, and the mark makes it wait again, or be
removed by an edit, and a nil pointer ends the process (`up`).

*Bounds.* `MaxRuns` counts messages, regenerations and tool runs together: three are a message, its tool run
and a message that follows a cancellation; or a message whose answer fails, a second whose call waits, and its
regeneration, which is the shortest way to lists that do not correspond. `MaxStopped` bounds the runs that `CancelSession` stops;
one suffices for edits, as the words of an answer are left by a failure, too, and beside the ends of the session.
The scenes of `MCAiChat` keep apart what would be too many states together: several calls, and edits. `Incidents` says which rare things a run
includes. Tools are interchangeable in `aichat_turns`, which has no
liveness property: the symmetry is sound.

*Fairness.* Weak fairness of each goroutine. It includes that the language model and the tools
return: both get the context of the turn, which ends after `Limits.TurnTimeout`.

## 8. Web client session

*Code*: `lib/session-refresh.ts`, `lib/api-client.ts`, `lib/api/auth.ts`, `providers/session-refresh-provider.tsx`,
`contexts/system-config-context.tsx`, `components/client-auth-provider.tsx`, `lib/auth-session-activity.ts`.
*Modules*: `WebSession`, `MCWebClient`, `WebSessionProofs`.

**State.** One page. `token` and `auth` are the access token of the store and the status of the
configuration, `refreshing` the one promise of a refresh that everybody shares, `suspended` its
suspension by a sign-out, `timer` and `due` the two effects of the provider, `idleMark` the mark in
localStorage and `note` the storage event that tells of it. A request (`req`), a load of the
configuration (`load`) and a sign-out (`out`: logout() or the tail of an idle expiry) each have a
progress.

**Steps.** The page has one thread: a step is what runs from one await, timer or event to the
next. `RefreshSucceeds`, `RefreshRefused` and `RefreshFails` are the three ends of the shared refresh;
each wakes in the same step whatever waits for it (`Awake`). `Request`, `Answered`, `Unauthorized` and
`Ejected` are a call with its first and second 401; `StatusIdle`, `StatusKnown`, `StatusRestores` and
`StatusAgain` are checkStatus; `Login`, `Logout`, `LogoutDone` the user's; `TimerFires`, `IdleTimeout`,
`StorageEvent`, `RunEffects` and `ExpiryDone` the provider's. `Reload` is a new page.

**Abstractions.** A token carries its `expires_in`. Whether a request that was ejected was made from
the login form is a choice (`Eject`). The repeat after a missing CSRF token and the retries of a
GET belong to a request being under way. Activity times out at any load. The server and the
other tabs may do anything. `refreshUser` is left out.

## 9. Web client tabs: terminal and monitoring

*Code*: `lib/websocket-terminal.ts`, `hooks/useWebSocketConnection.ts`, `stores/terminal-store.ts`,
`pages/dashboard/terminal-page.tsx` for the terminal; `stores/monitor-store.ts` and
`components/terminal/monitor/hooks/useMonitorWebSocket.ts` for the monitoring. *Modules*: `TerminalSocket`,
`MonitorSocket`, `MCWebClient`, `TabSocketsProofs`.

**Terminal.** *State*: each object of `TerminalWebSocket` has its fields (`phase`, `manual`, `destroyed`, `attempts`), the
`step` an await or a timer of it holds, and the `link` of its socket; the tab has an entry in the
store (`instance`, `stored`, `storedServer`), a component (`mounted`, `target`) and the refs of its hook
(`ref`, `refServer`); `mine` are the objects whose callbacks hold the refs of this mount.

*Steps*: `TicketAnswered`, `TicketFails`, `TimerDials`, `Opened`, `Closed`, `Prompted`, `Connected`,
`FatalError` and `ServerCloses` are what an object hears; `SetTarget`, `TerminalReady`, `Mount`, `Unmount`,
`DestroySession` and `CancelAuth` what the tab does, of which the first four run the hook's effect
(`Effect`: release, adopt or renew).

*Abstractions*: an object is made once; the run's two are the old and the new connection of a
tab. Input, output, pings and completion move data and are left out, and so is the end of the window. The hook's `reconnect`
(useWebSocketConnection.ts:490) is left out because nothing calls it: the hook returns it, and its only user does not
take it. The tab is turned to another server while its component is away only before the first mount, as in the
pages. `TicketAnswered` is the ticket and the URL it goes into (websocket-terminal.ts:338-357): between the two
awaits nothing is checked, and the resolver of the URL that the page uses is synchronous.

**Monitoring.** *State*: a tab's hook has the server it watches (`serverId`, while the terminal is ready), its
`wsRef` and its `reconnectAttempts`; the store has one connection for each server (`connections`), how many watch
it (`refCount`), and the timers the last to leave has set (`sweeps`). A `wire` is an attempt to connect from its
ticket to its end or its next reconnect, with the hook (`by`) and the server (`host`) it is for. Two variables are
history: `gaveUp` says that the last attempt for a watched server came to nothing for good, `strays` are
the connections nobody is going to close.
*Steps*: `Watch` and `Leave` are the two effects of the hook and the cleanup of the first; `TicketTaken` and
`TicketRefused`, `WireOpens`, `WireDrops` and `CloseEnds` are what an attempt hears, `Redials` the reconnect timer;
`DestroyConnection` is the timer of the store, which asks the count again.
*Abstractions*: metrics, latencies and the interval are left out. A wire that has ended is taken out of
`wsRef` and `connections`, where the code keeps a dead socket: everything that reads them asks
`readyState`. An aborted dial ends with code 1006, whatever code close() was given, and is therefore dialed again.

| Run | Instance | Properties |
|---|---|---|
| `web_client`, scene "session" | 1 request, 1 load, 1 logout, 1 idle expiry, other tabs, reloads | `SuspendDrains`, `OutMeansOut`, `EachSettles`, `IdleReachesPage` |
| `web_client`, scene "terminal" | 2 objects, 2 servers, 2 reconnects | `StoredLives`, `ConnectingEnds` |
| `web_client`, scene "monitor" | 2 tabs, 2 servers, of which one tab watches one, 2 attempts under way, 1 reconnect, 1 timer of a server at a time | `WiresHaveOwners`, `WatchedGetsWire` |

The three share no variable. They are scenes of one run, and `scene` says which one a behaviour
shows while the others stay as they began.

*What they show.* Whoever waits for a refresh has one to wait for (`WaitersHaveRefresh`, proved) and goes on when it ends. A
sign-out that finds a refresh under way waits for it, so that no late answer brings the session
back, and a page that is out holds no token whatever its requests and loads were doing. The
mark of another tab reaches a page that was restoring its session when it was set. The connection that
lives in a tab is the one its store holds, through every change of server, close and
mount, and no object that was destroyed is asking for a ticket to dial with (`StoredLives`; `DestroyedStaysOff` is proved); a
connection does not stay on its way. A live monitoring connection is the store's, and is watched or about to be
closed; a server that is watched gets a connection although timers and reconnects of tabs that left run late.

*What they except, and why.* `WiresHaveOwners` excepts what section 12 tells of. `WatchedGetsWire` excepts a tab that
turns to a second server while its hook still holds a live connection to the first, as when another tab watches that one:
connect() finds `wsRef` live (useMonitorWebSocket.ts:404) and returns, and nothing calls it again until the tab is
cut off.

*Bounds.* One of each actor meets one of each other; two requests differ from one only in
sharing the refresh, which the proofs cover. Objects of a tab meet when one follows the other, so two
suffice; the code's three reconnects (`maxReconnectAttempts`) become two. Two tabs are one that leaves and
one that comes or stays; the second tab stays with one server, the first changes; five monitoring reconnects become one,
which tells an attempt that is repeated from one that is given up.

*Fairness.* Every request is answered or fails, and the page runs its effects and events;
nobody must act as a user. Tickets of both kinds and dials are answered, timers run out. `ConnectingEnds` also
assumes strong fairness of the server's word on its SSH connection: each socket that opens sets
the count of attempts back to zero (websocket-terminal.ts:361), so that against a server that
drops every socket at once the page dials for ever, as the model shows without it.

## 10. File transfers

*Code*: the calls of the page in `src/web/packages/ssh-workspace/src/session/` (`transfer-manager-controller.ts`,
`transfer-runtime.ts`, `transfer-controller.ts`, `transfer-tasks.ts`), `api/ws/sftp_upload.go`,
`api/ws/sftp_transfer.go` and the handlers of `api/rest/sftp.go`. *Modules*: `Uploads`, `DirectTransfers`,
`MCFileTransfers`, `FileTransfersProofs`. These are the transfers a page watches; those of section 5 run without one.

**Uploads.** *State*: the call `uploadFile` (`upload`), the entry it shows (`bar`), the limiter's `active` and
`queue`, the mark `cancelledBeforeStart`, the socket (`watcher`), the polling, and the two ways of a
cancellation (`post`, `word`); on the server the task (`record`), the request that carries the file (`stream`),
whether its context is cancelled (`cut`), its answer, the registered socket (`joined`) and what it has been
told (`tidings`). `heard` remembers that the server took a cancellation before it began to copy.
*Steps*: `StartUpload` to `UploadAnswered` are the call from one await to the next. `Return` is its last update
and its `finally`, and with it `GiveUpSlot`: the calls it wakes run up to their next await, so that one that finds its
mark hands its slot on in the same step. `StreamArrives`, `StreamRegisters`, `StreamStarts`, `StreamGoesOn` and
`StreamDone` / `StreamFails` are `UploadFileStream`, `TakeCancel` is `CancelTaskForUser`, `TaskExpires` the hourly
cleanup, `ClearSettled` the user's button.

**Direct transfers.** *State*: the goroutine that copies (`relay`), the status of its task (`outcome`), its
last message (`lastProgress`), the handler of the socket with what it found (`handler`, `found`); on the page
the call, the entry (`shown`), the socket and the messages on their way. *Steps*: `FindTask`, `RegisterSocket`
and `Resend` are the handler's, each under a lock of its own; `CopyGoesOn`, `SubdirectoryDone`, `CopyDone`,
`CopyFails` and `ForgetTask` the goroutine's; `Watch` and `DirectDrops` what the page hears.

**Abstractions.** Percentages are left out, so that messages of progress matter only as the message
kept last. A poll is a question and its answer in one step. An aborted request may be lost, or reach the
server and be aborted there at any time. Some steps of the server are one in the model. `WatcherJoins` looks for the owner,
upgrades and registers (sftp_upload.go:305-322), so that a socket that is open is registered; a word said in
between is lost, as is one said before. `StreamDone` is the message "complete" and the HTTP answer (rest/sftp.go:1124-1153),
and `CopyDone` the message "complete" and the status that follows it (sftp_transfer.go:745 or :850, then :398);
the page takes the message and the answer in separate steps and in either order.

| Run | Instance | Properties |
|---|---|---|
| `file_transfers`, scene "uploads" | 2 uploads, 1 slot, one of them watched and cancelled | `SlotsBalance`, `CancelSticks`, `EndedStaysEnded`, `UploadsEnd` |
| `file_transfers`, scene "direct" | 1 transfer of nested directories, watched and cancelled | `DirectEnds` |
| `direct_nested` | the same transfer alone, without fairness | violates `CompleteIsComplete`: section 12 |

*What they show.* No upload loses or keeps a slot, however it ends and whether or not it ever got
one. A cancellation the server took before it began to copy is never followed by "completed", wherever the
request was, although "started" overwrites the cancelled status. A call that has returned leaves an
entry that has ended, and no message, poll or progress under way turns it back; an upload that queues returns.
`DirectEnds` excepts two cases the code has: the copy ends between the handler's lookup and
its registration of the socket, and nobody is told (`missed`); and "started" turns the entry back after the
cancellation was shown, and the socket then drops without a word.

*Bounds.* Two uploads on one slot are one that holds and one that waits; the third slot of the page
adds nothing to who gets which. One cancellation is under way at a time; one message of a kind is unread at a
time. Direct transfers share nothing but the maps.

*Fairness.* Requests are answered or fail, the page's waits for a socket have their limits (two and five
seconds), a body that is being sent ends or breaks, and a copy ends after 30 minutes at the latest. Polls,
sockets and users need do nothing.


## 11. What is proved

TLAPS checks the following for any finite or infinite sets of jobs, workers, runs, instances,
and so on, under the assumptions the modules name (`WorkerAssumption`, `TimeAssumption`, ...: that
identifiers differ and numbers are numbers, which TLC evaluates in each run). `PoolAssumption` asks
for finitely many requests and `ChatAssumption` for finitely many tool calls, because references and
resolvers are counted by cardinality.

**`JobQueueProofs`.** The inductive invariant `IInv` is the conjunction of the safety properties
with what they rest on: `WorkerHasRow` (past its loop a worker has a row), `AttemptsCounted` (a
claimed row had an attempt), `SeenIsLatest` (what `Fail` has read is still the row's attempt *if*
the worker still owns the row), and `ScanIsLatest` (what a recovery pass has read is still the
row's attempt *if* the lease has not been renewed since). The last two are the heart: the second
statement of `Fail` and of the recovery pass repeats a test that is enough to make the first
statement's number current. Theorems: `TypeCorrect`, `QueuedStaysClaimable`, `FailsOnlyExhausted`,
`NameFencesAttempts`, `SuccessIsLatest`, and `Refinement` (`Spec => Life!Spec`). `OneHandler` proves
`OneLiveHandler` for specifications without stalls, from `LInv`: a handler with a live context owns
its row under a lease that outlives its next heartbeat by exactly the difference of the two.

**`TaskCenterProofs`.** `Invariance`, `TypeCorrect`, `EndToldOnce` (a completer's position determines
what has been told) and `Refinement` (`Spec => ImplementsLifecycle`) hold for any number of instances, whatever
the database refuses. `HeardOK` adds that the cancels map holds exactly the executions and that a request was
asked of a run that had begun. With it, and `LeftOK` (who is about to leave has ended its row),
`CancelingHeard` proves `CancelingIsHeard` for a database that obeys, on any number of instances: a row in
canceling passes from the request that marked it to the execution it reached, or to the restart of the
instance that took either down. `CalmCancelingHeard` is the same for the calm weather of the run. Two theorems need one
instance. `OnlyTheDeadAreInterrupted` is `InterruptedIsDead`: what a recovery has read was left behind by a
life before (`AliveOK`). `StartedIsNotQueuedAgain` is `StartedStaysStarted`: a request that nobody heard was
asked of a run that is gone (`UnheardOK`), as the only map there is was searched, so what it writes back is
not the row of a run at work.

**`TransfersProofs`.** The core is `RunsInv`, which is inductive whatever is refused, stalls or crashes. Each
process is at a point of its own code (`RoleOK`), and works with copies of the row and of its run that may be
old; `CopyOK` says what stays true of an old copy: the run is of the same transfer, and an end that it shows
is the row's for ever. `AcceptedOK` and `QueuedOK` say what must have happened before a process is where it is.
The proof is by pieces: a step goes `Forward` (rows, jobs and runs do not go back) and moves few processes; those that
stay are right (`StillOK`), those that move have to be right where they arrive. Theorems: `RunsInvariance`,
`TransfersTypeCorrect`, `EndedRunsTellTheTruth` (`RunMatchesJob`), `TransfersEndOnce` (no step undoes or
changes the end of a transfer), and, with `FreshOK` (a request that has not come has no run),
`OnlyScheduledAreInterrupted`: the disagreement of section 12 concerns scheduled transfers and no others.
`LeaseInv` holds if no live attempt loses its lease (`~Stalls`): the attempt at work is the last one and was told if its job is
cancelled (`AloneOK`), and the file is what the attempt's point says (`FileOK`), whence
`CompletedDownloadsHaveTheirFiles` and `CancellationsReach`. Without the assumption both are false. `DoneInv` holds if no
statement is refused, even if attempts stall: an attempt that returns untold has seen the end of its row
(`ReturnOK`), whence `SuccessMeansEnded`, and `CalmSuccessMeansEnded` in the calm weather of the run.
The theorems about `Spec` leave `Outages` free where they do not name it.

**`SftpPoolProofs`.** `IInv` consists of `TypeOK`, `PermitsCounted`, `RefsCounted`, `PooledIsUsable` and of
`StepsOK` and `ConnOK` (where an actor is determines what it holds), `DialedOnce`, `OutOfPool` and
`MarkedFirst` (what is being closed is out of the pool or marked) and `DoomedMarked` (a connection in
`toClose` that is in use was marked). Theorems: `TypeCorrect`, `PermitsReturned`, `SessionsBounded`
(never more open sessions than permits), `CountsExact`, `CountersMatch`, `PooledUsable`, `CutsAreMarked`, `ConnectionsAreClosed`. Counting
lemmas (`UserJoins`, `UserLeaves`, `CountsKept`) reduce the effect of a step on a cardinality to the
one request that moved.
`ConnectionsAreClosed` (`NothingLeaks`) needs an invariant of its own, `LeakInv`: an open connection is in the pool, or some
actor has it at a step after which it will look at it once more (`Kept`); once out of the pool it is marked before
that last look, or the actor that will mark it is on its way (`MarkComes`); and who has failed to open a session gives up a closed
connection (`FailedClosed`). The last look finds no user and the mark, and closes. The two exceptions in the statement of
`NothingLeaks` are those of section 6.

**`AiChatProofs`.** `IInv` adds to `TypeOK`, `ConfirmedFirst` and `CountsResolvers` where a task can be: the
calls a run has yet to make tasks of have none, the tools it executes by itself need no
confirmation (`LoopOK`); nobody resolves a task before it has waited (`TaskOK`), and runs are
numbered as they are made (`Numbered`), so that a new tool run starts with no resolver.
Theorems: `TypeCorrect`, `NothingUnconfirmed`, `ResolversCounted`, `CancellationStays`. They need no `~early`.
The others are about sessions in which no confirmation came while a run was at work (*What they except* above).
`Solo` says for whom the session is busy: for the current run or for the tool run, not both, and whoever is at work
without having been told to stop works for that one; it gives `RunsOneByOne` (`OneRunAtWork`) and `QuietSessions`
(`QuietMeansQuiet`).

`AskedComplete` (`AskedWithAnswers`) follows from `AnswerInv` (`AnswerInvariance`), and needs the lists to
correspond (`~askew`), too. `OwedOK` says where a call without an answer can be: at hand of the run that makes a task of it,
waiting for the user, or with a resolver of the tool run; none of these is left when the model is asked. An edit must not
break that, at whatever message: by `PlayOK` what is still to be answered is called by the last message that either
list has, behind every message of the user, so that each cut removes the call with its task; by `ListsOK` a result
has the place of its call, so that no cut parts them, and no message of the user is further down in what he sees than in what
the model is told. `WaitOK` says the same of the tasks that wait.

**`WebSessionProofs`.** `SessionInv` is `SessionTypeOK` with the three invariants of section 8, which
are inductive together: nobody waits for a refresh that is not there, so that its end, which
wakes all that wait, empties the page; and what is suspended drains. Theorems:
`SessionInvHolds`, `SessionTypeCorrect`, `WaitersAlwaysHaveRefresh`, `SuspensionDrains`, `SignedOutStaysOut`.

**`TabSocketsProofs`.** `TermInv` adds to `TermTypeOK` and `StoredLives` the shape of an object
(`Shapely`: which phases, steps and links go together, and that an object not yet made has
none) and `StoredIsTurnedTo` (what the store and the refs of the hook say of each other while
the component is mounted), without which the effect could leave the store's connection behind.
Theorems: `TermInvHolds`, `TermTypeCorrect`, `OnlyTheStoredLives`, `DestroyedNeverDials`. For the monitoring `MonitorInv`
adds to `WiresHaveOwners` that a server's count is the number of the tabs that watch it (`Counted`, over a finite set of
hooks: `MonitorAssumption`), so that the one that leaves and is not the last leaves a watcher behind, and that what the
store has for a server was made for that server (`HostsAgree`). Theorems: `MonitorInvHolds`,
`MonitorTypeCorrect`, `LiveWiresHaveOwners`, and `WatchedNeverClosed`: the page closes no connection of a server a tab watches.

**`FileTransfersProofs`**, *uploads.* Three invariants on top of `UploadTypeOK`, one for each actor. `SlotsInv` says of the
limiter that its queue holds those that wait for a slot, each once: without it `SlotsBalance` is not
inductive, as the slot given up must reach a call that works with it, past any number of calls that
are marked and hand it on. `ListInv` says of the page that a call that does not work, or has ended,
hears of no socket and no polling. `TaskInv` says of the server why a cancellation is not forgotten:
until the cancel function is registered the task itself says it is cancelled, from then on the
context does. Theorems: `UploadInvariance`, `UploadTypeCorrect`, `SlotsAlwaysBalance`, `CancellationSticks`,
`EndedStays`.

*Direct transfers.* `DirectTypeCorrect` needs `MessageKept` (a handler that is going to send the last
message again has one to send). `FlatCompleteIsComplete` is what `direct_nested` violates, proved under
`Nested = {}`, by `Faithful` (every message "complete", unread, kept or shown, is of a copy that is
done) and `EndedOnce` (a copy that ended does not go on): directories in directories are the only way
to the violation.

**Only proved**, and by no run: the type invariants of `JobQueue`, `TaskCenter`, `Transfers`, `SftpPool`, `AiChat`,
`WebSession`, `TerminalSocket`, `MonitorSocket`, `Uploads` and `DirectTransfers`, `HolderHasLatestAttempt`, `FailedMeansExhausted`, `SucceedsByLatestAttempt`, `PooledIsUsable`,
`CutOnlyIfMarked`, `CountsResolvers`, `WaitersHaveRefresh`, `DestroyedStaysOff`, `OnlyScheduledInterrupted` and
`TransfersEndOnce`. Each is a conjunct or a consequence of an invariant TLC has checked before it was proved.

**Only model-checked**: everything under fairness (`JobsSettle`, `StopEnds`, `CancelReachesHandler`,
`CalmRunsEnd` of both modules, `CalmTransfersEnd`, `BusyEnds`, `TaskEnds`, `EachSettles`, `IdleReachesPage`, `ConnectingEnds`, `WatchedGetsWire`,
`UploadsEnd`, `DirectEnds`), since
the prover does not reason about `ENABLED`. Every invariant and every action property of a passing run is
also a theorem; where the run starts in two weathers and the property is not about the calm one, the theorem is about `Spec` with `Outages` free.

## 12. Where the code disagrees with its own words

Three runs are expected to end in a counterexample.

- `transfers_scheduled` – at a restart the run of a scheduled transfer is failed as interrupted
  (taskcenter/service.go:361-373: only runs whose source is a transfer are spared), while the queue
  takes the transfer up again and completes it.
- `sftppool_cut` – pool.go:594 promises that connections in use are only marked. `releaseSSH`
  (pool.go:554) closes one in use: its count of zero is old when it sees the mark.
- `direct_nested` – `transferDirectory` calls itself for each directory in a directory
  (ws/sftp_transfer.go:805) and ends with the message "complete" and the words 传输完成 (transfer
  complete, :858), although its caller goes on; the comment for files (:809) says that parts send no
  message of completion. The page takes the first one for the end, shows the transfer as completed and
  stops listening: that the rest fails is told to nobody.

With two instances on one database, which `README.md:117` of the repository describes, `InterruptedIsDead`
is false: `RecoverInterrupted` (taskcenter/service.go:373) fails every active run it finds, also
those another instance is executing. `MCTaskCenter` with two instances finds it in a few steps; it
is no run of the project, whose time goes to the single instance.

Before a message of the user is deleted the page says "AI replies and tool results
after it will also be removed" (`src/web/src/i18n/messages/en-US.ts:2356`). `DeleteMessage` of `AiChat` removes them from what the
user sees and cuts what the language model is told by the same count (manager.go:428-429). Where the words of a failed or
cancelled answer are in the first list only (manager.go:1800-1814, 982-993), the second loses too little: replies after
the deleted message stay in it, and the model goes on answering with them. These are the states that `askew` marks;
no run of the project is given to them.

The models show some more that is no contradiction of a written claim and is recorded with the
hazards: the early confirmation of section 7, the leaks of section 6, the orphan runs of section 5, the lost increment of `run_count`
(taskexecutor/executor.go:652), and the retries of `README.md:36`, which a transfer's own errors
do not use.

One more contradicts a comment, and is a value of a variable rather than a run: `disconnect()`
of a terminal socket that is still connecting only takes its handlers away
(`src/web/src/lib/websocket-terminal.ts:623-632`), so that it may open afterwards and the server start a session
nobody can end, while `src/web/src/hooks/useWebSocketConnection.ts:336` says that the old connection is
closed so that no old SSH session hangs in the background. In `TerminalSocket` such a socket has
the link "adrift".

And so do the connections of `MonitorSocket` in `strays`. `useMonitorWebSocket.ts:259-260` and
`src/web/src/components/terminal/terminal-component.tsx:1265-1270` say that the count makes sure that the connection is
released with the last tab (只有最后一个页签关闭时才断开连接). But a ticket that is
answered, or a reconnect timer that runs out, after the last tab has left and its timer has run opens a
connection for a server nobody watches (useMonitorWebSocket.ts:411-434, 670), which lives until the next tab of that
server leaves, or the server drops it. Closing a socket that still dials is such a case by itself: it ends with code 1006, and
`onclose` dials again (:665). And of two tabs that both ask for a ticket before either has one, the second
overwrites the first's connection in the store, which then nobody closes.

## 13. What is not modelled

`PROJECT.json` names every part with its reason. In short: components that are planned (section 2);
components whose operations are one atomic statement or run under one lock from beginning to end
(tickets, verification codes, realtime hub, settings, logs), where a model would repeat the
statement; I/O and formatting (notification channels, SFTP operations, parsers); generated and
vendored code; and the parts of the clients that render, format and make one call each.

The share of the source the map covers is small and will stay so. The parts with an order of
events to get wrong are mostly in the Go server and in a few thousand lines of the web client. The rest of
the TypeScript, some hundred thousand lines, is pages, dialogs, tables, two languages of
messages and types generated from the interface: there is no state machine in it to
model, and mapping it would only repeat it.

The databases are taken at their word: a statement is atomic, a conditional update reports
whether it changed a row, and a transaction with row locks excludes the same on other
connections.

Hazards met while reading the parts that wait, kept here for the modules that will cover them
(those of the planned parts that weigh most are under "hazards" in `PROJECT.json`):

| Part | Line | Hazard |
| --- | --- | --- |
| AI runtime | `aichat/runtime/manager.go:1747` | a snapshot is taken under the lock and stored after the unlock: an older one may overwrite a newer one |
| AI runtime | `aichat/runtime/manager.go:1711` | a restored session accepts messages and keeps tasks that say they are running |
| AI runtime | `aichat/runtime/manager.go:1566` | events are sent to channels copied under the lock, after the unlock |
| scheduler | `scheduledtask/service.go:398` | a change is written, read again and handed to the scheduler without a lock: of two changes the older may be handed over last |
| batch tasks | `batchtask/service.go:265` | the row says queued before the job exists; a crash in between leaves it so |
| outbox | `inboxnotification/repository.go:60` | a delivery whose sender died on its last attempt is queued again and no claim will take it |
| authentication | `auth/account_lock.go:170` | a failed login writes back the whole row it has read and may undo a change made in between |
| authentication | `auth/account_lock.go:138` | the failures that lock an account are counted per process |
| authentication | `auth/service.go:643` | the test for a first administrator and its creation are separate statements |
| task executor | `taskexecutor/executor.go:652` | two runs of one task read the same run_count and one of the increments is lost (the action `WriteDefinition` has the lost update; no property is claimed) |
| web session | `src/web/src/lib/api-client.ts:379` | a slow 401 of a request sent with the old token starts a second refresh, although there is a new token by then |
| web session | `src/web/src/providers/session-refresh-provider.tsx:188` | the logout of an idle expiry clears the token when it ends, which may be that of a login made meanwhile (in the model; no property is claimed) |
| web session | `src/web/src/contexts/system-config-context.tsx:86` | the answer to a load that was under way at a logout that failed or was repeated is taken as it is |
| web terminal | `src/web/src/lib/websocket-terminal.ts:424` | the failed ticket of a destroyed object reports a failure over the newer connection's state |
| web agent | `src/web/src/hooks/use-agent-session.ts` | the snapshot of a session that was asked for before events came may be shown after them |
| monitor pool | `monitor/pool.go:110` | a reference is counted after the unlock: the last release may have closed the connection |
| monitor pool | `monitor/pool.go:194` | the caller gives up after ten seconds, the goroutine that dials does not |
| batch tasks | `batchtask/service.go:310` | a job that has used up its attempts leaves the row of its batch running |
| outbox | `inboxnotification/service.go:361` | the result of a delivery is written without asking who holds it: one whose lease ran out may be sent twice and written by either |
| direct transfers | `ws/sftp_transfer.go:185` | the message that is sent again is kept again, after the task has been forgotten: the entry stays (in the model; no property is claimed) |
| direct transfers | `ws/sftp_transfer.go:263` | sending again and `SendProgress` write to one connection at once, which its library does not allow |
| direct transfers | `src/web/packages/ssh-workspace/src/session/transfer-runtime.ts:577` | the answer to a cancellation shows "cancelled" also where the transfer was completed meanwhile (in both models; no property is claimed) |
| direct transfers | `src/web/packages/ssh-workspace/src/session/transfer-manager-controller.ts:640` | a copy that ended before its socket came is shown as failed: the handler finds no task and refuses (in the model) |
| uploads | `ws/sftp_upload.go:98` | an upload that queues for more than an hour has lost its task when its turn comes, and fails (in the model) |
| uploads | `src/web/packages/ssh-workspace/src/session/transfer-manager-controller.ts:478` | clearing the list removes the mark of a cancelled upload that still queues: it asks the server and is refused there (in the model) |
| file transfers | `src/web/packages/ssh-workspace/src/session/transfer-manager-controller.ts:262` | entries restored after a reload say that they are under way and nothing moves them |
| sockets | `ws/terminal.go:975` | the set-up of a terminal may finish at the moment the socket gives up |
| staged inputs | `transferjob/service.go:513` | an artifact is found unused and its file removed afterwards |
