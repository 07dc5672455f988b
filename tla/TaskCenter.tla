----------------------------- MODULE TaskCenter -----------------------------
(***************************************************************************)
(* The task center (domain/taskcenter) and the executor that runs command  *)
(* and script tasks (domain/taskexecutor).                                 *)
(*                                                                         *)
(* Each run has a row with a status.  Four kinds of process write it: the  *)
(* execution of the run, on one instance of the server; users' requests to *)
(* cancel it, served by any instance; an instance that restarts and fails  *)
(* what it finds unfinished; and the cleanup.  A request reaches the       *)
(* execution only through the cancels map of its own instance.  Whoever    *)
(* ends the row then counts the run in its task definition and hands it    *)
(* to the notifier, in steps of their own.                                 *)
(*                                                                         *)
(* A transfer's run is written by the transfer service: see Transfers.     *)
(***************************************************************************)
EXTENDS Naturals, FiniteSets

CONSTANTS
  Runs,          \* executions of tasks, one row each
  Instances,     \* server processes that share the database
  Requests,      \* requests to cancel
  Definitions,   \* scheduled tasks
  DefinitionOf,  \* DefinitionOf[r]: the definition that r counts for, or none
  MaxCrashes,    \* bound on the crashes of instances
  Outages,       \* TRUE if the database may refuse a statement
  Nobody         \* no run, no instance, no definition

ASSUME DefinitionsAssumption ==
  DefinitionOf \in [Runs -> Definitions \cup {Nobody}]

ASSUME SwitchesAssumption ==
  /\ MaxCrashes \in Nat
  /\ Outages \in BOOLEAN

ASSUME NobodyAssumption == Nobody \notin Runs \cup Instances \cup Definitions

\* Who may complete a run: its execution, or an instance that starts.
ASSUME CompletersAssumption == Runs \cap Instances = {}

VARIABLES
  status,      \* status[r]: the row's status
  execution,   \* execution[r]: where execute() of r is
  host,        \* host[r]: the instance that executes r
  registered,  \* registered[r]: r is in the cancels map of its host
  stopped,     \* stopped[r]: the context of the execution is cancelled
  outcome,     \* outcome[r]: the final status that execute() decided on
  life,        \* life[i]: what instance i is doing
  unfinished,  \* unfinished[i]: ListActive's answer that i still has to fail
  telling,     \* telling[c]: what completer c has left to do after the row
  subject,     \* subject[c]: the run that c completed
  readCount,   \* readCount[c]: the run_count that c read
  runCount,    \* runCount[d]: the run_count column of definition d
  notices,     \* notices[r]: calls of NotifyTaskFinished for r
  request,     \* request[q]: where RequestCancel is
  target,      \* target[q]: the run that q wants to cancel
  server,      \* server[q]: the instance that serves q
  seenStatus,  \* seenStatus[q]: the status that q read at first
  crashes      \* crashes so far

rowVars == <<status, runCount, notices>>
executionVars == <<execution, host, registered, stopped, outcome>>
completerVars == <<telling, subject, readCount>>
requestVars == <<request, target, server, seenStatus>>
instanceVars == <<life, unfinished, crashes>>
vars == <<rowVars, executionVars, completerVars, requestVars, instanceVars>>

Lifecycle == INSTANCE TaskLifecycle

Active == {"queued", "running", "canceling"}
Ended == {"succeeded", "partial_success", "failed", "canceled", "interrupted"}
Outcomes == {"succeeded", "partial_success", "failed", "canceled"}
Completers == Runs \cup Instances

ExecutionPoints ==
  {"idle", "registered", "created", "working", "decided", "leaving", "gone"}

\* execute() of r is on some stack.
Executing(r) ==
  execution[r] \in {"registered", "created", "working", "decided", "leaving"}

TypeOK ==
  /\ status \in [Runs -> {"absent", "purged"} \cup Active \cup Ended]
  /\ execution \in [Runs -> ExecutionPoints]
  /\ host \in [Runs -> Instances \cup {Nobody}]
  /\ registered \in [Runs -> BOOLEAN]
  /\ stopped \in [Runs -> BOOLEAN]
  /\ outcome \in [Runs -> Outcomes \cup {Nobody}]
  /\ life \in [Instances -> {"down", "recovering", "serving"}]
  /\ unfinished \in [Instances -> SUBSET Runs]
  /\ telling \in [Completers -> {"none", "count", "write", "notify"}]
  /\ subject \in [Completers -> Runs \cup {Nobody}]
  /\ readCount \in [Completers -> Nat]
  /\ runCount \in [Definitions -> Nat]
  /\ notices \in [Runs -> Nat]
  /\ request \in [Requests -> {"idle", "read", "marked", "unheard", "accepted", "refused", "dead"}]
  /\ target \in [Requests -> Runs \cup {Nobody}]
  /\ server \in [Requests -> Instances \cup {Nobody}]
  /\ seenStatus \in [Requests -> {"queued", "running"}]
  /\ crashes \in Nat

Init ==
  /\ status = [r \in Runs |-> "absent"]
  /\ execution = [r \in Runs |-> "idle"]
  /\ host = [r \in Runs |-> Nobody]
  /\ registered = [r \in Runs |-> FALSE]
  /\ stopped = [r \in Runs |-> FALSE]
  /\ outcome = [r \in Runs |-> Nobody]
  /\ life = [i \in Instances |-> "down"]
  /\ unfinished = [i \in Instances |-> {}]
  /\ telling = [c \in Completers |-> "none"]
  /\ subject = [c \in Completers |-> Nobody]
  /\ readCount = [c \in Completers |-> 0]
  /\ runCount = [d \in Definitions |-> 0]
  /\ notices = [r \in Runs |-> 0]
  /\ request = [q \in Requests |-> "idle"]
  /\ target = [q \in Requests |-> Nobody]
  /\ server = [q \in Requests |-> Nobody]
  /\ seenStatus = [q \in Requests |-> "queued"]
  /\ crashes = 0

-----------------------------------------------------------------------------
(* Completing a run *)

\* The conditional update that ends a row, and what its winner owes.
EndRow(c, r, result) ==
  /\ status[r] \in Active
  /\ status' = [status EXCEPT ![r] = result]
  /\ telling' = [telling EXCEPT ![c] = "count"]
  /\ subject' = [subject EXCEPT ![c] = r]
  /\ UNCHANGED <<runCount, notices, readCount>>

\* The row had ended already: Complete returns.
AlreadyEnded(r) ==
  /\ status[r] \notin Active
  /\ UNCHANGED <<rowVars, completerVars>>

\* UpdateDefinitionStatus reads the definition,
ReadDefinition(c) ==
  LET d == DefinitionOf[subject[c]] IN
  /\ telling[c] = "count"
  /\ IF d = Nobody
     THEN /\ telling' = [telling EXCEPT ![c] = "notify"]
          /\ UNCHANGED readCount
     ELSE /\ telling' = [telling EXCEPT ![c] = "write"]
          /\ readCount' = [readCount EXCEPT ![c] = runCount[d]]
  /\ UNCHANGED <<rowVars, subject, executionVars, requestVars, instanceVars>>

\* and writes what it read plus one.
WriteDefinition(c) ==
  /\ telling[c] = "write"
  /\ telling' = [telling EXCEPT ![c] = "notify"]
  /\ runCount' = [runCount EXCEPT ![DefinitionOf[subject[c]]] = readCount[c] + 1]
  /\ UNCHANGED <<status, notices, subject, readCount>>
  /\ UNCHANGED <<executionVars, requestVars, instanceVars>>

NotifyFinished(c) ==
  /\ telling[c] = "notify"
  /\ telling' = [telling EXCEPT ![c] = "none"]
  /\ notices' = [notices EXCEPT ![subject[c]] = @ + 1]
  /\ subject' = [subject EXCEPT ![c] = Nobody]
  /\ readCount' = [readCount EXCEPT ![c] = 0]
  /\ UNCHANGED <<status, runCount, executionVars, requestVars, instanceVars>>

-----------------------------------------------------------------------------
(* The executor *)

\* Mutant of Begin: the job queue is started before RecoverInterrupted.
MutantBegin(r, i) ==
  /\ execution[r] = "idle"
  /\ execution' = [execution EXCEPT ![r] = "registered"]
  /\ host' = [host EXCEPT ![r] = i]
  /\ registered' = [registered EXCEPT ![r] = TRUE]
  /\ UNCHANGED <<stopped, outcome, rowVars, completerVars, requestVars, instanceVars>>

\* Mutant of Begin: the execution is not entered in the cancels map.
MutantBeginUnregistered(r, i) ==
  /\ execution[r] = "idle"
  /\ life[i] = "serving"
  /\ execution' = [execution EXCEPT ![r] = "registered"]
  /\ host' = [host EXCEPT ![r] = i]
  /\ UNCHANGED <<registered, stopped, outcome, rowVars>>
  /\ UNCHANGED <<completerVars, requestVars, instanceVars>>

\* A worker of instance i calls execute, which registers how to cancel it
\* before the row exists.
Begin(r, i) ==
  /\ execution[r] = "idle"
  /\ life[i] = "serving"
  /\ execution' = [execution EXCEPT ![r] = "registered"]
  /\ host' = [host EXCEPT ![r] = i]
  /\ registered' = [registered EXCEPT ![r] = TRUE]
  /\ UNCHANGED <<stopped, outcome, rowVars, completerVars, requestVars, instanceVars>>

CreateRow(r) ==
  /\ execution[r] = "registered"
  /\ status' = [status EXCEPT ![r] = "queued"]
  /\ execution' = [execution EXCEPT ![r] = "created"]
  /\ UNCHANGED <<runCount, notices, host, registered, stopped, outcome>>
  /\ UNCHANGED <<completerVars, requestVars, instanceVars>>

\* The task is executed even when its row could not be written.
CreateRowFails(r) ==
  /\ execution[r] = "registered"
  /\ Outages \/ stopped[r]
  /\ execution' = [execution EXCEPT ![r] = "working"]
  /\ UNCHANGED <<rowVars, host, registered, stopped, outcome>>
  /\ UNCHANGED <<completerVars, requestVars, instanceVars>>

\* Start: only a queued row becomes running; a refused statement is ignored.
StartRow(r) ==
  /\ execution[r] = "created"
  /\ execution' = [execution EXCEPT ![r] = "working"]
  /\ \/ /\ status[r] = "queued"
        /\ status' = [status EXCEPT ![r] = "running"]
     \/ /\ status[r] # "queued" \/ Outages \/ stopped[r]
        /\ UNCHANGED status
  /\ UNCHANGED <<runCount, notices, host, registered, stopped, outcome>>
  /\ UNCHANGED <<completerVars, requestVars, instanceVars>>

\* The servers were visited: the final status is decided.
Decide(r) ==
  /\ execution[r] = "working"
  /\ execution' = [execution EXCEPT ![r] = "decided"]
  /\ \E o \in Outcomes :
       /\ o = "canceled" <=> stopped[r]
       /\ outcome' = [outcome EXCEPT ![r] = o]
  /\ UNCHANGED <<host, registered, stopped, rowVars>>
  /\ UNCHANGED <<completerVars, requestVars, instanceVars>>

\* Mutant of CompleteExecution: the end is told though Complete has failed.
MutantCompleteExecution(r) ==
  /\ execution[r] = "decided"
  /\ execution' = [execution EXCEPT ![r] = "leaving"]
  /\ \/ EndRow(r, r, outcome[r])
     \/ AlreadyEnded(r)
     \/ /\ Outages
        /\ telling' = [telling EXCEPT ![r] = "notify"]
        /\ subject' = [subject EXCEPT ![r] = r]
        /\ UNCHANGED <<rowVars, readCount>>
  /\ UNCHANGED <<host, registered, stopped, outcome, requestVars, instanceVars>>

\* completeExecution: Complete with the outcome; its error is ignored.
CompleteExecution(r) ==
  /\ execution[r] = "decided"
  /\ execution' = [execution EXCEPT ![r] = "leaving"]
  /\ \/ EndRow(r, r, outcome[r])
     \/ AlreadyEnded(r)
     \/ /\ Outages
        /\ UNCHANGED <<rowVars, completerVars>>
  /\ UNCHANGED <<host, registered, stopped, outcome, requestVars, instanceVars>>

\* execute's deferred function, once Complete has returned.
Leave(r) ==
  /\ execution[r] = "leaving"
  /\ telling[r] = "none"
  /\ execution' = [execution EXCEPT ![r] = "gone"]
  /\ registered' = [registered EXCEPT ![r] = FALSE]
  /\ UNCHANGED <<host, stopped, outcome, rowVars, completerVars, requestVars, instanceVars>>

\* The queue cancels the handler's context: the lease is lost, or the
\* server shuts down.
QueueStops(r) ==
  /\ Executing(r)
  /\ ~stopped[r]
  /\ stopped' = [stopped EXCEPT ![r] = TRUE]
  /\ UNCHANGED <<execution, host, registered, outcome, rowVars>>
  /\ UNCHANGED <<completerVars, requestVars, instanceVars>>

-----------------------------------------------------------------------------
(* Cancellation *)

\* RequestCancel of r on instance i: the row it reads can be cancelled.
Ask(q, r, i) ==
  /\ request[q] = "idle"
  /\ life[i] = "serving"
  /\ status[r] \in {"queued", "running"}
  /\ request' = [request EXCEPT ![q] = "read"]
  /\ target' = [target EXCEPT ![q] = r]
  /\ server' = [server EXCEPT ![q] = i]
  /\ seenStatus' = [seenStatus EXCEPT ![q] = status[r]]
  /\ UNCHANGED <<rowVars, executionVars, completerVars, instanceVars>>

\* Mutant of Mark: the row becomes canceling whatever it is by now.
MutantMark(q) ==
  /\ request[q] = "read"
  /\ status' = [status EXCEPT ![target[q]] = "canceling"]
  /\ request' = [request EXCEPT ![q] = "marked"]
  /\ UNCHANGED <<runCount, notices, target, server, seenStatus>>
  /\ UNCHANGED <<executionVars, completerVars, instanceVars>>

\* The conditional update, or the answer that the run cannot be cancelled.
Mark(q) ==
  LET r == target[q] IN
  /\ request[q] = "read"
  /\ \/ /\ status[r] \in {"queued", "running"}
        /\ status' = [status EXCEPT ![r] = "canceling"]
        /\ request' = [request EXCEPT ![q] = "marked"]
     \/ /\ status[r] \notin {"queued", "running"} \/ Outages
        /\ request' = [request EXCEPT ![q] = "refused"]
        /\ UNCHANGED status
  /\ UNCHANGED <<runCount, notices, target, server, seenStatus>>
  /\ UNCHANGED <<executionVars, completerVars, instanceVars>>

\* CancelTask looks into the map of the instance that serves the request.
Reaches(q) == registered[target[q]] /\ host[target[q]] = server[q]

\* Mutant of Signal: the answer is given without calling the function.
MutantSignal(q) ==
  /\ request[q] = "marked"
  /\ request' = [request EXCEPT ![q] = IF Reaches(q) THEN "accepted" ELSE "unheard"]
  /\ UNCHANGED <<target, server, seenStatus, executionVars>>
  /\ UNCHANGED <<rowVars, completerVars, instanceVars>>

Signal(q) ==
  /\ request[q] = "marked"
  /\ \/ /\ Reaches(q)
        /\ stopped' = [stopped EXCEPT ![target[q]] = TRUE]
        /\ request' = [request EXCEPT ![q] = "accepted"]
     \/ /\ ~Reaches(q)
        /\ request' = [request EXCEPT ![q] = "unheard"]
        /\ UNCHANGED stopped
  /\ UNCHANGED <<target, server, seenStatus, execution, host, registered, outcome>>
  /\ UNCHANGED <<rowVars, completerVars, instanceVars>>

\* Nobody to cancel: the row gets back the status that was read at first.
Revert(q) ==
  LET r == target[q] IN
  /\ request[q] = "unheard"
  /\ request' = [request EXCEPT ![q] = "refused"]
  /\ \/ /\ status[r] = "canceling"
        /\ status' = [status EXCEPT ![r] = seenStatus[q]]
     \/ /\ status[r] # "canceling" \/ Outages
        /\ UNCHANGED status
  /\ UNCHANGED <<runCount, notices, target, server, seenStatus>>
  /\ UNCHANGED <<executionVars, completerVars, instanceVars>>

-----------------------------------------------------------------------------
(* Instances *)

Crash(i) ==
  LET lost == {r \in Runs : host[r] = i /\ Executing(r)}
      silent == lost \cup {i} IN
  /\ life[i] # "down"
  /\ crashes < MaxCrashes
  /\ crashes' = crashes + 1
  /\ life' = [life EXCEPT ![i] = "down"]
  /\ unfinished' = [unfinished EXCEPT ![i] = {}]
  /\ execution' = [r \in Runs |-> IF r \in lost THEN "gone" ELSE execution[r]]
  /\ registered' = [r \in Runs |-> registered[r] /\ r \notin lost]
  /\ telling' = [c \in Completers |-> IF c \in silent THEN "none" ELSE telling[c]]
  /\ subject' = [c \in Completers |-> IF c \in silent THEN Nobody ELSE subject[c]]
  /\ readCount' = [c \in Completers |-> IF c \in silent THEN 0 ELSE readCount[c]]
  /\ request' = [q \in Requests |->
                   IF server[q] = i /\ request[q] \in {"read", "marked", "unheard"}
                   THEN "dead" ELSE request[q]]
  /\ UNCHANGED <<rowVars, host, stopped, outcome, target, server, seenStatus>>

\* Mutant of Boot: rows in canceling are not listed.
MutantBoot(i) ==
  /\ life[i] = "down"
  /\ life' = [life EXCEPT ![i] = "recovering"]
  /\ unfinished' = [unfinished EXCEPT ![i] = {r \in Runs : status[r] \in {"queued", "running"}}]
  /\ UNCHANGED <<crashes, rowVars, executionVars, completerVars, requestVars>>

\* RecoverInterrupted lists the active rows, whoever they belong to.
Boot(i) ==
  /\ life[i] = "down"
  /\ life' = [life EXCEPT ![i] = "recovering"]
  /\ unfinished' = [unfinished EXCEPT ![i] = {r \in Runs : status[r] \in Active}]
  /\ UNCHANGED <<crashes, rowVars, executionVars, completerVars, requestVars>>

FailInterrupted(i, r) ==
  /\ life[i] = "recovering"
  /\ telling[i] = "none"
  /\ r \in unfinished[i]
  /\ unfinished' = [unfinished EXCEPT ![i] = @ \ {r}]
  /\ \/ EndRow(i, r, "interrupted")
     \/ AlreadyEnded(r)
  /\ UNCHANGED <<life, crashes, executionVars, requestVars>>

\* An error ends the recovery with a warning; the server starts anyway.
RecoveryFails(i) ==
  /\ life[i] = "recovering"
  /\ telling[i] = "none"
  /\ Outages
  /\ unfinished[i] # {}
  /\ unfinished' = [unfinished EXCEPT ![i] = {}]
  /\ UNCHANGED <<life, crashes, rowVars, executionVars, completerVars, requestVars>>

Serve(i) ==
  /\ life[i] = "recovering"
  /\ telling[i] = "none"
  /\ unfinished[i] = {}
  /\ life' = [life EXCEPT ![i] = "serving"]
  /\ UNCHANGED <<unfinished, crashes, rowVars, executionVars, completerVars, requestVars>>

\* Cleanup and retention remove rows that ended at least a day ago.
Purge(r) ==
  /\ status[r] \in Ended
  /\ \A c \in Completers : subject[c] # r
  /\ status' = [status EXCEPT ![r] = "purged"]
  /\ UNCHANGED <<runCount, notices, executionVars, completerVars, requestVars, instanceVars>>

-----------------------------------------------------------------------------

ExecutionStep(r) ==
  \/ CreateRow(r) \/ CreateRowFails(r) \/ StartRow(r)
  \/ Decide(r) \/ CompleteExecution(r) \/ Leave(r)

CompleterStep(c) == ReadDefinition(c) \/ WriteDefinition(c) \/ NotifyFinished(c)

RequestStep(q) == Mark(q) \/ Signal(q) \/ Revert(q)

BootStep(i) ==
  \/ Boot(i) \/ RecoveryFails(i) \/ Serve(i)
  \/ \E r \in Runs : FailInterrupted(i, r)

Next ==
  \/ \E r \in Runs : ExecutionStep(r) \/ QueueStops(r) \/ Purge(r)
  \/ \E r \in Runs, i \in Instances : Begin(r, i)
  \/ \E c \in Completers : CompleterStep(c)
  \/ \E q \in Requests, r \in Runs, i \in Instances : Ask(q, r, i)
  \/ \E q \in Requests : RequestStep(q)
  \/ \E i \in Instances : BootStep(i) \/ Crash(i)

Spec == Init /\ [][Next]_vars

\* Goroutines that can take a step take it, and a server that went down is
\* started again (docker-compose.yml: restart: unless-stopped).
Fairness ==
  /\ \A r \in Runs : WF_vars(ExecutionStep(r))
  /\ \A c \in Completers : WF_vars(CompleterStep(c))
  /\ \A q \in Requests : WF_vars(RequestStep(q))
  /\ \A i \in Instances : WF_vars(BootStep(i))

FairSpec == Spec /\ Fairness
-----------------------------------------------------------------------------
(* Properties *)

IsOver(r) == status[r] \in Ended \cup {"purged"}

\* However many processes try to end a run, its end is told to the notifier
\* once at most, and only after it happened (the conditional update of
\* repository.Complete).
ToldOnce ==
  \A r \in Runs : notices[r] <= 1 /\ (notices[r] = 1 => IsOver(r))

\* A run is failed as "interrupted by a restart" only if nothing executes it
\* any more (RecoverInterrupted).  One instance guarantees it.
InterruptedIsDead ==
  \A r \in Runs : status[r] = "interrupted" => ~Executing(r)

\* A row does not stay in canceling with nobody at work on it: the request
\* is still in progress, the execution was told and will end the row, or the
\* instance went down and will fail the row when it starts.
CancelingIsHeard ==
  \A r \in Runs :
    status[r] = "canceling" =>
      \/ \E q \in Requests : target[q] = r /\ request[q] \in {"marked", "unheard"}
      \/ stopped[r] /\ execution[r] \in {"created", "working", "decided"}
      \/ \E i \in Instances :
           \/ life[i] = "down"
           \/ life[i] = "recovering" /\ r \in unfinished[i]

\* A run that was seen running is never shown as queued again, although a
\* refused request to cancel writes back a status it read earlier.
StartedStaysStarted ==
  [][\A r \in Runs :
       status[r] \in {"running", "canceling"} /\ execution[r] = "working"
         => status'[r] # "queued"]_vars

\* The rows follow the life of a task run (TaskLifecycle).
ImplementsLifecycle == Lifecycle!Spec

\* Every run that got a row ends, although instances crash and requests to
\* cancel come at any time.
RunsEnd == \A r \in Runs : status[r] \in Active ~> IsOver(r)
=============================================================================
