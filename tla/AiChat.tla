------------------------------- MODULE AiChat -------------------------------
(***************************************************************************)
(* One session of the AI chat (internal/domain/aichat/runtime/manager.go). *)
(* A message of the user starts a run: a goroutine that asks the language  *)
(* model, executes the tools it calls and asks again with their results,   *)
(* until an answer calls no tool.  A tool that needs a confirmation waits  *)
(* for the user.  ConfirmTasks makes a tool run: one goroutine for each    *)
(* decision (a resolver), the last of which goes on asking the model under *)
(* the context of the tool run.                                            *)
(*                                                                         *)
(* A step is what runs under one acquisition of Manager.mu.  A run is named*)
(* by its number, and so are its context and its cancel function.          *)
(*                                                                         *)
(* The session keeps what was said twice: messageViews is what the user    *)
(* sees, messages what the language model is told, and an edit cuts both   *)
(* by counting.  Of either list the model has the length and the places of *)
(* what matters in it: the messages of the user in the first, the calls of *)
(* tools and their results in the second.  Tool messages are not counted,  *)
(* as the cut does not count them: their place is the number of the others *)
(* before them.                                                            *)
(*                                                                         *)
(* Not modelled: the texts, the events, the snapshots stored after each    *)
(* step, and the session a later request restores from them.               *)
(***************************************************************************)
EXTENDS Integers, FiniteSets

CONSTANTS
  Tasks,        \* the tool calls the language model may make
  Confirmable,  \* those for which requiresUserConfirmation holds
  MaxRuns,      \* bound: messages sent, and tool runs
  MaxStopped,   \* bound: runs stopped by CancelSession
  Incidents     \* bound: what may happen besides messages, confirmations and cancellations

ASSUME ChatAssumption ==
  /\ IsFiniteSet(Tasks)
  /\ Confirmable \subseteq Tasks
  /\ MaxRuns \in Nat \ {0} /\ MaxStopped \in Nat
  /\ Incidents \subseteq {"words", "edit", "end", "timeout"}

VARIABLES
  closed,        \* session.closed; set in the step that takes it out of Manager.sessions
  status,        \* session.status
  processing,    \* session.processing
  currentRun,    \* the run whose cancel function is session.currentRun
  currentRunID,  \* session.currentRunID
  toolRun,       \* session.toolRunCtx, toolRunCancel and toolRunID, set and reset together
  active,        \* session.activeToolRuns
  views,         \* the length of session.messageViews
  users,         \* the messages of the user among them
  turns,         \* the messages in session.messages that are not of a tool
  task,          \* taskState.view.Status; "absent" before, "removed" after
  by,            \* the run whose answer called the tool
  decision,      \* what the user decided
  trun,          \* the tool run of the task's resolver
  tpc,           \* the next step of that resolver
  homeAt,        \* where the answer that called the tool is in messageViews
  callAt,        \* where that answer is in session.messages
  replyAt,       \* where the tool message with the result is
  runs,          \* runs made so far
  ctx,           \* the context of the run: "live", "cancelled", "expired"
  doomed,        \* runs whose cancel function was taken and is about to be called
  pc,            \* the next step of the goroutine of the run
  todo,          \* the tool calls of its answer it has not made a task of
  autos,         \* autoTasks: those that it will execute
  wait,          \* pendingConfirm
  shownAt,       \* where in messageViews the words of the answer it hears are
  cur,           \* the task it works on
  early,         \* history: a confirmation came while a run was at work
  askew,         \* history: the two lists have ceased to correspond
  up             \* the process lives

session == <<closed, status, processing, currentRun, currentRunID, toolRun, active>>
messages == <<views, users, turns, homeAt, callAt, replyAt, shownAt, askew>>
\* All of the messages but the results.
spoken == <<views, users, turns, homeAt, callAt, shownAt, askew>>
resolvers == <<decision, trun, tpc>>
loops == <<todo, autos, wait, cur>>
contexts == <<ctx, doomed>>
vars == <<session, task, by, messages, resolvers, runs, contexts, pc, loops, early, up>>

Runs == 1 .. MaxRuns
None == 0
NoTask == "no task"
Nowhere == -1
Hidden == 0  \* of the place of an answer in messageViews: it has had words, or calls, and is not there

Waiting == {t \in Tasks : task[t] = "waiting"}
HasPending == Waiting # {}
Exists(t) == task[t] \notin {"absent", "removed"}

Called == {t \in Tasks : callAt[t] # Nowhere}
Answered == {t \in Tasks : replyAt[t] # Nowhere}

\* The context of r is done, or will be as soon as a goroutine gets to call its cancel function.
Dead(r) == ctx[r] # "live" \/ r \in doomed

Init ==
  /\ closed = FALSE /\ status = "idle" /\ processing = FALSE
  /\ currentRun = None /\ currentRunID = None /\ toolRun = None /\ active = 0
  /\ views = 0 /\ users = {} /\ turns = 0
  /\ task = [t \in Tasks |-> "absent"]
  /\ by = [t \in Tasks |-> None]
  /\ homeAt = [t \in Tasks |-> Hidden]
  /\ callAt = [t \in Tasks |-> Nowhere]
  /\ replyAt = [t \in Tasks |-> Nowhere]
  /\ decision = [t \in Tasks |-> "none"]
  /\ trun = [t \in Tasks |-> None]
  /\ tpc = [t \in Tasks |-> "none"]
  /\ runs = 0
  /\ ctx = [r \in Runs |-> "live"]
  /\ doomed = {}
  /\ pc = [r \in Runs |-> "off"]
  /\ todo = [r \in Runs |-> {}]
  /\ autos = [r \in Runs |-> {}]
  /\ wait = [r \in Runs |-> FALSE]
  /\ cur = [r \in Runs |-> NoTask]
  /\ shownAt = [r \in Runs |-> Nowhere]
  /\ early = FALSE /\ askew = FALSE
  /\ up = TRUE

-----------------------------------------------------------------------------
\* Requests of the user.

\* What Send and Regenerate have in common: a new run is the current one, its goroutine starts.
Launch ==
  /\ runs < MaxRuns
  /\ runs' = runs + 1
  /\ status' = "running" /\ processing' = TRUE /\ currentRunID' = runs + 1
  /\ pc' = [pc EXCEPT ![runs + 1] = "start"]
  /\ UNCHANGED <<closed, currentRun, toolRun, active, by, resolvers, contexts, loops, early, up>>

\* Mutant of Truncate: one message more stays in session.messages.
TruncateLate(n) ==
  /\ views' = n /\ users' = {i \in users : i <= n}
  /\ turns' = IF n + 1 < turns THEN n + 1 ELSE turns
  /\ task' = [t \in Tasks |-> IF Exists(t) /\ homeAt[t] \notin 1 .. n THEN "removed" ELSE task[t]]
  /\ homeAt' = [t \in Tasks |-> IF homeAt[t] > n THEN Hidden ELSE homeAt[t]]
  /\ shownAt' = [r \in Runs |-> IF shownAt[r] > n THEN Hidden ELSE shownAt[r]]
  /\ callAt' = [t \in Tasks |-> IF callAt[t] > n + 1 THEN Nowhere ELSE callAt[t]]
  /\ replyAt' = [t \in Tasks |-> IF replyAt[t] > n + 1 THEN Nowhere ELSE replyAt[t]]
  /\ UNCHANGED askew

\* truncateAfterMessageIndex and truncateProviderMessagesAfterVisibleMessage: n messages stay in
\* either list, as far as there are so many, and the tasks of the answers that stay visible.
Truncate(n) ==
  /\ views' = n /\ users' = {i \in users : i <= n}
  /\ turns' = IF n < turns THEN n ELSE turns
  /\ task' = [t \in Tasks |-> IF Exists(t) /\ homeAt[t] \notin 1 .. n THEN "removed" ELSE task[t]]
  /\ homeAt' = [t \in Tasks |-> IF homeAt[t] > n THEN Hidden ELSE homeAt[t]]
  /\ shownAt' = [r \in Runs |-> IF shownAt[r] > n THEN Hidden ELSE shownAt[r]]
  /\ callAt' = [t \in Tasks |-> IF callAt[t] > n THEN Nowhere ELSE callAt[t]]
  /\ replyAt' = [t \in Tasks |-> IF replyAt[t] > n THEN Nowhere ELSE replyAt[t]]
  /\ UNCHANGED askew

\* The lists cease to correspond when the message goes further down the visible list than the other.
SendUserMessage ==
  /\ ~closed /\ ~processing /\ ~HasPending
  /\ views' = views + 1 /\ users' = users \cup {views + 1}
  /\ turns' = turns + 1
  /\ askew' = (askew \/ views > turns)
  /\ Launch
  /\ UNCHANGED <<task, homeAt, callAt, replyAt, shownAt>>

RegenerateAfterUserMessage(i) ==
  /\ i \in users /\ ~closed /\ ~processing
  /\ Truncate(i)
  /\ Launch

\* What UpdateUserMessage and DeleteMessage have in common.
Shorten(n) ==
  /\ ~closed /\ ~processing
  /\ Truncate(n)
  /\ status' = "idle"
  /\ UNCHANGED <<closed, processing, currentRun, currentRunID, toolRun, active,
                 by, resolvers, runs, contexts, pc, loops, early, up>>

\* Changes the text in both lists.
UpdateUserMessage(i) == i \in users /\ Shorten(i)

DeleteMessage(i) == i \in users /\ Shorten(i - 1)

\* ConfirmTasks for the tasks S, d says which are confirmed and which are rejected.
ConfirmTasks(S, d) ==
  /\ ~closed
  /\ S # {} /\ S \subseteq Waiting
  /\ \/ toolRun # None /\ UNCHANGED <<toolRun, runs, pc>>
     \/ /\ toolRun = None /\ runs < MaxRuns
        /\ toolRun' = runs + 1 /\ runs' = runs + 1
        /\ pc' = [pc EXCEPT ![runs + 1] = "tools"]
  /\ task' = [t \in Tasks |-> IF t \notin S THEN task[t]
                              ELSE IF d[t] = "confirm" THEN "running" ELSE "cancelled"]
  /\ decision' = [t \in Tasks |-> IF t \in S THEN d[t] ELSE decision[t]]
  /\ trun' = [t \in Tasks |-> IF t \in S THEN toolRun' ELSE trun[t]]
  /\ tpc' = [t \in Tasks |-> IF t \in S THEN "resolve" ELSE tpc[t]]
  /\ active' = active + Cardinality(S)
  /\ status' = IF Waiting = S THEN "running" ELSE "waiting"
  /\ processing' = TRUE
  /\ early' = (early \/ (processing /\ toolRun = None))
  /\ UNCHANGED <<closed, currentRun, currentRunID, by, messages, contexts, loops, up>>

Decisions(S) == [S -> {"confirm", "reject"}]

-----------------------------------------------------------------------------
\* The end of what the session does.

\* cancelActiveTasksLocked
CancelActive ==
  task' = [t \in Tasks |-> IF task[t] \in {"queued", "running"} THEN "cancelled" ELSE task[t]]

\* The fields that CancelSession, closeSession, DeleteSession and cleanupLoop reset alike.
Forget ==
  /\ currentRun' = None /\ currentRunID' = None /\ toolRun' = None /\ active' = 0
  /\ processing' = FALSE

\* Mutant of Taken: the cancel function of the tool run is forgotten.
TakenRunOnly == {currentRun} \ {None}

Taken == {currentRun, toolRun} \ {None}

CancelSession ==
  /\ ~closed
  /\ Cardinality({r \in Runs : ctx[r] = "cancelled" \/ r \in doomed} \cup Taken) <= MaxStopped
  /\ Forget /\ CancelActive
  /\ doomed' = doomed \cup Taken
  /\ status' = "idle"
  /\ UNCHANGED <<closed, by, messages, resolvers, runs, ctx, pc, loops, early, up>>

CloseSession ==
  /\ ~closed /\ closed' = TRUE
  /\ Forget /\ CancelActive
  /\ doomed' = doomed \cup Taken
  /\ status' = "closed"
  /\ UNCHANGED <<by, messages, resolvers, runs, ctx, pc, loops, early, up>>

\* Leaves status and tasks as they are.
DeleteSession ==
  /\ ~closed /\ closed' = TRUE
  /\ Forget
  /\ doomed' = doomed \cup Taken
  /\ UNCHANGED <<status, task, by, messages, resolvers, runs, ctx, pc, loops, early, up>>

Cancelled(S) == ctx' = [r \in Runs |-> IF r \in S /\ ctx[r] = "live" THEN "cancelled" ELSE ctx[r]]

\* The session has been idle for longer than Manager.ttl: cancels under the lock.
CleanupLoop ==
  /\ ~closed /\ closed' = TRUE
  /\ Forget
  /\ Cancelled(Taken)
  /\ status' = "closed"
  /\ UNCHANGED <<task, by, messages, resolvers, runs, doomed, pc, loops, early, up>>

\* A cancel function taken under the lock is called after the unlock.
CallCancel(r) ==
  /\ r \in doomed
  /\ Cancelled({r})
  /\ doomed' = doomed \ {r}
  /\ UNCHANGED <<session, task, by, messages, resolvers, runs, pc, loops, early, up>>

\* Limits.TurnTimeout has passed.
Expire(r) ==
  /\ pc[r] \notin {"off", "start", "done"} /\ ctx[r] = "live"
  /\ ctx' = [ctx EXCEPT ![r] = "expired"]
  /\ UNCHANGED <<session, task, by, messages, resolvers, runs, doomed, pc, loops, early, up>>

-----------------------------------------------------------------------------
\* Executing a task under the context of run r, for a loop and for a resolver.

\* The result becomes the last message.
Answer(t) == replyAt' = [replyAt EXCEPT ![t] = turns]

\* executeTask up to the call of the tool; "go" says that the tool is called.
ExecuteBegin(t, r, go) ==
  \/ /\ ~Exists(t) \/ closed
     /\ ~go /\ UNCHANGED task
  \/ /\ Exists(t) /\ ~closed
     /\ task[t] = "cancelled" \/ ctx[r] # "live"
     /\ ~go /\ task' = [task EXCEPT ![t] = "cancelled"]
  \/ /\ Exists(t) /\ ~closed
     /\ task[t] # "cancelled" /\ ctx[r] = "live"
     /\ go /\ task' = [task EXCEPT ![t] = "running"]

\* Mutant of ExecuteEnd: looks at the context only, not at the status of the task.
ExecuteEndAnyway(t, r) ==
  \/ /\ ~Exists(t)
     /\ UNCHANGED <<task, replyAt>>
  \/ /\ Exists(t) /\ ctx[r] # "live"
     /\ task' = [task EXCEPT ![t] = "cancelled"]
     /\ UNCHANGED replyAt
  \/ /\ Exists(t) /\ ctx[r] = "live"
     /\ \E result \in {"succeeded", "failed"} : task' = [task EXCEPT ![t] = result]
     /\ Answer(t)

\* executeTask after the tool has returned.
ExecuteEnd(t, r) ==
  \/ /\ ~Exists(t)
     /\ UNCHANGED <<task, replyAt>>
  \/ /\ Exists(t)
     /\ task[t] = "cancelled" \/ ctx[r] # "live"
     /\ task' = [task EXCEPT ![t] = "cancelled"]
     /\ UNCHANGED replyAt
  \/ /\ Exists(t)
     /\ task[t] # "cancelled" /\ ctx[r] = "live"
     /\ \E result \in {"succeeded", "failed"} : task' = [task EXCEPT ![t] = result]
     /\ Answer(t)

-----------------------------------------------------------------------------
\* runSessionWithContext, the goroutine of run r.

\* Mutant of Start: does not ask whether it is still the current run.
StartAnyway(r) ==
  /\ pc[r] = "start"
  /\ \/ /\ closed
        /\ pc' = [pc EXCEPT ![r] = "done"]
        /\ UNCHANGED currentRun
     \/ /\ ~closed
        /\ currentRun' = r
        /\ \E next \in {"ask", "complete"} : pc' = [pc EXCEPT ![r] = next]
  /\ UNCHANGED <<closed, status, processing, currentRunID, toolRun, active,
                 task, by, messages, resolvers, runs, contexts, loops, early, up>>

\* It is the current run and registers its cancel function, or ends. The configuration may be missing.
Start(r) ==
  /\ pc[r] = "start"
  /\ \/ /\ closed \/ currentRunID # r
        /\ pc' = [pc EXCEPT ![r] = "done"]
        /\ UNCHANGED currentRun
     \/ /\ ~closed /\ currentRunID = r
        /\ currentRun' = r
        /\ \E next \in {"ask", "complete"} : pc' = [pc EXCEPT ![r] = next]
  /\ UNCHANGED <<closed, status, processing, currentRunID, toolRun, active,
                 task, by, messages, resolvers, runs, contexts, loops, early, up>>

Ask(r) ==
  /\ pc[r] = "ask"
  /\ pc' = [pc EXCEPT ![r] = IF closed THEN "done" ELSE "stream"]
  /\ UNCHANGED <<session, task, by, messages, resolvers, runs, contexts, loops, early, up>>

\* The first words of an answer, or the first after an edit has removed those before: they become
\* visible.  That the run is still the current one is not asked.
AppendDelta(r) ==
  /\ pc[r] = "stream" /\ shownAt[r] \in {Nowhere, Hidden}
  /\ "words" \in Incidents
  /\ views' = views + 1
  /\ shownAt' = [shownAt EXCEPT ![r] = views + 1]
  /\ UNCHANGED <<session, task, by, users, turns, homeAt, callAt, replyAt, askew,
                 resolvers, runs, contexts, pc, loops, early, up>>

\* StreamTurn returns an error. The words there were stay visible, and only visible.
StreamFails(r) ==
  /\ pc[r] = "stream"
  /\ pc' = [pc EXCEPT ![r] = "complete"]
  /\ shownAt' = [shownAt EXCEPT ![r] = Nowhere]
  /\ UNCHANGED <<session, task, by, views, users, turns, homeAt, callAt, replyAt, askew,
                 resolvers, runs, contexts, loops, early, up>>

\* upsertAssistantMessage: what has words is visible, at home.
Upsert(r, home) ==
  \/ /\ shownAt[r] \in {Nowhere, Hidden} /\ "words" \in Incidents
     /\ views' = views + 1 /\ home = views + 1
  \/ /\ shownAt[r] = Nowhere
     /\ home = Hidden /\ UNCHANGED views
  \/ /\ shownAt[r] \notin {Nowhere, Hidden}
     /\ home = shownAt[r] /\ UNCHANGED views

\* StreamTurn returns an answer with the tool calls C: finalizeAssistantTurn. It compares no run, so
\* that the answer of a run that is over may come between a call and its result.
StreamEnds(r, C) ==
  /\ pc[r] = "stream"
  /\ turns' = turns + 1
  /\ by' = [t \in Tasks |-> IF t \in C THEN r ELSE by[t]]
  /\ \E home \in {Hidden, shownAt[r], views + 1} :
       /\ Upsert(r, home)
       /\ homeAt' = [t \in Tasks |-> IF t \in C THEN home ELSE homeAt[t]]
  /\ shownAt' = [shownAt EXCEPT ![r] = Nowhere]
  /\ callAt' = [t \in Tasks |-> IF t \in C THEN turns + 1 ELSE callAt[t]]
  /\ askew' = (askew \/ (currentRunID # r /\ Called \ Answered # {}))
  /\ todo' = [todo EXCEPT ![r] = C]
  /\ autos' = [autos EXCEPT ![r] = {}]
  /\ wait' = [wait EXCEPT ![r] = FALSE]
  /\ pc' = [pc EXCEPT ![r] = IF C = {} THEN "complete" ELSE "make"]
  /\ UNCHANGED <<session, task, users, replyAt, resolvers, runs, contexts, cur, early, up>>

Uncalled == {t \in Tasks : by[t] = None}

\* materializeTasks for one call: the tool is not known.
MakeUnknown(r, t) ==
  /\ pc[r] = "make" /\ t \in todo[r] /\ t \notin Confirmable
  /\ task' = [task EXCEPT ![t] = "failed"]
  /\ Answer(t)
  /\ todo' = [todo EXCEPT ![r] = @ \ {t}]
  /\ UNCHANGED <<session, by, spoken, resolvers, runs, contexts, pc, autos, wait, cur, early, up>>

\* Mutant of MakeTask: a tool that needs a confirmation may be executed at once.
MakeTaskUnasked(r, t) ==
  /\ pc[r] = "make" /\ t \in todo[r]
  /\ task' = [task EXCEPT ![t] = "queued"]
  /\ todo' = [todo EXCEPT ![r] = @ \ {t}]
  /\ autos' = [autos EXCEPT ![r] = @ \cup {t}]
  /\ UNCHANGED <<session, by, messages, resolvers, runs, contexts, pc, wait, cur, early, up>>

\* materializeTasks for one call: the task, to be executed by the loop or to be marked as waiting.
MakeTask(r, t) ==
  /\ pc[r] = "make" /\ t \in todo[r]
  /\ task' = [task EXCEPT ![t] = "queued"]
  /\ todo' = [todo EXCEPT ![r] = @ \ {t}]
  /\ \/ /\ t \in Confirmable
        /\ pc' = [pc EXCEPT ![r] = "mark"]
        /\ cur' = [cur EXCEPT ![r] = t]
        /\ UNCHANGED autos
     \/ /\ t \notin Confirmable
        /\ autos' = [autos EXCEPT ![r] = @ \cup {t}]
        /\ UNCHANGED <<pc, cur>>
  /\ UNCHANGED <<session, by, messages, resolvers, runs, contexts, wait, early, up>>

\* The second locked section for a task that needs a confirmation; the task is looked up again, and
\* if an edit of a message has removed it, a nil pointer ends the process.
MarkWaiting(r) ==
  /\ pc[r] = "mark"
  /\ \/ /\ Exists(cur[r])
        /\ task' = [task EXCEPT ![cur[r]] = "waiting"]
        /\ wait' = [wait EXCEPT ![r] = TRUE]
        /\ pc' = [pc EXCEPT ![r] = "make"]
        /\ cur' = [cur EXCEPT ![r] = NoTask]
        /\ UNCHANGED up
     \/ /\ ~Exists(cur[r])
        /\ up' = FALSE
        /\ UNCHANGED <<task, wait, pc, cur>>
  /\ UNCHANGED <<session, by, messages, resolvers, runs, contexts, todo, autos, early>>

AutoBegin(r, t) ==
  /\ pc[r] = "make" /\ todo[r] = {} /\ t \in autos[r]
  /\ \E go \in BOOLEAN :
       /\ ExecuteBegin(t, r, go)
       /\ pc' = [pc EXCEPT ![r] = IF go THEN "tool" ELSE "check"]
       /\ cur' = [cur EXCEPT ![r] = IF go THEN t ELSE NoTask]
  /\ autos' = [autos EXCEPT ![r] = @ \ {t}]
  /\ UNCHANGED <<session, by, messages, resolvers, runs, contexts, todo, wait, early, up>>

AutoEnd(r) ==
  /\ pc[r] = "tool"
  /\ ExecuteEnd(cur[r], r)
  /\ pc' = [pc EXCEPT ![r] = "check"]
  /\ cur' = [cur EXCEPT ![r] = NoTask]
  /\ UNCHANGED <<session, by, spoken, resolvers, runs, contexts, todo, autos, wait, early, up>>

\* After each of its tasks the loop looks at the context of the turn.
Check(r) ==
  /\ pc[r] = "check"
  /\ pc' = [pc EXCEPT ![r] = IF ctx[r] = "live" THEN "make" ELSE "complete"]
  /\ UNCHANGED <<session, task, by, messages, resolvers, runs, contexts, loops, early, up>>

\* Mutant of TasksDone: does not wait for the tasks it is to execute.
TasksMade(r) == pc[r] = "make" /\ todo[r] = {}

TasksDone(r) == pc[r] = "make" /\ todo[r] = {} /\ autos[r] = {}

\* All the tasks are done and none waits: ask again.
Again(r) ==
  /\ TasksDone(r) /\ ~wait[r]
  /\ pc' = [pc EXCEPT ![r] = "ask"]
  /\ UNCHANGED <<session, task, by, messages, resolvers, runs, contexts, loops, early, up>>

\* What a run does to the session when it ends, if it is still the current one.
EndRun(r, s) ==
  \/ /\ closed \/ currentRunID # r
     /\ UNCHANGED session
  \/ /\ ~closed /\ currentRunID = r
     /\ status' = s /\ processing' = FALSE
     /\ currentRun' = None /\ currentRunID' = None
     /\ UNCHANGED <<closed, toolRun, active>>

\* pendingConfirm: the run ends and leaves the rest to the user.
Wrap(r) ==
  /\ TasksDone(r) /\ wait[r]
  /\ EndRun(r, "waiting")
  /\ pc' = [pc EXCEPT ![r] = "done"]
  /\ UNCHANGED <<task, by, messages, resolvers, runs, contexts, loops, early, up>>

\* completeTurn, also at the end of failSessionTurn.
Complete(r) ==
  /\ pc[r] = "complete"
  /\ EndRun(r, "idle")
  /\ pc' = [pc EXCEPT ![r] = "done"]
  /\ UNCHANGED <<task, by, messages, resolvers, runs, contexts, loops, early, up>>

-----------------------------------------------------------------------------
\* resolvePendingTask, the goroutine of a decision.

\* getSessionByID finds no session.
ResolveGone(t) ==
  /\ tpc[t] = "resolve" /\ closed
  /\ tpc' = [tpc EXCEPT ![t] = "done"]
  /\ UNCHANGED <<session, task, by, messages, decision, trun, runs, contexts, pc, loops, early, up>>

\* Mutant of ResolveSkip: the resolver returns at once.
ResolveReturns(t) ==
  /\ tpc[t] = "resolve" /\ decision[t] = "confirm" /\ ctx[trun[t]] # "live"
  /\ tpc' = [tpc EXCEPT ![t] = "done"]
  /\ UNCHANGED <<session, task, by, messages, decision, trun, runs, contexts, pc, loops, early, up>>

\* The context is done before the task is executed: the task is left as it is.
ResolveSkip(t) ==
  /\ tpc[t] = "resolve" /\ decision[t] = "confirm" /\ ctx[trun[t]] # "live"
  /\ tpc' = [tpc EXCEPT ![t] = "after"]
  /\ UNCHANGED <<session, task, by, messages, decision, trun, runs, contexts, pc, loops, early, up>>

ResolveBegin(t) ==
  /\ tpc[t] = "resolve" /\ decision[t] = "confirm"
  /\ \E go \in BOOLEAN :
       /\ ExecuteBegin(t, trun[t], go)
       /\ tpc' = [tpc EXCEPT ![t] = IF go THEN "tool" ELSE "after"]
  /\ UNCHANGED <<session, by, messages, decision, trun, runs, contexts, pc, loops, early, up>>

ResolveEnd(t) ==
  /\ tpc[t] = "tool"
  /\ ExecuteEnd(t, trun[t])
  /\ tpc' = [tpc EXCEPT ![t] = "after"]
  /\ UNCHANGED <<session, by, spoken, decision, trun, runs, contexts, pc, loops, early, up>>

\* Mutant of RejectTask: the language model is not told.
RejectSilently(t) ==
  /\ tpc[t] = "resolve" /\ decision[t] = "reject"
  /\ task' = IF Exists(t) THEN [task EXCEPT ![t] = "cancelled"] ELSE task
  /\ tpc' = [tpc EXCEPT ![t] = "after"]
  /\ UNCHANGED <<session, by, messages, decision, trun, runs, contexts, pc, loops, early, up>>

RejectTask(t) ==
  /\ tpc[t] = "resolve" /\ decision[t] = "reject"
  /\ \/ /\ ~Exists(t)
        /\ UNCHANGED <<task, replyAt>>
     \/ /\ Exists(t)
        /\ task' = [task EXCEPT ![t] = "cancelled"]
        /\ Answer(t)
  /\ tpc' = [tpc EXCEPT ![t] = "after"]
  /\ UNCHANGED <<session, by, spoken, decision, trun, runs, contexts, pc, loops, early, up>>

\* The rest of resolvePendingTask: the last resolver of the tool run takes over.
ResolveAfter(t) ==
  LET r == trun[t] IN
  /\ tpc[t] = "after"
  /\ tpc' = [tpc EXCEPT ![t] = "done"]
  /\ \/ /\ closed \/ toolRun # r
        /\ UNCHANGED <<session, pc>>
     \/ /\ ~closed /\ toolRun = r /\ active > 1
        /\ active' = active - 1
        /\ UNCHANGED <<closed, status, processing, currentRun, currentRunID, toolRun, pc>>
     \/ /\ ~closed /\ toolRun = r /\ active <= 1
        /\ active' = 0 /\ toolRun' = None
        /\ \/ /\ ctx[r] = "expired"
              /\ status' = "idle" /\ processing' = FALSE
              /\ UNCHANGED <<currentRun, currentRunID>>
              /\ pc' = [pc EXCEPT ![r] = "done"]
           \/ /\ ctx[r] # "expired" /\ HasPending
              /\ status' = "waiting" /\ processing' = FALSE
              /\ UNCHANGED <<currentRun, currentRunID>>
              /\ pc' = [pc EXCEPT ![r] = "done"]
           \/ /\ ctx[r] # "expired" /\ ~HasPending
              /\ status' = "running" /\ processing' = TRUE
              /\ currentRun' = r /\ currentRunID' = r
              /\ pc' = [pc EXCEPT ![r] = "start"]
        /\ UNCHANGED closed
  /\ UNCHANGED <<task, by, messages, decision, trun, runs, contexts, loops, early, up>>

-----------------------------------------------------------------------------
Loop(r) ==
  \/ Start(r) \/ Ask(r) \/ AppendDelta(r) \/ StreamFails(r)
  \/ \E C \in SUBSET Uncalled : StreamEnds(r, C)
  \/ \E t \in Tasks : MakeUnknown(r, t) \/ MakeTask(r, t) \/ AutoBegin(r, t)
  \/ MarkWaiting(r) \/ AutoEnd(r) \/ Check(r) \/ Again(r) \/ Wrap(r) \/ Complete(r)

Resolver(t) ==
  \/ ResolveGone(t) \/ ResolveSkip(t) \/ ResolveBegin(t) \/ ResolveEnd(t)
  \/ RejectTask(t) \/ ResolveAfter(t)

Chat ==
  \/ SendUserMessage \/ CancelSession
  \/ \E S \in SUBSET Waiting : \E d \in Decisions(S) : ConfirmTasks(S, d)

Edit ==
  \E i \in users : RegenerateAfterUserMessage(i) \/ UpdateUserMessage(i) \/ DeleteMessage(i)

End == CloseSession \/ DeleteSession \/ CleanupLoop

Next ==
  /\ up
  /\ \/ Chat
     \/ "edit" \in Incidents /\ Edit
     \/ "end" \in Incidents /\ End
     \/ "timeout" \in Incidents /\ \E r \in Runs : Expire(r)
     \/ \E r \in Runs : Loop(r) \/ CallCancel(r)
     \/ \E t \in Tasks : Resolver(t)

\* Goroutines run. The language model answers or fails and the tools return, since both have the
\* context of the turn, which ends after Limits.TurnTimeout.
Fairness ==
  /\ \A r \in Runs : WF_vars(up /\ Loop(r)) /\ WF_vars(up /\ CallCancel(r))
  /\ \A t \in Tasks : WF_vars(up /\ Resolver(t))

Spec == Init /\ [][Next]_vars
FairSpec == Spec /\ Fairness

-----------------------------------------------------------------------------
\* Properties.

TaskStates ==
  {"absent", "queued", "waiting", "running", "succeeded", "failed", "cancelled", "removed"}

SessionType ==
  /\ closed \in BOOLEAN /\ processing \in BOOLEAN
  /\ early \in BOOLEAN /\ up \in BOOLEAN
  /\ status \in {"idle", "running", "waiting", "closed"}
  /\ currentRun \in Runs \cup {None} /\ currentRunID \in Runs \cup {None}
  /\ toolRun \in Runs \cup {None} /\ active \in Nat
  /\ runs \in 0 .. MaxRuns
  /\ ctx \in [Runs -> {"live", "cancelled", "expired"}] /\ doomed \subseteq Runs

TaskType ==
  /\ task \in [Tasks -> TaskStates]
  /\ by \in [Tasks -> Runs \cup {None}]
  /\ decision \in [Tasks -> {"none", "confirm", "reject"}]
  /\ trun \in [Tasks -> Runs \cup {None}]
  /\ tpc \in [Tasks -> {"none", "resolve", "tool", "after", "done"}]

Place == Nat \cup {Nowhere}

MessageType ==
  /\ views \in Nat /\ users \subseteq 1 .. views /\ turns \in Nat
  /\ homeAt \in [Tasks -> Nat]
  /\ callAt \in [Tasks -> Place] /\ replyAt \in [Tasks -> Place]
  /\ shownAt \in [Runs -> Place]
  /\ askew \in BOOLEAN

LoopType ==
  /\ pc \in [Runs -> {"off", "tools", "start", "ask", "stream", "make", "mark", "tool", "check",
                      "complete", "done"}]
  /\ todo \in [Runs -> SUBSET Tasks] /\ autos \in [Runs -> SUBSET Tasks]
  /\ wait \in [Runs -> BOOLEAN]
  /\ cur \in [Runs -> Tasks \cup {NoTask}]

TypeOK == SessionType /\ TaskType /\ MessageType /\ LoopType

\* A tool that needs a confirmation is executed only after the user has confirmed it.
ConfirmedFirst ==
  \A t \in Confirmable : task[t] \in {"running", "succeeded", "failed"} => decision[t] = "confirm"

\* The result of a tool never undoes a cancellation: a canceled task is executed, or gets a result,
\* only if it waits for the user in between.
CancelledStays ==
  [][\A t \in Tasks : task[t] = "cancelled" => task'[t] \in {"cancelled", "waiting", "removed"}]_vars

\* The tool run's count is that of its resolvers that have not come to their end: the last one, and
\* no other, takes over.
Unresolved(r) == {t \in Tasks : trun[t] = r /\ tpc[t] \in {"resolve", "tool", "after"}}
CountsResolvers == toolRun # None => active = Cardinality(Unresolved(toolRun))

\* The goroutines at work under the context of r.
AtWork(r) ==
  \/ pc[r] \in {"ask", "stream", "make", "mark", "tool", "check"}
  \/ \E t \in Tasks : trun[t] = r /\ tpc[t] \in {"resolve", "tool"}
Alive == {r \in Runs : AtWork(r) /\ ~Dead(r)}

\* A session that accepts messages has nothing at work for it that nobody has told to stop.
QuietMeansQuiet == ~processing /\ ~early => Alive = {}

\* There is never more than one run at work that nobody has told to stop.
OneRunAtWork == ~early => Cardinality(Alive) <= 1

\* The run that called the tool was told to stop, or the tool run that resolves the task.
Stopped(t) == \E r \in {by[t], trun[t]} \ {None} : Dead(r)

\* As long as the two lists correspond, the language model is told the result of each of its tool
\* calls and no other result, whatever was edited; except where somebody was told to stop.
AskedWithAnswers ==
  [][\A r \in Runs :
       pc[r] = "ask" /\ pc'[r] = "stream" /\ ~Dead(r) /\ ~early /\ ~askew =>
         \A t \in Tasks : Stopped(t) \/ (t \in Called <=> t \in Answered)]_vars

\* A session that is busy becomes free or is closed.
BusyEnds == processing ~> (~processing \/ closed \/ ~up)

\* A task that is queued or running ends, or its session is closed, or its run was told to stop.
TaskEnds ==
  \A t \in Tasks :
    task[t] \in {"queued", "running"} ~>
      task[t] \notin {"queued", "running"} \/ closed \/ ~up \/ Stopped(t)
=============================================================================
