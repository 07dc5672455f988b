---------------------------- MODULE AiChatProofs ----------------------------
(***************************************************************************)
(* Proofs about AiChat, for any finite set of tool calls and any number of *)
(* runs.                                                                   *)
(*                                                                         *)
(* That a cancelled task stays so, that nothing is executed unconfirmed and*)
(* that the resolvers are counted rest on where a task can be: the calls a *)
(* run has yet to make tasks of have none (LoopOK), and nobody resolves a  *)
(* task before it has waited (TaskOK).                                     *)
(*                                                                         *)
(* That one run at a time is at work, and none when the session is quiet,  *)
(* rests on who the session is busy for: the current run or the tool run,  *)
(* never both, unless a confirmation came early (Solo).                    *)
(*                                                                         *)
(* That the model is asked with answers follows from where an unanswered   *)
(* call is: at hand of its run, waiting for the user, or with a resolver   *)
(* (OwedOK).  An edit must not leave it behind, nor a result without its   *)
(* call: while the two lists correspond, what is still to be answered is   *)
(* the last message of either, behind every message of the user (PlayOK),  *)
(* and a result has the place of its call (ListsOK).                       *)
(***************************************************************************)
EXTENDS AiChat, FiniteSetTheorems, TLAPS

\* Runs are numbered as they are made; a session without a tool run counts nothing.
Numbered ==
  /\ \A t \in Tasks : trun[t] <= runs
  /\ toolRun <= runs
  /\ closed => toolRun = None
  /\ toolRun = None => active = 0

\* A task comes from an answer, and is resolved after it has waited.
TaskOK == \A t \in Tasks :
  /\ by[t] = None => task[t] = "absent"
  /\ task[t] \in {"absent", "queued", "waiting"} => tpc[t] = "none"
  /\ tpc[t] = "tool" => decision[t] = "confirm"

\* What a run has at hand: calls without a task, tasks to execute, a task to mark, a tool.
LoopOK == \A r \in Runs :
  /\ \A t \in todo[r] : task[t] = "absent" /\ by[t] = r
  /\ autos[r] \cap Confirmable = {}
  /\ pc[r] = "mark" => /\ cur[r] \in Confirmable
                       /\ by[cur[r]] = r
                       /\ task[cur[r]] \in {"queued", "cancelled", "removed"}
                       /\ tpc[cur[r]] = "none"
  /\ pc[r] = "tool" => cur[r] \in Tasks \ Confirmable

\* The inductive invariant.
IInv == TypeOK /\ Numbered /\ TaskOK /\ LoopOK /\ ConfirmedFirst /\ CountsResolvers

-----------------------------------------------------------------------------
\* What executing a task does: only to that task, and only if it exists; it does not undo a
\* cancellation.
LEMMA ExecuteType ==
  ASSUME TypeOK, NEW t \in Tasks, NEW r, ExecuteEnd(t, r)
  PROVE  task' \in [Tasks -> TaskStates]
BY DEF TypeOK, TaskType, TaskStates, ExecuteEnd, Exists

\* What it tells: the result, as the last message, or nothing.
LEMMA ReplyEffect ==
  ASSUME NEW t \in Tasks, NEW r, ExecuteEnd(t, r) \/ RejectTask(t)
  PROVE  UNCHANGED replyAt \/ (Answer(t) /\ Exists(t))
BY DEF ExecuteEnd, RejectTask

LEMMA BeginEffect ==
  ASSUME TypeOK, NEW t \in Tasks, NEW r, NEW go, ExecuteBegin(t, r, go), NEW q \in Tasks,
         task'[q] # task[q]
  PROVE  /\ q = t /\ Exists(t) /\ task[t] # "cancelled"
         /\ task'[t] = "cancelled" \/ (go /\ task'[t] = "running")
BY DEF TypeOK, TaskType, TaskStates, ExecuteBegin, Exists

LEMMA EndEffect ==
  ASSUME TypeOK, NEW t \in Tasks, NEW r, ExecuteEnd(t, r), NEW q \in Tasks,
         task'[q] # task[q]
  PROVE  /\ q = t /\ Exists(t) /\ task[t] # "cancelled"
         /\ task'[t] \in {"cancelled", "succeeded", "failed"}
BY DEF TypeOK, TaskType, TaskStates, ExecuteEnd, Exists

\* Cutting the lists removes tasks, and does nothing else to them.
LEMMA TruncateEffect ==
  ASSUME TypeOK, NEW n, Truncate(n)
  PROVE  /\ task' \in [Tasks -> TaskStates]
         /\ \A q \in Tasks : task'[q] = task[q] \/ (Exists(q) /\ task'[q] = "removed")
BY DEF TypeOK, TaskType, TaskStates, Truncate

\* Every edit cuts the lists at a message of the user, or before it.
LEMMA CutPlace ==
  ASSUME TypeOK, NEW i \in users, UpdateUserMessage(i) \/ DeleteMessage(i)
  PROVE  \E n \in {i, i - 1} : n \in Nat /\ Truncate(n) /\ Shorten(n)
<1>1. i \in Nat /\ i >= 1
  BY DEF TypeOK, MessageType
<1> QED
  BY <1>1 DEF UpdateUserMessage, DeleteMessage, Shorten

Typed == SessionType /\ TaskType /\ LoopType

\* Every step keeps the types of all but the messages.
LEMMA TypedStep ==
  ASSUME IInv, Next
  PROVE  Typed'
<1> USE ChatAssumption DEF session, messages, spoken, resolvers, loops, contexts, Runs, None, IInv
<1>1. ASSUME SendUserMessage PROVE Typed'
  BY <1>1 DEF SendUserMessage, Launch, Typed, TypeOK, SessionType, TaskType, TaskStates, LoopType
<1>2. ASSUME NEW i \in users, RegenerateAfterUserMessage(i) PROVE Typed'
  <2>1. task' \in [Tasks -> TaskStates]
    BY <1>2, TruncateEffect DEF RegenerateAfterUserMessage
  <2>. QED
    BY <1>2, <2>1 DEF RegenerateAfterUserMessage, Launch, Typed, TypeOK, SessionType, TaskType,
      LoopType
<1>3. ASSUME NEW i \in users, UpdateUserMessage(i) \/ DeleteMessage(i) PROVE Typed'
  <2>1. PICK n \in Nat : Truncate(n) /\ Shorten(n)
    BY <1>3, CutPlace
  <2>2. task' \in [Tasks -> TaskStates]
    BY <2>1, TruncateEffect
  <2>. QED
    BY <2>1, <2>2 DEF Shorten, Typed, TypeOK, SessionType, TaskType, LoopType
<1>4. ASSUME NEW S \in SUBSET Waiting, NEW d \in Decisions(S), ConfirmTasks(S, d) PROVE Typed'
  <2>1. IsFiniteSet(S)
    BY FS_Subset DEF Waiting
  <2>2. Cardinality(S) \in Nat
    BY <2>1, FS_CardinalityType
  <2>4. SessionType'
    BY <1>4, <2>2 DEF ConfirmTasks, Decisions, Waiting, TypeOK, SessionType
  <2>5. TaskType'
    <3>1. task' \in [Tasks -> TaskStates]
      BY <1>4 DEF ConfirmTasks, TypeOK, TaskType, TaskStates
    <3>2. decision' \in [Tasks -> {"none", "confirm", "reject"}]
      BY <1>4 DEF ConfirmTasks, Decisions, TypeOK, TaskType
    <3>3. toolRun' \in Runs \cup {None}
      BY <1>4 DEF ConfirmTasks, TypeOK, SessionType
    <3>4. trun' \in [Tasks -> Runs \cup {None}]
      BY <1>4, <3>3 DEF ConfirmTasks, TypeOK, TaskType
    <3>5. tpc' \in [Tasks -> {"none", "resolve", "tool", "after", "done"}]
      BY <1>4 DEF ConfirmTasks, TypeOK, TaskType
    <3>. QED
      BY <1>4, <3>1, <3>2, <3>4, <3>5 DEF ConfirmTasks, TypeOK, TaskType
  <2>6. LoopType'
    BY <1>4 DEF ConfirmTasks, Decisions, Waiting, TypeOK, LoopType
  <2>7. QED
    BY <2>4, <2>5, <2>6 DEF Typed
<1>5. ASSUME CancelSession PROVE Typed'
  <2>1. SessionType'
    BY <1>5 DEF CancelSession, Forget, CancelActive, Taken, TypeOK, SessionType
  <2>2. TaskType'
    BY <1>5 DEF CancelSession, Forget, CancelActive, Taken, TypeOK, TaskType, TaskStates
  <2>3. LoopType'
    BY <1>5 DEF CancelSession, Forget, CancelActive, Taken, TypeOK, LoopType
  <2>4. QED
    BY <2>1, <2>2, <2>3 DEF Typed
<1>6. ASSUME CloseSession PROVE Typed'
  <2>1. SessionType'
    BY <1>6 DEF CloseSession, Forget, CancelActive, Taken, TypeOK, SessionType
  <2>2. TaskType'
    BY <1>6 DEF CloseSession, Forget, CancelActive, Taken, TypeOK, TaskType, TaskStates
  <2>3. LoopType'
    BY <1>6 DEF CloseSession, Forget, CancelActive, Taken, TypeOK, LoopType
  <2>4. QED
    BY <2>1, <2>2, <2>3 DEF Typed
<1>7. ASSUME DeleteSession PROVE Typed'
  <2>1. SessionType'
    BY <1>7 DEF DeleteSession, Forget, Taken, TypeOK, SessionType
  <2>2. TaskType'
    BY <1>7 DEF DeleteSession, Forget, Taken, TypeOK, TaskType, TaskStates
  <2>3. LoopType'
    BY <1>7 DEF DeleteSession, Forget, Taken, TypeOK, LoopType
  <2>4. QED
    BY <2>1, <2>2, <2>3 DEF Typed
<1>8. ASSUME CleanupLoop PROVE Typed'
  BY <1>8 DEF CleanupLoop, Forget, Taken, Cancelled, Typed, TypeOK, SessionType, TaskType,
    TaskStates, LoopType
<1>9. ASSUME NEW r \in Runs, Start(r) PROVE Typed'
  BY <1>9 DEF Start, Typed, TypeOK, SessionType, TaskType, TaskStates, LoopType
<1>10. ASSUME NEW r \in Runs, Ask(r) PROVE Typed'
  BY <1>10 DEF Ask, Typed, TypeOK, SessionType, TaskType, TaskStates, LoopType
<1>11. ASSUME NEW r \in Runs, StreamFails(r) PROVE Typed'
  BY <1>11 DEF StreamFails, Typed, TypeOK, SessionType, TaskType, TaskStates, LoopType
<1>12. ASSUME NEW r \in Runs, NEW C \in SUBSET Uncalled, StreamEnds(r, C) PROVE Typed'
  BY <1>12 DEF StreamEnds, Uncalled, Typed, TypeOK, SessionType, TaskType, TaskStates, LoopType
<1>13. ASSUME NEW r \in Runs, NEW t \in Tasks, MakeUnknown(r, t) PROVE Typed'
  BY <1>13 DEF MakeUnknown, Answer, Typed, TypeOK, SessionType, TaskType, TaskStates, LoopType
<1>14. ASSUME NEW r \in Runs, NEW t \in Tasks, MakeTask(r, t) PROVE Typed'
  <2>1. SessionType'
    BY <1>14 DEF MakeTask, TypeOK, SessionType
  <2>2. TaskType'
    BY <1>14 DEF MakeTask, TypeOK, TaskType, TaskStates
  <2>3. LoopType'
    <3>1. todo' \in [Runs -> SUBSET Tasks] /\ UNCHANGED wait
      BY <1>14 DEF MakeTask, TypeOK, LoopType
    <3>2. CASE t \in Confirmable
      <4>1. /\ pc' = [pc EXCEPT ![r] = "mark"] /\ cur' = [cur EXCEPT ![r] = t]
            /\ UNCHANGED autos
        BY <1>14, <3>2 DEF MakeTask
      <4>. QED
        BY <3>1, <4>1 DEF TypeOK, LoopType
    <3>3. CASE t \notin Confirmable
      <4>1. autos' \in [Runs -> SUBSET Tasks]
        BY <1>14, <3>3 DEF MakeTask, TypeOK, LoopType
      <4>. QED
        BY <1>14, <3>1, <3>3, <4>1 DEF MakeTask, TypeOK, LoopType
    <3>. QED
      BY <3>2, <3>3
  <2>4. QED
    BY <2>1, <2>2, <2>3 DEF Typed
<1>15. ASSUME NEW r \in Runs, NEW t \in Tasks, AutoBegin(r, t) PROVE Typed'
  <2>1. SessionType'
    BY <1>15 DEF AutoBegin, ExecuteBegin, Exists, TypeOK, SessionType
  <2>2. TaskType'
    BY <1>15 DEF AutoBegin, ExecuteBegin, Exists, TypeOK, TaskType, TaskStates
  <2>3. LoopType'
    BY <1>15 DEF AutoBegin, ExecuteBegin, Exists, TypeOK, LoopType
  <2>4. QED
    BY <2>1, <2>2, <2>3 DEF Typed
<1>16. ASSUME NEW r \in Runs, MarkWaiting(r) PROVE Typed'
  <2>1. SessionType'
    <3>1. UNCHANGED session /\ up' \in BOOLEAN /\ UNCHANGED <<early, runs, ctx, doomed>>
      <4>1. CASE Exists(cur[r])
        BY <1>16, <4>1 DEF MarkWaiting, TypeOK, SessionType
      <4>2. CASE ~Exists(cur[r])
        BY <1>16, <4>2 DEF MarkWaiting
      <4>. QED
        BY <4>1, <4>2
    <3>. QED
      BY <3>1 DEF TypeOK, SessionType
  <2>2. TaskType'
    BY <1>16 DEF MarkWaiting, Exists, TypeOK, TaskType, TaskStates
  <2>3. LoopType'
    BY <1>16 DEF MarkWaiting, Exists, TypeOK, LoopType
  <2>4. QED
    BY <2>1, <2>2, <2>3 DEF Typed
<1>17. ASSUME NEW r \in Runs, AutoEnd(r) PROVE Typed'
  <2>1. SessionType'
    BY <1>17 DEF AutoEnd, ExecuteEnd, Exists, Answer, TypeOK, SessionType
  <2>2. TaskType'
    BY <1>17, ExecuteType DEF AutoEnd, LoopOK, TypeOK, TaskType
  <2>3. LoopType'
    BY <1>17 DEF AutoEnd, ExecuteEnd, Exists, Answer, TypeOK, LoopType
  <2>4. QED
    BY <2>1, <2>2, <2>3 DEF Typed
<1>18. ASSUME NEW r \in Runs, Check(r) PROVE Typed'
  BY <1>18 DEF Check, Typed, TypeOK, SessionType, TaskType, TaskStates, LoopType
<1>19. ASSUME NEW r \in Runs, Again(r) PROVE Typed'
  BY <1>19 DEF Again, TasksDone, Typed, TypeOK, SessionType, TaskType, TaskStates, LoopType
<1>20. ASSUME NEW r \in Runs, Wrap(r) PROVE Typed'
  <2>1. SessionType'
    BY <1>20 DEF Wrap, TasksDone, EndRun, TypeOK, SessionType
  <2>2. TaskType'
    BY <1>20 DEF Wrap, TasksDone, EndRun, TypeOK, TaskType, TaskStates
  <2>3. LoopType'
    BY <1>20 DEF Wrap, TasksDone, EndRun, TypeOK, LoopType
  <2>4. QED
    BY <2>1, <2>2, <2>3 DEF Typed
<1>21. ASSUME NEW r \in Runs, Complete(r) PROVE Typed'
  <2>1. SessionType'
    BY <1>21 DEF Complete, EndRun, TypeOK, SessionType
  <2>2. TaskType'
    BY <1>21 DEF Complete, EndRun, TypeOK, TaskType, TaskStates
  <2>3. LoopType'
    BY <1>21 DEF Complete, EndRun, TypeOK, LoopType
  <2>4. QED
    BY <2>1, <2>2, <2>3 DEF Typed
<1>22. ASSUME NEW r \in Runs, CallCancel(r) PROVE Typed'
  BY <1>22 DEF CallCancel, Cancelled, Typed, TypeOK, SessionType, TaskType, TaskStates, LoopType
<1>23. ASSUME NEW r \in Runs, Expire(r) PROVE Typed'
  BY <1>23 DEF Expire, Typed, TypeOK, SessionType, TaskType, TaskStates, LoopType
<1>24. ASSUME NEW t \in Tasks, ResolveGone(t) PROVE Typed'
  BY <1>24 DEF ResolveGone, Typed, TypeOK, SessionType, TaskType, TaskStates, LoopType
<1>25. ASSUME NEW t \in Tasks, ResolveSkip(t) PROVE Typed'
  BY <1>25 DEF ResolveSkip, Typed, TypeOK, SessionType, TaskType, TaskStates, LoopType
<1>26. ASSUME NEW t \in Tasks, ResolveBegin(t) PROVE Typed'
  <2>1. SessionType'
    BY <1>26 DEF ResolveBegin, ExecuteBegin, Exists, TypeOK, SessionType
  <2>2. TaskType'
    BY <1>26 DEF ResolveBegin, ExecuteBegin, Exists, TypeOK, TaskType, TaskStates
  <2>3. LoopType'
    BY <1>26 DEF ResolveBegin, ExecuteBegin, Exists, TypeOK, LoopType
  <2>4. QED
    BY <2>1, <2>2, <2>3 DEF Typed
<1>27. ASSUME NEW t \in Tasks, ResolveEnd(t) PROVE Typed'
  <2>1. SessionType'
    BY <1>27 DEF ResolveEnd, ExecuteEnd, Exists, Answer, TypeOK, SessionType
  <2>2. TaskType'
    BY <1>27 DEF ResolveEnd, ExecuteEnd, Exists, Answer, TypeOK, TaskType, TaskStates
  <2>3. LoopType'
    BY <1>27 DEF ResolveEnd, ExecuteEnd, Exists, Answer, TypeOK, LoopType
  <2>4. QED
    BY <2>1, <2>2, <2>3 DEF Typed
<1>28. ASSUME NEW t \in Tasks, RejectTask(t) PROVE Typed'
  <2>1. SessionType'
    BY <1>28 DEF RejectTask, Exists, Answer, TypeOK, SessionType
  <2>2. TaskType'
    BY <1>28 DEF RejectTask, Exists, Answer, TypeOK, TaskType, TaskStates
  <2>3. LoopType'
    BY <1>28 DEF RejectTask, Exists, Answer, TypeOK, LoopType
  <2>4. QED
    BY <2>1, <2>2, <2>3 DEF Typed
<1>29. ASSUME NEW t \in Tasks, ResolveAfter(t) PROVE Typed'
  <2>1. SessionType'
    <3>1. /\ status' \in {"idle", "running", "waiting", "closed"} /\ processing' \in BOOLEAN
          /\ toolRun' \in Runs \cup {None} /\ UNCHANGED closed
      BY <1>29 DEF ResolveAfter, TypeOK, SessionType
    <3>2. /\ currentRun' \in Runs \cup {None} /\ currentRunID' \in Runs \cup {None}
      BY <1>29 DEF ResolveAfter, TypeOK, SessionType, TaskType
    <3>3. active' \in Nat
      BY <1>29 DEF ResolveAfter, TypeOK, SessionType
    <3>. QED
      BY <1>29, <3>1, <3>2, <3>3 DEF ResolveAfter, TypeOK, SessionType
  <2>2. TaskType'
    BY <1>29 DEF ResolveAfter, HasPending, Waiting, TypeOK, TaskType, TaskStates
  <2>3. LoopType'
    BY <1>29 DEF ResolveAfter, HasPending, Waiting, TypeOK, LoopType
  <2>4. QED
    BY <2>1, <2>2, <2>3 DEF Typed
<1>30. ASSUME NEW r \in Runs, AppendDelta(r) PROVE Typed'
  BY <1>30 DEF AppendDelta, Typed, TypeOK, SessionType, TaskType, TaskStates, LoopType
<1> QED
  BY <1>1, <1>2, <1>3, <1>4, <1>5, <1>6, <1>7, <1>8, <1>9, <1>10, <1>11, <1>12, <1>13, <1>14,
    <1>15, <1>16, <1>17, <1>18, <1>19, <1>20, <1>21, <1>22, <1>23, <1>24, <1>25, <1>26, <1>27,
          <1>28, <1>29, <1>30
     DEF Next, Chat, Edit, End, Loop, Resolver

\* What stays are places in the lists that stay.
LEMMA TruncateTypes ==
  ASSUME TypeOK, NEW n \in Nat, Truncate(n)
  PROVE  MessageType'
<1>4. users' \subseteq 1 .. views'
  <2>1. views' = n /\ users' = {i \in users : i <= n}
    BY DEF Truncate
  <2>2. views \in Nat /\ users \subseteq 1 .. views
    BY DEF TypeOK, MessageType
  <2>3. ASSUME NEW j \in users' PROVE j \in 1 .. views'
    <3>1. j \in users /\ j <= n
      BY <2>1
    <3>2. j \in Nat /\ j >= 1
      BY <2>2, <3>1
    <3>. QED
      BY <2>1, <3>1, <3>2
  <2>. QED
    BY <2>3
<1> USE DEF TypeOK, MessageType, Place, Nowhere, Hidden, Truncate
<1>1. views' \in Nat /\ turns' \in Nat /\ askew' \in BOOLEAN
  OBVIOUS
<1>2. homeAt' \in [Tasks -> Nat] /\ shownAt' \in [Runs -> Place]
  OBVIOUS
<1>3. callAt' \in [Tasks -> Place] /\ replyAt' \in [Tasks -> Place]
  OBVIOUS
<1> QED
  BY <1>1, <1>2, <1>3, <1>4

\* The places of messages stay places.
LEMMA MessageStep ==
  ASSUME IInv, Next
  PROVE  MessageType'
<1> USE DEF session, messages, spoken, resolvers, loops, contexts, IInv, TypeOK, MessageType,
      Place, Nowhere,
      Hidden
<1>1. ASSUME SendUserMessage PROVE MessageType'
  BY <1>1 DEF SendUserMessage, Launch
<1>2. ASSUME NEW i \in users, RegenerateAfterUserMessage(i) PROVE MessageType'
  <2>1. i \in Nat
    OBVIOUS
  <2>. QED
    BY <1>2, <2>1, TruncateTypes DEF RegenerateAfterUserMessage
<1>3. ASSUME NEW i \in users, UpdateUserMessage(i) \/ DeleteMessage(i) PROVE MessageType'
  <2>1. PICK n \in Nat : Truncate(n) /\ Shorten(n)
    BY <1>3, CutPlace
  <2>. QED
    BY <2>1, TruncateTypes
<1>4. ASSUME NEW S \in SUBSET Waiting, NEW d \in Decisions(S), ConfirmTasks(S, d) PROVE MessageType'
  BY <1>4 DEF ConfirmTasks
<1>5. ASSUME CancelSession PROVE MessageType'
  BY <1>5 DEF CancelSession
<1>6. ASSUME CloseSession PROVE MessageType'
  BY <1>6 DEF CloseSession
<1>7. ASSUME DeleteSession PROVE MessageType'
  BY <1>7 DEF DeleteSession
<1>8. ASSUME CleanupLoop PROVE MessageType'
  BY <1>8 DEF CleanupLoop
<1>9. ASSUME NEW r \in Runs, Start(r) PROVE MessageType'
  BY <1>9 DEF Start
<1>10. ASSUME NEW r \in Runs, Ask(r) PROVE MessageType'
  BY <1>10 DEF Ask
<1>11. ASSUME NEW r \in Runs, StreamFails(r) PROVE MessageType'
  BY <1>11 DEF StreamFails, Runs
<1>12. ASSUME NEW r \in Runs, NEW C \in SUBSET Uncalled, StreamEnds(r, C) PROVE MessageType'
  <2>1. PICK home \in {Hidden, shownAt[r], views + 1} :
          /\ Upsert(r, home)
          /\ homeAt' = [t \in Tasks |-> IF t \in C THEN home ELSE homeAt[t]]
    BY <1>12 DEF StreamEnds
  <2>2. home \in Nat /\ views' \in Nat /\ users \subseteq 1 .. views'
    BY <2>1 DEF Upsert
  <2>. QED
    BY <1>12, <2>1, <2>2 DEF StreamEnds
<1>13. ASSUME NEW r \in Runs, NEW t \in Tasks, MakeUnknown(r, t) PROVE MessageType'
  BY <1>13 DEF MakeUnknown, Answer
<1>14. ASSUME NEW r \in Runs, NEW t \in Tasks, MakeTask(r, t) PROVE MessageType'
  BY <1>14 DEF MakeTask
<1>15. ASSUME NEW r \in Runs, NEW t \in Tasks, AutoBegin(r, t) PROVE MessageType'
  BY <1>15 DEF AutoBegin
<1>16. ASSUME NEW r \in Runs, MarkWaiting(r) PROVE MessageType'
  BY <1>16 DEF MarkWaiting
<1>17. ASSUME NEW r \in Runs, AutoEnd(r) PROVE MessageType'
  <2>1. cur[r] \in Tasks /\ ExecuteEnd(cur[r], r)
    BY <1>17 DEF AutoEnd, LoopOK
  <2>. QED
    BY <1>17, <2>1, ReplyEffect DEF AutoEnd, Answer
<1>18. ASSUME NEW r \in Runs, Check(r) PROVE MessageType'
  BY <1>18 DEF Check
<1>19. ASSUME NEW r \in Runs, Again(r) PROVE MessageType'
  BY <1>19 DEF Again
<1>20. ASSUME NEW r \in Runs, Wrap(r) PROVE MessageType'
  BY <1>20 DEF Wrap
<1>21. ASSUME NEW r \in Runs, Complete(r) PROVE MessageType'
  BY <1>21 DEF Complete
<1>22. ASSUME NEW r \in Runs, CallCancel(r) PROVE MessageType'
  BY <1>22 DEF CallCancel
<1>23. ASSUME NEW r \in Runs, Expire(r) PROVE MessageType'
  BY <1>23 DEF Expire
<1>24. ASSUME NEW t \in Tasks, ResolveGone(t) PROVE MessageType'
  BY <1>24 DEF ResolveGone
<1>25. ASSUME NEW t \in Tasks, ResolveSkip(t) PROVE MessageType'
  BY <1>25 DEF ResolveSkip
<1>26. ASSUME NEW t \in Tasks, ResolveBegin(t) PROVE MessageType'
  BY <1>26 DEF ResolveBegin
<1>27. ASSUME NEW t \in Tasks, ResolveEnd(t) PROVE MessageType'
  BY <1>27, ReplyEffect DEF ResolveEnd, Answer
<1>28. ASSUME NEW t \in Tasks, RejectTask(t) PROVE MessageType'
  BY <1>28, ReplyEffect DEF RejectTask, Answer
<1>29. ASSUME NEW t \in Tasks, ResolveAfter(t) PROVE MessageType'
  BY <1>29 DEF ResolveAfter
<1>30. ASSUME NEW r \in Runs, AppendDelta(r) PROVE MessageType'
  BY <1>30 DEF AppendDelta
<1> QED
  BY <1>1, <1>2, <1>3, <1>4, <1>5, <1>6, <1>7, <1>8, <1>9, <1>10, <1>11, <1>12, <1>13, <1>14,
    <1>15, <1>16, <1>17, <1>18, <1>19, <1>20, <1>21, <1>22, <1>23, <1>24, <1>25, <1>26, <1>27,
          <1>28, <1>29, <1>30
     DEF Next, Chat, Edit, End, Loop, Resolver

\* Every step keeps the types.
LEMMA TypeStep ==
  ASSUME IInv, Next
  PROVE  TypeOK'
BY TypedStep, MessageStep DEF Typed, TypeOK

\* Runs stay numbered.
LEMMA NumberedStep ==
  ASSUME IInv, Next
  PROVE  Numbered'
<1> USE ChatAssumption DEF session, messages, spoken, resolvers, loops, contexts, Runs, None,
      TypeOK, SessionType, TaskType, IInv, Numbered
<1>1. ASSUME SendUserMessage PROVE Numbered'
  BY <1>1 DEF SendUserMessage, Launch
<1>2. ASSUME NEW i \in users, RegenerateAfterUserMessage(i) PROVE Numbered'
  BY <1>2 DEF RegenerateAfterUserMessage, Launch
<1>3. ASSUME NEW i \in users, UpdateUserMessage(i) \/ DeleteMessage(i) PROVE Numbered'
  BY <1>3 DEF UpdateUserMessage, DeleteMessage, Shorten
<1>4. ASSUME NEW S \in SUBSET Waiting, NEW d \in Decisions(S), ConfirmTasks(S, d) PROVE Numbered'
  <2>1. runs' >= runs /\ runs' \in Nat /\ toolRun' <= runs' /\ toolRun' # None
    BY <1>4 DEF ConfirmTasks
  <2>2. \A t \in Tasks : trun'[t] = trun[t] \/ trun'[t] = toolRun'
    BY <1>4 DEF ConfirmTasks
  <2>3. ~closed /\ UNCHANGED closed
    BY <1>4 DEF ConfirmTasks
  <2>. QED
    BY <2>1, <2>2, <2>3
<1>5. ASSUME CancelSession PROVE Numbered'
  BY <1>5 DEF CancelSession, Forget, CancelActive, Taken
<1>6. ASSUME CloseSession PROVE Numbered'
  BY <1>6 DEF CloseSession, Forget, CancelActive, Taken
<1>7. ASSUME DeleteSession PROVE Numbered'
  BY <1>7 DEF DeleteSession, Forget, Taken
<1>8. ASSUME CleanupLoop PROVE Numbered'
  BY <1>8 DEF CleanupLoop, Forget, Taken, Cancelled
<1>9. ASSUME NEW r \in Runs, Start(r) PROVE Numbered'
  BY <1>9 DEF Start
<1>10. ASSUME NEW r \in Runs, Ask(r) PROVE Numbered'
  BY <1>10 DEF Ask
<1>11. ASSUME NEW r \in Runs, StreamFails(r) PROVE Numbered'
  BY <1>11 DEF StreamFails
<1>12. ASSUME NEW r \in Runs, NEW C \in SUBSET Uncalled, StreamEnds(r, C) PROVE Numbered'
  BY <1>12 DEF StreamEnds, Uncalled
<1>13. ASSUME NEW r \in Runs, NEW t \in Tasks, MakeUnknown(r, t) PROVE Numbered'
  BY <1>13 DEF MakeUnknown, Answer
<1>14. ASSUME NEW r \in Runs, NEW t \in Tasks, MakeTask(r, t) PROVE Numbered'
  BY <1>14 DEF MakeTask
<1>15. ASSUME NEW r \in Runs, NEW t \in Tasks, AutoBegin(r, t) PROVE Numbered'
  BY <1>15 DEF AutoBegin, ExecuteBegin, Exists
<1>16. ASSUME NEW r \in Runs, MarkWaiting(r) PROVE Numbered'
  BY <1>16 DEF MarkWaiting, Exists
<1>17. ASSUME NEW r \in Runs, AutoEnd(r) PROVE Numbered'
  BY <1>17 DEF AutoEnd, ExecuteEnd, Exists, Answer
<1>18. ASSUME NEW r \in Runs, Check(r) PROVE Numbered'
  BY <1>18 DEF Check
<1>19. ASSUME NEW r \in Runs, Again(r) PROVE Numbered'
  BY <1>19 DEF Again, TasksDone
<1>20. ASSUME NEW r \in Runs, Wrap(r) PROVE Numbered'
  BY <1>20 DEF Wrap, TasksDone, EndRun
<1>21. ASSUME NEW r \in Runs, Complete(r) PROVE Numbered'
  BY <1>21 DEF Complete, EndRun
<1>22. ASSUME NEW r \in Runs, CallCancel(r) PROVE Numbered'
  BY <1>22 DEF CallCancel, Cancelled
<1>23. ASSUME NEW r \in Runs, Expire(r) PROVE Numbered'
  BY <1>23 DEF Expire
<1>24. ASSUME NEW t \in Tasks, ResolveGone(t) PROVE Numbered'
  BY <1>24 DEF ResolveGone
<1>25. ASSUME NEW t \in Tasks, ResolveSkip(t) PROVE Numbered'
  BY <1>25 DEF ResolveSkip
<1>26. ASSUME NEW t \in Tasks, ResolveBegin(t) PROVE Numbered'
  BY <1>26 DEF ResolveBegin, ExecuteBegin, Exists
<1>27. ASSUME NEW t \in Tasks, ResolveEnd(t) PROVE Numbered'
  BY <1>27 DEF ResolveEnd, ExecuteEnd, Exists, Answer
<1>28. ASSUME NEW t \in Tasks, RejectTask(t) PROVE Numbered'
  BY <1>28 DEF RejectTask, Exists, Answer
<1>29. ASSUME NEW t \in Tasks, ResolveAfter(t) PROVE Numbered'
  BY <1>29 DEF ResolveAfter, HasPending, Waiting
<1>30. ASSUME NEW r \in Runs, AppendDelta(r) PROVE Numbered'
  BY <1>30 DEF AppendDelta
<1> QED
  BY <1>1, <1>2, <1>3, <1>4, <1>5, <1>6, <1>7, <1>8, <1>9, <1>10, <1>11, <1>12, <1>13, <1>14,
    <1>15, <1>16, <1>17, <1>18, <1>19, <1>20, <1>21, <1>22, <1>23, <1>24, <1>25, <1>26, <1>27,
          <1>28, <1>29, <1>30
     DEF Next, Chat, Edit, End, Loop, Resolver

\* Tasks stay where they can be.
LEMMA TaskStep ==
  ASSUME IInv, Next
  PROVE  TaskOK'
<1> USE ChatAssumption DEF session, messages, spoken, resolvers, loops, contexts, Runs, None,
      TypeOK, SessionType, TaskType, LoopType, IInv, TaskOK, LoopOK
<1>1. ASSUME SendUserMessage PROVE TaskOK'
  BY <1>1 DEF SendUserMessage, Launch
<1>2. ASSUME NEW i \in users, RegenerateAfterUserMessage(i) PROVE TaskOK'
  <2>1. Truncate(i) /\ UNCHANGED <<by, tpc, decision>>
    BY <1>2 DEF RegenerateAfterUserMessage, Launch
  <2>. QED
    BY <2>1, TruncateEffect DEF Exists
<1>3. ASSUME NEW i \in users, UpdateUserMessage(i) \/ DeleteMessage(i) PROVE TaskOK'
  <2>1. PICK n : Truncate(n) /\ UNCHANGED <<by, tpc, decision>>
    BY <1>3, CutPlace DEF Shorten
  <2>. QED
    BY <2>1, TruncateEffect DEF Exists
<1>4. ASSUME NEW S \in SUBSET Waiting, NEW d \in Decisions(S), ConfirmTasks(S, d) PROVE TaskOK'
  BY <1>4 DEF ConfirmTasks, Decisions, Waiting
<1>5. ASSUME CancelSession PROVE TaskOK'
  BY <1>5 DEF CancelSession, Forget, CancelActive, Taken
<1>6. ASSUME CloseSession PROVE TaskOK'
  BY <1>6 DEF CloseSession, Forget, CancelActive, Taken
<1>7. ASSUME DeleteSession PROVE TaskOK'
  BY <1>7 DEF DeleteSession, Forget, Taken
<1>8. ASSUME CleanupLoop PROVE TaskOK'
  BY <1>8 DEF CleanupLoop, Forget, Taken, Cancelled
<1>9. ASSUME NEW r \in Runs, Start(r) PROVE TaskOK'
  BY <1>9 DEF Start
<1>10. ASSUME NEW r \in Runs, Ask(r) PROVE TaskOK'
  BY <1>10 DEF Ask
<1>11. ASSUME NEW r \in Runs, StreamFails(r) PROVE TaskOK'
  BY <1>11 DEF StreamFails
<1>12. ASSUME NEW r \in Runs, NEW C \in SUBSET Uncalled, StreamEnds(r, C) PROVE TaskOK'
  BY <1>12 DEF StreamEnds, Uncalled
<1>13. ASSUME NEW r \in Runs, NEW t \in Tasks, MakeUnknown(r, t) PROVE TaskOK'
  BY <1>13 DEF MakeUnknown, Answer
<1>14. ASSUME NEW r \in Runs, NEW t \in Tasks, MakeTask(r, t) PROVE TaskOK'
  BY <1>14 DEF MakeTask
<1>15. ASSUME NEW r \in Runs, NEW t \in Tasks, AutoBegin(r, t) PROVE TaskOK'
  BY <1>15 DEF AutoBegin, ExecuteBegin, Exists
<1>16. ASSUME NEW r \in Runs, MarkWaiting(r) PROVE TaskOK'
  BY <1>16 DEF MarkWaiting, Exists
<1>17. ASSUME NEW r \in Runs, AutoEnd(r) PROVE TaskOK'
  BY <1>17 DEF AutoEnd, ExecuteEnd, Exists, Answer
<1>18. ASSUME NEW r \in Runs, Check(r) PROVE TaskOK'
  BY <1>18 DEF Check
<1>19. ASSUME NEW r \in Runs, Again(r) PROVE TaskOK'
  BY <1>19 DEF Again, TasksDone
<1>20. ASSUME NEW r \in Runs, Wrap(r) PROVE TaskOK'
  BY <1>20 DEF Wrap, TasksDone, EndRun
<1>21. ASSUME NEW r \in Runs, Complete(r) PROVE TaskOK'
  BY <1>21 DEF Complete, EndRun
<1>22. ASSUME NEW r \in Runs, CallCancel(r) PROVE TaskOK'
  BY <1>22 DEF CallCancel, Cancelled
<1>23. ASSUME NEW r \in Runs, Expire(r) PROVE TaskOK'
  BY <1>23 DEF Expire
<1>24. ASSUME NEW t \in Tasks, ResolveGone(t) PROVE TaskOK'
  BY <1>24 DEF ResolveGone
<1>25. ASSUME NEW t \in Tasks, ResolveSkip(t) PROVE TaskOK'
  BY <1>25 DEF ResolveSkip
<1>26. ASSUME NEW t \in Tasks, ResolveBegin(t) PROVE TaskOK'
  BY <1>26 DEF ResolveBegin, ExecuteBegin, Exists
<1>27. ASSUME NEW t \in Tasks, ResolveEnd(t) PROVE TaskOK'
  BY <1>27 DEF ResolveEnd, ExecuteEnd, Exists, Answer
<1>28. ASSUME NEW t \in Tasks, RejectTask(t) PROVE TaskOK'
  BY <1>28 DEF RejectTask, Exists, Answer
<1>29. ASSUME NEW t \in Tasks, ResolveAfter(t) PROVE TaskOK'
  BY <1>29 DEF ResolveAfter, HasPending, Waiting
<1>30. ASSUME NEW r \in Runs, AppendDelta(r) PROVE TaskOK'
  BY <1>30 DEF AppendDelta
<1> QED
  BY <1>1, <1>2, <1>3, <1>4, <1>5, <1>6, <1>7, <1>8, <1>9, <1>10, <1>11, <1>12, <1>13, <1>14,
    <1>15, <1>16, <1>17, <1>18, <1>19, <1>20, <1>21, <1>22, <1>23, <1>24, <1>25, <1>26, <1>27,
          <1>28, <1>29, <1>30
     DEF Next, Chat, Edit, End, Loop, Resolver

\* Runs keep to what they have at hand.
LEMMA LoopStep ==
  ASSUME IInv, Next
  PROVE  LoopOK'
<1> USE ChatAssumption DEF session, messages, spoken, resolvers, loops, contexts, Runs, None,
      TypeOK, SessionType, TaskType, LoopType, IInv, TaskOK, LoopOK
<1>1. ASSUME SendUserMessage PROVE LoopOK'
  BY <1>1 DEF SendUserMessage, Launch
<1>2. ASSUME NEW i \in users, RegenerateAfterUserMessage(i) PROVE LoopOK'
  <2>1. Truncate(i) /\ UNCHANGED <<by, tpc, todo, autos, cur>>
    BY <1>2 DEF RegenerateAfterUserMessage, Launch
  <2>2. ASSUME NEW q \in Runs, pc'[q] \in {"mark", "tool"} PROVE pc[q] = pc'[q]
    BY <1>2, <2>2 DEF RegenerateAfterUserMessage, Launch
  <2>. QED
    BY <2>1, <2>2, TruncateEffect DEF Exists
<1>3. ASSUME NEW i \in users, UpdateUserMessage(i) \/ DeleteMessage(i) PROVE LoopOK'
  <2>1. PICK n : Truncate(n) /\ UNCHANGED <<by, tpc, todo, autos, cur>> /\ UNCHANGED pc
    BY <1>3, CutPlace DEF Shorten
  <2>. QED
    BY <2>1, TruncateEffect DEF Exists
<1>4. ASSUME NEW S \in SUBSET Waiting, NEW d \in Decisions(S), ConfirmTasks(S, d) PROVE LoopOK'
  BY <1>4 DEF ConfirmTasks, Decisions, Waiting
<1>5. ASSUME CancelSession PROVE LoopOK'
  BY <1>5 DEF CancelSession, Forget, CancelActive, Taken
<1>6. ASSUME CloseSession PROVE LoopOK'
  BY <1>6 DEF CloseSession, Forget, CancelActive, Taken
<1>7. ASSUME DeleteSession PROVE LoopOK'
  BY <1>7 DEF DeleteSession, Forget, Taken
<1>8. ASSUME CleanupLoop PROVE LoopOK'
  BY <1>8 DEF CleanupLoop, Forget, Taken, Cancelled
<1>9. ASSUME NEW r \in Runs, Start(r) PROVE LoopOK'
  BY <1>9 DEF Start
<1>10. ASSUME NEW r \in Runs, Ask(r) PROVE LoopOK'
  BY <1>10 DEF Ask
<1>11. ASSUME NEW r \in Runs, StreamFails(r) PROVE LoopOK'
  BY <1>11 DEF StreamFails
<1>12. ASSUME NEW r \in Runs, NEW C \in SUBSET Uncalled, StreamEnds(r, C) PROVE LoopOK'
  BY <1>12 DEF StreamEnds, Uncalled
<1>13. ASSUME NEW r \in Runs, NEW t \in Tasks, MakeUnknown(r, t) PROVE LoopOK'
  BY <1>13 DEF MakeUnknown, Answer
<1>14. ASSUME NEW r \in Runs, NEW t \in Tasks, MakeTask(r, t) PROVE LoopOK'
  BY <1>14 DEF MakeTask
<1>15. ASSUME NEW r \in Runs, NEW t \in Tasks, AutoBegin(r, t) PROVE LoopOK'
  <2>1. PICK go \in BOOLEAN : ExecuteBegin(t, r, go)
    BY <1>15 DEF AutoBegin
  <2>2. ASSUME NEW q \in Tasks, task'[q] # task[q] PROVE q = t /\ Exists(t)
    BY <2>1, <2>2, BeginEffect
  <2>3. t \notin Confirmable
    BY <1>15 DEF AutoBegin
  <2>4. ASSUME NEW q \in Runs, pc'[q] = "mark" PROVE pc[q] = "mark" /\ cur'[q] = cur[q]
    BY <1>15, <2>4 DEF AutoBegin
  <2>5. ASSUME NEW q \in Runs, pc'[q] = "tool"
        PROVE (pc[q] = "tool" /\ cur'[q] = cur[q]) \/ cur'[q] = t
    BY <1>15, <2>5 DEF AutoBegin
  <2>6. UNCHANGED <<todo, by, tpc>> /\ \A q \in Runs : autos'[q] \subseteq autos[q]
    BY <1>15 DEF AutoBegin
  <2>7. ASSUME NEW q \in Runs, pc'[q] = "mark" PROVE task'[cur'[q]] = task[cur[q]]
    <3>1. cur[q] \in Confirmable /\ cur'[q] = cur[q]
      BY <2>4, <2>7
    <3>2. cur[q] \in Tasks /\ cur[q] # t
      BY <3>1, <2>3
    <3>. QED
      BY <2>2, <3>1, <3>2
  <2>8. ASSUME NEW q \in Tasks, task[q] = "absent" PROVE task'[q] = "absent"
    BY <2>2, <2>8 DEF Exists
  <2>9. ASSUME NEW q \in Runs, NEW x \in todo'[q] PROVE task'[x] = "absent" /\ by'[x] = q
    BY <2>6, <2>8, <2>9
  <2>10. ASSUME NEW q \in Runs PROVE autos'[q] \cap Confirmable = {}
    BY <2>6, <2>10
  <2>11. ASSUME NEW q \in Runs, pc'[q] = "mark"
         PROVE  /\ cur'[q] \in Confirmable /\ by'[cur'[q]] = q
                /\ task'[cur'[q]] \in {"queued", "cancelled", "removed"}
                /\ tpc'[cur'[q]] = "none"
    BY <2>4, <2>6, <2>7, <2>11
  <2>12. ASSUME NEW q \in Runs, pc'[q] = "tool" PROVE cur'[q] \in Tasks \ Confirmable
    BY <2>3, <2>5, <2>12
  <2>. QED
    BY <2>9, <2>10, <2>11, <2>12
<1>16. ASSUME NEW r \in Runs, MarkWaiting(r) PROVE LoopOK'
  <2>1. cur[r] \in Confirmable /\ by[cur[r]] = r /\ cur[r] \notin todo[r]
    <3>1. cur[r] \in Confirmable /\ by[cur[r]] = r /\ task[cur[r]] # "absent"
      BY <1>16 DEF MarkWaiting
    <3>. QED
      BY <3>1
  <2>2. UNCHANGED <<todo, autos, by, tpc>>
    BY <1>16 DEF MarkWaiting
  <2>3. ASSUME NEW q \in Tasks, q # cur[r] PROVE task'[q] = task[q]
    BY <1>16, <2>1, <2>3 DEF MarkWaiting
  <2>4. ASSUME NEW q \in Runs, q # r PROVE pc'[q] = pc[q] /\ cur'[q] = cur[q]
    BY <1>16, <2>4 DEF MarkWaiting
  <2>5. CASE ~Exists(cur[r])
    <3>1. UNCHANGED <<task, pc, cur>>
      BY <1>16, <2>5 DEF MarkWaiting
    <3>. QED
      BY <2>2, <3>1
  <2>6. CASE Exists(cur[r])
    <3>1. pc'[r] = "make" /\ task[cur[r]] # "absent"
      BY <1>16, <2>6 DEF MarkWaiting, Exists
    <3>2. ASSUME NEW q \in Runs, NEW x \in todo[q] PROVE task'[x] = "absent" /\ by[x] = q
      <4>1. task[x] = "absent" /\ by[x] = q /\ x \in Tasks
        BY <3>2
      <4>. QED
        BY <2>3, <3>1, <4>1
    <3>3. ASSUME NEW q \in Runs, pc'[q] = "mark"
          PROVE  /\ cur'[q] \in Confirmable /\ by[cur'[q]] = q /\ tpc[cur'[q]] = "none"
                 /\ task'[cur'[q]] \in {"queued", "cancelled", "removed"}
      <4>1. q # r /\ pc[q] = "mark" /\ cur'[q] = cur[q]
        BY <2>4, <3>1, <3>3
      <4>2. /\ cur[q] \in Confirmable /\ by[cur[q]] = q /\ tpc[cur[q]] = "none"
            /\ task[cur[q]] \in {"queued", "cancelled", "removed"}
        BY <4>1
      <4>3. cur[q] # cur[r] /\ cur[q] \in Tasks
        BY <2>1, <4>1, <4>2
      <4>. QED
        BY <2>3, <4>1, <4>2, <4>3
    <3>4. ASSUME NEW q \in Runs, pc'[q] = "tool" PROVE cur'[q] \in Tasks \ Confirmable
      BY <2>4, <3>1, <3>4
    <3>. QED
      BY <2>2, <3>2, <3>3, <3>4
  <2>. QED
    BY <2>5, <2>6
<1>17. ASSUME NEW r \in Runs, AutoEnd(r) PROVE LoopOK'
  <2>1. cur[r] \in Tasks \ Confirmable /\ ExecuteEnd(cur[r], r)
    BY <1>17 DEF AutoEnd
  <2>2. ASSUME NEW q \in Runs, pc'[q] \in {"mark",
        "tool"} PROVE q # r /\ pc[q] = pc'[q] /\ cur'[q] = cur[q]
    BY <1>17, <2>2 DEF AutoEnd
  <2>3. UNCHANGED <<todo, autos, by, tpc>>
    BY <1>17 DEF AutoEnd
  <2>. QED
    BY <2>1, <2>2, <2>3, EndEffect DEF Exists
<1>18. ASSUME NEW r \in Runs, Check(r) PROVE LoopOK'
  BY <1>18 DEF Check
<1>19. ASSUME NEW r \in Runs, Again(r) PROVE LoopOK'
  BY <1>19 DEF Again, TasksDone
<1>20. ASSUME NEW r \in Runs, Wrap(r) PROVE LoopOK'
  BY <1>20 DEF Wrap, TasksDone, EndRun
<1>21. ASSUME NEW r \in Runs, Complete(r) PROVE LoopOK'
  BY <1>21 DEF Complete, EndRun
<1>22. ASSUME NEW r \in Runs, CallCancel(r) PROVE LoopOK'
  BY <1>22 DEF CallCancel, Cancelled
<1>23. ASSUME NEW r \in Runs, Expire(r) PROVE LoopOK'
  BY <1>23 DEF Expire
<1>24. ASSUME NEW t \in Tasks, ResolveGone(t) PROVE LoopOK'
  BY <1>24 DEF ResolveGone
<1>25. ASSUME NEW t \in Tasks, ResolveSkip(t) PROVE LoopOK'
  BY <1>25 DEF ResolveSkip
<1>26. ASSUME NEW t \in Tasks, ResolveBegin(t) PROVE LoopOK'
  BY <1>26 DEF ResolveBegin, ExecuteBegin, Exists
<1>27. ASSUME NEW t \in Tasks, ResolveEnd(t) PROVE LoopOK'
  BY <1>27 DEF ResolveEnd, ExecuteEnd, Exists, Answer
<1>28. ASSUME NEW t \in Tasks, RejectTask(t) PROVE LoopOK'
  BY <1>28 DEF RejectTask, Exists, Answer
<1>29. ASSUME NEW t \in Tasks, ResolveAfter(t) PROVE LoopOK'
  BY <1>29 DEF ResolveAfter, HasPending, Waiting
<1>30. ASSUME NEW r \in Runs, AppendDelta(r) PROVE LoopOK'
  BY <1>30 DEF AppendDelta
<1> QED
  BY <1>1, <1>2, <1>3, <1>4, <1>5, <1>6, <1>7, <1>8, <1>9, <1>10, <1>11, <1>12, <1>13, <1>14,
    <1>15, <1>16, <1>17, <1>18, <1>19, <1>20, <1>21, <1>22, <1>23, <1>24, <1>25, <1>26, <1>27,
          <1>28, <1>29, <1>30
     DEF Next, Chat, Edit, End, Loop, Resolver

\* Nothing is executed unconfirmed.
LEMMA ConfirmedStep ==
  ASSUME IInv, Next
  PROVE  ConfirmedFirst'
<1> USE ChatAssumption DEF session, messages, spoken, resolvers, loops, contexts, Runs, None,
      TypeOK, SessionType, TaskType, LoopType, IInv, TaskOK, LoopOK, ConfirmedFirst
<1>1. ASSUME SendUserMessage PROVE ConfirmedFirst'
  BY <1>1 DEF SendUserMessage, Launch
<1>2. ASSUME NEW i \in users, RegenerateAfterUserMessage(i) PROVE ConfirmedFirst'
  <2>1. Truncate(i) /\ UNCHANGED decision
    BY <1>2 DEF RegenerateAfterUserMessage, Launch
  <2>. QED
    BY <2>1, TruncateEffect DEF Exists
<1>3. ASSUME NEW i \in users, UpdateUserMessage(i) \/ DeleteMessage(i) PROVE ConfirmedFirst'
  <2>1. PICK n : Truncate(n) /\ UNCHANGED decision
    BY <1>3, CutPlace DEF Shorten
  <2>. QED
    BY <2>1, TruncateEffect DEF Exists
<1>4. ASSUME NEW S \in SUBSET Waiting, NEW d \in Decisions(S), ConfirmTasks(S,
      d) PROVE ConfirmedFirst'
  BY <1>4 DEF ConfirmTasks, Decisions, Waiting
<1>5. ASSUME CancelSession PROVE ConfirmedFirst'
  BY <1>5 DEF CancelSession, Forget, CancelActive, Taken
<1>6. ASSUME CloseSession PROVE ConfirmedFirst'
  BY <1>6 DEF CloseSession, Forget, CancelActive, Taken
<1>7. ASSUME DeleteSession PROVE ConfirmedFirst'
  BY <1>7 DEF DeleteSession, Forget, Taken
<1>8. ASSUME CleanupLoop PROVE ConfirmedFirst'
  BY <1>8 DEF CleanupLoop, Forget, Taken, Cancelled
<1>9. ASSUME NEW r \in Runs, Start(r) PROVE ConfirmedFirst'
  BY <1>9 DEF Start
<1>10. ASSUME NEW r \in Runs, Ask(r) PROVE ConfirmedFirst'
  BY <1>10 DEF Ask
<1>11. ASSUME NEW r \in Runs, StreamFails(r) PROVE ConfirmedFirst'
  BY <1>11 DEF StreamFails
<1>12. ASSUME NEW r \in Runs, NEW C \in SUBSET Uncalled, StreamEnds(r, C) PROVE ConfirmedFirst'
  BY <1>12 DEF StreamEnds, Uncalled
<1>13. ASSUME NEW r \in Runs, NEW t \in Tasks, MakeUnknown(r, t) PROVE ConfirmedFirst'
  BY <1>13 DEF MakeUnknown, Answer
<1>14. ASSUME NEW r \in Runs, NEW t \in Tasks, MakeTask(r, t) PROVE ConfirmedFirst'
  BY <1>14 DEF MakeTask
<1>15. ASSUME NEW r \in Runs, NEW t \in Tasks, AutoBegin(r, t) PROVE ConfirmedFirst'
  BY <1>15 DEF AutoBegin, ExecuteBegin, Exists
<1>16. ASSUME NEW r \in Runs, MarkWaiting(r) PROVE ConfirmedFirst'
  BY <1>16 DEF MarkWaiting, Exists
<1>17. ASSUME NEW r \in Runs, AutoEnd(r) PROVE ConfirmedFirst'
  BY <1>17 DEF AutoEnd, ExecuteEnd, Exists, Answer
<1>18. ASSUME NEW r \in Runs, Check(r) PROVE ConfirmedFirst'
  BY <1>18 DEF Check
<1>19. ASSUME NEW r \in Runs, Again(r) PROVE ConfirmedFirst'
  BY <1>19 DEF Again, TasksDone
<1>20. ASSUME NEW r \in Runs, Wrap(r) PROVE ConfirmedFirst'
  BY <1>20 DEF Wrap, TasksDone, EndRun
<1>21. ASSUME NEW r \in Runs, Complete(r) PROVE ConfirmedFirst'
  BY <1>21 DEF Complete, EndRun
<1>22. ASSUME NEW r \in Runs, CallCancel(r) PROVE ConfirmedFirst'
  BY <1>22 DEF CallCancel, Cancelled
<1>23. ASSUME NEW r \in Runs, Expire(r) PROVE ConfirmedFirst'
  BY <1>23 DEF Expire
<1>24. ASSUME NEW t \in Tasks, ResolveGone(t) PROVE ConfirmedFirst'
  BY <1>24 DEF ResolveGone
<1>25. ASSUME NEW t \in Tasks, ResolveSkip(t) PROVE ConfirmedFirst'
  BY <1>25 DEF ResolveSkip
<1>26. ASSUME NEW t \in Tasks, ResolveBegin(t) PROVE ConfirmedFirst'
  BY <1>26 DEF ResolveBegin, ExecuteBegin, Exists
<1>27. ASSUME NEW t \in Tasks, ResolveEnd(t) PROVE ConfirmedFirst'
  BY <1>27 DEF ResolveEnd, ExecuteEnd, Exists, Answer
<1>28. ASSUME NEW t \in Tasks, RejectTask(t) PROVE ConfirmedFirst'
  BY <1>28 DEF RejectTask, Exists, Answer
<1>29. ASSUME NEW t \in Tasks, ResolveAfter(t) PROVE ConfirmedFirst'
  BY <1>29 DEF ResolveAfter, HasPending, Waiting
<1>30. ASSUME NEW r \in Runs, AppendDelta(r) PROVE ConfirmedFirst'
  BY <1>30 DEF AppendDelta
<1> QED
  BY <1>1, <1>2, <1>3, <1>4, <1>5, <1>6, <1>7, <1>8, <1>9, <1>10, <1>11, <1>12, <1>13, <1>14,
    <1>15, <1>16, <1>17, <1>18, <1>19, <1>20, <1>21, <1>22, <1>23, <1>24, <1>25, <1>26, <1>27,
          <1>28, <1>29, <1>30
     DEF Next, Chat, Edit, End, Loop, Resolver

\* The count of the tool run is that of its resolvers.
LEMMA CountsStep ==
  ASSUME IInv, Next
  PROVE  CountsResolvers'
<1> USE ChatAssumption DEF session, messages, spoken, resolvers, loops, contexts, Runs, None,
      TypeOK, SessionType, TaskType, IInv, Numbered, TaskOK, CountsResolvers
<1>1. ASSUME SendUserMessage PROVE CountsResolvers'
  BY <1>1 DEF SendUserMessage, Launch, Unresolved
<1>2. ASSUME NEW i \in users, RegenerateAfterUserMessage(i) PROVE CountsResolvers'
  BY <1>2 DEF RegenerateAfterUserMessage, Launch, Unresolved
<1>3. ASSUME NEW i \in users, UpdateUserMessage(i) \/ DeleteMessage(i) PROVE CountsResolvers'
  BY <1>3 DEF UpdateUserMessage, DeleteMessage, Shorten, Unresolved
<1>4. ASSUME NEW S \in SUBSET Waiting, NEW d \in Decisions(S), ConfirmTasks(S,
      d) PROVE CountsResolvers'
  <2>. DEFINE U == IF toolRun = None THEN {} ELSE Unresolved(toolRun)
  <2>1. toolRun' # None /\ active' = active + Cardinality(S)
    BY <1>4 DEF ConfirmTasks
  <2>2. active = Cardinality(U)
    BY FS_EmptySet DEF CountsResolvers
  <2>3. Unresolved(toolRun)' = U \cup S
    <3>1. ASSUME toolRun = None PROVE toolRun' = runs + 1 /\ \A t \in Tasks : trun[t] # toolRun'
      BY <1>4, <3>1 DEF ConfirmTasks
    <3>2. ASSUME toolRun # None PROVE toolRun' = toolRun
      BY <1>4, <3>2 DEF ConfirmTasks
    <3>3. /\ S \subseteq Tasks
          /\ trun' = [t \in Tasks |-> IF t \in S THEN toolRun' ELSE trun[t]]
          /\ tpc' = [t \in Tasks |-> IF t \in S THEN "resolve" ELSE tpc[t]]
      BY <1>4 DEF ConfirmTasks, Waiting
    <3>. QED
      BY <3>1, <3>2, <3>3 DEF Unresolved
  <2>4. U \cap S = {}
    BY DEF Unresolved, Waiting
  <2>5. IsFiniteSet(U) /\ IsFiniteSet(S)
    BY FS_Subset DEF Unresolved, Waiting
  <2>6. Cardinality(U \cup S) = Cardinality(U) + Cardinality(S)
    <3>1. Cardinality(U) \in Nat /\ Cardinality(S) \in Nat
      BY <2>5, FS_CardinalityType
    <3>2. Cardinality(U \cup S) = Cardinality(U) + Cardinality(S) - Cardinality(U \cap S)
      BY <2>5, FS_Union
    <3>3. Cardinality(U \cap S) = 0
      BY <2>4, FS_EmptySet
    <3>. QED
      BY <3>1, <3>2, <3>3
  <2>. QED
    BY <2>1, <2>2, <2>3, <2>6
<1>5. ASSUME CancelSession PROVE CountsResolvers'
  BY <1>5 DEF CancelSession, Forget, CancelActive, Taken, Unresolved
<1>6. ASSUME CloseSession PROVE CountsResolvers'
  BY <1>6 DEF CloseSession, Forget, CancelActive, Taken, Unresolved
<1>7. ASSUME DeleteSession PROVE CountsResolvers'
  BY <1>7 DEF DeleteSession, Forget, Taken, Unresolved
<1>8. ASSUME CleanupLoop PROVE CountsResolvers'
  BY <1>8 DEF CleanupLoop, Forget, Taken, Cancelled, Unresolved
<1>9. ASSUME NEW r \in Runs, Start(r) PROVE CountsResolvers'
  BY <1>9 DEF Start, Unresolved
<1>10. ASSUME NEW r \in Runs, Ask(r) PROVE CountsResolvers'
  BY <1>10 DEF Ask, Unresolved
<1>11. ASSUME NEW r \in Runs, StreamFails(r) PROVE CountsResolvers'
  BY <1>11 DEF StreamFails, Unresolved
<1>12. ASSUME NEW r \in Runs, NEW C \in SUBSET Uncalled, StreamEnds(r, C) PROVE CountsResolvers'
  BY <1>12 DEF StreamEnds, Uncalled, Unresolved
<1>13. ASSUME NEW r \in Runs, NEW t \in Tasks, MakeUnknown(r, t) PROVE CountsResolvers'
  BY <1>13 DEF MakeUnknown, Answer, Unresolved
<1>14. ASSUME NEW r \in Runs, NEW t \in Tasks, MakeTask(r, t) PROVE CountsResolvers'
  BY <1>14 DEF MakeTask, Unresolved
<1>15. ASSUME NEW r \in Runs, NEW t \in Tasks, AutoBegin(r, t) PROVE CountsResolvers'
  BY <1>15 DEF AutoBegin, ExecuteBegin, Exists, Unresolved
<1>16. ASSUME NEW r \in Runs, MarkWaiting(r) PROVE CountsResolvers'
  BY <1>16 DEF MarkWaiting, Exists, Unresolved
<1>17. ASSUME NEW r \in Runs, AutoEnd(r) PROVE CountsResolvers'
  BY <1>17 DEF AutoEnd, ExecuteEnd, Exists, Answer, Unresolved
<1>18. ASSUME NEW r \in Runs, Check(r) PROVE CountsResolvers'
  BY <1>18 DEF Check, Unresolved
<1>19. ASSUME NEW r \in Runs, Again(r) PROVE CountsResolvers'
  BY <1>19 DEF Again, TasksDone, Unresolved
<1>20. ASSUME NEW r \in Runs, Wrap(r) PROVE CountsResolvers'
  <2>1. UNCHANGED <<toolRun, active, trun, tpc>>
    BY <1>20 DEF Wrap, EndRun
  <2>. QED
    BY <2>1 DEF Unresolved
<1>21. ASSUME NEW r \in Runs, Complete(r) PROVE CountsResolvers'
  <2>1. UNCHANGED <<toolRun, active, trun, tpc>>
    BY <1>21 DEF Complete, EndRun
  <2>. QED
    BY <2>1 DEF Unresolved
<1>22. ASSUME NEW r \in Runs, CallCancel(r) PROVE CountsResolvers'
  BY <1>22 DEF CallCancel, Cancelled, Unresolved
<1>23. ASSUME NEW r \in Runs, Expire(r) PROVE CountsResolvers'
  BY <1>23 DEF Expire, Unresolved
<1>24. ASSUME NEW t \in Tasks, ResolveGone(t) PROVE CountsResolvers'
  BY <1>24 DEF ResolveGone, Unresolved
<1>25. ASSUME NEW t \in Tasks, ResolveSkip(t) PROVE CountsResolvers'
  <2>1. UNCHANGED <<toolRun, active, trun>>
    BY <1>25 DEF ResolveSkip
  <2>2. \A q \in Tasks : tpc'[q] = tpc[q] \/ {tpc[q], tpc'[q]} \subseteq {"resolve", "tool",
        "after"}
    BY <1>25 DEF ResolveSkip
  <2>3. Unresolved(toolRun)' = Unresolved(toolRun)
    BY <2>1, <2>2 DEF Unresolved
  <2>. QED
    BY <2>1, <2>3
<1>26. ASSUME NEW t \in Tasks, ResolveBegin(t) PROVE CountsResolvers'
  <2>1. UNCHANGED <<toolRun, active, trun>>
    BY <1>26 DEF ResolveBegin
  <2>2. \A q \in Tasks : tpc'[q] = tpc[q] \/ {tpc[q], tpc'[q]} \subseteq {"resolve", "tool",
        "after"}
    BY <1>26 DEF ResolveBegin
  <2>3. Unresolved(toolRun)' = Unresolved(toolRun)
    BY <2>1, <2>2 DEF Unresolved
  <2>. QED
    BY <2>1, <2>3
<1>27. ASSUME NEW t \in Tasks, ResolveEnd(t) PROVE CountsResolvers'
  <2>1. UNCHANGED <<toolRun, active, trun>>
    BY <1>27 DEF ResolveEnd
  <2>2. \A q \in Tasks : tpc'[q] = tpc[q] \/ {tpc[q], tpc'[q]} \subseteq {"resolve", "tool",
        "after"}
    BY <1>27 DEF ResolveEnd
  <2>3. Unresolved(toolRun)' = Unresolved(toolRun)
    BY <2>1, <2>2 DEF Unresolved
  <2>. QED
    BY <2>1, <2>3
<1>28. ASSUME NEW t \in Tasks, RejectTask(t) PROVE CountsResolvers'
  <2>1. UNCHANGED <<toolRun, active, trun>>
    BY <1>28 DEF RejectTask
  <2>2. \A q \in Tasks : tpc'[q] = tpc[q] \/ {tpc[q], tpc'[q]} \subseteq {"resolve", "tool",
        "after"}
    BY <1>28 DEF RejectTask
  <2>3. Unresolved(toolRun)' = Unresolved(toolRun)
    BY <2>1, <2>2 DEF Unresolved
  <2>. QED
    BY <2>1, <2>3
<1>29. ASSUME NEW t \in Tasks, ResolveAfter(t) PROVE CountsResolvers'
  <2>1. CASE closed \/ toolRun # trun[t]
    <3>1. UNCHANGED <<toolRun, active, trun>> /\ tpc' = [tpc EXCEPT ![t] = "done"]
      BY <1>29, <2>1 DEF ResolveAfter
    <3>2. ASSUME toolRun # None PROVE Unresolved(toolRun)' = Unresolved(toolRun)
      BY <2>1, <3>1, <3>2 DEF Unresolved
    <3>. QED
      BY <3>1, <3>2
  <2>2. CASE toolRun' = None
    BY <2>2
  <2>3. CASE ~closed /\ toolRun = trun[t] /\ active > 1 /\ toolRun' # None
    <3>1. /\ active' = active - 1 /\ UNCHANGED <<toolRun, trun>>
          /\ tpc[t] = "after" /\ tpc' = [tpc EXCEPT ![t] = "done"]
      BY <1>29, <2>3 DEF ResolveAfter
    <3>2. t \in Unresolved(toolRun) /\ Unresolved(toolRun)' = Unresolved(toolRun) \ {t}
      BY <2>3, <3>1 DEF Unresolved
    <3>3. IsFiniteSet(Unresolved(toolRun))
      BY FS_Subset DEF Unresolved
    <3>4. Cardinality(Unresolved(toolRun) \ {t}) = Cardinality(Unresolved(toolRun)) - 1
      BY <3>2, <3>3, FS_RemoveElement
    <3>5. toolRun # None
      BY <2>3, <3>1
    <3>. QED
      BY <3>1, <3>2, <3>4, <3>5
  <2>. QED
    BY <1>29, <2>1, <2>2, <2>3 DEF ResolveAfter
<1>30. ASSUME NEW r \in Runs, AppendDelta(r) PROVE CountsResolvers'
  BY <1>30 DEF AppendDelta, Unresolved
<1> QED
  BY <1>1, <1>2, <1>3, <1>4, <1>5, <1>6, <1>7, <1>8, <1>9, <1>10, <1>11, <1>12, <1>13, <1>14,
    <1>15, <1>16, <1>17, <1>18, <1>19, <1>20, <1>21, <1>22, <1>23, <1>24, <1>25, <1>26, <1>27,
          <1>28, <1>29, <1>30
     DEF Next, Chat, Edit, End, Loop, Resolver

\* No task leaves "cancelled" but to wait for the user or to be removed.
Kept == \A t \in Tasks : task[t] = "cancelled" => task'[t] \in {"cancelled", "waiting", "removed"}

\* No step undoes a cancellation.
LEMMA KeptStep ==
  ASSUME IInv, Next
  PROVE  Kept
<1> USE ChatAssumption DEF session, messages, spoken, resolvers, loops, contexts, Runs, None,
      TypeOK, SessionType, TaskType, LoopType, IInv, LoopOK, Kept
<1>1. ASSUME SendUserMessage PROVE Kept
  BY <1>1 DEF SendUserMessage, Launch
<1>2. ASSUME NEW i \in users, RegenerateAfterUserMessage(i) PROVE Kept
  <2>1. Truncate(i)
    BY <1>2 DEF RegenerateAfterUserMessage, Launch
  <2>. QED
    BY <2>1, TruncateEffect DEF Exists
<1>3. ASSUME NEW i \in users, UpdateUserMessage(i) \/ DeleteMessage(i) PROVE Kept
  <2>1. PICK n : Truncate(n)
    BY <1>3, CutPlace DEF Shorten
  <2>. QED
    BY <2>1, TruncateEffect DEF Exists
<1>4. ASSUME NEW S \in SUBSET Waiting, NEW d \in Decisions(S), ConfirmTasks(S, d) PROVE Kept
  BY <1>4 DEF ConfirmTasks, Decisions, Waiting
<1>5. ASSUME CancelSession PROVE Kept
  BY <1>5 DEF CancelSession, Forget, CancelActive, Taken
<1>6. ASSUME CloseSession PROVE Kept
  BY <1>6 DEF CloseSession, Forget, CancelActive, Taken
<1>7. ASSUME DeleteSession PROVE Kept
  BY <1>7 DEF DeleteSession, Forget, Taken
<1>8. ASSUME CleanupLoop PROVE Kept
  BY <1>8 DEF CleanupLoop, Forget, Taken, Cancelled
<1>9. ASSUME NEW r \in Runs, Start(r) PROVE Kept
  BY <1>9 DEF Start
<1>10. ASSUME NEW r \in Runs, Ask(r) PROVE Kept
  BY <1>10 DEF Ask
<1>11. ASSUME NEW r \in Runs, StreamFails(r) PROVE Kept
  BY <1>11 DEF StreamFails
<1>12. ASSUME NEW r \in Runs, NEW C \in SUBSET Uncalled, StreamEnds(r, C) PROVE Kept
  BY <1>12 DEF StreamEnds, Uncalled
<1>13. ASSUME NEW r \in Runs, NEW t \in Tasks, MakeUnknown(r, t) PROVE Kept
  BY <1>13 DEF MakeUnknown, Answer
<1>14. ASSUME NEW r \in Runs, NEW t \in Tasks, MakeTask(r, t) PROVE Kept
  BY <1>14 DEF MakeTask
<1>15. ASSUME NEW r \in Runs, NEW t \in Tasks, AutoBegin(r, t) PROVE Kept
  <2>1. PICK go \in BOOLEAN : ExecuteBegin(t, r, go)
    BY <1>15 DEF AutoBegin
  <2>. QED
    BY <2>1, BeginEffect
<1>16. ASSUME NEW r \in Runs, MarkWaiting(r) PROVE Kept
  BY <1>16 DEF MarkWaiting, Exists
<1>17. ASSUME NEW r \in Runs, AutoEnd(r) PROVE Kept
  <2>1. cur[r] \in Tasks /\ ExecuteEnd(cur[r], r)
    BY <1>17 DEF AutoEnd
  <2>. QED
    BY <2>1, EndEffect
<1>18. ASSUME NEW r \in Runs, Check(r) PROVE Kept
  BY <1>18 DEF Check
<1>19. ASSUME NEW r \in Runs, Again(r) PROVE Kept
  BY <1>19 DEF Again, TasksDone
<1>20. ASSUME NEW r \in Runs, Wrap(r) PROVE Kept
  BY <1>20 DEF Wrap, TasksDone, EndRun
<1>21. ASSUME NEW r \in Runs, Complete(r) PROVE Kept
  BY <1>21 DEF Complete, EndRun
<1>22. ASSUME NEW r \in Runs, CallCancel(r) PROVE Kept
  BY <1>22 DEF CallCancel, Cancelled
<1>23. ASSUME NEW r \in Runs, Expire(r) PROVE Kept
  BY <1>23 DEF Expire
<1>24. ASSUME NEW t \in Tasks, ResolveGone(t) PROVE Kept
  BY <1>24 DEF ResolveGone
<1>25. ASSUME NEW t \in Tasks, ResolveSkip(t) PROVE Kept
  BY <1>25 DEF ResolveSkip
<1>26. ASSUME NEW t \in Tasks, ResolveBegin(t) PROVE Kept
  <2>1. PICK go \in BOOLEAN : ExecuteBegin(t, trun[t], go)
    BY <1>26 DEF ResolveBegin
  <2>. QED
    BY <2>1, BeginEffect
<1>27. ASSUME NEW t \in Tasks, ResolveEnd(t) PROVE Kept
  <2>1. ExecuteEnd(t, trun[t])
    BY <1>27 DEF ResolveEnd
  <2>. QED
    BY <2>1, EndEffect
<1>28. ASSUME NEW t \in Tasks, RejectTask(t) PROVE Kept
  BY <1>28 DEF RejectTask, Exists, Answer
<1>29. ASSUME NEW t \in Tasks, ResolveAfter(t) PROVE Kept
  BY <1>29 DEF ResolveAfter, HasPending, Waiting
<1>30. ASSUME NEW r \in Runs, AppendDelta(r) PROVE Kept
  BY <1>30 DEF AppendDelta
<1> QED
  BY <1>1, <1>2, <1>3, <1>4, <1>5, <1>6, <1>7, <1>8, <1>9, <1>10, <1>11, <1>12, <1>13, <1>14,
    <1>15, <1>16, <1>17, <1>18, <1>19, <1>20, <1>21, <1>22, <1>23, <1>24, <1>25, <1>26, <1>27,
          <1>28, <1>29, <1>30
     DEF Next, Chat, Edit, End, Loop, Resolver


\* IInv holds at first.
LEMMA InitHolds == Init => IInv
<1>. SUFFICES ASSUME Init PROVE IInv
  OBVIOUS
<1>. USE ChatAssumption DEF Init, Runs, None
<1>1. TypeOK
  <2>1. SessionType
    <3>1. /\ closed \in BOOLEAN /\ processing \in BOOLEAN
          /\ early \in BOOLEAN /\ up \in BOOLEAN
      OBVIOUS
    <3>2. /\ status \in {"idle", "running", "waiting", "closed"}
          /\ currentRun \in Runs \cup {None} /\ currentRunID \in Runs \cup {None}
          /\ toolRun \in Runs \cup {None} /\ active \in Nat
          /\ runs \in 0 .. MaxRuns
      OBVIOUS
    <3>3. ctx \in [Runs -> {"live", "cancelled", "expired"}] /\ doomed \subseteq Runs
      OBVIOUS
    <3>. QED
      BY <3>1, <3>2, <3>3 DEF SessionType
  <2>2. TaskType
    BY DEF TaskType, TaskStates
  <2>3. LoopType
    BY DEF LoopType
  <2>4. MessageType
    BY DEF MessageType, Place, Nowhere, Hidden
  <2>. QED
    BY <2>1, <2>2, <2>3, <2>4 DEF TypeOK
<1>2. Numbered /\ TaskOK /\ ConfirmedFirst /\ CountsResolvers
  BY DEF Numbered, TaskOK, ConfirmedFirst, CountsResolvers
<1>3. LoopOK
  BY DEF LoopOK
<1>. QED
  BY <1>1, <1>2, <1>3 DEF IInv

\* IInv is a matter of the variables only.
LEMMA StutterHolds == IInv /\ UNCHANGED vars => IInv'
<1>. SUFFICES ASSUME IInv, UNCHANGED vars PROVE IInv'
  OBVIOUS
<1>. USE DEF vars, session, messages, resolvers, loops, contexts, IInv
<1>1. TypeOK'
  BY DEF TypeOK, SessionType, TaskType, MessageType, LoopType
<1>2. Numbered' /\ TaskOK' /\ ConfirmedFirst'
  BY DEF Numbered, TaskOK, ConfirmedFirst
<1>3. LoopOK'
  BY DEF LoopOK
<1>4. CountsResolvers'
  BY DEF CountsResolvers, Unresolved
<1>. QED
  BY <1>1, <1>2, <1>3, <1>4

\* IInv holds in every state of the chat.
THEOREM Invariance == Spec => []IInv
<1>1. Init => IInv
  BY InitHolds
<1>2. IInv /\ [Next]_vars => IInv'
  BY TypeStep, NumberedStep, TaskStep, LoopStep, ConfirmedStep, CountsStep, StutterHolds DEF IInv
<1>. QED
  BY <1>1, <1>2, PTL DEF Spec

\* Every variable keeps its type, whatever goroutines and requests interleave.
THEOREM TypeCorrect == Spec => []TypeOK
<1>1. IInv => TypeOK
  BY DEF IInv
<1>. QED
  BY <1>1, Invariance, PTL

\* executeTask never calls a tool that needs a confirmation before ConfirmTasks has confirmed it,
\* however confirmations, cancellations, timeouts and edits of messages come in between.
THEOREM NothingUnconfirmed == Spec => []ConfirmedFirst
<1>1. IInv => ConfirmedFirst
  BY DEF IInv
<1>. QED
  BY <1>1, Invariance, PTL

\* session.activeToolRuns is the number of the goroutines of the tool run that resolvePendingTask
\* has not come to the end of, so exactly the last of them goes on asking the language model.
THEOREM ResolversCounted == Spec => []CountsResolvers
<1>1. IInv => CountsResolvers
  BY DEF IInv
<1>. QED
  BY <1>1, Invariance, PTL

\* Whatever executes, resolves or cancels a task, it undoes no cancellation: executeTask looks at
\* the status before it calls the tool and again when the tool has returned. Only the second locked
\* section of materializeTasks makes a cancelled task wait.
THEOREM CancellationStays == Spec => CancelledStays
<1>1. IInv /\ [Next]_vars => [Kept]_vars
  BY KeptStep
<1>. QED
  BY <1>1, Invariance, PTL DEF Spec, CancelledStays, Kept

-----------------------------------------------------------------------------
(* One run at work *)

Working == {"ask", "stream", "make", "mark", "tool", "check"}

\* The session is busy for its current run or for its tool run, not for both; what is at work and
\* was not told to stop is at work for it.
Solo ==
  /\ currentRunID # None => processing /\ toolRun = None
  /\ toolRun # None => processing
  /\ closed => currentRunID = None
  /\ \A r \in Runs : pc[r] \in Working /\ ~Dead(r) => currentRun = r /\ currentRunID = r
  /\ \A t \in Tasks : tpc[t] \in {"resolve", "tool"} /\ ~Dead(trun[t]) => toolRun = trun[t]

\* As long as no confirmation came while a run was at work.
SoloInv ==
  /\ \A t \in Tasks : tpc[t] # "none" => trun[t] \in Runs
  /\ early \/ Solo

\* The resolver that counts as the last one is.
LEMMA LastResolver ==
  ASSUME IInv, toolRun # None, active <= 1, NEW t \in Unresolved(toolRun),
         NEW q \in Unresolved(toolRun)
  PROVE  q = t
<1> DEFINE U == Unresolved(toolRun)
<1>1. IsFiniteSet(U)
  BY ChatAssumption, FS_Subset DEF Unresolved
<1>2. Cardinality(U) <= 1 /\ Cardinality(U) \in Nat /\ U # {}
  BY <1>1, FS_CardinalityType DEF IInv, CountsResolvers
<1>3. Cardinality(U) = 1
  BY <1>1, <1>2, FS_EmptySet
<1> QED
  BY <1>1, <1>3, FS_Singleton

\* Whoever takes over has stopped, or ended, the one before.
LEMMA SoloStep ==
  ASSUME IInv, SoloInv, Next
  PROVE  SoloInv'
<1> USE ChatAssumption DEF session, messages, spoken, resolvers, loops, contexts, Runs, None,
      TypeOK,
      SessionType, TaskType, LoopType, IInv, TaskOK, Numbered, SoloInv, Solo, Working, Dead
<1>1. ASSUME SendUserMessage PROVE SoloInv'
  BY <1>1 DEF SendUserMessage, Launch
<1>2. ASSUME NEW i \in users, RegenerateAfterUserMessage(i) PROVE SoloInv'
  BY <1>2 DEF RegenerateAfterUserMessage, Launch
<1>3. ASSUME NEW i \in users, UpdateUserMessage(i) \/ DeleteMessage(i) PROVE SoloInv'
  BY <1>3 DEF UpdateUserMessage, DeleteMessage, Shorten
<1>4. ASSUME NEW S \in SUBSET Waiting, NEW d \in Decisions(S), ConfirmTasks(S, d) PROVE SoloInv'
  BY <1>4 DEF ConfirmTasks, Decisions, Waiting
<1>5. ASSUME CancelSession PROVE SoloInv'
  BY <1>5 DEF CancelSession, Forget, CancelActive, Taken
<1>6. ASSUME CloseSession PROVE SoloInv'
  BY <1>6 DEF CloseSession, Forget, CancelActive, Taken
<1>7. ASSUME DeleteSession PROVE SoloInv'
  BY <1>7 DEF DeleteSession, Forget, Taken
<1>8. ASSUME CleanupLoop PROVE SoloInv'
  BY <1>8 DEF CleanupLoop, Forget, Taken, Cancelled
<1>9. ASSUME NEW r \in Runs, Start(r) PROVE SoloInv'
  BY <1>9 DEF Start
<1>10. ASSUME NEW r \in Runs, Ask(r) PROVE SoloInv'
  BY <1>10 DEF Ask
<1>11. ASSUME NEW r \in Runs, StreamFails(r) PROVE SoloInv'
  BY <1>11 DEF StreamFails
<1>12. ASSUME NEW r \in Runs, NEW C \in SUBSET Uncalled, StreamEnds(r, C) PROVE SoloInv'
  BY <1>12 DEF StreamEnds, Uncalled
<1>13. ASSUME NEW r \in Runs, NEW t \in Tasks, MakeUnknown(r, t) PROVE SoloInv'
  BY <1>13 DEF MakeUnknown, Answer
<1>14. ASSUME NEW r \in Runs, NEW t \in Tasks, MakeTask(r, t) PROVE SoloInv'
  BY <1>14 DEF MakeTask
<1>15. ASSUME NEW r \in Runs, NEW t \in Tasks, AutoBegin(r, t) PROVE SoloInv'
  BY <1>15 DEF AutoBegin, ExecuteBegin, Exists
<1>16. ASSUME NEW r \in Runs, MarkWaiting(r) PROVE SoloInv'
  BY <1>16 DEF MarkWaiting, Exists
<1>17. ASSUME NEW r \in Runs, AutoEnd(r) PROVE SoloInv'
  BY <1>17 DEF AutoEnd, ExecuteEnd, Exists, Answer
<1>18. ASSUME NEW r \in Runs, Check(r) PROVE SoloInv'
  BY <1>18 DEF Check
<1>19. ASSUME NEW r \in Runs, Again(r) PROVE SoloInv'
  BY <1>19 DEF Again, TasksDone
<1>20. ASSUME NEW r \in Runs, Wrap(r) PROVE SoloInv'
  BY <1>20 DEF Wrap, TasksDone, EndRun
<1>21. ASSUME NEW r \in Runs, Complete(r) PROVE SoloInv'
  BY <1>21 DEF Complete, EndRun
<1>22. ASSUME NEW r \in Runs, CallCancel(r) PROVE SoloInv'
  BY <1>22 DEF CallCancel, Cancelled
<1>23. ASSUME NEW r \in Runs, Expire(r) PROVE SoloInv'
  BY <1>23 DEF Expire
<1>24. ASSUME NEW t \in Tasks, ResolveGone(t) PROVE SoloInv'
  BY <1>24 DEF ResolveGone
<1>25. ASSUME NEW t \in Tasks, ResolveSkip(t) PROVE SoloInv'
  BY <1>25 DEF ResolveSkip
<1>26. ASSUME NEW t \in Tasks, ResolveBegin(t) PROVE SoloInv'
  BY <1>26 DEF ResolveBegin, ExecuteBegin, Exists
<1>27. ASSUME NEW t \in Tasks, ResolveEnd(t) PROVE SoloInv'
  BY <1>27 DEF ResolveEnd, ExecuteEnd, Exists, Answer
<1>28. ASSUME NEW t \in Tasks, RejectTask(t) PROVE SoloInv'
  BY <1>28 DEF RejectTask, Exists, Answer
<1>29. ASSUME NEW t \in Tasks, ResolveAfter(t) PROVE SoloInv'
  <2>1. CASE closed \/ toolRun # trun[t] \/ active > 1
    BY <1>29, <2>1 DEF ResolveAfter
  <2>2. CASE ~closed /\ toolRun = trun[t] /\ active <= 1
    <3>1. trun[t] \in Runs /\ t \in Unresolved(toolRun)
      BY <1>29, <2>2 DEF ResolveAfter, Unresolved
    <3>2. \A q \in Tasks : trun[q] = toolRun => tpc[q] \notin {"resolve", "tool"}
      BY <1>29, <2>2, <3>1, LastResolver DEF ResolveAfter, Unresolved
    <3> QED
      BY <1>29, <2>2, <3>1, <3>2 DEF ResolveAfter, HasPending, Waiting
  <2> QED
    BY <2>1, <2>2 DEF TypeOK, SessionType
<1>30. ASSUME NEW r \in Runs, AppendDelta(r) PROVE SoloInv'
  BY <1>30 DEF AppendDelta
<1> QED
  BY <1>1, <1>2, <1>3, <1>4, <1>5, <1>6, <1>7, <1>8, <1>9, <1>10, <1>11, <1>12, <1>13, <1>14,
     <1>15, <1>16, <1>17, <1>18, <1>19, <1>20, <1>21, <1>22, <1>23, <1>24, <1>25, <1>26, <1>27,
     <1>28, <1>29, <1>30
     DEF Next, Chat, Edit, End, Loop, Resolver

LEMMA SoloNext ==
  ASSUME IInv, SoloInv, [Next]_vars
  PROVE  SoloInv'
<1>1. CASE UNCHANGED vars
  BY <1>1 DEF vars, session, resolvers, contexts, SoloInv, Solo, Dead
<1> QED
  BY <1>1, SoloStep

LEMMA SoloStart == Init => SoloInv
BY DEF Init, SoloInv, Solo, Working, None

\* That holds whatever happens.
THEOREM SoloInvariance == Spec => []SoloInv
<1>1. SoloInv /\ IInv /\ [Next]_vars => SoloInv'
  BY SoloNext
<1> QED
  BY <1>1, SoloStart, Invariance, PTL DEF Spec

\* At most one goroutine asks the model or executes tools without having been told to stop, however
\* messages, cancellations, timeouts and the ends of runs interleave: runSessionWithContext compares
\* its number, and every way to free a session takes the cancel functions of both kinds of run.
THEOREM RunsOneByOne == Spec => []OneRunAtWork
<1>1. IInv /\ SoloInv => OneRunAtWork
  <2> SUFFICES ASSUME IInv, SoloInv, ~early PROVE Cardinality(Alive) <= 1
    BY DEF OneRunAtWork
  <2>1. ASSUME NEW q \in Alive, NEW r \in Alive PROVE q = r
    BY <2>1 DEF Alive, AtWork, SoloInv, Solo, Working, None, Runs
  <2>2. CASE Alive = {}
    BY <2>2, FS_EmptySet
  <2>3. CASE Alive # {}
    <3>1. PICK r \in Alive : TRUE
      BY <2>3
    <3>2. Alive = {r}
      BY <2>1
    <3>3. Cardinality(Alive) = 1
      BY <3>2, FS_Singleton
    <3> QED
      BY <3>3
  <2> QED
    BY <2>2, <2>3
<1> QED
  BY <1>1, Invariance, SoloInvariance, PTL

\* A session that takes messages again (processing is reset by completeTurn, failSessionTurn,
\* resolvePendingTask, CancelSession and the ends of the session) has no goroutine at work that was
\* not told to stop.
THEOREM QuietSessions == Spec => []QuietMeansQuiet
<1>1. IInv /\ SoloInv => QuietMeansQuiet
  BY DEF QuietMeansQuiet, Alive, AtWork, SoloInv, Solo, Working, None, Runs
<1> QED
  BY <1>1, Invariance, SoloInvariance, PTL

-----------------------------------------------------------------------------
(* Asked with answers *)

Making == {"make", "mark", "tool", "check"}

\* A task that no answer has called is nowhere told, and one that never waited has no tool run.
OriginOK ==
  \A t \in Tasks :
    /\ by[t] = None => callAt[t] = Nowhere /\ replyAt[t] = Nowhere
    /\ tpc[t] = "none" => trun[t] = None

\* What a run has at hand is of its own answers, and only tasks to be confirmed wait.
PlacesOK ==
  /\ \A t \in Tasks : task[t] = "waiting" \/ tpc[t] # "none" => t \in Confirmable
  /\ \A r \in Runs :
       /\ \A t \in autos[r] : by[t] = r /\ task[t] # "absent"
       /\ pc[r] = "tool" => by[cur[r]] = r /\ task[cur[r]] # "absent" /\ cur[r] \notin autos[r]

\* A run that has not begun does nothing, the tool run asks nothing, and words belong to the answer
\* being heard.
RunsOK ==
  /\ \A r \in Runs : pc[r] # "off" => r <= runs
  /\ toolRun # None => pc[toolRun] = "tools"
  /\ \A r \in Runs : pc[r] # "stream" => shownAt[r] = Nowhere

\* The run that called t has it at hand.
Held(t) ==
  LET r == by[t] IN
  /\ r \in Runs /\ pc[r] \in Making
  /\ \/ t \in todo[r] \cup autos[r]
     \/ pc[r] \in {"mark", "tool"} /\ t = cur[r]

\* Its result may still come.
InPlay(t) == Held(t) \/ task[t] = "waiting" \/ tpc[t] \in {"resolve", "tool"}

\* The call is then in the last message of either list, behind the messages of the user, so that
\* every edit cuts it off.
PlayOK ==
  \A t \in Tasks : InPlay(t) /\ ~Stopped(t) =>
    /\ task[t] # "removed"
    /\ callAt[t] = turns /\ replyAt[t] = Nowhere
    /\ \A i \in users : i < callAt[t] /\ (homeAt[t] = Hidden \/ i < homeAt[t])

\* The messages of the user are not further down what is visible than in what is told; a result
\* follows the answer that called the tool; the words being heard come last.
ListsOK ==
  /\ \A i \in users : i <= turns
  /\ \A t \in Tasks : Stopped(t) \/ replyAt[t] \in {Nowhere, callAt[t]}
  /\ \A r \in Runs : pc[r] = "stream" /\ ~Dead(r) =>
       shownAt[r] \in {Nowhere, Hidden} \/ \A i \in users : i < shownAt[r]

\* A call whose result is still to come, since nobody was told to stop, is at hand of its run, waits
\* for the user, or is with a resolver.
Owed(t) == t \in Called \ Answered /\ ~Stopped(t)
BeingResolved(t) ==
  /\ tpc[t] \in {"resolve", "tool"}
  /\ decision[t] = "confirm" => task[t] # "cancelled"
AtHand(t) == (Held(t) /\ task[t] # "cancelled") \/ task[t] = "waiting" \/ BeingResolved(t)
OwedOK == \A t \in Tasks : Owed(t) => AtHand(t)

\* A run whose task waits for the user goes no further.
WaitOK ==
  \A t \in Tasks : task[t] = "waiting" /\ ~Dead(by[t]) /\ currentRunID # None =>
    by[t] = currentRunID /\ wait[by[t]] /\ pc[by[t]] \in Making

AnswerInv ==
  /\ OriginOK /\ PlacesOK /\ RunsOK
  /\ early \/ askew \/ (ListsOK /\ PlayOK /\ OwedOK /\ WaitOK)

-----------------------------------------------------------------------------
OriginKept(t) == (by[t] # None => by'[t] = by[t]) /\ (trun[t] # None => trun'[t] = trun[t])

\* The words being heard are nowhere, behind the messages of the user, or where they were.
WordsPlace(r) ==
  \/ shownAt'[r] \in {Nowhere, Hidden}
  \/ \A i \in users' : i < shownAt'[r]
  \/ /\ pc[r] = "stream" /\ shownAt'[r] = shownAt[r]
     /\ users' \subseteq users \/ SendUserMessage

\* Places last while runs and tasks do not move.
LEMMA PlacesKept ==
  ASSUME LoopOK, PlacesOK, UNCHANGED <<by, autos, cur>>,
         \A r \in Runs : pc'[r] = "tool" => pc[r] = "tool",
         \A t \in Tasks : task[t] # "absent" => task'[t] # "absent",
         \A t \in Tasks : task'[t] = "waiting" \/ tpc'[t] # "none"
                            => task[t] = "waiting" \/ tpc[t] # "none",
         \A r \in Runs : autos[r] \subseteq Tasks
  PROVE  PlacesOK'
BY DEF PlacesOK, LoopOK

\* Who has a task at hand had it before, and has it still, as long as runs do not move.
LEMMA HeldKept ==
  ASSUME NEW q \in Tasks, UNCHANGED <<by, todo, autos, cur>>, Held(q)',
         \A r \in Runs : pc'[r] \in Making => pc'[r] = pc[r]
  PROVE  Held(q)
BY DEF Held, Making

LEMMA HeldOn ==
  ASSUME NEW q \in Tasks, UNCHANGED <<by, todo, autos, cur>>, Held(q), pc'[by[q]] = pc[by[q]]
  PROVE  Held(q)'
BY DEF Held

\* Nothing is called, cut or sent; a result comes to a call that was in play, and ends that.
Still ==
  /\ UNCHANGED <<by, users, turns, homeAt, callAt>>
  /\ \A t \in Tasks :
       /\ task'[t] = "removed" => task[t] = "removed"
       /\ replyAt'[t] = replyAt[t] \/ (replyAt'[t] = turns /\ InPlay(t) /\ ~InPlay(t)')

\* The lists are cut at a message of the user, or before it.
Cut == \E n \in Nat :
  /\ Truncate(n) /\ ~processing /\ \E i \in users : n <= i
  /\ UNCHANGED <<by, resolvers, loops>>
  /\ \A r \in Runs : pc'[r] \in Making => pc'[r] = pc[r]

Said == \E r \in Runs : \E C \in SUBSET Uncalled : StreamEnds(r, C)

\* A result for what was in play ends that, and nothing else.
LEMMA AnswerStill ==
  ASSUME TypeOK, NEW t \in Tasks, UNCHANGED <<by, users, turns, homeAt, callAt>>,
         UNCHANGED replyAt \/ Answer(t), InPlay(t), ~InPlay(t)',
         \A q \in Tasks : task'[q] = "removed" => task[q] = "removed"
  PROVE  Still
BY DEF Still, TypeOK, MessageType, Answer


\* Who is in play without having been told to stop waits for the user, or the session is busy for
\* it.
LEMMA WhoPlays ==
  ASSUME IInv, SoloInv, ~early, NEW t \in Tasks, InPlay(t), ~Stopped(t)
  PROVE  /\ task[t] = "waiting" \/ processing
         /\ Held(t) => currentRun = by[t] /\ currentRunID = by[t] /\ by[t] # None
         /\ tpc[t] \in {"resolve", "tool"} => toolRun = trun[t] /\ trun[t] # None
<1>1. ASSUME Held(t)
      PROVE  currentRun = by[t] /\ currentRunID = by[t] /\ by[t] # None
  <2>1. by[t] \in Runs /\ pc[by[t]] \in Working
    BY <1>1 DEF Held, Making, Working
  <2>2. by[t] # None /\ ~Dead(by[t])
    BY <2>1 DEF Stopped, Runs, None
  <2>. QED
    BY <2>1, <2>2 DEF SoloInv, Solo
<1>2. ASSUME tpc[t] \in {"resolve", "tool"}
      PROVE  toolRun = trun[t] /\ trun[t] # None
  <2>1. trun[t] \in Runs
    BY <1>2 DEF SoloInv
  <2>2. trun[t] # None /\ ~Dead(trun[t])
    BY <2>1 DEF Stopped, Runs, None
  <2>. QED
    BY <1>2, <2>2 DEF SoloInv, Solo
<1> QED
  BY <1>1, <1>2 DEF InPlay, SoloInv, Solo

\* Who is told to stop stays so.
LEMMA DeadStays ==
  ASSUME Next, NEW x \in Runs, Dead(x)
  PROVE  Dead(x)'
<1> USE DEF session, messages, spoken, resolvers, loops, contexts, Dead
<1>1. ASSUME SendUserMessage PROVE Dead(x)'
  BY <1>1 DEF SendUserMessage, Launch, HasPending, Waiting
<1>2. ASSUME NEW i \in users, RegenerateAfterUserMessage(i) PROVE Dead(x)'
  BY <1>2 DEF RegenerateAfterUserMessage, Launch
<1>3. ASSUME NEW i \in users, UpdateUserMessage(i) \/ DeleteMessage(i) PROVE Dead(x)'
  BY <1>3 DEF UpdateUserMessage, DeleteMessage, Shorten
<1>4. ASSUME NEW S \in SUBSET Waiting, NEW d \in Decisions(S), ConfirmTasks(S, d) PROVE Dead(x)'
  BY <1>4 DEF ConfirmTasks, Decisions, Waiting
<1>5. ASSUME CancelSession PROVE Dead(x)'
  BY <1>5 DEF CancelSession, Forget, CancelActive, Taken
<1>6. ASSUME CloseSession PROVE Dead(x)'
  BY <1>6 DEF CloseSession, Forget, CancelActive, Taken
<1>7. ASSUME DeleteSession PROVE Dead(x)'
  BY <1>7 DEF DeleteSession, Forget, Taken
<1>8. ASSUME CleanupLoop PROVE Dead(x)'
  BY <1>8 DEF CleanupLoop, Forget, Taken, Cancelled
<1>9. ASSUME NEW r \in Runs, Start(r) PROVE Dead(x)'
  BY <1>9 DEF Start
<1>10. ASSUME NEW r \in Runs, Ask(r) PROVE Dead(x)'
  BY <1>10 DEF Ask
<1>11. ASSUME NEW r \in Runs, StreamFails(r) PROVE Dead(x)'
  BY <1>11 DEF StreamFails
<1>12. ASSUME NEW r \in Runs, NEW C \in SUBSET Uncalled, StreamEnds(r, C) PROVE Dead(x)'
  BY <1>12 DEF StreamEnds, Uncalled
<1>13. ASSUME NEW r \in Runs, NEW t \in Tasks, MakeUnknown(r, t) PROVE Dead(x)'
  BY <1>13 DEF MakeUnknown, Answer
<1>14. ASSUME NEW r \in Runs, NEW t \in Tasks, MakeTask(r, t) PROVE Dead(x)'
  BY <1>14 DEF MakeTask
<1>15. ASSUME NEW r \in Runs, NEW t \in Tasks, AutoBegin(r, t) PROVE Dead(x)'
  BY <1>15 DEF AutoBegin, ExecuteBegin, Exists
<1>16. ASSUME NEW r \in Runs, MarkWaiting(r) PROVE Dead(x)'
  BY <1>16 DEF MarkWaiting, Exists
<1>17. ASSUME NEW r \in Runs, AutoEnd(r) PROVE Dead(x)'
  BY <1>17 DEF AutoEnd, ExecuteEnd, Exists, Answer
<1>18. ASSUME NEW r \in Runs, Check(r) PROVE Dead(x)'
  BY <1>18 DEF Check
<1>19. ASSUME NEW r \in Runs, Again(r) PROVE Dead(x)'
  BY <1>19 DEF Again, TasksDone
<1>20. ASSUME NEW r \in Runs, Wrap(r) PROVE Dead(x)'
  BY <1>20 DEF Wrap, TasksDone, EndRun
<1>21. ASSUME NEW r \in Runs, Complete(r) PROVE Dead(x)'
  BY <1>21 DEF Complete, EndRun
<1>22. ASSUME NEW r \in Runs, CallCancel(r) PROVE Dead(x)'
  BY <1>22 DEF CallCancel, Cancelled
<1>23. ASSUME NEW r \in Runs, Expire(r) PROVE Dead(x)'
  BY <1>23 DEF Expire
<1>24. ASSUME NEW t \in Tasks, ResolveGone(t) PROVE Dead(x)'
  BY <1>24 DEF ResolveGone
<1>25. ASSUME NEW t \in Tasks, ResolveSkip(t) PROVE Dead(x)'
  BY <1>25 DEF ResolveSkip
<1>26. ASSUME NEW t \in Tasks, ResolveBegin(t) PROVE Dead(x)'
  BY <1>26 DEF ResolveBegin, ExecuteBegin, Exists
<1>27. ASSUME NEW t \in Tasks, ResolveEnd(t) PROVE Dead(x)'
  BY <1>27 DEF ResolveEnd, ExecuteEnd, Exists, Answer
<1>28. ASSUME NEW t \in Tasks, RejectTask(t) PROVE Dead(x)'
  BY <1>28 DEF RejectTask, Exists, Answer
<1>29. ASSUME NEW t \in Tasks, ResolveAfter(t) PROVE Dead(x)'
  BY <1>29 DEF ResolveAfter, HasPending, Waiting
<1>30. ASSUME NEW r \in Runs, AppendDelta(r) PROVE Dead(x)'
  BY <1>30 DEF AppendDelta
<1> QED
  BY <1>1, <1>2, <1>3, <1>4, <1>5, <1>6, <1>7, <1>8, <1>9, <1>10, <1>11, <1>12, <1>13, <1>14,
     <1>15, <1>16, <1>17, <1>18, <1>19, <1>20, <1>21, <1>22, <1>23, <1>24, <1>25, <1>26, <1>27,
     <1>28, <1>29, <1>30
     DEF Next, Chat, Edit, End, Loop, Resolver

\* Where a task comes from, and who resolves it, does not change.
LEMMA OriginStays ==
  ASSUME IInv, OriginOK, Next, NEW q \in Tasks
  PROVE  OriginKept(q)
<1> USE DEF session, messages, spoken, resolvers, loops, contexts, OriginKept, IInv, TypeOK,
      TaskType, TaskOK, OriginOK, None
<1>1. ASSUME SendUserMessage PROVE OriginKept(q)
  BY <1>1 DEF SendUserMessage, Launch, HasPending, Waiting
<1>2. ASSUME NEW i \in users, RegenerateAfterUserMessage(i) PROVE OriginKept(q)
  BY <1>2 DEF RegenerateAfterUserMessage, Launch
<1>3. ASSUME NEW i \in users, UpdateUserMessage(i) \/ DeleteMessage(i) PROVE OriginKept(q)
  BY <1>3 DEF UpdateUserMessage, DeleteMessage, Shorten
<1>4. ASSUME NEW S \in SUBSET Waiting, NEW d \in Decisions(S), ConfirmTasks(S,
      d) PROVE OriginKept(q)
  BY <1>4 DEF ConfirmTasks, Decisions, Waiting
<1>5. ASSUME CancelSession PROVE OriginKept(q)
  BY <1>5 DEF CancelSession, Forget, CancelActive, Taken
<1>6. ASSUME CloseSession PROVE OriginKept(q)
  BY <1>6 DEF CloseSession, Forget, CancelActive, Taken
<1>7. ASSUME DeleteSession PROVE OriginKept(q)
  BY <1>7 DEF DeleteSession, Forget, Taken
<1>8. ASSUME CleanupLoop PROVE OriginKept(q)
  BY <1>8 DEF CleanupLoop, Forget, Taken, Cancelled
<1>9. ASSUME NEW r \in Runs, Start(r) PROVE OriginKept(q)
  BY <1>9 DEF Start
<1>10. ASSUME NEW r \in Runs, Ask(r) PROVE OriginKept(q)
  BY <1>10 DEF Ask
<1>11. ASSUME NEW r \in Runs, StreamFails(r) PROVE OriginKept(q)
  BY <1>11 DEF StreamFails
<1>12. ASSUME NEW r \in Runs, NEW C \in SUBSET Uncalled, StreamEnds(r, C) PROVE OriginKept(q)
  BY <1>12 DEF StreamEnds, Uncalled
<1>13. ASSUME NEW r \in Runs, NEW t \in Tasks, MakeUnknown(r, t) PROVE OriginKept(q)
  BY <1>13 DEF MakeUnknown, Answer
<1>14. ASSUME NEW r \in Runs, NEW t \in Tasks, MakeTask(r, t) PROVE OriginKept(q)
  BY <1>14 DEF MakeTask
<1>15. ASSUME NEW r \in Runs, NEW t \in Tasks, AutoBegin(r, t) PROVE OriginKept(q)
  BY <1>15 DEF AutoBegin, ExecuteBegin, Exists
<1>16. ASSUME NEW r \in Runs, MarkWaiting(r) PROVE OriginKept(q)
  BY <1>16 DEF MarkWaiting, Exists
<1>17. ASSUME NEW r \in Runs, AutoEnd(r) PROVE OriginKept(q)
  BY <1>17 DEF AutoEnd, ExecuteEnd, Exists, Answer
<1>18. ASSUME NEW r \in Runs, Check(r) PROVE OriginKept(q)
  BY <1>18 DEF Check
<1>19. ASSUME NEW r \in Runs, Again(r) PROVE OriginKept(q)
  BY <1>19 DEF Again, TasksDone
<1>20. ASSUME NEW r \in Runs, Wrap(r) PROVE OriginKept(q)
  BY <1>20 DEF Wrap, TasksDone, EndRun
<1>21. ASSUME NEW r \in Runs, Complete(r) PROVE OriginKept(q)
  BY <1>21 DEF Complete, EndRun
<1>22. ASSUME NEW r \in Runs, CallCancel(r) PROVE OriginKept(q)
  BY <1>22 DEF CallCancel, Cancelled
<1>23. ASSUME NEW r \in Runs, Expire(r) PROVE OriginKept(q)
  BY <1>23 DEF Expire
<1>24. ASSUME NEW t \in Tasks, ResolveGone(t) PROVE OriginKept(q)
  BY <1>24 DEF ResolveGone
<1>25. ASSUME NEW t \in Tasks, ResolveSkip(t) PROVE OriginKept(q)
  BY <1>25 DEF ResolveSkip
<1>26. ASSUME NEW t \in Tasks, ResolveBegin(t) PROVE OriginKept(q)
  BY <1>26 DEF ResolveBegin, ExecuteBegin, Exists
<1>27. ASSUME NEW t \in Tasks, ResolveEnd(t) PROVE OriginKept(q)
  BY <1>27 DEF ResolveEnd, ExecuteEnd, Exists, Answer
<1>28. ASSUME NEW t \in Tasks, RejectTask(t) PROVE OriginKept(q)
  BY <1>28 DEF RejectTask, Exists, Answer
<1>29. ASSUME NEW t \in Tasks, ResolveAfter(t) PROVE OriginKept(q)
  BY <1>29 DEF ResolveAfter, HasPending, Waiting
<1>30. ASSUME NEW r \in Runs, AppendDelta(r) PROVE OriginKept(q)
  BY <1>30 DEF AppendDelta
<1> QED
  BY <1>1, <1>2, <1>3, <1>4, <1>5, <1>6, <1>7, <1>8, <1>9, <1>10, <1>11, <1>12, <1>13, <1>14,
     <1>15, <1>16, <1>17, <1>18, <1>19, <1>20, <1>21, <1>22, <1>23, <1>24, <1>25, <1>26, <1>27,
     <1>28, <1>29, <1>30
     DEF Next, Chat, Edit, End, Loop, Resolver

\* A task is told after it was called.
LEMMA OriginStep ==
  ASSUME IInv, OriginOK, Next
  PROVE  OriginOK'
<1> USE DEF session, messages, spoken, resolvers, loops, contexts, IInv, TypeOK, TaskType,
      MessageType, TaskOK, OriginOK, None, Runs, Nowhere, LoopOK
<1>1. ASSUME SendUserMessage PROVE OriginOK'
  BY <1>1 DEF SendUserMessage, Launch, HasPending, Waiting
<1>2. ASSUME NEW i \in users, RegenerateAfterUserMessage(i) PROVE OriginOK'
  <2>1. Truncate(i) /\ UNCHANGED <<by, tpc, trun>>
    BY <1>2 DEF RegenerateAfterUserMessage, Launch
  <2>. QED
    BY <2>1 DEF Truncate
<1>3. ASSUME NEW i \in users, UpdateUserMessage(i) \/ DeleteMessage(i) PROVE OriginOK'
  <2>1. PICK n \in Nat : Truncate(n) /\ UNCHANGED <<by, tpc, trun>>
    BY <1>3, CutPlace DEF Shorten
  <2>. QED
    BY <2>1 DEF Truncate
<1>4. ASSUME NEW S \in SUBSET Waiting, NEW d \in Decisions(S), ConfirmTasks(S, d) PROVE OriginOK'
  BY <1>4 DEF ConfirmTasks, Decisions, Waiting
<1>5. ASSUME CancelSession PROVE OriginOK'
  BY <1>5 DEF CancelSession, Forget, CancelActive, Taken
<1>6. ASSUME CloseSession PROVE OriginOK'
  BY <1>6 DEF CloseSession, Forget, CancelActive, Taken
<1>7. ASSUME DeleteSession PROVE OriginOK'
  BY <1>7 DEF DeleteSession, Forget, Taken
<1>8. ASSUME CleanupLoop PROVE OriginOK'
  BY <1>8 DEF CleanupLoop, Forget, Taken, Cancelled
<1>9. ASSUME NEW r \in Runs, Start(r) PROVE OriginOK'
  BY <1>9 DEF Start
<1>10. ASSUME NEW r \in Runs, Ask(r) PROVE OriginOK'
  BY <1>10 DEF Ask
<1>11. ASSUME NEW r \in Runs, StreamFails(r) PROVE OriginOK'
  BY <1>11 DEF StreamFails
<1>12. ASSUME NEW r \in Runs, NEW C \in SUBSET Uncalled, StreamEnds(r, C) PROVE OriginOK'
  BY <1>12 DEF StreamEnds, Uncalled
<1>13. ASSUME NEW r \in Runs, NEW t \in Tasks, MakeUnknown(r, t) PROVE OriginOK'
  BY <1>13 DEF MakeUnknown, Answer
<1>14. ASSUME NEW r \in Runs, NEW t \in Tasks, MakeTask(r, t) PROVE OriginOK'
  BY <1>14 DEF MakeTask
<1>15. ASSUME NEW r \in Runs, NEW t \in Tasks, AutoBegin(r, t) PROVE OriginOK'
  BY <1>15 DEF AutoBegin, ExecuteBegin, Exists
<1>16. ASSUME NEW r \in Runs, MarkWaiting(r) PROVE OriginOK'
  BY <1>16 DEF MarkWaiting, Exists
<1>17. ASSUME NEW r \in Runs, AutoEnd(r) PROVE OriginOK'
  <2>1. cur[r] \in Tasks /\ ExecuteEnd(cur[r], r)
    BY <1>17 DEF AutoEnd
  <2>2. UNCHANGED replyAt \/ (Answer(cur[r]) /\ Exists(cur[r]))
    BY <2>1, ReplyEffect
  <2>. QED
    BY <1>17, <2>1, <2>2 DEF AutoEnd, Answer, Exists
<1>18. ASSUME NEW r \in Runs, Check(r) PROVE OriginOK'
  BY <1>18 DEF Check
<1>19. ASSUME NEW r \in Runs, Again(r) PROVE OriginOK'
  BY <1>19 DEF Again, TasksDone
<1>20. ASSUME NEW r \in Runs, Wrap(r) PROVE OriginOK'
  BY <1>20 DEF Wrap, TasksDone, EndRun
<1>21. ASSUME NEW r \in Runs, Complete(r) PROVE OriginOK'
  BY <1>21 DEF Complete, EndRun
<1>22. ASSUME NEW r \in Runs, CallCancel(r) PROVE OriginOK'
  BY <1>22 DEF CallCancel, Cancelled
<1>23. ASSUME NEW r \in Runs, Expire(r) PROVE OriginOK'
  BY <1>23 DEF Expire
<1>24. ASSUME NEW t \in Tasks, ResolveGone(t) PROVE OriginOK'
  BY <1>24 DEF ResolveGone
<1>25. ASSUME NEW t \in Tasks, ResolveSkip(t) PROVE OriginOK'
  BY <1>25 DEF ResolveSkip
<1>26. ASSUME NEW t \in Tasks, ResolveBegin(t) PROVE OriginOK'
  BY <1>26 DEF ResolveBegin, ExecuteBegin, Exists
<1>27. ASSUME NEW t \in Tasks, ResolveEnd(t) PROVE OriginOK'
  <2>1. UNCHANGED replyAt \/ (Answer(t) /\ Exists(t))
    BY <1>27, ReplyEffect DEF ResolveEnd
  <2>. QED
    BY <1>27, <2>1 DEF ResolveEnd, Answer, Exists
<1>28. ASSUME NEW t \in Tasks, RejectTask(t) PROVE OriginOK'
  <2>1. UNCHANGED replyAt \/ (Answer(t) /\ Exists(t))
    BY <1>28, ReplyEffect
  <2>. QED
    BY <1>28, <2>1 DEF RejectTask, Answer, Exists
<1>29. ASSUME NEW t \in Tasks, ResolveAfter(t) PROVE OriginOK'
  BY <1>29 DEF ResolveAfter, HasPending, Waiting
<1>30. ASSUME NEW r \in Runs, AppendDelta(r) PROVE OriginOK'
  BY <1>30 DEF AppendDelta
<1> QED
  BY <1>1, <1>2, <1>3, <1>4, <1>5, <1>6, <1>7, <1>8, <1>9, <1>10, <1>11, <1>12, <1>13, <1>14,
     <1>15, <1>16, <1>17, <1>18, <1>19, <1>20, <1>21, <1>22, <1>23, <1>24, <1>25, <1>26, <1>27,
     <1>28, <1>29, <1>30
     DEF Next, Chat, Edit, End, Loop, Resolver

\* Places change as tasks go from hand to hand.
LEMMA PlacesStep ==
  ASSUME IInv, PlacesOK, Next
  PROVE  PlacesOK'
<1> USE DEF session, messages, spoken, resolvers, loops, contexts, IInv, TypeOK, TaskType,
      LoopType, TaskOK, LoopOK, PlacesOK, None, Runs
<1>1. ASSUME SendUserMessage PROVE PlacesOK'
  BY <1>1 DEF SendUserMessage, Launch, HasPending, Waiting
<1>2. ASSUME NEW i \in users, RegenerateAfterUserMessage(i) PROVE PlacesOK'
  <2> HIDE DEF TaskOK, LoopOK, PlacesOK, ConfirmedFirst, CountsResolvers, Numbered
  <2>1. Truncate(i) /\ UNCHANGED <<by, tpc, autos, cur>>
    BY <1>2 DEF RegenerateAfterUserMessage, Launch
  <2>2. \A x \in Runs : pc'[x] = "tool" => pc[x] = "tool"
    BY <1>2 DEF RegenerateAfterUserMessage, Launch
  <2>3. \A x \in Tasks : task'[x] = task[x] \/ (Exists(x) /\ task'[x] = "removed")
    BY <2>1, TruncateEffect
  <2>. QED
    BY <2>1, <2>2, <2>3, PlacesKept
<1>3. ASSUME NEW i \in users, UpdateUserMessage(i) \/ DeleteMessage(i) PROVE PlacesOK'
  <2> HIDE DEF TaskOK, LoopOK, PlacesOK, ConfirmedFirst, CountsResolvers, Numbered
  <2>1. PICK n \in Nat : Truncate(n) /\ UNCHANGED <<by, tpc, autos, cur, pc>>
    BY <1>3, CutPlace DEF Shorten
  <2>2. \A x \in Tasks : task'[x] = task[x] \/ (Exists(x) /\ task'[x] = "removed")
    BY <2>1, TruncateEffect
  <2>. QED
    BY <2>1, <2>2, PlacesKept
<1>4. ASSUME NEW S \in SUBSET Waiting, NEW d \in Decisions(S), ConfirmTasks(S, d) PROVE PlacesOK'
  <2> HIDE DEF TaskOK, LoopOK, PlacesOK, ConfirmedFirst, CountsResolvers, Numbered
  <2>1. UNCHANGED <<by, autos, cur>> /\ \A x \in Runs : pc'[x] = "tool" => pc[x] = "tool"
    BY <1>4 DEF ConfirmTasks, Waiting
  <2>2. \A x \in Tasks : task[x] # "absent" => task'[x] # "absent"
    BY <1>4 DEF ConfirmTasks, Waiting
  <2>3. \A x \in Tasks : task'[x] = "waiting" \/ tpc'[x] # "none"
                          => task[x] = "waiting" \/ tpc[x] # "none"
    BY <1>4 DEF ConfirmTasks, Waiting
  <2>. QED
    BY <2>1, <2>2, <2>3, PlacesKept
<1>5. ASSUME CancelSession PROVE PlacesOK'
  BY <1>5 DEF CancelSession, Forget, CancelActive, Taken
<1>6. ASSUME CloseSession PROVE PlacesOK'
  BY <1>6 DEF CloseSession, Forget, CancelActive, Taken
<1>7. ASSUME DeleteSession PROVE PlacesOK'
  BY <1>7 DEF DeleteSession, Forget, Taken
<1>8. ASSUME CleanupLoop PROVE PlacesOK'
  BY <1>8 DEF CleanupLoop, Forget, Taken, Cancelled
<1>9. ASSUME NEW r \in Runs, Start(r) PROVE PlacesOK'
  <2> HIDE DEF TaskOK, LoopOK, PlacesOK, ConfirmedFirst, CountsResolvers, Numbered
  <2>1. UNCHANGED <<by, autos, cur>> /\ \A x \in Runs : pc'[x] = "tool" => pc[x] = "tool"
    BY <1>9 DEF Start
  <2>2. \A x \in Tasks : task[x] # "absent" => task'[x] # "absent"
    BY <1>9 DEF Start
  <2>3. \A x \in Tasks : task'[x] = "waiting" \/ tpc'[x] # "none"
                          => task[x] = "waiting" \/ tpc[x] # "none"
    BY <1>9 DEF Start
  <2>. QED
    BY <2>1, <2>2, <2>3, PlacesKept
<1>10. ASSUME NEW r \in Runs, Ask(r) PROVE PlacesOK'
  BY <1>10 DEF Ask
<1>11. ASSUME NEW r \in Runs, StreamFails(r) PROVE PlacesOK'
  BY <1>11 DEF StreamFails
<1>12. ASSUME NEW r \in Runs, NEW C \in SUBSET Uncalled, StreamEnds(r, C) PROVE PlacesOK'
  BY <1>12 DEF StreamEnds, Uncalled
<1>13. ASSUME NEW r \in Runs, NEW t \in Tasks, MakeUnknown(r, t) PROVE PlacesOK'
  BY <1>13 DEF MakeUnknown, Answer
<1>14. ASSUME NEW r \in Runs, NEW t \in Tasks, MakeTask(r, t) PROVE PlacesOK'
  <2> HIDE DEF TaskOK, LoopOK, PlacesOK, ConfirmedFirst, CountsResolvers, Numbered
  <2>1. task[t] = "absent" /\ by[t] = r
    BY <1>14 DEF MakeTask, LoopOK
  <2>2. UNCHANGED <<by, tpc>> /\ task' = [task EXCEPT ![t] = "queued"]
    BY <1>14 DEF MakeTask
  <2>3. \A x \in Runs : autos'[x] = autos[x] \/ (x = r /\ autos'[x] = autos[x] \cup {t})
    BY <1>14 DEF MakeTask
  <2>4. \A x \in Runs : pc'[x] = "tool" => pc[x] = "tool" /\ x # r /\ cur'[x] = cur[x]
    BY <1>14 DEF MakeTask
  <2>. QED
    BY <2>1, <2>2, <2>3, <2>4 DEF PlacesOK, LoopOK, TaskOK
<1>15. ASSUME NEW r \in Runs, NEW t \in Tasks, AutoBegin(r, t) PROVE PlacesOK'
  BY <1>15 DEF AutoBegin, ExecuteBegin, Exists
<1>16. ASSUME NEW r \in Runs, MarkWaiting(r) PROVE PlacesOK'
  <2> HIDE DEF TaskOK, LoopOK, PlacesOK, ConfirmedFirst, CountsResolvers, Numbered
  <2>1. cur[r] \in Confirmable
    BY <1>16 DEF MarkWaiting, LoopOK
  <2>2. UNCHANGED <<by, tpc, autos>>
    BY <1>16 DEF MarkWaiting
  <2>3. \A x \in Tasks : task'[x] = task[x] \/ (x = cur[r] /\ task'[x] = "waiting")
    BY <1>16 DEF MarkWaiting
  <2>4. \A x \in Runs : pc'[x] = "tool" => pc[x] = "tool" /\ cur'[x] = cur[x]
    <3>1. CASE Exists(cur[r])
      <4>1. pc' = [pc EXCEPT ![r] = "make"] /\ cur' = [cur EXCEPT ![r] = NoTask]
        BY <1>16, <3>1 DEF MarkWaiting
      <4>. QED
        BY <4>1
    <3>2. CASE ~Exists(cur[r])
      BY <1>16, <3>2 DEF MarkWaiting
    <3>. QED
      BY <3>1, <3>2
  <2>. QED
    BY <2>1, <2>2, <2>3, <2>4 DEF PlacesOK, LoopOK, TaskOK
<1>17. ASSUME NEW r \in Runs, AutoEnd(r) PROVE PlacesOK'
  BY <1>17 DEF AutoEnd, ExecuteEnd, Exists, Answer
<1>18. ASSUME NEW r \in Runs, Check(r) PROVE PlacesOK'
  BY <1>18 DEF Check
<1>19. ASSUME NEW r \in Runs, Again(r) PROVE PlacesOK'
  BY <1>19 DEF Again, TasksDone
<1>20. ASSUME NEW r \in Runs, Wrap(r) PROVE PlacesOK'
  BY <1>20 DEF Wrap, TasksDone, EndRun
<1>21. ASSUME NEW r \in Runs, Complete(r) PROVE PlacesOK'
  BY <1>21 DEF Complete, EndRun
<1>22. ASSUME NEW r \in Runs, CallCancel(r) PROVE PlacesOK'
  BY <1>22 DEF CallCancel, Cancelled
<1>23. ASSUME NEW r \in Runs, Expire(r) PROVE PlacesOK'
  BY <1>23 DEF Expire
<1>24. ASSUME NEW t \in Tasks, ResolveGone(t) PROVE PlacesOK'
  BY <1>24 DEF ResolveGone
<1>25. ASSUME NEW t \in Tasks, ResolveSkip(t) PROVE PlacesOK'
  BY <1>25 DEF ResolveSkip
<1>26. ASSUME NEW t \in Tasks, ResolveBegin(t) PROVE PlacesOK'
  BY <1>26 DEF ResolveBegin, ExecuteBegin, Exists
<1>27. ASSUME NEW t \in Tasks, ResolveEnd(t) PROVE PlacesOK'
  BY <1>27 DEF ResolveEnd, ExecuteEnd, Exists, Answer
<1>28. ASSUME NEW t \in Tasks, RejectTask(t) PROVE PlacesOK'
  BY <1>28 DEF RejectTask, Exists, Answer
<1>29. ASSUME NEW t \in Tasks, ResolveAfter(t) PROVE PlacesOK'
  <2> HIDE DEF TaskOK, LoopOK, PlacesOK, ConfirmedFirst, CountsResolvers, Numbered
  <2>1. UNCHANGED <<by, autos, cur>> /\ \A x \in Runs : pc'[x] = "tool" => pc[x] = "tool"
    BY <1>29 DEF ResolveAfter
  <2>2. \A x \in Tasks : task[x] # "absent" => task'[x] # "absent"
    BY <1>29 DEF ResolveAfter
  <2>3. \A x \in Tasks : task'[x] = "waiting" \/ tpc'[x] # "none"
                          => task[x] = "waiting" \/ tpc[x] # "none"
    BY <1>29 DEF ResolveAfter
  <2>. QED
    BY <2>1, <2>2, <2>3, PlacesKept
<1>30. ASSUME NEW r \in Runs, AppendDelta(r) PROVE PlacesOK'
  BY <1>30 DEF AppendDelta
<1> QED
  BY <1>1, <1>2, <1>3, <1>4, <1>5, <1>6, <1>7, <1>8, <1>9, <1>10, <1>11, <1>12, <1>13, <1>14,
     <1>15, <1>16, <1>17, <1>18, <1>19, <1>20, <1>21, <1>22, <1>23, <1>24, <1>25, <1>26, <1>27,
     <1>28, <1>29, <1>30
     DEF Next, Chat, Edit, End, Loop, Resolver

\* Runs begin one after the other, and words are forgotten when the answer has been heard.
LEMMA RunsStep ==
  ASSUME IInv, RunsOK, Next
  PROVE  RunsOK'
<1> USE DEF session, messages, spoken, resolvers, loops, contexts, IInv, TypeOK, SessionType,
      TaskType, LoopType, MessageType, Numbered, RunsOK, Runs, None, Nowhere, Hidden
<1>1. ASSUME SendUserMessage PROVE RunsOK'
  BY <1>1 DEF SendUserMessage, Launch, HasPending, Waiting
<1>2. ASSUME NEW i \in users, RegenerateAfterUserMessage(i) PROVE RunsOK'
  <2>1. UNCHANGED toolRun /\ runs' = runs + 1 /\ pc' = [pc EXCEPT ![runs + 1] = "start"]
    BY <1>2 DEF RegenerateAfterUserMessage, Launch
  <2>2. \A x \in Runs : shownAt[x] = Nowhere => shownAt'[x] = Nowhere
    BY <1>2 DEF RegenerateAfterUserMessage, Truncate
  <2>. QED
    BY <2>1, <2>2
<1>3. ASSUME NEW i \in users, UpdateUserMessage(i) \/ DeleteMessage(i) PROVE RunsOK'
  <2>1. PICK n \in Nat : Truncate(n) /\ UNCHANGED <<toolRun, runs, pc>>
    BY <1>3, CutPlace DEF Shorten
  <2>2. \A x \in Runs : shownAt[x] = Nowhere => shownAt'[x] = Nowhere
    BY <2>1 DEF Truncate
  <2>. QED
    BY <2>1, <2>2
<1>4. ASSUME NEW S \in SUBSET Waiting, NEW d \in Decisions(S), ConfirmTasks(S, d) PROVE RunsOK'
  <2>1. UNCHANGED shownAt
    BY <1>4 DEF ConfirmTasks
  <2>2. CASE toolRun # None
    BY <1>4, <2>1, <2>2 DEF ConfirmTasks
  <2>3. CASE toolRun = None
    <3>1. /\ toolRun' = runs + 1 /\ runs' = runs + 1 /\ runs + 1 \in Runs
          /\ pc' = [pc EXCEPT ![runs + 1] = "tools"]
      <4>1. runs < MaxRuns /\ toolRun' = runs + 1 /\ runs' = runs + 1
        BY <1>4, <2>3 DEF ConfirmTasks
      <4>2. pc' = [pc EXCEPT ![runs + 1] = "tools"]
        BY <1>4, <2>3 DEF ConfirmTasks
      <4>. QED
        BY <4>1, <4>2, ChatAssumption
    <3>2. pc[runs + 1] = "off"
      BY <3>1
    <3>. QED
      BY <2>1, <3>1, <3>2
  <2>. QED
    BY <2>2, <2>3
<1>5. ASSUME CancelSession PROVE RunsOK'
  BY <1>5 DEF CancelSession, Forget, CancelActive, Taken
<1>6. ASSUME CloseSession PROVE RunsOK'
  BY <1>6 DEF CloseSession, Forget, CancelActive, Taken
<1>7. ASSUME DeleteSession PROVE RunsOK'
  BY <1>7 DEF DeleteSession, Forget, Taken
<1>8. ASSUME CleanupLoop PROVE RunsOK'
  BY <1>8 DEF CleanupLoop, Forget, Taken, Cancelled
<1>9. ASSUME NEW r \in Runs, Start(r) PROVE RunsOK'
  BY <1>9 DEF Start
<1>10. ASSUME NEW r \in Runs, Ask(r) PROVE RunsOK'
  BY <1>10 DEF Ask
<1>11. ASSUME NEW r \in Runs, StreamFails(r) PROVE RunsOK'
  BY <1>11 DEF StreamFails
<1>12. ASSUME NEW r \in Runs, NEW C \in SUBSET Uncalled, StreamEnds(r, C) PROVE RunsOK'
  BY <1>12 DEF StreamEnds, Uncalled
<1>13. ASSUME NEW r \in Runs, NEW t \in Tasks, MakeUnknown(r, t) PROVE RunsOK'
  BY <1>13 DEF MakeUnknown, Answer
<1>14. ASSUME NEW r \in Runs, NEW t \in Tasks, MakeTask(r, t) PROVE RunsOK'
  BY <1>14 DEF MakeTask
<1>15. ASSUME NEW r \in Runs, NEW t \in Tasks, AutoBegin(r, t) PROVE RunsOK'
  BY <1>15 DEF AutoBegin, ExecuteBegin, Exists
<1>16. ASSUME NEW r \in Runs, MarkWaiting(r) PROVE RunsOK'
  <2>1. UNCHANGED <<toolRun, runs, shownAt>> /\ pc[r] = "mark"
    BY <1>16 DEF MarkWaiting
  <2>2. pc' = pc \/ pc' = [pc EXCEPT ![r] = "make"]
    BY <1>16 DEF MarkWaiting
  <2>. QED
    BY <2>1, <2>2
<1>17. ASSUME NEW r \in Runs, AutoEnd(r) PROVE RunsOK'
  BY <1>17 DEF AutoEnd, ExecuteEnd, Exists, Answer
<1>18. ASSUME NEW r \in Runs, Check(r) PROVE RunsOK'
  BY <1>18 DEF Check
<1>19. ASSUME NEW r \in Runs, Again(r) PROVE RunsOK'
  BY <1>19 DEF Again, TasksDone
<1>20. ASSUME NEW r \in Runs, Wrap(r) PROVE RunsOK'
  BY <1>20 DEF Wrap, TasksDone, EndRun
<1>21. ASSUME NEW r \in Runs, Complete(r) PROVE RunsOK'
  BY <1>21 DEF Complete, EndRun
<1>22. ASSUME NEW r \in Runs, CallCancel(r) PROVE RunsOK'
  BY <1>22 DEF CallCancel, Cancelled
<1>23. ASSUME NEW r \in Runs, Expire(r) PROVE RunsOK'
  BY <1>23 DEF Expire
<1>24. ASSUME NEW t \in Tasks, ResolveGone(t) PROVE RunsOK'
  BY <1>24 DEF ResolveGone
<1>25. ASSUME NEW t \in Tasks, ResolveSkip(t) PROVE RunsOK'
  BY <1>25 DEF ResolveSkip
<1>26. ASSUME NEW t \in Tasks, ResolveBegin(t) PROVE RunsOK'
  BY <1>26 DEF ResolveBegin, ExecuteBegin, Exists
<1>27. ASSUME NEW t \in Tasks, ResolveEnd(t) PROVE RunsOK'
  BY <1>27 DEF ResolveEnd, ExecuteEnd, Exists, Answer
<1>28. ASSUME NEW t \in Tasks, RejectTask(t) PROVE RunsOK'
  BY <1>28 DEF RejectTask, Exists, Answer
<1>29. ASSUME NEW t \in Tasks, ResolveAfter(t) PROVE RunsOK'
  <2>1. UNCHANGED <<runs, shownAt>>
    BY <1>29 DEF ResolveAfter
  <2>5. \A x \in Runs : pc'[x] = pc[x] \/ (pc[x] = "tools" /\ pc'[x] \in {"done", "start"})
    <3>1. \/ pc' = pc
          \/ /\ toolRun = trun[t]
             /\ pc' = [pc EXCEPT ![trun[t]] = "done"] \/ pc' = [pc EXCEPT ![trun[t]] = "start"]
      BY <1>29 DEF ResolveAfter
    <3>2. toolRun # None => pc[toolRun] = "tools"
      OBVIOUS
    <3>3. ASSUME NEW x \in Runs, x = toolRun PROVE pc[x] = "tools"
      BY <3>2, <3>3
    <3>4. pc \in [Runs -> {"off", "tools", "start", "ask", "stream", "make", "mark", "tool",
          "check",
                          "complete", "done"}]
      OBVIOUS
    <3> HIDE DEF RunsOK, IInv
    <3>. QED
      BY <3>1, <3>3, <3>4
  <2>2. toolRun' = toolRun \/ (toolRun' = None /\ toolRun = trun[t])
    BY <1>29 DEF ResolveAfter
  <2>3. toolRun' # None => pc' = pc
    BY <1>29 DEF ResolveAfter
  <2>. QED
    BY <2>1, <2>2, <2>3, <2>5
<1>30. ASSUME NEW r \in Runs, AppendDelta(r) PROVE RunsOK'
  BY <1>30 DEF AppendDelta
<1> QED
  BY <1>1, <1>2, <1>3, <1>4, <1>5, <1>6, <1>7, <1>8, <1>9, <1>10, <1>11, <1>12, <1>13, <1>14,
     <1>15, <1>16, <1>17, <1>18, <1>19, <1>20, <1>21, <1>22, <1>23, <1>24, <1>25, <1>26, <1>27,
     <1>28, <1>29, <1>30
     DEF Next, Chat, Edit, End, Loop, Resolver

\* Only an answer brings a task into play.
LEMMA PlayBack ==
  ASSUME IInv, PlacesOK, Next, NEW q \in Tasks, InPlay(q)'
  PROVE  InPlay(q) \/ by'[q] # by[q]
<1> USE DEF session, messages, spoken, resolvers, loops, contexts, IInv, TypeOK, TaskType,
      LoopType, TaskOK, LoopOK, PlacesOK, InPlay, Held, Making, None, Runs
<1>1. ASSUME SendUserMessage PROVE InPlay(q) \/ by'[q] # by[q]
  BY <1>1 DEF SendUserMessage, Launch, HasPending, Waiting
<1>2. ASSUME NEW i \in users, RegenerateAfterUserMessage(i) PROVE InPlay(q) \/ by'[q] # by[q]
  <2> HIDE DEF TaskOK, LoopOK, PlacesOK, InPlay, Held
  <2>1. Truncate(i) /\ UNCHANGED <<by, todo, autos, cur, tpc>>
    BY <1>2 DEF RegenerateAfterUserMessage, Launch
  <2>2. \A x \in Runs : pc'[x] \in Making => pc'[x] = pc[x]
    BY <1>2 DEF RegenerateAfterUserMessage, Launch
  <2>3. Held(q)' => Held(q)
    BY <2>1, <2>2, HeldKept
  <2>4. task'[q] = "waiting" => task[q] = "waiting"
    BY <2>1, TruncateEffect
  <2>. QED
    BY <2>1, <2>3, <2>4 DEF InPlay
<1>3. ASSUME NEW i \in users,
      UpdateUserMessage(i) \/ DeleteMessage(i) PROVE InPlay(q) \/ by'[q] # by[q]
  <2> HIDE DEF TaskOK, LoopOK, PlacesOK, InPlay, Held
  <2>1. PICK n \in Nat : Truncate(n) /\ UNCHANGED <<by, todo, autos, cur, tpc, pc>>
    BY <1>3, CutPlace DEF Shorten
  <2>2. Held(q)' => Held(q)
    BY <2>1, HeldKept
  <2>3. task'[q] = "waiting" => task[q] = "waiting"
    BY <2>1, TruncateEffect
  <2>. QED
    BY <2>1, <2>2, <2>3 DEF InPlay
<1>4. ASSUME NEW S \in SUBSET Waiting, NEW d \in Decisions(S), ConfirmTasks(S,
      d) PROVE InPlay(q) \/ by'[q] # by[q]
  <2> HIDE DEF TaskOK, LoopOK, PlacesOK, InPlay, Held
  <2>1. UNCHANGED <<by, todo, autos, cur>>
    BY <1>4 DEF ConfirmTasks, Waiting
  <2>2. \A x \in Runs : pc'[x] \in Making => pc'[x] = pc[x]
    BY <1>4 DEF ConfirmTasks, Waiting
  <2>3. Held(q)' => Held(q)
    BY <2>1, <2>2, HeldKept
  <2>4. task'[q] = "waiting" \/ tpc'[q] \in {"resolve", "tool"}
        => task[q] = "waiting" \/ tpc[q] \in {"resolve", "tool"}
    BY <1>4 DEF ConfirmTasks, Waiting
  <2>. QED
    BY <2>3, <2>4 DEF InPlay
<1>5. ASSUME CancelSession PROVE InPlay(q) \/ by'[q] # by[q]
  BY <1>5 DEF CancelSession, Forget, CancelActive, Taken
<1>6. ASSUME CloseSession PROVE InPlay(q) \/ by'[q] # by[q]
  BY <1>6 DEF CloseSession, Forget, CancelActive, Taken
<1>7. ASSUME DeleteSession PROVE InPlay(q) \/ by'[q] # by[q]
  BY <1>7 DEF DeleteSession, Forget, Taken
<1>8. ASSUME CleanupLoop PROVE InPlay(q) \/ by'[q] # by[q]
  BY <1>8 DEF CleanupLoop, Forget, Taken, Cancelled
<1>9. ASSUME NEW r \in Runs, Start(r) PROVE InPlay(q) \/ by'[q] # by[q]
  <2> HIDE DEF TaskOK, LoopOK, PlacesOK, InPlay, Held
  <2>1. UNCHANGED <<by, todo, autos, cur>>
    BY <1>9 DEF Start
  <2>2. \A x \in Runs : pc'[x] \in Making => pc'[x] = pc[x]
    BY <1>9 DEF Start
  <2>3. Held(q)' => Held(q)
    BY <2>1, <2>2, HeldKept
  <2>4. task'[q] = "waiting" \/ tpc'[q] \in {"resolve", "tool"}
        => task[q] = "waiting" \/ tpc[q] \in {"resolve", "tool"}
    BY <1>9 DEF Start
  <2>. QED
    BY <2>3, <2>4 DEF InPlay
<1>10. ASSUME NEW r \in Runs, Ask(r) PROVE InPlay(q) \/ by'[q] # by[q]
  BY <1>10 DEF Ask
<1>11. ASSUME NEW r \in Runs, StreamFails(r) PROVE InPlay(q) \/ by'[q] # by[q]
  BY <1>11 DEF StreamFails
<1>12. ASSUME NEW r \in Runs, NEW C \in SUBSET Uncalled, StreamEnds(r,
      C) PROVE InPlay(q) \/ by'[q] # by[q]
  BY <1>12 DEF StreamEnds, Uncalled
<1>13. ASSUME NEW r \in Runs, NEW t \in Tasks, MakeUnknown(r, t) PROVE InPlay(q) \/ by'[q] # by[q]
  BY <1>13 DEF MakeUnknown, Answer
<1>14. ASSUME NEW r \in Runs, NEW t \in Tasks, MakeTask(r, t) PROVE InPlay(q) \/ by'[q] # by[q]
  <2> HIDE DEF TaskOK, LoopOK, PlacesOK, InPlay, Held
  <2>1. t \in todo[r] /\ pc[r] = "make" /\ by[t] = r
    BY <1>14 DEF MakeTask, LoopOK
  <2>2. Held(t)
    BY <2>1 DEF Held, Making
  <2>3. UNCHANGED <<by, tpc>> /\ task' = [task EXCEPT ![t] = "queued"]
    BY <1>14 DEF MakeTask
  <2>4. ASSUME q # t, Held(q)' PROVE Held(q)
    <3>1. by[q] \in Runs /\ pc'[by[q]] \in Making
      BY <2>3, <2>4 DEF Held
    <3>2. pc[by[q]] \in Making
      BY <1>14, <3>1 DEF MakeTask, Making
    <3>3. CASE by[q] # r
      <4>1. /\ pc'[by[q]] = pc[by[q]] /\ cur'[by[q]] = cur[by[q]]
            /\ todo'[by[q]] = todo[by[q]] /\ autos'[by[q]] = autos[by[q]]
        BY <1>14, <3>1, <3>3 DEF MakeTask
      <4>. QED
        BY <2>3, <2>4, <4>1 DEF Held
    <3>4. CASE by[q] = r
      <4>2. /\ todo'[r] \subseteq todo[r] /\ autos'[r] \subseteq autos[r] \cup {t}
            /\ pc'[r] # "tool" /\ (pc'[r] = "mark" => cur'[r] = t)
        BY <1>14 DEF MakeTask
      <4>1. q \in todo[r] \cup autos[r]
        BY <2>3, <2>4, <3>4, <4>2 DEF Held
      <4>. QED
        BY <3>1, <3>2, <3>4, <4>1 DEF Held
    <3>. QED
      BY <3>3, <3>4
  <2>. QED
    BY <2>2, <2>3, <2>4 DEF InPlay
<1>15. ASSUME NEW r \in Runs, NEW t \in Tasks, AutoBegin(r, t) PROVE InPlay(q) \/ by'[q] # by[q]
  BY <1>15 DEF AutoBegin, ExecuteBegin, Exists
<1>16. ASSUME NEW r \in Runs, MarkWaiting(r) PROVE InPlay(q) \/ by'[q] # by[q]
  <2> HIDE DEF TaskOK, LoopOK, PlacesOK, InPlay, Held
  <2>1. cur[r] \in Tasks /\ Held(cur[r])
    <3>1. pc[r] = "mark" /\ cur[r] \in Confirmable /\ by[cur[r]] = r
      BY <1>16 DEF MarkWaiting, LoopOK
    <3>. QED
      BY <3>1, ChatAssumption DEF Held, Making
  <2>2. UNCHANGED <<by, tpc, todo, autos>>
    BY <1>16 DEF MarkWaiting
  <2>3. ASSUME q # cur[r] PROVE task'[q] = task[q]
    BY <1>16, <2>3 DEF MarkWaiting
  <2>4. ASSUME q # cur[r], Held(q)' PROVE Held(q)
    <3>1. by[q] \in Runs /\ pc'[by[q]] \in Making
      BY <2>2, <2>4 DEF Held
    <3>2. CASE by[q] # r
      <4>2. \/ pc' = [pc EXCEPT ![r] = "make"] /\ cur' = [cur EXCEPT ![r] = NoTask]
            \/ UNCHANGED <<pc, cur>>
        BY <1>16 DEF MarkWaiting
      <4>1. pc'[by[q]] = pc[by[q]] /\ cur'[by[q]] = cur[by[q]]
        BY <3>1, <3>2, <4>2
      <4>. QED
        BY <2>2, <2>4, <4>1 DEF Held
    <3>3. CASE by[q] = r
      <4>2. pc[r] = "mark" /\ (pc'[r] = "make" \/ (pc'[r] = "mark" /\ cur'[r] = cur[r]))
        BY <1>16 DEF MarkWaiting
      <4>1. pc[r] = "mark" /\ q \in todo[r] \cup autos[r]
        BY <2>2, <2>4, <3>3, <4>2 DEF Held
      <4>. QED
        BY <3>1, <3>3, <4>1 DEF Held, Making
    <3>. QED
      BY <3>2, <3>3
  <2>. QED
    BY <2>1, <2>2, <2>3, <2>4 DEF InPlay
<1>17. ASSUME NEW r \in Runs, AutoEnd(r) PROVE InPlay(q) \/ by'[q] # by[q]
  BY <1>17 DEF AutoEnd, ExecuteEnd, Exists, Answer
<1>18. ASSUME NEW r \in Runs, Check(r) PROVE InPlay(q) \/ by'[q] # by[q]
  BY <1>18 DEF Check
<1>19. ASSUME NEW r \in Runs, Again(r) PROVE InPlay(q) \/ by'[q] # by[q]
  BY <1>19 DEF Again, TasksDone
<1>20. ASSUME NEW r \in Runs, Wrap(r) PROVE InPlay(q) \/ by'[q] # by[q]
  BY <1>20 DEF Wrap, TasksDone, EndRun
<1>21. ASSUME NEW r \in Runs, Complete(r) PROVE InPlay(q) \/ by'[q] # by[q]
  BY <1>21 DEF Complete, EndRun
<1>22. ASSUME NEW r \in Runs, CallCancel(r) PROVE InPlay(q) \/ by'[q] # by[q]
  BY <1>22 DEF CallCancel, Cancelled
<1>23. ASSUME NEW r \in Runs, Expire(r) PROVE InPlay(q) \/ by'[q] # by[q]
  BY <1>23 DEF Expire
<1>24. ASSUME NEW t \in Tasks, ResolveGone(t) PROVE InPlay(q) \/ by'[q] # by[q]
  BY <1>24 DEF ResolveGone
<1>25. ASSUME NEW t \in Tasks, ResolveSkip(t) PROVE InPlay(q) \/ by'[q] # by[q]
  BY <1>25 DEF ResolveSkip
<1>26. ASSUME NEW t \in Tasks, ResolveBegin(t) PROVE InPlay(q) \/ by'[q] # by[q]
  BY <1>26 DEF ResolveBegin, ExecuteBegin, Exists
<1>27. ASSUME NEW t \in Tasks, ResolveEnd(t) PROVE InPlay(q) \/ by'[q] # by[q]
  BY <1>27 DEF ResolveEnd, ExecuteEnd, Exists, Answer
<1>28. ASSUME NEW t \in Tasks, RejectTask(t) PROVE InPlay(q) \/ by'[q] # by[q]
  BY <1>28 DEF RejectTask, Exists, Answer
<1>29. ASSUME NEW t \in Tasks, ResolveAfter(t) PROVE InPlay(q) \/ by'[q] # by[q]
  <2> HIDE DEF TaskOK, LoopOK, PlacesOK, InPlay, Held
  <2>1. UNCHANGED <<by, todo, autos, cur>>
    BY <1>29 DEF ResolveAfter
  <2>2. \A x \in Runs : pc'[x] \in Making => pc'[x] = pc[x]
    BY <1>29 DEF ResolveAfter
  <2>3. Held(q)' => Held(q)
    BY <2>1, <2>2, HeldKept
  <2>4. task'[q] = "waiting" \/ tpc'[q] \in {"resolve", "tool"}
        => task[q] = "waiting" \/ tpc[q] \in {"resolve", "tool"}
    BY <1>29 DEF ResolveAfter
  <2>. QED
    BY <2>3, <2>4 DEF InPlay
<1>30. ASSUME NEW r \in Runs, AppendDelta(r) PROVE InPlay(q) \/ by'[q] # by[q]
  BY <1>30 DEF AppendDelta
<1> QED
  BY <1>1, <1>2, <1>3, <1>4, <1>5, <1>6, <1>7, <1>8, <1>9, <1>10, <1>11, <1>12, <1>13, <1>14,
     <1>15, <1>16, <1>17, <1>18, <1>19, <1>20, <1>21, <1>22, <1>23, <1>24, <1>25, <1>26, <1>27,
     <1>28, <1>29, <1>30
     DEF Next, Chat, Edit, End, Loop, Resolver

\* What a step does to the messages.
LEMMA MessageEffect ==
  ASSUME IInv, PlacesOK, Next
  PROVE  Still \/ SendUserMessage \/ Cut \/ Said
<1> USE DEF session, messages, spoken, resolvers, loops, contexts, IInv, TypeOK, TaskType,
      TaskStates, None, Runs, Still
<1>1. ASSUME SendUserMessage PROVE Still \/ SendUserMessage \/ Cut \/ Said
  BY <1>1
<1>2. ASSUME NEW i \in users,
      RegenerateAfterUserMessage(i) PROVE Still \/ SendUserMessage \/ Cut \/ Said
  <2> HIDE DEF Still
  <2>1. Truncate(i) /\ ~processing /\ UNCHANGED <<by, resolvers, loops>>
    BY <1>2 DEF RegenerateAfterUserMessage, Launch
  <2>2. i \in Nat
    BY DEF MessageType
  <2>3. \A x \in Runs : pc'[x] \in Making => pc'[x] = pc[x]
    BY <1>2 DEF RegenerateAfterUserMessage, Launch, Making, LoopType
  <2>. QED
    BY <2>1, <2>2, <2>3 DEF Cut
<1>3. ASSUME NEW i \in users,
      UpdateUserMessage(i) \/ DeleteMessage(i) PROVE Still \/ SendUserMessage \/ Cut \/ Said
  <2> HIDE DEF Still
  <2>1. PICK n \in {i, i - 1} : n \in Nat /\ Truncate(n) /\ Shorten(n)
    BY <1>3, CutPlace
  <2>2. ~processing /\ UNCHANGED <<by, resolvers, loops, pc>>
    BY <2>1 DEF Shorten
  <2>3. n <= i
    BY <2>1 DEF MessageType
  <2>. QED
    BY <2>1, <2>2, <2>3 DEF Cut
<1>4. ASSUME NEW S \in SUBSET Waiting, NEW d \in Decisions(S), ConfirmTasks(S,
      d) PROVE Still \/ SendUserMessage \/ Cut \/ Said
  BY <1>4 DEF ConfirmTasks, Decisions, Waiting
<1>5. ASSUME CancelSession PROVE Still \/ SendUserMessage \/ Cut \/ Said
  BY <1>5 DEF CancelSession, Forget, CancelActive, Taken
<1>6. ASSUME CloseSession PROVE Still \/ SendUserMessage \/ Cut \/ Said
  BY <1>6 DEF CloseSession, Forget, CancelActive, Taken
<1>7. ASSUME DeleteSession PROVE Still \/ SendUserMessage \/ Cut \/ Said
  BY <1>7 DEF DeleteSession, Forget, Taken
<1>8. ASSUME CleanupLoop PROVE Still \/ SendUserMessage \/ Cut \/ Said
  BY <1>8 DEF CleanupLoop, Forget, Taken, Cancelled
<1>9. ASSUME NEW r \in Runs, Start(r) PROVE Still \/ SendUserMessage \/ Cut \/ Said
  BY <1>9 DEF Start
<1>10. ASSUME NEW r \in Runs, Ask(r) PROVE Still \/ SendUserMessage \/ Cut \/ Said
  BY <1>10 DEF Ask
<1>11. ASSUME NEW r \in Runs, StreamFails(r) PROVE Still \/ SendUserMessage \/ Cut \/ Said
  BY <1>11 DEF StreamFails
<1>12. ASSUME NEW r \in Runs, NEW C \in SUBSET Uncalled, StreamEnds(r,
      C) PROVE Still \/ SendUserMessage \/ Cut \/ Said
  BY <1>12 DEF Said
<1>13. ASSUME NEW r \in Runs, NEW t \in Tasks, MakeUnknown(r,
      t) PROVE Still \/ SendUserMessage \/ Cut \/ Said
  <2> HIDE DEF Still
  <2>1. pc[r] = "make" /\ t \in todo[r] /\ t \notin Confirmable /\ by[t] = r /\ task[t] = "absent"
    BY <1>13 DEF MakeUnknown, LoopOK
  <2>2. InPlay(t)
    BY <2>1 DEF InPlay, Held, Making
  <2>3. /\ UNCHANGED <<by, autos, cur, pc, tpc>> /\ todo' = [todo EXCEPT ![r] = @ \ {t}]
        /\ task' = [task EXCEPT ![t] = "failed"] /\ Answer(t)
    BY <1>13 DEF MakeUnknown
  <2>4. ~InPlay(t)'
    <3>1. t \notin autos[r] /\ tpc[t] = "none"
      BY <2>1 DEF PlacesOK, TaskOK
    <3>4. /\ t \notin todo'[r] /\ autos'[r] = autos[r] /\ pc'[r] = "make" /\ by'[t] = r
      BY <2>1, <2>3 DEF LoopType
    <3>2. ~Held(t)'
      BY <3>1, <3>4 DEF Held
    <3>3. task'[t] # "waiting"
      BY <2>3
    <3>. QED
      BY <2>3, <3>1, <3>2, <3>3 DEF InPlay
  <2>5. UNCHANGED <<users, turns, homeAt, callAt>>
    BY <1>13 DEF MakeUnknown
  <2>6. \A q \in Tasks : task'[q] = "removed" => task[q] = "removed"
    BY <2>3
  <2>. QED
    BY <2>2, <2>3, <2>4, <2>5, <2>6, AnswerStill
<1>14. ASSUME NEW r \in Runs, NEW t \in Tasks, MakeTask(r,
      t) PROVE Still \/ SendUserMessage \/ Cut \/ Said
  BY <1>14 DEF MakeTask
<1>15. ASSUME NEW r \in Runs, NEW t \in Tasks, AutoBegin(r,
      t) PROVE Still \/ SendUserMessage \/ Cut \/ Said
  BY <1>15 DEF AutoBegin, ExecuteBegin, Exists
<1>16. ASSUME NEW r \in Runs, MarkWaiting(r) PROVE Still \/ SendUserMessage \/ Cut \/ Said
  BY <1>16 DEF MarkWaiting, Exists
<1>17. ASSUME NEW r \in Runs, AutoEnd(r) PROVE Still \/ SendUserMessage \/ Cut \/ Said
  <2> HIDE DEF Still
  <2>11. cur[r] \in Tasks
    BY <1>17 DEF AutoEnd, LoopOK
  <2>10. PICK t \in Tasks : t = cur[r]
    BY <2>11
  <2>1. /\ pc[r] = "tool" /\ t \in Tasks \ Confirmable /\ by[t] = r /\ task[t] # "absent"
        /\ t \notin autos[r]
    BY <1>17, <2>10 DEF AutoEnd, LoopOK, PlacesOK
  <2>2. InPlay(t)
    BY <2>1, <2>10 DEF InPlay, Held, Making
  <2>3. /\ UNCHANGED <<by, todo, autos, tpc>> /\ pc' = [pc EXCEPT ![r] = "check"]
        /\ ExecuteEnd(t, r)
    BY <1>17, <2>10 DEF AutoEnd
  <2>4. \A q \in Tasks : task'[q] # task[q] => task'[q] \in {"cancelled", "succeeded", "failed"}
    BY <2>1, <2>3, EndEffect
  <2>5. ~InPlay(t)'
    <3>1. t \notin todo[r] /\ task[t] # "waiting" /\ tpc[t] = "none"
      BY <2>1 DEF PlacesOK, LoopOK
    <3>2. pc'[r] = "check" /\ by'[t] = r /\ UNCHANGED <<todo, autos>>
      BY <2>1, <2>3 DEF LoopType
    <3>3. ~Held(t)'
      BY <2>1, <3>1, <3>2 DEF Held
    <3>. QED
      BY <2>1, <2>3, <2>4, <3>1, <3>3 DEF InPlay
  <2>6. UNCHANGED replyAt \/ Answer(t)
    BY <2>1, <2>3, ReplyEffect
  <2>7. UNCHANGED <<users, turns, homeAt, callAt>>
    BY <1>17 DEF AutoEnd
  <2>8. \A q \in Tasks : task'[q] = "removed" => task[q] = "removed"
    BY <2>4
  <2>. QED
    BY <2>1, <2>2, <2>3, <2>5, <2>6, <2>7, <2>8, AnswerStill
<1>18. ASSUME NEW r \in Runs, Check(r) PROVE Still \/ SendUserMessage \/ Cut \/ Said
  BY <1>18 DEF Check
<1>19. ASSUME NEW r \in Runs, Again(r) PROVE Still \/ SendUserMessage \/ Cut \/ Said
  BY <1>19 DEF Again, TasksDone
<1>20. ASSUME NEW r \in Runs, Wrap(r) PROVE Still \/ SendUserMessage \/ Cut \/ Said
  BY <1>20 DEF Wrap, TasksDone, EndRun
<1>21. ASSUME NEW r \in Runs, Complete(r) PROVE Still \/ SendUserMessage \/ Cut \/ Said
  BY <1>21 DEF Complete, EndRun
<1>22. ASSUME NEW r \in Runs, CallCancel(r) PROVE Still \/ SendUserMessage \/ Cut \/ Said
  BY <1>22 DEF CallCancel, Cancelled
<1>23. ASSUME NEW r \in Runs, Expire(r) PROVE Still \/ SendUserMessage \/ Cut \/ Said
  BY <1>23 DEF Expire
<1>24. ASSUME NEW t \in Tasks, ResolveGone(t) PROVE Still \/ SendUserMessage \/ Cut \/ Said
  BY <1>24 DEF ResolveGone
<1>25. ASSUME NEW t \in Tasks, ResolveSkip(t) PROVE Still \/ SendUserMessage \/ Cut \/ Said
  BY <1>25 DEF ResolveSkip
<1>26. ASSUME NEW t \in Tasks, ResolveBegin(t) PROVE Still \/ SendUserMessage \/ Cut \/ Said
  BY <1>26 DEF ResolveBegin, ExecuteBegin, Exists
<1>27. ASSUME NEW t \in Tasks, ResolveEnd(t) PROVE Still \/ SendUserMessage \/ Cut \/ Said
  <2> HIDE DEF Still
  <2>1. t \in Confirmable /\ task[t] \notin {"absent", "waiting",
        "queued"} /\ tpc[t] \in {"resolve", "tool"}
    BY <1>27 DEF ResolveEnd, PlacesOK, TaskOK
  <2>2. InPlay(t)
    BY <2>1 DEF InPlay
  <2>3. /\ UNCHANGED <<by, todo, autos, cur, pc>> /\ tpc' = [tpc EXCEPT ![t] = "after"]
    BY <1>27 DEF ResolveEnd
  <2>4. \A q \in Tasks : task'[q] # task[q] => task'[q] \in {"cancelled", "succeeded", "failed"}
    <3>1. ExecuteEnd(t, trun[t])
      BY <1>27 DEF ResolveEnd
    <3>. QED
      BY <3>1, EndEffect
  <2>5. ~InPlay(t)'
    <3>1. ~Held(t)
      BY <2>1 DEF Held, Making, LoopOK, PlacesOK, TaskOK
    <3>2. ~Held(t)'
      BY <2>3, <3>1 DEF Held
    <3>. QED
      BY <2>1, <2>3, <2>4, <3>2 DEF InPlay
  <2>6. UNCHANGED replyAt \/ Answer(t)
    BY <1>27, ReplyEffect DEF ResolveEnd
  <2>7. UNCHANGED <<users, turns, homeAt, callAt>>
    BY <1>27 DEF ResolveEnd
  <2>8. \A q \in Tasks : task'[q] = "removed" => task[q] = "removed"
    BY <2>4
  <2>. QED
    BY <2>2, <2>3, <2>5, <2>6, <2>7, <2>8, AnswerStill
<1>28. ASSUME NEW t \in Tasks, RejectTask(t) PROVE Still \/ SendUserMessage \/ Cut \/ Said
  <2> HIDE DEF Still
  <2>1. t \in Confirmable /\ task[t] \notin {"absent", "waiting",
        "queued"} /\ tpc[t] \in {"resolve", "tool"}
    BY <1>28 DEF RejectTask, PlacesOK, TaskOK
  <2>2. InPlay(t)
    BY <2>1 DEF InPlay
  <2>3. /\ UNCHANGED <<by, todo, autos, cur, pc>> /\ tpc' = [tpc EXCEPT ![t] = "after"]
    BY <1>28 DEF RejectTask
  <2>4. \A q \in Tasks : task'[q] # task[q] => task'[q] \in {"cancelled", "succeeded", "failed"}
    BY <1>28 DEF RejectTask
  <2>5. ~InPlay(t)'
    <3>1. ~Held(t)
      BY <2>1 DEF Held, Making, LoopOK, PlacesOK, TaskOK
    <3>2. ~Held(t)'
      BY <2>3, <3>1 DEF Held
    <3>. QED
      BY <2>1, <2>3, <2>4, <3>2 DEF InPlay
  <2>6. UNCHANGED replyAt \/ Answer(t)
    BY <1>28, ReplyEffect DEF ResolveEnd
  <2>7. UNCHANGED <<users, turns, homeAt, callAt>>
    BY <1>28 DEF RejectTask
  <2>8. \A q \in Tasks : task'[q] = "removed" => task[q] = "removed"
    BY <2>4
  <2>. QED
    BY <2>2, <2>3, <2>5, <2>6, <2>7, <2>8, AnswerStill
<1>29. ASSUME NEW t \in Tasks, ResolveAfter(t) PROVE Still \/ SendUserMessage \/ Cut \/ Said
  BY <1>29 DEF ResolveAfter, HasPending, Waiting
<1>30. ASSUME NEW r \in Runs, AppendDelta(r) PROVE Still \/ SendUserMessage \/ Cut \/ Said
  BY <1>30 DEF AppendDelta
<1> QED
  BY <1>1, <1>2, <1>3, <1>4, <1>5, <1>6, <1>7, <1>8, <1>9, <1>10, <1>11, <1>12, <1>13, <1>14,
     <1>15, <1>16, <1>17, <1>18, <1>19, <1>20, <1>21, <1>22, <1>23, <1>24, <1>25, <1>26, <1>27,
     <1>28, <1>29, <1>30
     DEF Next, Chat, Edit, End, Loop, Resolver

\* Who was told to stop: nothing gives its calls to others.
LEMMA StoppedStays ==
  ASSUME IInv, OriginOK, Next, NEW q \in Tasks, Stopped(q)
  PROVE  Stopped(q)'
<1>1. PICK r \in {by[q], trun[q]} \ {None} : Dead(r)
  BY DEF Stopped
<1>2. r \in Runs
  BY <1>1 DEF IInv, TypeOK, TaskType
<1>3. Dead(r)'
  BY <1>1, <1>2, DeadStays
<1>4. r \in {by'[q], trun'[q]}
  BY <1>1, OriginStays DEF OriginKept
<1> QED
  BY <1>1, <1>3, <1>4 DEF Stopped, None

\* While the lists correspond, an answer that is heard finds nobody else in play.
LEMMA SaidAlone ==
  ASSUME IInv, SoloInv, PlayOK, WaitOK, ~early, NEW r \in Runs, NEW C \in SUBSET Uncalled,
         StreamEnds(r, C), ~askew', NEW q \in Tasks, InPlay(q), ~Stopped(q)
  PROVE  FALSE
<1>1. callAt[q] = turns /\ replyAt[q] = Nowhere /\ turns \in Nat
  BY DEF PlayOK, IInv, TypeOK, MessageType
<1>2. q \in Called \ Answered
  BY <1>1 DEF Called, Answered, Nowhere
<1>3. currentRunID = r /\ r # None /\ pc[r] = "stream"
  <2>1. askew' = (askew \/ (currentRunID # r /\ Called \ Answered # {}))
    BY DEF StreamEnds
  <2>2. currentRunID = r
    BY <1>2, <2>1
  <2>. QED
    BY <2>2 DEF StreamEnds, Runs, None
<1>4. toolRun = None
  BY <1>3 DEF SoloInv, Solo
<1>5. CASE task[q] = "waiting"
  <2>1. by[q] # None /\ by[q] \in Runs
    BY <1>5 DEF IInv, TypeOK, TaskType, TaskOK
  <2>2. ~Dead(by[q])
    BY <2>1 DEF Stopped
  <2>. QED
    BY <1>3, <1>5, <2>2 DEF WaitOK, Making
<1>6. CASE Held(q)
  BY <1>3, <1>6, WhoPlays DEF Held, Making
<1>7. CASE tpc[q] \in {"resolve", "tool"}
  BY <1>4, <1>7, WhoPlays
<1> QED
  BY <1>5, <1>6, <1>7 DEF InPlay

\* A cut finds in play only what waits for the user, and takes it out.
LEMMA CutEnds ==
  ASSUME IInv, SoloInv, PlacesOK, PlayOK, ~early, Cut, NEW q \in Tasks, InPlay(q), ~Stopped(q)
  PROVE  callAt'[q] = Nowhere /\ ~InPlay(q)'
<1>1. PICK n \in Nat : /\ Truncate(n) /\ ~processing /\ \E i \in users : n <= i
                      /\ UNCHANGED <<by, resolvers, loops>>
                      /\ \A r \in Runs : pc'[r] \in Making => pc'[r] = pc[r]
  BY DEF Cut
<1>2. PICK i \in users : n <= i
  BY <1>1
<1>3. i \in Nat /\ callAt[q] \in Nat \cup {Nowhere} /\ homeAt[q] \in Nat /\ turns \in Nat
  BY DEF IInv, TypeOK, MessageType, Place
<1>4. task[q] = "waiting"
  BY <1>1, WhoPlays
<1>5. i < callAt[q] /\ (homeAt[q] = Hidden \/ i < homeAt[q])
  BY <1>2 DEF PlayOK
<1>6. callAt'[q] = Nowhere
  BY <1>1, <1>2, <1>3, <1>5 DEF Truncate
<1>7. homeAt[q] \notin 1 .. n
  BY <1>2, <1>3, <1>5 DEF Hidden
<1>8. task'[q] = "removed"
  BY <1>1, <1>4, <1>7 DEF Truncate, Exists
<1>9. ~Held(q)'
  <2>1. q \in Confirmable /\ tpc[q] = "none"
    BY <1>4 DEF PlacesOK, IInv, TaskOK
  <2>2. ~Held(q)
    BY <1>4, <2>1 DEF Held, IInv, LoopOK
  <2>. QED
    BY <1>1, <2>2, HeldKept DEF loops
<1>10. tpc'[q] = "none"
  BY <1>1, <1>4 DEF resolvers, IInv, TaskOK
<1> QED
  BY <1>6, <1>8, <1>9, <1>10 DEF InPlay

\* What is in play stays behind the messages of the user.
LEMMA PlayStep ==
  ASSUME IInv, SoloInv, OriginOK, PlacesOK, ListsOK, PlayOK, WaitOK, ~early, ~askew', Next
  PROVE  PlayOK'
<1> SUFFICES ASSUME NEW q \in Tasks, InPlay(q)', ~Stopped(q)'
             PROVE  /\ task'[q] # "removed"
                    /\ callAt'[q] = turns' /\ replyAt'[q] = Nowhere
                    /\ \A i \in users' : i < callAt'[q] /\ (homeAt'[q] = Hidden \/ i < homeAt'[q])
  BY DEF PlayOK
<1>1. ~Stopped(q)
  BY StoppedStays
<1>2. InPlay(q) \/ by'[q] # by[q]
  BY PlayBack
<1>3. CASE Still
  <2>1. InPlay(q) /\ by'[q] = by[q]
    BY <1>2, <1>3 DEF Still
  <2>. QED
    BY <1>1, <1>3, <2>1 DEF Still, PlayOK
<1>4. CASE SendUserMessage
  <2>1. InPlay(q)
    BY <1>2, <1>4 DEF SendUserMessage, Launch
  <2>2. ~processing /\ task[q] # "waiting"
    BY <1>4 DEF SendUserMessage, HasPending, Waiting
  <2>. QED
    BY <1>1, <2>1, <2>2, WhoPlays
<1>5. CASE Cut
  <2>1. InPlay(q)
    BY <1>2, <1>5 DEF Cut
  <2>. QED
    BY <1>1, <1>5, <2>1, CutEnds
<1>6. CASE Said
  <2>1. PICK r \in Runs, C \in SUBSET Uncalled : StreamEnds(r, C)
    BY <1>6 DEF Said
  <2>2. q \in C
    BY <1>1, <1>2, <2>1, SaidAlone DEF StreamEnds, IInv, TypeOK, TaskType
  <2>3. UNCHANGED <<task, replyAt, users, ctx, doomed>>
    BY <2>1 DEF StreamEnds, contexts
  <2>4. by'[q] = r /\ callAt'[q] = turns + 1 /\ turns' = turns + 1
    BY <2>1, <2>2 DEF StreamEnds
  <2>5. /\ by[q] = None /\ by'[q] = r /\ callAt'[q] = turns + 1 /\ turns' = turns + 1
        /\ UNCHANGED <<task, replyAt, users, ctx, doomed>>
    BY <2>2, <2>3, <2>4 DEF Uncalled
  <2>6. task[q] = "absent" /\ replyAt[q] = Nowhere
    BY <2>5 DEF IInv, TaskOK, OriginOK
  <2>7. ~Dead(r) /\ pc[r] = "stream"
    BY <2>1, <2>5 DEF StreamEnds, Stopped, Dead, Runs, None
  <2>8. PICK home \in {Hidden, shownAt[r], views + 1} : Upsert(r, home) /\ homeAt'[q] = home
    BY <2>1, <2>2 DEF StreamEnds
  <2>9. ASSUME NEW i \in users'
        PROVE  i < callAt'[q] /\ (homeAt'[q] = Hidden \/ i < homeAt'[q])
    <3>1. i \in users /\ i \in 1 .. views /\ views \in Nat /\ turns \in Nat
      BY <2>5, <2>9 DEF IInv, TypeOK, MessageType
    <3>2. i <= turns
      BY <3>1 DEF ListsOK
    <3>3. home = Hidden \/ home = views + 1 \/ i < home
      BY <2>7, <2>8, <3>1 DEF Upsert, ListsOK
    <3>. QED
      BY <2>5, <2>8, <3>1, <3>2, <3>3
  <2>. QED
    BY <2>5, <2>6, <2>9
<1> QED
  BY <1>3, <1>4, <1>5, <1>6, MessageEffect

\* Where the words that are being heard are.
LEMMA WordsEffect ==
  ASSUME IInv, RunsOK, Next, NEW x \in Runs, pc'[x] = "stream"
  PROVE  WordsPlace(x)
<1> USE DEF session, messages, spoken, resolvers, loops, contexts, WordsPlace, IInv, TypeOK,
      LoopType, MessageType, Place, RunsOK
<1>1. ASSUME SendUserMessage PROVE WordsPlace(x)
  BY <1>1 DEF SendUserMessage, Launch
<1>2. ASSUME NEW i \in users, RegenerateAfterUserMessage(i) PROVE WordsPlace(x)
  <2>1. Truncate(i)
    BY <1>2 DEF RegenerateAfterUserMessage
  <2>2. pc[x] = "stream"
    BY <1>2 DEF RegenerateAfterUserMessage, Launch
  <2>. QED
    BY <2>1, <2>2 DEF Truncate
<1>3. ASSUME NEW i \in users, UpdateUserMessage(i) \/ DeleteMessage(i) PROVE WordsPlace(x)
  <2>1. PICK n \in Nat : Truncate(n) /\ UNCHANGED pc
    BY <1>3, CutPlace DEF Shorten
  <2>. QED
    BY <2>1 DEF Truncate
<1>4. ASSUME NEW S \in SUBSET Waiting, NEW d \in Decisions(S), ConfirmTasks(S,
      d) PROVE WordsPlace(x)
  BY <1>4 DEF ConfirmTasks, Decisions, Waiting
<1>5. ASSUME CancelSession PROVE WordsPlace(x)
  BY <1>5 DEF CancelSession, Forget, CancelActive, Taken
<1>6. ASSUME CloseSession PROVE WordsPlace(x)
  BY <1>6 DEF CloseSession, Forget, CancelActive, Taken
<1>7. ASSUME DeleteSession PROVE WordsPlace(x)
  BY <1>7 DEF DeleteSession, Forget, Taken
<1>8. ASSUME CleanupLoop PROVE WordsPlace(x)
  BY <1>8 DEF CleanupLoop, Forget, Taken, Cancelled
<1>9. ASSUME NEW r \in Runs, Start(r) PROVE WordsPlace(x)
  BY <1>9 DEF Start
<1>10. ASSUME NEW r \in Runs, Ask(r) PROVE WordsPlace(x)
  BY <1>10 DEF Ask
<1>11. ASSUME NEW r \in Runs, StreamFails(r) PROVE WordsPlace(x)
  BY <1>11 DEF StreamFails
<1>12. ASSUME NEW r \in Runs, NEW C \in SUBSET Uncalled, StreamEnds(r, C) PROVE WordsPlace(x)
  BY <1>12 DEF StreamEnds, Uncalled
<1>13. ASSUME NEW r \in Runs, NEW t \in Tasks, MakeUnknown(r, t) PROVE WordsPlace(x)
  BY <1>13 DEF MakeUnknown, Answer
<1>14. ASSUME NEW r \in Runs, NEW t \in Tasks, MakeTask(r, t) PROVE WordsPlace(x)
  BY <1>14 DEF MakeTask
<1>15. ASSUME NEW r \in Runs, NEW t \in Tasks, AutoBegin(r, t) PROVE WordsPlace(x)
  BY <1>15 DEF AutoBegin, ExecuteBegin, Exists
<1>16. ASSUME NEW r \in Runs, MarkWaiting(r) PROVE WordsPlace(x)
  BY <1>16 DEF MarkWaiting, Exists
<1>17. ASSUME NEW r \in Runs, AutoEnd(r) PROVE WordsPlace(x)
  BY <1>17 DEF AutoEnd, ExecuteEnd, Exists, Answer
<1>18. ASSUME NEW r \in Runs, Check(r) PROVE WordsPlace(x)
  BY <1>18 DEF Check
<1>19. ASSUME NEW r \in Runs, Again(r) PROVE WordsPlace(x)
  BY <1>19 DEF Again, TasksDone
<1>20. ASSUME NEW r \in Runs, Wrap(r) PROVE WordsPlace(x)
  BY <1>20 DEF Wrap, TasksDone, EndRun
<1>21. ASSUME NEW r \in Runs, Complete(r) PROVE WordsPlace(x)
  BY <1>21 DEF Complete, EndRun
<1>22. ASSUME NEW r \in Runs, CallCancel(r) PROVE WordsPlace(x)
  BY <1>22 DEF CallCancel, Cancelled
<1>23. ASSUME NEW r \in Runs, Expire(r) PROVE WordsPlace(x)
  BY <1>23 DEF Expire
<1>24. ASSUME NEW t \in Tasks, ResolveGone(t) PROVE WordsPlace(x)
  BY <1>24 DEF ResolveGone
<1>25. ASSUME NEW t \in Tasks, ResolveSkip(t) PROVE WordsPlace(x)
  BY <1>25 DEF ResolveSkip
<1>26. ASSUME NEW t \in Tasks, ResolveBegin(t) PROVE WordsPlace(x)
  BY <1>26 DEF ResolveBegin, ExecuteBegin, Exists
<1>27. ASSUME NEW t \in Tasks, ResolveEnd(t) PROVE WordsPlace(x)
  BY <1>27 DEF ResolveEnd, ExecuteEnd, Exists, Answer
<1>28. ASSUME NEW t \in Tasks, RejectTask(t) PROVE WordsPlace(x)
  BY <1>28 DEF RejectTask, Exists, Answer
<1>29. ASSUME NEW t \in Tasks, ResolveAfter(t) PROVE WordsPlace(x)
  BY <1>29 DEF ResolveAfter, HasPending, Waiting
<1>30. ASSUME NEW r \in Runs, AppendDelta(r) PROVE WordsPlace(x)
  BY <1>30 DEF AppendDelta
<1> QED
  BY <1>1, <1>2, <1>3, <1>4, <1>5, <1>6, <1>7, <1>8, <1>9, <1>10, <1>11, <1>12, <1>13, <1>14,
     <1>15, <1>16, <1>17, <1>18, <1>19, <1>20, <1>21, <1>22, <1>23, <1>24, <1>25, <1>26, <1>27,
     <1>28, <1>29, <1>30
     DEF Next, Chat, Edit, End, Loop, Resolver

\* The lists correspond until an answer that nobody expects, or a message behind it, shifts them.
LEMMA ListsStep ==
  ASSUME IInv, SoloInv, OriginOK, RunsOK, ListsOK, PlayOK, WaitOK, PlacesOK, ~early, ~askew', Next
  PROVE  ListsOK'
<1> USE DEF Place
<1>1. \A i \in users' : i <= turns'
  <2> SUFFICES ASSUME NEW i \in users' PROVE i <= turns'
    OBVIOUS
  <2>1. views \in Nat /\ turns \in Nat /\ users \subseteq 1 .. views /\ \A j \in users : j <= turns
    BY DEF IInv, TypeOK, MessageType, ListsOK
  <2>2. CASE Still
    BY <2>1, <2>2 DEF Still
  <2>3. CASE SendUserMessage
    <3>1. views <= turns
      <4>1. askew' = (askew \/ views > turns)
        BY <2>3 DEF SendUserMessage
      <4>2. ~(views > turns)
        BY <4>1
      <4>. QED
        BY <2>1, <4>2
    <3>2. turns' = turns + 1 /\ (i \in users \/ i = views + 1)
      BY <2>3 DEF SendUserMessage
    <3>3. i \in users => i \in 1 .. views
      BY <2>1
    <3>. QED
      BY <2>1, <3>1, <3>2, <3>3
  <2>4. CASE Cut
    <3>1. PICK n \in Nat : Truncate(n)
      BY <2>4 DEF Cut
    <3>. QED
      BY <2>1, <3>1 DEF Truncate
  <2>5. CASE Said
    BY <2>1, <2>5 DEF Said, StreamEnds
  <2>. QED
    BY <2>2, <2>3, <2>4, <2>5, MessageEffect
<1>2. ASSUME NEW q \in Tasks, ~Stopped(q)' PROVE replyAt'[q] \in {Nowhere, callAt'[q]}
  <2>1. ~Stopped(q) /\ replyAt[q] \in {Nowhere, callAt[q]}
    BY <1>2, StoppedStays DEF ListsOK
  <2>2. CASE Still
    BY <2>1, <2>2 DEF Still, PlayOK
  <2>3. CASE SendUserMessage
    BY <2>1, <2>3 DEF SendUserMessage
  <2>4. CASE Cut
    <3>1. PICK n \in Nat : Truncate(n)
      BY <2>4 DEF Cut
    <3>2. callAt[q] \in Nat \cup {Nowhere} /\ replyAt[q] \in Nat \cup {Nowhere}
      BY DEF IInv, TypeOK, MessageType
    <3>3. /\ callAt'[q] = IF callAt[q] > n THEN Nowhere ELSE callAt[q]
          /\ replyAt'[q] = IF replyAt[q] > n THEN Nowhere ELSE replyAt[q]
      BY <3>1 DEF Truncate
    <3>. QED
      BY <2>1, <3>2, <3>3
  <2>5. CASE Said
    <3>1. PICK r \in Runs, C \in SUBSET Uncalled : StreamEnds(r, C)
      BY <2>5 DEF Said
    <3>2. q \in C => replyAt[q] = Nowhere
      BY DEF Uncalled, OriginOK
    <3>. QED
      BY <2>1, <3>1, <3>2 DEF StreamEnds
  <2>. QED
    BY <2>2, <2>3, <2>4, <2>5, MessageEffect
<1>3. ASSUME NEW x \in Runs, pc'[x] = "stream", ~Dead(x)'
      PROVE  shownAt'[x] \in {Nowhere, Hidden} \/ \A i \in users' : i < shownAt'[x]
  <2>1. ~Dead(x)
    BY <1>3, DeadStays
  <2>2. ~(pc[x] = "stream" /\ SendUserMessage)
    <3>1. pc[x] = "stream" => processing
      BY <2>1 DEF SoloInv, Solo, Working, Runs, None
    <3>. QED
      BY <3>1 DEF SendUserMessage
  <2>. QED
    BY <1>3, <2>1, <2>2, WordsEffect DEF ListsOK, WordsPlace
<1> QED
  BY <1>1, <1>2, <1>3 DEF ListsOK

\* What waits for the user keeps its run from going on.
LEMMA WaitStep ==
  ASSUME IInv, SoloInv, PlacesOK, OriginOK, RunsOK, WaitOK, PlayOK, ~early, ~early', Next
  PROVE  WaitOK'
<1> USE DEF session, messages, spoken, resolvers, loops, contexts, IInv, TypeOK, SessionType,
      TaskType, LoopType, TaskOK, LoopOK, RunsOK, SoloInv, Solo, Working, Making, WaitOK, Dead,
      None, Runs, Numbered
<1>1. ASSUME SendUserMessage PROVE WaitOK'
  BY <1>1 DEF SendUserMessage, Launch, HasPending, Waiting
<1>2. ASSUME NEW i \in users, RegenerateAfterUserMessage(i) PROVE WaitOK'
  <2> HIDE DEF IInv, TypeOK, SessionType, TaskType, LoopType, TaskOK, LoopOK, RunsOK, SoloInv,
        Solo, Working, Making, WaitOK, Dead, Numbered
  <2>1. Cut
    <3>1. i \in Nat /\ Truncate(i) /\ ~processing /\ UNCHANGED <<by, resolvers, loops>>
      BY <1>2 DEF RegenerateAfterUserMessage, Launch, IInv, TypeOK, MessageType
    <3>2. \A r \in Runs : pc'[r] \in Making => pc'[r] = pc[r]
      BY <1>2 DEF RegenerateAfterUserMessage, Launch, Making, IInv, TypeOK, LoopType
    <3>. QED
      BY <3>1, <3>2 DEF Cut
  <2>2. ASSUME NEW q \in Tasks, task'[q] = "waiting", ~Dead(by[q])' PROVE FALSE
    <3>1. task[q] = "waiting" /\ by'[q] = by[q] /\ ~Dead(by[q])
      BY <1>2, <2>2, TruncateEffect DEF RegenerateAfterUserMessage, Launch, contexts, Dead, IInv
    <3>2. trun[q] = None
      BY <3>1 DEF IInv, TaskOK, OriginOK
    <3>3. InPlay(q) /\ ~Stopped(q)
      BY <3>1, <3>2 DEF InPlay, Stopped
    <3>. QED
      BY <2>1, <2>2, <3>3, CutEnds DEF InPlay
  <2>. QED
    BY <2>2 DEF WaitOK
<1>3. ASSUME NEW i \in users, UpdateUserMessage(i) \/ DeleteMessage(i) PROVE WaitOK'
  BY <1>3 DEF UpdateUserMessage, DeleteMessage, Shorten
<1>4. ASSUME NEW S \in SUBSET Waiting, NEW d \in Decisions(S), ConfirmTasks(S, d) PROVE WaitOK'
  BY <1>4 DEF ConfirmTasks, Decisions, Waiting
<1>5. ASSUME CancelSession PROVE WaitOK'
  BY <1>5 DEF CancelSession, Forget, CancelActive, Taken
<1>6. ASSUME CloseSession PROVE WaitOK'
  BY <1>6 DEF CloseSession, Forget, CancelActive, Taken
<1>7. ASSUME DeleteSession PROVE WaitOK'
  BY <1>7 DEF DeleteSession, Forget, Taken
<1>8. ASSUME CleanupLoop PROVE WaitOK'
  BY <1>8 DEF CleanupLoop, Forget, Taken, Cancelled
<1>9. ASSUME NEW r \in Runs, Start(r) PROVE WaitOK'
  <2> HIDE DEF IInv, TypeOK, SessionType, TaskType, LoopType, TaskOK, LoopOK, RunsOK, SoloInv,
        Solo, Working, Making, WaitOK, Dead, Numbered
  <2> SUFFICES ASSUME NEW q \in Tasks, task'[q] = "waiting", ~Dead(by[q])', currentRunID' # None
               PROVE  by'[q] = currentRunID' /\ wait'[by'[q]] /\ pc'[by'[q]] \in Making
    BY DEF WaitOK
  <2>1. UNCHANGED <<task, by, currentRunID, wait, ctx, doomed>> /\ pc[r] = "start"
    BY <1>9 DEF Start
  <2>2. by[q] = currentRunID /\ wait[by[q]] /\ pc[by[q]] \in Making /\ by[q] \in Runs
    BY <2>1 DEF WaitOK, Dead, IInv, TypeOK, SessionType
  <2>3. pc'[by[q]] = pc[by[q]]
    <3>1. pc' = [pc EXCEPT ![r] = pc'[r]]
      BY <1>9 DEF Start, IInv, TypeOK, LoopType
    <3>2. by[q] # r
      BY <2>1, <2>2 DEF Making
    <3>. QED
      BY <2>2, <3>1, <3>2 DEF IInv, TypeOK, LoopType
  <2>. QED
    BY <2>1, <2>2, <2>3
<1>10. ASSUME NEW r \in Runs, Ask(r) PROVE WaitOK'
  BY <1>10 DEF Ask
<1>11. ASSUME NEW r \in Runs, StreamFails(r) PROVE WaitOK'
  BY <1>11 DEF StreamFails
<1>12. ASSUME NEW r \in Runs, NEW C \in SUBSET Uncalled, StreamEnds(r, C) PROVE WaitOK'
  BY <1>12 DEF StreamEnds, Uncalled
<1>13. ASSUME NEW r \in Runs, NEW t \in Tasks, MakeUnknown(r, t) PROVE WaitOK'
  BY <1>13 DEF MakeUnknown, Answer
<1>14. ASSUME NEW r \in Runs, NEW t \in Tasks, MakeTask(r, t) PROVE WaitOK'
  <2> HIDE DEF IInv, TypeOK, SessionType, TaskType, LoopType, TaskOK, LoopOK, RunsOK, SoloInv,
        Solo, Working, Making, WaitOK, Dead, Numbered
  <2> SUFFICES ASSUME NEW q \in Tasks, task'[q] = "waiting", ~Dead(by[q])', currentRunID' # None
               PROVE  by'[q] = currentRunID' /\ wait'[by'[q]] /\ pc'[by'[q]] \in Making
    BY DEF WaitOK
  <2>1. UNCHANGED <<by, currentRunID, wait, ctx, doomed>> /\ pc[r] = "make"
    BY <1>14 DEF MakeTask
  <2>4. task[q] = "waiting"
    BY <1>14 DEF MakeTask, IInv, TypeOK, TaskType
  <2>2. by[q] = currentRunID /\ wait[by[q]] /\ pc[by[q]] \in Making /\ by[q] \in Runs
    BY <2>1, <2>4 DEF WaitOK, Dead, IInv, TypeOK, SessionType
  <2>3. pc'[by[q]] \in Making
    <3>1. pc' = pc \/ pc' = [pc EXCEPT ![r] = "mark"]
      BY <1>14 DEF MakeTask
    <3>. QED
      BY <2>2, <3>1 DEF Making, IInv, TypeOK, LoopType
  <2>. QED
    BY <2>1, <2>2, <2>3
<1>15. ASSUME NEW r \in Runs, NEW t \in Tasks, AutoBegin(r, t) PROVE WaitOK'
  BY <1>15 DEF AutoBegin, ExecuteBegin, Exists
<1>16. ASSUME NEW r \in Runs, MarkWaiting(r) PROVE WaitOK'
  <2> HIDE DEF IInv, TypeOK, SessionType, TaskType, LoopType, TaskOK, LoopOK, RunsOK, SoloInv,
        Solo, Working, Making, WaitOK, Dead, Numbered
  <2> SUFFICES ASSUME NEW q \in Tasks, task'[q] = "waiting", ~Dead(by[q])', currentRunID' # None
               PROVE  by'[q] = currentRunID' /\ wait'[by'[q]] /\ pc'[by'[q]] \in Making
    BY DEF WaitOK
  <2>1. UNCHANGED <<by, currentRunID, ctx, doomed>> /\ pc[r] = "mark" /\ by[cur[r]] = r
    BY <1>16 DEF MarkWaiting, LoopOK, IInv
  <2>2. \/ UNCHANGED <<task, wait, pc>>
        \/ /\ task' = [task EXCEPT ![cur[r]] = "waiting"]
           /\ wait' = [wait EXCEPT ![r] = TRUE] /\ pc' = [pc EXCEPT ![r] = "make"]
    BY <1>16 DEF MarkWaiting
  <2>3. CASE q = cur[r]
    <3>1. ~Dead(r) /\ currentRunID = r
      BY <2>1, <2>3 DEF Dead, SoloInv, Solo, Working
    <3>2. task[q] # "waiting"
      BY <2>1, <2>3 DEF LoopOK, IInv
    <3>3. wait' = [wait EXCEPT ![r] = TRUE] /\ pc' = [pc EXCEPT ![r] = "make"]
      BY <2>2, <3>2
    <3>4. wait'[r] = TRUE /\ pc'[r] = "make"
      BY <3>3 DEF IInv, TypeOK, LoopType
    <3>5. by'[q] = r /\ currentRunID' = r
      BY <2>1, <2>3, <3>1
    <3>. QED
      BY <3>4, <3>5 DEF Making
  <2>4. CASE q # cur[r]
    <3>1. task[q] = "waiting"
      BY <2>2, <2>4 DEF IInv, TypeOK, TaskType
    <3>2. by[q] = currentRunID /\ wait[by[q]] /\ pc[by[q]] \in Making
      BY <2>1, <3>1 DEF WaitOK, Dead
    <3>3. by[q] \in Runs
      BY <2>1, <3>2 DEF IInv, TypeOK, SessionType
    <3>. QED
      BY <2>1, <2>2, <3>2, <3>3 DEF Making, IInv, TypeOK, LoopType
  <2>. QED
    BY <2>3, <2>4
<1>17. ASSUME NEW r \in Runs, AutoEnd(r) PROVE WaitOK'
  BY <1>17 DEF AutoEnd, ExecuteEnd, Exists, Answer
<1>18. ASSUME NEW r \in Runs, Check(r) PROVE WaitOK'
  BY <1>18 DEF Check
<1>19. ASSUME NEW r \in Runs, Again(r) PROVE WaitOK'
  BY <1>19 DEF Again, TasksDone
<1>20. ASSUME NEW r \in Runs, Wrap(r) PROVE WaitOK'
  BY <1>20 DEF Wrap, TasksDone, EndRun
<1>21. ASSUME NEW r \in Runs, Complete(r) PROVE WaitOK'
  BY <1>21 DEF Complete, EndRun
<1>22. ASSUME NEW r \in Runs, CallCancel(r) PROVE WaitOK'
  BY <1>22 DEF CallCancel, Cancelled
<1>23. ASSUME NEW r \in Runs, Expire(r) PROVE WaitOK'
  BY <1>23 DEF Expire
<1>24. ASSUME NEW t \in Tasks, ResolveGone(t) PROVE WaitOK'
  BY <1>24 DEF ResolveGone
<1>25. ASSUME NEW t \in Tasks, ResolveSkip(t) PROVE WaitOK'
  BY <1>25 DEF ResolveSkip
<1>26. ASSUME NEW t \in Tasks, ResolveBegin(t) PROVE WaitOK'
  BY <1>26 DEF ResolveBegin, ExecuteBegin, Exists
<1>27. ASSUME NEW t \in Tasks, ResolveEnd(t) PROVE WaitOK'
  BY <1>27 DEF ResolveEnd, ExecuteEnd, Exists, Answer
<1>28. ASSUME NEW t \in Tasks, RejectTask(t) PROVE WaitOK'
  BY <1>28 DEF RejectTask, Exists, Answer
<1>29. ASSUME NEW t \in Tasks, ResolveAfter(t) PROVE WaitOK'
  <2> HIDE DEF IInv, TypeOK, SessionType, TaskType, LoopType, TaskOK, LoopOK, RunsOK, SoloInv,
        Solo, Working, Making, WaitOK, Dead, Numbered
  <2> SUFFICES ASSUME NEW q \in Tasks, task'[q] = "waiting", ~Dead(by[q])', currentRunID' # None
               PROVE  by'[q] = currentRunID' /\ wait'[by'[q]] /\ pc'[by'[q]] \in Making
    BY DEF WaitOK
  <2>1. UNCHANGED <<task, by, wait, ctx, doomed>>
    BY <1>29 DEF ResolveAfter
  <2>2. HasPending
    BY <2>1 DEF HasPending, Waiting
  <2>3. CASE toolRun = None
    <3>1. UNCHANGED <<currentRunID, pc>>
      BY <1>29, <2>3 DEF ResolveAfter, SoloInv, IInv, Numbered, TaskOK
    <3>. QED
      BY <2>1, <3>1 DEF WaitOK, Dead
  <2>4. CASE toolRun # None
    <3>1. currentRunID = None
      BY <2>4 DEF SoloInv, Solo
    <3>2. UNCHANGED currentRunID
      BY <1>29, <2>2 DEF ResolveAfter
    <3>. QED
      BY <3>1, <3>2
  <2>. QED
    BY <2>3, <2>4
<1>30. ASSUME NEW r \in Runs, AppendDelta(r) PROVE WaitOK'
  BY <1>30 DEF AppendDelta
<1> QED
  BY <1>1, <1>2, <1>3, <1>4, <1>5, <1>6, <1>7, <1>8, <1>9, <1>10, <1>11, <1>12, <1>13, <1>14,
     <1>15, <1>16, <1>17, <1>18, <1>19, <1>20, <1>21, <1>22, <1>23, <1>24, <1>25, <1>26, <1>27,
     <1>28, <1>29, <1>30
     DEF Next, Chat, Edit, End, Loop, Resolver

\* A call stays at hand until it is answered.
LEMMA HandKept ==
  ASSUME IInv, RunsOK, PlacesOK, Next, Still, NEW q \in Tasks, AtHand(q),
         ~Stopped(q), ~Stopped(q)', replyAt'[q] = Nowhere, task[q] # "removed",
         Held(q) => currentRun = by[q] /\ currentRunID = by[q] /\ by[q] # None,
         tpc[q] \in {"resolve", "tool"} => toolRun = trun[q] /\ trun[q] # None,
         closed => currentRunID = None
  PROVE  AtHand(q)'
<1> USE DEF session, messages, spoken, resolvers, loops, contexts, IInv, TypeOK, SessionType,
      TaskType, LoopType, MessageType, Numbered, TaskOK, LoopOK, RunsOK, PlacesOK, Making, Held,
      AtHand, BeingResolved, Stopped, Dead, None, Runs, Nowhere
<1>1. ASSUME SendUserMessage PROVE AtHand(q)'
  BY <1>1 DEF SendUserMessage, Launch, HasPending, Waiting
<1>2. ASSUME NEW i \in users, RegenerateAfterUserMessage(i) PROVE AtHand(q)'
  <2> HIDE DEF IInv, TypeOK, SessionType, TaskType, LoopType, MessageType, Numbered, TaskOK,
        LoopOK, RunsOK, PlacesOK, Making, Held, AtHand, BeingResolved, Stopped, Dead
  <2>1. Truncate(i) /\ UNCHANGED <<by, resolvers, loops>>
    BY <1>2 DEF RegenerateAfterUserMessage, Launch
  <2>2. task'[q] = task[q]
    BY <2>1, TruncateEffect DEF Still, IInv
  <2>3. Held(q) => Held(q)'
    <3> SUFFICES ASSUME Held(q) PROVE Held(q)'
      OBVIOUS
    <3>1. pc[by[q]] # "off" /\ by[q] \in Runs
      BY DEF Held, Making
    <3>2. pc' = [pc EXCEPT ![runs + 1] = "start"]
      BY <1>2 DEF RegenerateAfterUserMessage, Launch
    <3>3. by[q] # runs + 1
      BY <3>1 DEF RunsOK, IInv, TypeOK, SessionType
    <3>4. pc'[by[q]] = pc[by[q]]
      BY <3>1, <3>2, <3>3 DEF IInv, TypeOK, LoopType
    <3>. QED
      BY <2>1, <3>4, HeldOn
  <2>. QED
    BY <2>1, <2>2, <2>3 DEF AtHand, BeingResolved
<1>3. ASSUME NEW i \in users, UpdateUserMessage(i) \/ DeleteMessage(i) PROVE AtHand(q)'
  <2> HIDE DEF IInv, TypeOK, SessionType, TaskType, LoopType, MessageType, Numbered, TaskOK,
        LoopOK, RunsOK, PlacesOK, Making, Held, AtHand, BeingResolved, Stopped, Dead
  <2>1. PICK n \in Nat : Truncate(n) /\ Shorten(n)
    BY <1>3, CutPlace DEF IInv
  <2>2. UNCHANGED <<by, resolvers, loops, pc>>
    BY <2>1 DEF Shorten
  <2>3. task'[q] = task[q]
    BY <2>1, TruncateEffect DEF Still, IInv
  <2>4. Held(q) => Held(q)'
    BY <2>2, HeldOn
  <2>. QED
    BY <2>2, <2>3, <2>4 DEF AtHand, BeingResolved
<1>4. ASSUME NEW S \in SUBSET Waiting, NEW d \in Decisions(S), ConfirmTasks(S, d) PROVE AtHand(q)'
  <2> HIDE DEF IInv, TypeOK, SessionType, TaskType, LoopType, MessageType, Numbered, TaskOK,
        LoopOK, RunsOK, PlacesOK, Making, Held, AtHand, BeingResolved, Stopped, Dead
  <2>1. /\ UNCHANGED <<by, todo, autos, cur>>
        /\ q \notin S => UNCHANGED <<task[q], tpc[q], decision[q]>>
    BY <1>4 DEF ConfirmTasks
  <2>2. CASE q \in S
    <3>1. /\ tpc'[q] = "resolve" /\ decision'[q] = d[q]
          /\ d[q] = "confirm" => task'[q] = "running"
      BY <1>4, <2>2 DEF ConfirmTasks
    <3>. QED
      BY <3>1 DEF AtHand, BeingResolved
  <2>3. CASE q \notin S /\ Held(q)
    <3>1. pc[by[q]] # "off" /\ by[q] \in Runs
      BY <2>3 DEF Held, Making
    <3>2. pc' = pc \/ pc' = [pc EXCEPT ![runs + 1] = "tools"]
      BY <1>4 DEF ConfirmTasks
    <3>3. by[q] # runs + 1
      BY <3>1 DEF RunsOK, IInv, TypeOK, SessionType
    <3>4. pc'[by[q]] = pc[by[q]]
      BY <3>1, <3>2, <3>3 DEF IInv, TypeOK, LoopType
    <3>5. Held(q)'
      BY <2>1, <2>3, <3>4, HeldOn
    <3>. QED
      BY <2>1, <2>3, <3>5 DEF AtHand, BeingResolved
  <2>. QED
    BY <2>1, <2>2, <2>3 DEF AtHand, BeingResolved
<1>5. ASSUME CancelSession PROVE AtHand(q)'
  BY <1>5 DEF CancelSession, Forget, CancelActive, Taken
<1>6. ASSUME CloseSession PROVE AtHand(q)'
  BY <1>6 DEF CloseSession, Forget, CancelActive, Taken
<1>7. ASSUME DeleteSession PROVE AtHand(q)'
  BY <1>7 DEF DeleteSession, Forget, Taken
<1>8. ASSUME CleanupLoop PROVE AtHand(q)'
  BY <1>8 DEF CleanupLoop, Forget, Taken, Cancelled
<1>9. ASSUME NEW r \in Runs, Start(r) PROVE AtHand(q)'
  <2> HIDE DEF IInv, TypeOK, SessionType, TaskType, LoopType, MessageType, Numbered, TaskOK,
        LoopOK, RunsOK, PlacesOK, Making, Held, AtHand, BeingResolved, Stopped, Dead
  <2>1. UNCHANGED <<by, todo, autos, cur, task, tpc, decision>> /\ pc[r] = "start"
    BY <1>9 DEF Start
  <2>2. Held(q) => Held(q)'
    <3> SUFFICES ASSUME Held(q) PROVE Held(q)'
      OBVIOUS
    <3>1. by[q] \in Runs /\ by[q] # r
      BY <2>1 DEF Held, Making
    <3>2. pc' = [pc EXCEPT ![r] = pc'[r]]
      BY <1>9 DEF Start, IInv, TypeOK, LoopType
    <3>3. pc'[by[q]] = pc[by[q]]
      BY <3>1, <3>2 DEF IInv, TypeOK, LoopType
    <3>. QED
      BY <2>1, <3>3, HeldOn
  <2>. QED
    BY <2>1, <2>2 DEF AtHand, BeingResolved
<1>10. ASSUME NEW r \in Runs, Ask(r) PROVE AtHand(q)'
  BY <1>10 DEF Ask
<1>11. ASSUME NEW r \in Runs, StreamFails(r) PROVE AtHand(q)'
  BY <1>11 DEF StreamFails
<1>12. ASSUME NEW r \in Runs, NEW C \in SUBSET Uncalled, StreamEnds(r, C) PROVE AtHand(q)'
  BY <1>12 DEF StreamEnds, Uncalled
<1>13. ASSUME NEW r \in Runs, NEW t \in Tasks, MakeUnknown(r, t) PROVE AtHand(q)'
  BY <1>13 DEF MakeUnknown, Answer
<1>14. ASSUME NEW r \in Runs, NEW t \in Tasks, MakeTask(r, t) PROVE AtHand(q)'
  <2> HIDE DEF IInv, TypeOK, SessionType, TaskType, LoopType, MessageType, Numbered, TaskOK,
        LoopOK, RunsOK, PlacesOK, Making, Held, AtHand, BeingResolved, Stopped, Dead
  <2>1. UNCHANGED <<by, tpc, decision>> /\ task' = [task EXCEPT ![t] = "queued"]
    BY <1>14 DEF MakeTask
  <2>2. t \in todo[r] /\ pc[r] = "make" /\ by[t] = r /\ task[t] = "absent" /\ tpc[t] = "none"
    BY <1>14 DEF MakeTask, LoopOK, TaskOK, IInv
  <2>7. /\ todo' = [todo EXCEPT ![r] = @ \ {t}]
        /\ \/ /\ pc' = [pc EXCEPT ![r] = "mark"] /\ cur' = [cur EXCEPT ![r] = t]
              /\ UNCHANGED autos
           \/ /\ autos' = [autos EXCEPT ![r] = @ \cup {t}]
              /\ UNCHANGED <<pc, cur>>
    BY <1>14 DEF MakeTask
  <2>3. CASE q = t
    <3>1. task'[q] = "queued"
      BY <2>1, <2>3 DEF IInv, TypeOK, TaskType
    <3>3. \/ pc'[r] = "mark" /\ cur'[r] = t
          \/ pc'[r] = "make" /\ t \in autos'[r]
      <4>1. /\ pc \in [Runs -> {"off", "tools", "start", "ask", "stream", "make", "mark", "tool",
                             "check", "complete", "done"}]
            /\ autos \in [Runs -> SUBSET Tasks] /\ cur \in [Runs -> Tasks \cup {NoTask}]
        BY DEF IInv, TypeOK, LoopType
      <4>2. CASE pc' = [pc EXCEPT ![r] = "mark"] /\ cur' = [cur EXCEPT ![r] = t]
        BY <4>1, <4>2
      <4>3. CASE autos' = [autos EXCEPT ![r] = @ \cup {t}] /\ UNCHANGED <<pc, cur>>
        BY <2>2, <4>1, <4>3
      <4>. QED
        BY <2>7, <4>2, <4>3
    <3>2. Held(q)'
      BY <2>1, <2>2, <2>3, <3>3 DEF Held, Making
    <3>. QED
      BY <3>1, <3>2 DEF AtHand
  <2>4. CASE q # t
    <3>1. task'[q] = task[q]
      BY <2>1, <2>4 DEF IInv, TypeOK, TaskType
    <3>2. Held(q) => Held(q)'
      <4> SUFFICES ASSUME Held(q) PROVE Held(q)'
        OBVIOUS
      <4>1. CASE by[q] = r
        <5>1. q \in todo[r] \cup autos[r]
          BY <2>2, <4>1 DEF Held
        <5>2. q \in todo'[r] \cup autos'[r] /\ pc'[r] \in Making
          BY <2>2, <2>4, <2>7, <5>1 DEF Making, IInv, TypeOK, LoopType
        <5>. QED
          BY <2>1, <4>1, <5>2 DEF Held
      <4>2. CASE by[q] # r
        <5>1. by[q] \in Runs
          BY DEF Held
        <5>2. /\ pc'[by[q]] = pc[by[q]] /\ todo'[by[q]] = todo[by[q]]
              /\ autos'[by[q]] = autos[by[q]] /\ cur'[by[q]] = cur[by[q]]
          BY <2>7, <4>2, <5>1 DEF IInv, TypeOK, LoopType
        <5>. QED
          BY <2>1, <5>2 DEF Held
      <4>. QED
        BY <4>1, <4>2
    <3>. QED
      BY <2>1, <3>1, <3>2 DEF AtHand, BeingResolved
  <2>. QED
    BY <2>3, <2>4
<1>15. ASSUME NEW r \in Runs, NEW t \in Tasks, AutoBegin(r, t) PROVE AtHand(q)'
  BY <1>15 DEF AutoBegin, ExecuteBegin, Exists
<1>16. ASSUME NEW r \in Runs, MarkWaiting(r) PROVE AtHand(q)'
  <2> HIDE DEF IInv, TypeOK, SessionType, TaskType, LoopType, MessageType, Numbered, TaskOK,
        LoopOK, RunsOK, PlacesOK, Making, Held, AtHand, BeingResolved, Stopped, Dead
  <2>1. UNCHANGED <<by, todo, autos, tpc, decision>> /\ pc[r] = "mark"
    BY <1>16 DEF MarkWaiting
  <2>2. \/ /\ ~Exists(cur[r]) /\ UNCHANGED <<task, cur, pc>>
        \/ /\ task' = [task EXCEPT ![cur[r]] = "waiting"]
           /\ cur' = [cur EXCEPT ![r] = NoTask] /\ pc' = [pc EXCEPT ![r] = "make"]
    BY <1>16 DEF MarkWaiting
  <2>3. CASE q = cur[r]
    <3>1. Exists(cur[r])
      BY <2>1, <2>3 DEF LoopOK, IInv, Exists
    <3>. QED
      BY <2>2, <2>3, <3>1 DEF AtHand, IInv, TypeOK, TaskType
  <2>4. CASE q # cur[r]
    <3>1. task'[q] = task[q]
      BY <2>2, <2>4 DEF IInv, TypeOK, TaskType
    <3>2. Held(q) => Held(q)'
      <4> SUFFICES ASSUME Held(q) PROVE Held(q)'
        OBVIOUS
      <4>1. CASE by[q] = r
        <5>1. q \in todo[r] \cup autos[r]
          BY <2>4, <4>1 DEF Held
        <5>2. pc'[r] \in Making
          BY <2>1, <2>2 DEF Making, IInv, TypeOK, LoopType
        <5>. QED
          BY <2>1, <4>1, <5>1, <5>2 DEF Held
      <4>2. CASE by[q] # r
        <5>1. by[q] \in Runs
          BY DEF Held
        <5>2. pc'[by[q]] = pc[by[q]] /\ cur'[by[q]] = cur[by[q]]
          BY <2>2, <4>2, <5>1 DEF IInv, TypeOK, LoopType
        <5>. QED
          BY <2>1, <5>2 DEF Held
      <4>. QED
        BY <4>1, <4>2
    <3>. QED
      BY <2>1, <3>1, <3>2 DEF AtHand, BeingResolved
  <2>. QED
    BY <2>3, <2>4
<1>17. ASSUME NEW r \in Runs, AutoEnd(r) PROVE AtHand(q)'
  BY <1>17 DEF AutoEnd, ExecuteEnd, Exists, Answer
<1>18. ASSUME NEW r \in Runs, Check(r) PROVE AtHand(q)'
  BY <1>18 DEF Check
<1>19. ASSUME NEW r \in Runs, Again(r) PROVE AtHand(q)'
  BY <1>19 DEF Again, TasksDone
<1>20. ASSUME NEW r \in Runs, Wrap(r) PROVE AtHand(q)'
  BY <1>20 DEF Wrap, TasksDone, EndRun
<1>21. ASSUME NEW r \in Runs, Complete(r) PROVE AtHand(q)'
  BY <1>21 DEF Complete, EndRun
<1>22. ASSUME NEW r \in Runs, CallCancel(r) PROVE AtHand(q)'
  BY <1>22 DEF CallCancel, Cancelled
<1>23. ASSUME NEW r \in Runs, Expire(r) PROVE AtHand(q)'
  BY <1>23 DEF Expire
<1>24. ASSUME NEW t \in Tasks, ResolveGone(t) PROVE AtHand(q)'
  BY <1>24 DEF ResolveGone
<1>25. ASSUME NEW t \in Tasks, ResolveSkip(t) PROVE AtHand(q)'
  BY <1>25 DEF ResolveSkip
<1>26. ASSUME NEW t \in Tasks, ResolveBegin(t) PROVE AtHand(q)'
  BY <1>26 DEF ResolveBegin, ExecuteBegin, Exists
<1>27. ASSUME NEW t \in Tasks, ResolveEnd(t) PROVE AtHand(q)'
  BY <1>27 DEF ResolveEnd, ExecuteEnd, Exists, Answer
<1>28. ASSUME NEW t \in Tasks, RejectTask(t) PROVE AtHand(q)'
  BY <1>28 DEF RejectTask, Exists, Answer
<1>29. ASSUME NEW t \in Tasks, ResolveAfter(t) PROVE AtHand(q)'
  <2> HIDE DEF IInv, TypeOK, SessionType, TaskType, LoopType, MessageType, Numbered, TaskOK,
        LoopOK, RunsOK, PlacesOK, Making, Held, AtHand, BeingResolved, Stopped, Dead
  <2>1. /\ UNCHANGED <<by, todo, autos, cur, task, decision>>
        /\ tpc' = [tpc EXCEPT ![t] = "done"] /\ tpc[t] = "after"
    BY <1>29 DEF ResolveAfter
  <2>2. Held(q) => Held(q)'
    <3> SUFFICES ASSUME Held(q) PROVE Held(q)'
      OBVIOUS
    <3>1. by[q] \in Runs /\ pc[by[q]] \in Making
      BY DEF Held
    <3>2. \/ pc' = pc
          \/ /\ toolRun = trun[t]
             /\ \/ pc' = [pc EXCEPT ![trun[t]] = "done"]
                \/ pc' = [pc EXCEPT ![trun[t]] = "start"]
      BY <1>29 DEF ResolveAfter
    <3>3. toolRun # None => by[q] # toolRun
      BY <3>1 DEF RunsOK, Making
    <3>4. pc'[by[q]] = pc[by[q]]
      BY <3>1, <3>2, <3>3 DEF IInv, TypeOK, LoopType
    <3>. QED
      BY <2>1, <3>4, HeldOn
  <2>3. BeingResolved(q) => BeingResolved(q)'
    BY <2>1 DEF BeingResolved, IInv, TypeOK, TaskType
  <2>. QED
    BY <2>1, <2>2, <2>3 DEF AtHand
<1>30. ASSUME NEW r \in Runs, AppendDelta(r) PROVE AtHand(q)'
  BY <1>30 DEF AppendDelta
<1> QED
  BY <1>1, <1>2, <1>3, <1>4, <1>5, <1>6, <1>7, <1>8, <1>9, <1>10, <1>11, <1>12, <1>13, <1>14,
     <1>15, <1>16, <1>17, <1>18, <1>19, <1>20, <1>21, <1>22, <1>23, <1>24, <1>25, <1>26, <1>27,
     <1>28, <1>29, <1>30
     DEF Next, Chat, Edit, End, Loop, Resolver

\* Once a confirmation came early, or the lists ceased to correspond, that stays known.
LEMMA HistoryStays ==
  ASSUME TypeOK, Next
  PROVE  (early => early') /\ (askew => askew')
<1> USE DEF session, messages, spoken, resolvers, loops, contexts, TypeOK, SessionType, MessageType
<1>1. ASSUME SendUserMessage PROVE (early => early') /\ (askew => askew')
  BY <1>1 DEF SendUserMessage, Launch, HasPending, Waiting
<1>2. ASSUME NEW i \in users,
      RegenerateAfterUserMessage(i) PROVE (early => early') /\ (askew => askew')
  <2>1. UNCHANGED early
    BY <1>2 DEF RegenerateAfterUserMessage, Launch
  <2>2. UNCHANGED askew
    BY <1>2 DEF RegenerateAfterUserMessage, Truncate
  <2>. QED
    BY <2>1, <2>2
<1>3. ASSUME NEW i \in users,
      UpdateUserMessage(i) \/ DeleteMessage(i) PROVE (early => early') /\ (askew => askew')
  <2>1. PICK n \in Nat : Truncate(n) /\ UNCHANGED early
    BY <1>3, CutPlace DEF Shorten
  <2>2. UNCHANGED askew
    BY <2>1 DEF Truncate
  <2>. QED
    BY <2>1, <2>2
<1>4. ASSUME NEW S \in SUBSET Waiting, NEW d \in Decisions(S), ConfirmTasks(S,
      d) PROVE (early => early') /\ (askew => askew')
  BY <1>4 DEF ConfirmTasks, Decisions, Waiting
<1>5. ASSUME CancelSession PROVE (early => early') /\ (askew => askew')
  BY <1>5 DEF CancelSession, Forget, CancelActive, Taken
<1>6. ASSUME CloseSession PROVE (early => early') /\ (askew => askew')
  BY <1>6 DEF CloseSession, Forget, CancelActive, Taken
<1>7. ASSUME DeleteSession PROVE (early => early') /\ (askew => askew')
  BY <1>7 DEF DeleteSession, Forget, Taken
<1>8. ASSUME CleanupLoop PROVE (early => early') /\ (askew => askew')
  BY <1>8 DEF CleanupLoop, Forget, Taken, Cancelled
<1>9. ASSUME NEW r \in Runs, Start(r) PROVE (early => early') /\ (askew => askew')
  BY <1>9 DEF Start
<1>10. ASSUME NEW r \in Runs, Ask(r) PROVE (early => early') /\ (askew => askew')
  BY <1>10 DEF Ask
<1>11. ASSUME NEW r \in Runs, StreamFails(r) PROVE (early => early') /\ (askew => askew')
  BY <1>11 DEF StreamFails
<1>12. ASSUME NEW r \in Runs, NEW C \in SUBSET Uncalled, StreamEnds(r,
      C) PROVE (early => early') /\ (askew => askew')
  BY <1>12 DEF StreamEnds, Uncalled
<1>13. ASSUME NEW r \in Runs, NEW t \in Tasks, MakeUnknown(r,
      t) PROVE (early => early') /\ (askew => askew')
  BY <1>13 DEF MakeUnknown, Answer
<1>14. ASSUME NEW r \in Runs, NEW t \in Tasks, MakeTask(r,
      t) PROVE (early => early') /\ (askew => askew')
  BY <1>14 DEF MakeTask
<1>15. ASSUME NEW r \in Runs, NEW t \in Tasks, AutoBegin(r,
      t) PROVE (early => early') /\ (askew => askew')
  BY <1>15 DEF AutoBegin, ExecuteBegin, Exists
<1>16. ASSUME NEW r \in Runs, MarkWaiting(r) PROVE (early => early') /\ (askew => askew')
  BY <1>16 DEF MarkWaiting, Exists
<1>17. ASSUME NEW r \in Runs, AutoEnd(r) PROVE (early => early') /\ (askew => askew')
  BY <1>17 DEF AutoEnd, ExecuteEnd, Exists, Answer
<1>18. ASSUME NEW r \in Runs, Check(r) PROVE (early => early') /\ (askew => askew')
  BY <1>18 DEF Check
<1>19. ASSUME NEW r \in Runs, Again(r) PROVE (early => early') /\ (askew => askew')
  BY <1>19 DEF Again, TasksDone
<1>20. ASSUME NEW r \in Runs, Wrap(r) PROVE (early => early') /\ (askew => askew')
  BY <1>20 DEF Wrap, TasksDone, EndRun
<1>21. ASSUME NEW r \in Runs, Complete(r) PROVE (early => early') /\ (askew => askew')
  BY <1>21 DEF Complete, EndRun
<1>22. ASSUME NEW r \in Runs, CallCancel(r) PROVE (early => early') /\ (askew => askew')
  BY <1>22 DEF CallCancel, Cancelled
<1>23. ASSUME NEW r \in Runs, Expire(r) PROVE (early => early') /\ (askew => askew')
  BY <1>23 DEF Expire
<1>24. ASSUME NEW t \in Tasks, ResolveGone(t) PROVE (early => early') /\ (askew => askew')
  BY <1>24 DEF ResolveGone
<1>25. ASSUME NEW t \in Tasks, ResolveSkip(t) PROVE (early => early') /\ (askew => askew')
  BY <1>25 DEF ResolveSkip
<1>26. ASSUME NEW t \in Tasks, ResolveBegin(t) PROVE (early => early') /\ (askew => askew')
  BY <1>26 DEF ResolveBegin, ExecuteBegin, Exists
<1>27. ASSUME NEW t \in Tasks, ResolveEnd(t) PROVE (early => early') /\ (askew => askew')
  BY <1>27 DEF ResolveEnd, ExecuteEnd, Exists, Answer
<1>28. ASSUME NEW t \in Tasks, RejectTask(t) PROVE (early => early') /\ (askew => askew')
  BY <1>28 DEF RejectTask, Exists, Answer
<1>29. ASSUME NEW t \in Tasks, ResolveAfter(t) PROVE (early => early') /\ (askew => askew')
  BY <1>29 DEF ResolveAfter, HasPending, Waiting
<1>30. ASSUME NEW r \in Runs, AppendDelta(r) PROVE (early => early') /\ (askew => askew')
  BY <1>30 DEF AppendDelta
<1> QED
  BY <1>1, <1>2, <1>3, <1>4, <1>5, <1>6, <1>7, <1>8, <1>9, <1>10, <1>11, <1>12, <1>13, <1>14,
     <1>15, <1>16, <1>17, <1>18, <1>19, <1>20, <1>21, <1>22, <1>23, <1>24, <1>25, <1>26, <1>27,
     <1>28, <1>29, <1>30
     DEF Next, Chat, Edit, End, Loop, Resolver

\* A call that is owed a result stays at hand, is made, or is cut off.
LEMMA OwedStep ==
  ASSUME IInv, SoloInv, AnswerInv, ~early, ~askew, ~askew', Next
  PROVE  OwedOK'
<1> SUFFICES ASSUME NEW q \in Tasks, Owed(q)' PROVE AtHand(q)'
  BY DEF OwedOK
<1>1. ~Stopped(q)
  BY StoppedStays DEF Owed, AnswerInv
<1>2. callAt'[q] # Nowhere /\ replyAt'[q] = Nowhere /\ ~Stopped(q)'
  BY DEF Owed, Called, Answered
<1>3. ASSUME callAt[q] # Nowhere, replyAt[q] = Nowhere
      PROVE  AtHand(q) /\ InPlay(q)
  <2>1. Owed(q)
    BY <1>1, <1>3 DEF Owed, Called, Answered
  <2>2. AtHand(q)
    BY <2>1 DEF OwedOK, AnswerInv
  <2>. QED
    BY <2>2 DEF AtHand, BeingResolved, InPlay
<1>4. CASE Still
  <2>1. turns # Nowhere
    BY DEF IInv, TypeOK, MessageType, Nowhere
  <2>2. AtHand(q) /\ InPlay(q)
    BY <1>2, <1>3, <1>4, <2>1 DEF Still
  <2>3. task[q] # "removed" /\ (closed => currentRunID = None)
    BY <1>1, <2>2 DEF AnswerInv, PlayOK, SoloInv, Solo
  <2>. QED
    BY <1>1, <1>2, <1>4, <2>2, <2>3, WhoPlays, HandKept DEF AnswerInv
<1>5. CASE SendUserMessage
  <2>1. InPlay(q)
    BY <1>2, <1>3, <1>5 DEF SendUserMessage
  <2>2. ~processing /\ task[q] # "waiting"
    BY <1>5 DEF SendUserMessage, HasPending, Waiting
  <2>. QED
    BY <1>1, <2>1, <2>2, WhoPlays
<1>6. CASE Cut
  <2>1. PICK n \in Nat : Truncate(n)
    BY <1>6 DEF Cut
  <2>2. /\ callAt[q] \in Nat \cup {Nowhere} /\ replyAt[q] \in {Nowhere, callAt[q]}
    BY <1>1 DEF AnswerInv, ListsOK, IInv, TypeOK, MessageType, Place
  <2>3. /\ callAt'[q] = IF callAt[q] > n THEN Nowhere ELSE callAt[q]
        /\ replyAt'[q] = IF replyAt[q] > n THEN Nowhere ELSE replyAt[q]
    BY <2>1 DEF Truncate
  <2>4. callAt[q] # Nowhere /\ replyAt[q] = Nowhere
    BY <1>2, <2>2, <2>3
  <2>. QED
    BY <1>1, <1>2, <1>3, <1>6, <2>4, CutEnds DEF AnswerInv
<1>7. CASE Said
  <2>1. PICK r \in Runs, C \in SUBSET Uncalled : StreamEnds(r, C)
    BY <1>7 DEF Said
  <2>2. CASE q \in C
    <3>1. by'[q] = r /\ todo'[r] = C /\ pc'[r] = "make" /\ task' = task
      BY <2>1, <2>2 DEF StreamEnds, IInv, TypeOK, LoopType
    <3>2. task[q] = "absent"
      BY <2>2 DEF Uncalled, IInv, TaskOK
    <3>. QED
      BY <2>2, <3>1, <3>2 DEF AtHand, Held, Making
  <2>3. CASE q \notin C
    <3>1. callAt'[q] = callAt[q] /\ replyAt'[q] = replyAt[q]
      BY <2>1, <2>3 DEF StreamEnds
    <3>. QED
      BY <1>1, <1>2, <1>3, <2>1, <3>1, SaidAlone DEF AnswerInv
  <2>. QED
    BY <2>2, <2>3
<1> QED
  BY <1>4, <1>5, <1>6, <1>7, MessageEffect DEF AnswerInv

\* Together these facts survive every step.
LEMMA AnswerNext ==
  ASSUME IInv, SoloInv, AnswerInv, [Next]_vars
  PROVE  AnswerInv'
<1>1. CASE UNCHANGED vars
  BY <1>1 DEF vars, session, messages, resolvers, loops, contexts, AnswerInv, OriginOK, PlacesOK,
    RunsOK, ListsOK, PlayOK, OwedOK, WaitOK, Owed, AtHand, Held, InPlay, BeingResolved, Stopped,
    Dead, Called, Answered
<1>2. CASE Next
  <2>1. OriginOK' /\ PlacesOK' /\ RunsOK'
    BY <1>2, OriginStep, PlacesStep, RunsStep DEF AnswerInv
  <2>2. ASSUME ~early', ~askew' PROVE (ListsOK /\ PlayOK /\ OwedOK /\ WaitOK)'
    <3>1. ~early /\ ~askew
      BY <1>2, <2>2, HistoryStays DEF IInv
    <3>2. ListsOK /\ PlayOK /\ OwedOK /\ WaitOK
      BY <3>1 DEF AnswerInv
    <3>3. ListsOK' /\ PlayOK'
      BY <1>2, <2>2, <3>1, <3>2, ListsStep, PlayStep DEF AnswerInv
    <3>4. OwedOK' /\ WaitOK'
      BY <1>2, <2>2, <3>1, <3>2, OwedStep, WaitStep DEF AnswerInv
    <3>. QED
      BY <3>3, <3>4
  <2>. QED
    BY <2>1, <2>2 DEF AnswerInv
<1> QED
  BY <1>1, <1>2

LEMMA AnswerStart == Init => AnswerInv
BY DEF Init, AnswerInv, OriginOK, PlacesOK, RunsOK, ListsOK, PlayOK, OwedOK, WaitOK, Owed, Held,
  InPlay, Making, Called, Answered, None, Nowhere, Runs

\* Where an unanswered call is, in every state.
THEOREM AnswerInvariance == Spec => []AnswerInv
<1>1. IInv /\ SoloInv /\ AnswerInv /\ [Next]_vars => AnswerInv'
  BY AnswerNext
<1> QED
  BY <1>1, AnswerStart, Invariance, SoloInvariance, PTL DEF Spec

\* When a run that was not told to stop asks, nothing is in play, so that every call is answered or
\* was cut off.
LEMMA AskingAnswered ==
  ASSUME IInv, SoloInv, AnswerInv, ~early, ~askew, NEW r \in Runs, pc[r] = "ask", ~Dead(r),
         NEW t \in Tasks, ~Stopped(t)
  PROVE  t \in Called <=> t \in Answered
<1>1. replyAt[t] \in {Nowhere, callAt[t]}
  BY DEF AnswerInv, ListsOK
<1>2. currentRunID = r /\ r # None /\ toolRun = None
  BY DEF SoloInv, Solo, Working, Runs, None
<1>3. ASSUME t \in Called \ Answered PROVE FALSE
  <2>1. AtHand(t)
    BY <1>3 DEF AnswerInv, OwedOK, Owed
  <2>2. CASE task[t] = "waiting"
    <3>1. by[t] # None /\ by[t] \in Runs
      BY <2>2 DEF IInv, TypeOK, TaskType, TaskOK
    <3>2. ~Dead(by[t])
      BY <3>1 DEF Stopped
    <3>3. by[t] = r /\ pc[r] \in Making
      BY <1>2, <2>2, <3>2 DEF AnswerInv, WaitOK
    <3>. QED
      BY <3>3 DEF Making
  <2>3. CASE Held(t)
    <3>1. InPlay(t) /\ pc[by[t]] \in Making
      BY <2>3 DEF InPlay, Held
    <3>2. by[t] = r
      BY <1>2, <2>3, <3>1, WhoPlays
    <3>. QED
      BY <3>1, <3>2 DEF Making
  <2>4. CASE BeingResolved(t)
    BY <1>2, <2>4, WhoPlays DEF BeingResolved, InPlay
  <2>. QED
    BY <2>1, <2>2, <2>3, <2>4 DEF AtHand
<1> QED
  BY <1>1, <1>3 DEF Called, Answered

\* StreamTurn is called with an answer to every tool call in the messages and with no other answer,
\* except those of a run that was told to stop: the loop goes on only when its tasks are executed
\* and none waits, the tool run takes over only when its last resolver is through and no other task
\* waits, and an edit of whatever message of the user cuts off what is still to be answered.
THEOREM AskedComplete == Spec => AskedWithAnswers
<1> DEFINE Answers == \A r \in Runs :
      pc[r] = "ask" /\ pc'[r] = "stream" /\ ~Dead(r) /\ ~early /\ ~askew =>
        \A t \in Tasks : Stopped(t) \/ (t \in Called <=> t \in Answered)
<1>1. IInv /\ SoloInv /\ AnswerInv => [Answers]_vars
  BY AskingAnswered
<1>2. Spec => [][Answers]_vars
  BY <1>1, AnswerInvariance, SoloInvariance, Invariance, PTL DEF Spec
<1> QED
  BY <1>2 DEF AskedWithAnswers
=============================================================================
