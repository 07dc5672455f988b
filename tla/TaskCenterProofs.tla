-------------------------- MODULE TaskCenterProofs --------------------------
(***************************************************************************)
(* Proofs about TaskCenter, for any number of runs, requests and crashes.  *)
(* With any number of instances, whatever is refused: the types, that the  *)
(* end of a run is told once, and that the rows follow TaskLifecycle.      *)
(* With any number of instances, while no statement is refused: a row in   *)
(* canceling is heard.  With one instance: a restart fails dead runs only, *)
(* and a run at work is not shown as queued again.                         *)
(*                                                                         *)
(* The invariant ties each process to the row it works on: an execution    *)
(* that did not write its row finds none, one that decided has an outcome, *)
(* and a completer holds, alone, a run that ended and was not told yet.    *)
(* HeardOK adds that the cancels map holds the executions and that a       *)
(* request was asked of a run that had begun; so a request that nobody     *)
(* heard on the only instance is about a run that is gone (UnheardOK), and *)
(* one that reaches its execution finds it before its last update (LeftOK).*)
(***************************************************************************)
EXTENDS MCTaskCenter, TLAPS

\* What the program counter of an execution says about its row.
ExecutionOK ==
  \A r \in Runs :
    /\ execution[r] \in {"idle", "registered"} => status[r] = "absent"
    /\ execution[r] = "decided" => outcome[r] \in Outcomes

\* A completer with something left to do is the only one that holds its run.
CompleterOK ==
  \A c \in Completers :
    telling[c] # "none" =>
      /\ subject[c] \in Runs
      /\ IsOver(subject[c])
      /\ notices[subject[c]] = 0
      /\ \A other \in Completers :
           telling[other] # "none" /\ subject[other] = subject[c] => other = c

\* A request in progress has a run.
RequestOK ==
  \A q \in Requests : request[q] \in {"read", "marked", "unheard"} => target[q] \in Runs

IInv == TypeOK /\ RequestOK /\ ExecutionOK /\ CompleterOK /\ ToldOnce

-----------------------------------------------------------------------------

\* The initial states satisfy the invariant.
LEMMA InitIInv == Init => IInv
<1> SUFFICES ASSUME Init PROVE IInv
  OBVIOUS
<1>1. TypeOK
  BY SwitchesAssumption DEF Init, TypeOK, ExecutionPoints, Completers
<1>2. ExecutionOK
  BY DEF Init, ExecutionOK
<1>3. CompleterOK
  BY DEF Init, CompleterOK
<1>4. ToldOnce
  BY DEF Init, ToldOnce
<1>5. RequestOK
  BY DEF Init, RequestOK
<1> QED
  BY <1>1, <1>2, <1>3, <1>4, <1>5 DEF IInv

\* What EndRow does to the invariant, whichever completer wins.
LEMMA EndRowKeeps ==
  ASSUME IInv, NEW c \in Completers, NEW r \in Runs, NEW result \in Ended,
         EndRow(c, r, result)
  PROVE  /\ status' \in [Runs -> {"absent", "purged"} \cup Active \cup Ended]
         /\ telling' \in [Completers -> {"none", "count", "write", "notify"}]
         /\ subject' \in [Completers -> Runs \cup {Nobody}]
         /\ CompleterOK' /\ ToldOnce'
<1> USE DEF IInv, TypeOK, EndRow, Active, Ended
<1>1. /\ status' \in [Runs -> {"absent", "purged"} \cup Active \cup Ended]
      /\ telling' \in [Completers -> {"none", "count", "write", "notify"}]
      /\ subject' \in [Completers -> Runs \cup {Nobody}]
  OBVIOUS
<1>2. notices[r] = 0
  <2>1. status[r] \in {"queued", "running", "canceling"} /\ notices[r] \in Nat
    OBVIOUS
  <2>2. ~ IsOver(r)
    BY <2>1 DEF IsOver
  <2>3. notices[r] <= 1 /\ notices[r] # 1
    BY <2>2 DEF ToldOnce
  <2> HIDE DEF IInv, TypeOK, EndRow
  <2> QED
    BY <2>1, <2>3
<1>3. status'[r] = result /\ \A x \in Runs : x # r => status'[x] = status[x]
  OBVIOUS
<1>4. \A x \in Runs : IsOver(x) => IsOver(x)' /\ x # r
  BY <1>3 DEF IsOver
<1>5. IsOver(r)'
  BY DEF IsOver
<1>6. ToldOnce'
  BY <1>2, <1>4 DEF ToldOnce
<1>7. CompleterOK'
  <2> SUFFICES ASSUME NEW k \in Completers, telling'[k] # "none"
               PROVE  /\ subject'[k] \in Runs
                      /\ status'[subject'[k]] \in Ended \cup {"purged"}
                      /\ notices'[subject'[k]] = 0
                      /\ \A other \in Completers :
                           telling'[other] # "none" /\ subject'[other] = subject'[k]
                             => other = k
    BY DEF CompleterOK, IsOver
  <2>1. \A o \in Completers : o # c => telling'[o] = telling[o] /\ subject'[o] = subject[o]
    OBVIOUS
  <2>2. subject'[c] = r
    OBVIOUS
  <2>3. \A o \in Completers : o # c /\ telling'[o] # "none" => subject'[o] \in Runs /\ subject'[o] # r
    BY <2>1, <1>4 DEF CompleterOK
  <2>4. CASE k = c
    BY <2>2, <2>3, <2>4, <1>2, <1>3
  <2>5. CASE k # c
    <3>1. telling[k] # "none" /\ subject'[k] = subject[k] /\ subject[k] \in Runs
      BY <2>1, <2>5 DEF CompleterOK
    <3>2. IsOver(subject[k]) /\ notices'[subject[k]] = 0
      BY <3>1 DEF CompleterOK
    <3>3. status'[subject[k]] \in Ended \cup {"purged"}
      BY <3>1, <3>2, <1>4 DEF IsOver
    <3>4. ASSUME NEW other \in Completers, telling'[other] # "none", subject'[other] = subject'[k]
          PROVE  other = k
      BY <3>1, <3>4, <2>1, <2>2, <2>3, <2>5 DEF CompleterOK
    <3> QED
      BY <3>1, <3>2, <3>3, <3>4
  <2> QED
    BY <2>4, <2>5
<1> QED
  BY <1>1, <1>6, <1>7

\* The parts of the invariant that a step leaves alone when it changes
\* neither a row's end nor a completer.
LEMMA TellingUntouched ==
  ASSUME CompleterOK, ToldOnce, UNCHANGED <<telling, subject, notices>>,
         \A r \in Runs : IsOver(r) => IsOver(r)'
  PROVE  CompleterOK' /\ ToldOnce'
<1>1. ToldOnce'
  BY DEF ToldOnce
<1>2. CompleterOK'
  BY DEF CompleterOK
<1> QED
  BY <1>1, <1>2

\* A step of an execution.
LEMMA ExecutionStepKeeps ==
  ASSUME IInv, NEW r \in Runs, ExecutionStep(r)
  PROVE  IInv'
<1> USE DEF IInv, rowVars, executionVars, completerVars, requestVars, instanceVars
<1>1. CASE CreateRow(r)
  <2> USE <1>1 DEF CreateRow
  <2>1. TypeOK' /\ RequestOK'
    BY DEF TypeOK, RequestOK, ExecutionPoints, Active, Ended, Outcomes, Completers
  <2>2. ExecutionOK'
BY DEF ExecutionOK, TypeOK, RequestOK, ExecutionPoints, Active, Ended, Outcomes,
         Completers
  <2>3. \A x \in Runs : IsOver(x) => IsOver(x)'
BY DEF IsOver, ExecutionOK, TypeOK, RequestOK, ExecutionPoints, Active, Ended,
         Outcomes, Completers
  <2>4. UNCHANGED <<telling, subject, notices>>
    BY DEF rowVars, completerVars
  <2> HIDE <1>1 DEF CreateRow
  <2>5. CompleterOK' /\ ToldOnce'
    BY <2>3, <2>4, TellingUntouched
  <2> QED
    BY <2>1, <2>2, <2>5
<1>2. CASE CreateRowFails(r)
  <2> USE <1>2 DEF CreateRowFails
  <2>1. TypeOK' /\ RequestOK'
    BY DEF TypeOK, RequestOK, ExecutionPoints, Active, Ended, Outcomes, Completers
  <2>2. ExecutionOK'
BY DEF ExecutionOK, TypeOK, RequestOK, ExecutionPoints, Active, Ended, Outcomes,
         Completers
  <2>3. \A x \in Runs : IsOver(x) => IsOver(x)'
BY DEF IsOver, ExecutionOK, TypeOK, RequestOK, ExecutionPoints, Active, Ended,
         Outcomes, Completers
  <2>4. UNCHANGED <<telling, subject, notices>>
    BY DEF rowVars, completerVars
  <2> HIDE <1>2 DEF CreateRowFails
  <2>5. CompleterOK' /\ ToldOnce'
    BY <2>3, <2>4, TellingUntouched
  <2> QED
    BY <2>1, <2>2, <2>5
<1>3. CASE StartRow(r)
  <2> USE <1>3 DEF StartRow
  <2>1. TypeOK' /\ RequestOK'
    BY DEF TypeOK, RequestOK, ExecutionPoints, Active, Ended, Outcomes, Completers
  <2>2. ExecutionOK'
BY DEF ExecutionOK, TypeOK, RequestOK, ExecutionPoints, Active, Ended, Outcomes,
         Completers
  <2>3. \A x \in Runs : IsOver(x) => IsOver(x)'
BY DEF IsOver, ExecutionOK, TypeOK, RequestOK, ExecutionPoints, Active, Ended,
         Outcomes, Completers
  <2>4. UNCHANGED <<telling, subject, notices>>
    BY DEF rowVars, completerVars
  <2> HIDE <1>3 DEF StartRow
  <2>5. CompleterOK' /\ ToldOnce'
    BY <2>3, <2>4, TellingUntouched
  <2> QED
    BY <2>1, <2>2, <2>5
<1>4. CASE Decide(r)
  <2> USE <1>4 DEF Decide
  <2>1. TypeOK' /\ RequestOK'
    BY DEF TypeOK, RequestOK, ExecutionPoints, Active, Ended, Outcomes, Completers
  <2>2. ExecutionOK'
BY DEF ExecutionOK, TypeOK, RequestOK, ExecutionPoints, Active, Ended, Outcomes,
         Completers
  <2>3. \A x \in Runs : IsOver(x) => IsOver(x)'
BY DEF IsOver, ExecutionOK, TypeOK, RequestOK, ExecutionPoints, Active, Ended,
         Outcomes, Completers
  <2>4. UNCHANGED <<telling, subject, notices>>
    BY DEF rowVars, completerVars
  <2> HIDE <1>4 DEF Decide
  <2>5. CompleterOK' /\ ToldOnce'
    BY <2>3, <2>4, TellingUntouched
  <2> QED
    BY <2>1, <2>2, <2>5
<1>5. CASE CompleteExecution(r)
  <2>1. ExecutionOK'
BY <1>5 DEF CompleteExecution, EndRow, AlreadyEnded, ExecutionOK, TypeOK,
         ExecutionPoints, Active, Completers
  <2>2. r \in Completers /\ (execution[r] = "decided" => outcome[r] \in Ended)
    BY DEF Completers, ExecutionOK, Outcomes, Ended
  <2>3. CASE EndRow(r, r, outcome[r])
    <3>1. /\ status' \in [Runs -> {"absent", "purged"} \cup Active \cup Ended]
          /\ telling' \in [Completers -> {"none", "count", "write", "notify"}]
          /\ subject' \in [Completers -> Runs \cup {Nobody}]
          /\ CompleterOK' /\ ToldOnce'
      BY <1>5, <2>2, <2>3, EndRowKeeps DEF CompleteExecution
    <3>2. TypeOK' /\ RequestOK'
BY <1>5, <2>3, <3>1 DEF CompleteExecution, EndRow, TypeOK, RequestOK,
           ExecutionPoints
    <3> QED
      BY <2>1, <3>1, <3>2
  <2>4. CASE UNCHANGED <<rowVars, completerVars>>
    <3>1. TypeOK' /\ RequestOK'
      BY <1>5, <2>4 DEF CompleteExecution, TypeOK, RequestOK, ExecutionPoints
    <3>2. \A x \in Runs : IsOver(x) => IsOver(x)'
      BY <2>4 DEF IsOver
    <3>3. CompleterOK' /\ ToldOnce'
      BY <2>4, <3>2, TellingUntouched
    <3> QED
      BY <2>1, <3>1, <3>3
  <2> QED
    BY <1>5, <2>3, <2>4 DEF CompleteExecution, AlreadyEnded
<1>6. CASE Leave(r)
  <2> USE <1>6 DEF Leave
  <2>1. TypeOK' /\ RequestOK'
    BY DEF TypeOK, RequestOK, ExecutionPoints, Active, Ended, Outcomes, Completers
  <2>2. ExecutionOK'
BY DEF ExecutionOK, TypeOK, RequestOK, ExecutionPoints, Active, Ended, Outcomes,
         Completers
  <2>3. \A x \in Runs : IsOver(x) => IsOver(x)'
BY DEF IsOver, ExecutionOK, TypeOK, RequestOK, ExecutionPoints, Active, Ended,
         Outcomes, Completers
  <2>4. UNCHANGED <<telling, subject, notices>>
    BY DEF rowVars, completerVars
  <2> HIDE <1>6 DEF Leave
  <2>5. CompleterOK' /\ ToldOnce'
    BY <2>3, <2>4, TellingUntouched
  <2> QED
    BY <2>1, <2>2, <2>5
<1> QED
  BY <1>1, <1>2, <1>3, <1>4, <1>5, <1>6 DEF ExecutionStep

\* A step of a request to cancel.
LEMMA RequestStepKeeps ==
  ASSUME IInv, NEW q \in Requests, RequestStep(q)
  PROVE  IInv'
<1> USE DEF IInv, rowVars, executionVars, completerVars, requestVars, instanceVars
<1>1. CASE Mark(q)
  <2> USE <1>1 DEF Mark
  <2>1. TypeOK' /\ RequestOK'
    <3>1. status' \in [Runs -> {"absent", "purged"} \cup Active \cup Ended]
      BY DEF TypeOK, Active
    <3>2. request' \in [Requests -> {"idle", "read", "marked", "unheard", "accepted", "refused", "dead"}]
      BY DEF TypeOK
    <3>3. TypeOK'
      BY <3>1, <3>2 DEF TypeOK
    <3>4. RequestOK'
      BY DEF TypeOK, RequestOK
    <3> QED
      BY <3>3, <3>4
  <2>2. ExecutionOK'
BY DEF ExecutionOK, TypeOK, RequestOK, ExecutionPoints, Active, Ended, Outcomes,
         Completers
  <2>3. \A x \in Runs : IsOver(x) => IsOver(x)'
BY DEF IsOver, ExecutionOK, TypeOK, RequestOK, ExecutionPoints, Active, Ended,
         Outcomes, Completers
  <2>4. UNCHANGED <<telling, subject, notices>>
    BY DEF rowVars, completerVars
  <2> HIDE <1>1 DEF Mark
  <2>5. CompleterOK' /\ ToldOnce'
    BY <2>3, <2>4, TellingUntouched
  <2> QED
    BY <2>1, <2>2, <2>5
<1>2. CASE Signal(q)
  <2> USE <1>2 DEF Signal
  <2>1. TypeOK' /\ RequestOK'
    <3>1. stopped' \in [Runs -> BOOLEAN]
      BY DEF TypeOK
    <3>2. request' \in [Requests -> {"idle", "read", "marked", "unheard", "accepted", "refused", "dead"}]
      BY DEF TypeOK
    <3>3. TypeOK'
      BY <3>1, <3>2 DEF TypeOK
    <3>4. RequestOK'
      BY DEF TypeOK, RequestOK
    <3> QED
      BY <3>3, <3>4
  <2>2. ExecutionOK'
BY DEF ExecutionOK, TypeOK, RequestOK, ExecutionPoints, Active, Ended, Outcomes,
         Completers, Reaches
  <2>3. \A x \in Runs : IsOver(x) => IsOver(x)'
BY DEF IsOver, ExecutionOK, TypeOK, RequestOK, ExecutionPoints, Active, Ended,
         Outcomes, Completers
  <2>4. UNCHANGED <<telling, subject, notices>>
    BY DEF rowVars, completerVars
  <2> HIDE <1>2 DEF Signal
  <2>5. CompleterOK' /\ ToldOnce'
    BY <2>3, <2>4, TellingUntouched
  <2> QED
    BY <2>1, <2>2, <2>5
<1>3. CASE Revert(q)
  <2> USE <1>3 DEF Revert
  <2>1. TypeOK' /\ RequestOK'
    BY DEF TypeOK, RequestOK, ExecutionPoints, Active, Ended, Outcomes, Completers
  <2>2. ExecutionOK'
BY DEF ExecutionOK, TypeOK, RequestOK, ExecutionPoints, Active, Ended, Outcomes,
         Completers
  <2>3. \A x \in Runs : IsOver(x) => IsOver(x)'
BY DEF IsOver, ExecutionOK, TypeOK, RequestOK, ExecutionPoints, Active, Ended,
         Outcomes, Completers
  <2>4. UNCHANGED <<telling, subject, notices>>
    BY DEF rowVars, completerVars
  <2> HIDE <1>3 DEF Revert
  <2>5. CompleterOK' /\ ToldOnce'
    BY <2>3, <2>4, TellingUntouched
  <2> QED
    BY <2>1, <2>2, <2>5
<1> QED
  BY <1>1, <1>2, <1>3 DEF RequestStep

\* A step of a completer after the row ended.
LEMMA CompleterStepKeeps ==
  ASSUME IInv, NEW c \in Completers, CompleterStep(c)
  PROVE  IInv'
<1> USE DEF IInv, rowVars, executionVars, completerVars, requestVars, instanceVars
<1>1. CASE ReadDefinition(c)
  <2> USE <1>1 DEF ReadDefinition
  <2>a. /\ subject[c] \in Runs /\ readCount[c] + 1 \in Nat
        /\ DefinitionOf[subject[c]] \in Definitions \cup {Nobody}
        /\ runCount \in [Definitions -> Nat] /\ notices[subject[c]] + 1 \in Nat
    <3>1. telling[c] # "none"
      OBVIOUS
    <3>2. subject[c] \in Runs
      BY <3>1 DEF CompleterOK
    <3>3. DefinitionOf[subject[c]] \in Definitions \cup {Nobody}
      BY <3>2, DefinitionsAssumption
    <3>4. readCount[c] \in Nat /\ notices[subject[c]] \in Nat /\ runCount \in [Definitions -> Nat]
      BY <3>2 DEF TypeOK
    <3> QED
      BY <3>2, <3>3, <3>4
  <2>b. 0 \in Nat /\ (DefinitionOf[subject[c]] # Nobody => runCount[DefinitionOf[subject[c]]] \in Nat)
    BY <2>a
  <2>1. TypeOK' /\ RequestOK'
    <3>1. telling' \in [Completers -> {"none", "count", "write", "notify"}]
      BY DEF TypeOK
    <3>2. readCount' \in [Completers -> Nat]
      BY <2>a, <2>b DEF TypeOK
    <3>3. TypeOK'
      BY <3>1, <3>2 DEF TypeOK
    <3>4. RequestOK'
      BY DEF RequestOK
    <3> QED
      BY <3>3, <3>4
  <2>2. ExecutionOK'
BY DEF ExecutionOK, TypeOK, RequestOK, ExecutionPoints, Active, Ended, Outcomes,
         Completers
  <2>3. \A x \in Runs : IsOver(x) => IsOver(x)'
BY DEF IsOver, ExecutionOK, TypeOK, RequestOK, ExecutionPoints, Active, Ended,
         Outcomes, Completers
  <2>4. \A k \in Completers : subject'[k] = subject[k] /\ (telling'[k] # "none" => telling[k] # "none")
    BY DEF TypeOK
  <2>5. CompleterOK' /\ ToldOnce'
    BY <2>3, <2>4 DEF CompleterOK, ToldOnce
  <2> QED
    BY <2>1, <2>2, <2>5
<1>2. CASE WriteDefinition(c)
  <2> USE <1>2 DEF WriteDefinition
  <2>a. /\ subject[c] \in Runs /\ readCount[c] + 1 \in Nat
        /\ DefinitionOf[subject[c]] \in Definitions \cup {Nobody}
        /\ runCount \in [Definitions -> Nat] /\ notices[subject[c]] + 1 \in Nat
    <3>1. telling[c] # "none"
      OBVIOUS
    <3>2. subject[c] \in Runs
      BY <3>1 DEF CompleterOK
    <3>3. DefinitionOf[subject[c]] \in Definitions \cup {Nobody}
      BY <3>2, DefinitionsAssumption
    <3>4. readCount[c] \in Nat /\ notices[subject[c]] \in Nat /\ runCount \in [Definitions -> Nat]
      BY <3>2 DEF TypeOK
    <3> QED
      BY <3>2, <3>3, <3>4
  <2>b. 0 \in Nat /\ (DefinitionOf[subject[c]] # Nobody => runCount[DefinitionOf[subject[c]]] \in Nat)
    BY <2>a
  <2>1. TypeOK' /\ RequestOK'
BY <2>a, <2>b DEF TypeOK, RequestOK, ExecutionPoints, Active, Ended, Outcomes,
         Completers
  <2>2. ExecutionOK'
BY DEF ExecutionOK, TypeOK, RequestOK, ExecutionPoints, Active, Ended, Outcomes,
         Completers
  <2>3. \A x \in Runs : IsOver(x) => IsOver(x)'
BY DEF IsOver, ExecutionOK, TypeOK, RequestOK, ExecutionPoints, Active, Ended,
         Outcomes, Completers
  <2>4. \A k \in Completers : subject'[k] = subject[k] /\ (telling'[k] # "none" => telling[k] # "none")
    BY DEF TypeOK
  <2>5. CompleterOK' /\ ToldOnce'
    BY <2>3, <2>4 DEF CompleterOK, ToldOnce
  <2> QED
    BY <2>1, <2>2, <2>5
<1>3. CASE NotifyFinished(c)
  <2> USE <1>3 DEF NotifyFinished
  <2>a. /\ subject[c] \in Runs /\ readCount[c] + 1 \in Nat
        /\ DefinitionOf[subject[c]] \in Definitions \cup {Nobody}
        /\ runCount \in [Definitions -> Nat] /\ notices[subject[c]] + 1 \in Nat
    <3>1. telling[c] # "none"
      OBVIOUS
    <3>2. subject[c] \in Runs
      BY <3>1 DEF CompleterOK
    <3>3. DefinitionOf[subject[c]] \in Definitions \cup {Nobody}
      BY <3>2, DefinitionsAssumption
    <3>4. readCount[c] \in Nat /\ notices[subject[c]] \in Nat /\ runCount \in [Definitions -> Nat]
      BY <3>2 DEF TypeOK
    <3> QED
      BY <3>2, <3>3, <3>4
  <2>b. 0 \in Nat /\ (DefinitionOf[subject[c]] # Nobody => runCount[DefinitionOf[subject[c]]] \in Nat)
    BY <2>a
  <2>1. TypeOK' /\ RequestOK'
BY <2>a, <2>b DEF TypeOK, RequestOK, ExecutionPoints, Active, Ended, Outcomes,
         Completers
  <2>2. ExecutionOK'
BY DEF ExecutionOK, TypeOK, RequestOK, ExecutionPoints, Active, Ended, Outcomes,
         Completers
  <2>3. \A x \in Runs : IsOver(x) => IsOver(x)'
BY DEF IsOver, ExecutionOK, TypeOK, RequestOK, ExecutionPoints, Active, Ended,
         Outcomes, Completers
  <2>4. /\ subject[c] \in Runs /\ IsOver(subject[c]) /\ notices[subject[c]] = 0
        /\ notices'[subject[c]] = 1 /\ telling'[c] = "none"
        /\ \A x \in Runs : x # subject[c] => notices'[x] = notices[x]
        /\ \A k \in Completers :
             k # c => /\ subject'[k] = subject[k] /\ telling'[k] = telling[k]
                      /\ telling[k] # "none" => subject[k] # subject[c]
    <3>1. telling[c] # "none"
      OBVIOUS
    <3>2. subject[c] \in Runs /\ IsOver(subject[c]) /\ notices[subject[c]] = 0
      BY <3>1 DEF CompleterOK
    <3>3. \A k \in Completers : k # c /\ telling[k] # "none" => subject[k] # subject[c]
      BY <3>1 DEF CompleterOK
    <3> QED
      BY <3>2, <3>3 DEF TypeOK
  <2>5. CompleterOK' /\ ToldOnce'
    <3> HIDE <1>3 DEF NotifyFinished, IInv
    <3>1. ToldOnce'
      BY <2>3, <2>4 DEF ToldOnce, IInv
    <3>2. CompleterOK'
      BY <2>3, <2>4 DEF CompleterOK, IInv
    <3> QED
      BY <3>1, <3>2
  <2> QED
    BY <2>1, <2>2, <2>5
<1> QED
  BY <1>1, <1>2, <1>3 DEF CompleterStep

\* A step of an instance.
LEMMA InstanceStepKeeps ==
  ASSUME IInv, NEW i \in Instances, BootStep(i) \/ Crash(i)
  PROVE  IInv'
<1> USE DEF IInv, rowVars, executionVars, completerVars, requestVars, instanceVars
<1>1. CASE Boot(i)
  <2> USE <1>1 DEF Boot
  <2>1. TypeOK' /\ RequestOK'
    BY DEF TypeOK, RequestOK, ExecutionPoints, Active, Ended, Outcomes, Completers
  <2>2. ExecutionOK'
BY DEF ExecutionOK, TypeOK, RequestOK, ExecutionPoints, Active, Ended, Outcomes,
         Completers
  <2>3. \A x \in Runs : IsOver(x) => IsOver(x)'
BY DEF IsOver, ExecutionOK, TypeOK, RequestOK, ExecutionPoints, Active, Ended,
         Outcomes, Completers
  <2>4. UNCHANGED <<telling, subject, notices>>
    BY DEF rowVars, completerVars
  <2> HIDE <1>1 DEF Boot
  <2>5. CompleterOK' /\ ToldOnce'
    BY <2>3, <2>4, TellingUntouched
  <2> QED
    BY <2>1, <2>2, <2>5
<1>2. CASE RecoveryFails(i)
  <2> USE <1>2 DEF RecoveryFails
  <2>1. TypeOK' /\ RequestOK'
    BY DEF TypeOK, RequestOK, ExecutionPoints, Active, Ended, Outcomes, Completers
  <2>2. ExecutionOK'
BY DEF ExecutionOK, TypeOK, RequestOK, ExecutionPoints, Active, Ended, Outcomes,
         Completers
  <2>3. \A x \in Runs : IsOver(x) => IsOver(x)'
BY DEF IsOver, ExecutionOK, TypeOK, RequestOK, ExecutionPoints, Active, Ended,
         Outcomes, Completers
  <2>4. UNCHANGED <<telling, subject, notices>>
    BY DEF rowVars, completerVars
  <2> HIDE <1>2 DEF RecoveryFails
  <2>5. CompleterOK' /\ ToldOnce'
    BY <2>3, <2>4, TellingUntouched
  <2> QED
    BY <2>1, <2>2, <2>5
<1>3. CASE Serve(i)
  <2> USE <1>3 DEF Serve
  <2>1. TypeOK' /\ RequestOK'
    BY DEF TypeOK, RequestOK, ExecutionPoints, Active, Ended, Outcomes, Completers
  <2>2. ExecutionOK'
BY DEF ExecutionOK, TypeOK, RequestOK, ExecutionPoints, Active, Ended, Outcomes,
         Completers
  <2>3. \A x \in Runs : IsOver(x) => IsOver(x)'
BY DEF IsOver, ExecutionOK, TypeOK, RequestOK, ExecutionPoints, Active, Ended,
         Outcomes, Completers
  <2>4. UNCHANGED <<telling, subject, notices>>
    BY DEF rowVars, completerVars
  <2> HIDE <1>3 DEF Serve
  <2>5. CompleterOK' /\ ToldOnce'
    BY <2>3, <2>4, TellingUntouched
  <2> QED
    BY <2>1, <2>2, <2>5
<1>4. ASSUME NEW r \in Runs, FailInterrupted(i, r)
      PROVE  IInv'
  <2>1. ExecutionOK'
BY <1>4 DEF FailInterrupted, EndRow, AlreadyEnded, ExecutionOK, TypeOK,
         ExecutionPoints, Active
  <2>2. i \in Completers /\ "interrupted" \in Ended
    BY DEF Completers, Ended
  <2>3. CASE EndRow(i, r, "interrupted")
    <3>1. /\ status' \in [Runs -> {"absent", "purged"} \cup Active \cup Ended]
          /\ telling' \in [Completers -> {"none", "count", "write", "notify"}]
          /\ subject' \in [Completers -> Runs \cup {Nobody}]
          /\ CompleterOK' /\ ToldOnce'
      BY <2>2, <2>3, EndRowKeeps
    <3>2. TypeOK' /\ RequestOK'
      BY <1>4, <2>3, <3>1 DEF FailInterrupted, EndRow, TypeOK, RequestOK
    <3> QED
      BY <2>1, <3>1, <3>2
  <2>4. CASE UNCHANGED <<rowVars, completerVars>>
    <3>1. TypeOK' /\ RequestOK'
      BY <1>4, <2>4 DEF FailInterrupted, TypeOK, RequestOK
    <3>2. \A x \in Runs : IsOver(x) => IsOver(x)'
      BY <2>4 DEF IsOver
    <3>3. CompleterOK' /\ ToldOnce'
      BY <2>4, <3>2, TellingUntouched
    <3> QED
      BY <2>1, <3>1, <3>3
  <2> QED
    BY <1>4, <2>3, <2>4 DEF FailInterrupted, AlreadyEnded
<1>5. CASE Crash(i)
  <2> USE <1>5 DEF Crash
  <2>1. TypeOK' /\ RequestOK'
    BY DEF TypeOK, RequestOK, ExecutionPoints, Active, Ended, Outcomes, Completers
  <2>2. ExecutionOK'
BY DEF ExecutionOK, TypeOK, RequestOK, ExecutionPoints, Active, Ended, Outcomes,
         Completers
  <2>3. \A x \in Runs : IsOver(x) => IsOver(x)'
BY DEF IsOver, ExecutionOK, TypeOK, RequestOK, ExecutionPoints, Active, Ended,
         Outcomes, Completers
  <2>4. \A k \in Completers : telling'[k] # "none" => telling'[k] = telling[k] /\ subject'[k] = subject[k]
    BY DEF TypeOK
  <2>5. CompleterOK' /\ ToldOnce'
    BY <2>3, <2>4 DEF CompleterOK, ToldOnce
  <2> QED
    BY <2>1, <2>2, <2>5
<1> QED
  BY <1>1, <1>2, <1>3, <1>4, <1>5 DEF BootStep

\* The queue cancels the context of an execution.
LEMMA QueueStopsKeeps ==
  ASSUME IInv, NEW r \in Runs, QueueStops(r)
  PROVE  IInv'
<1> USE DEF IInv, rowVars, executionVars, completerVars, requestVars, instanceVars
<1> USE DEF QueueStops
<1>1. TypeOK' /\ RequestOK'
BY DEF TypeOK, RequestOK, ExecutionPoints, Active, Ended, Outcomes, Completers,
       Executing
<1>2. ExecutionOK'
BY DEF ExecutionOK, TypeOK, RequestOK, ExecutionPoints, Active, Ended, Outcomes,
       Completers, Executing
<1>3. \A x \in Runs : IsOver(x) => IsOver(x)'
BY DEF IsOver, ExecutionOK, TypeOK, RequestOK, ExecutionPoints, Active, Ended,
       Outcomes, Completers
<1>4. UNCHANGED <<telling, subject, notices>>
  BY DEF rowVars, completerVars
<1>5. CompleterOK' /\ ToldOnce'
  BY <1>3, <1>4, TellingUntouched
<1> QED
  BY <1>1, <1>2, <1>5

\* The cleanup removes a row.
LEMMA PurgeKeeps ==
  ASSUME IInv, NEW r \in Runs, Purge(r)
  PROVE  IInv'
<1> USE DEF IInv, rowVars, executionVars, completerVars, requestVars, instanceVars
<1> USE DEF Purge
<1>1. TypeOK' /\ RequestOK'
  BY DEF TypeOK, RequestOK, ExecutionPoints, Active, Ended, Outcomes, Completers
<1>2. ExecutionOK'
BY DEF ExecutionOK, TypeOK, RequestOK, ExecutionPoints, Active, Ended, Outcomes,
       Completers
<1>3. \A x \in Runs : IsOver(x) => IsOver(x)'
BY DEF IsOver, ExecutionOK, TypeOK, RequestOK, ExecutionPoints, Active, Ended,
       Outcomes, Completers
<1>4. UNCHANGED <<telling, subject, notices>>
  BY DEF rowVars, completerVars
<1>5. CompleterOK' /\ ToldOnce'
  BY <1>3, <1>4, TellingUntouched
<1> QED
  BY <1>1, <1>2, <1>5

\* A worker begins to execute a run.
LEMMA BeginKeeps ==
  ASSUME IInv, NEW r \in Runs, NEW i \in Instances, Begin(r, i)
  PROVE  IInv'
<1> USE DEF IInv, rowVars, executionVars, completerVars, requestVars, instanceVars
<1> USE DEF Begin
<1>1. TypeOK' /\ RequestOK'
  BY DEF TypeOK, RequestOK, ExecutionPoints, Active, Ended, Outcomes, Completers
<1>2. ExecutionOK'
BY DEF ExecutionOK, TypeOK, RequestOK, ExecutionPoints, Active, Ended, Outcomes,
       Completers
<1>3. \A x \in Runs : IsOver(x) => IsOver(x)'
BY DEF IsOver, ExecutionOK, TypeOK, RequestOK, ExecutionPoints, Active, Ended,
       Outcomes, Completers
<1>4. UNCHANGED <<telling, subject, notices>>
  BY DEF rowVars, completerVars
<1>5. CompleterOK' /\ ToldOnce'
  BY <1>3, <1>4, TellingUntouched
<1> QED
  BY <1>1, <1>2, <1>5

\* A user asks to cancel a run.
LEMMA AskKeeps ==
  ASSUME IInv, NEW q \in Requests, NEW r \in Runs, NEW i \in Instances, Ask(q, r, i)
  PROVE  IInv'
<1> USE DEF IInv, rowVars, executionVars, completerVars, requestVars, instanceVars
<1> USE DEF Ask
<1>1. TypeOK' /\ RequestOK'
  BY DEF TypeOK, RequestOK, ExecutionPoints, Active, Ended, Outcomes, Completers
<1>2. ExecutionOK'
BY DEF ExecutionOK, TypeOK, RequestOK, ExecutionPoints, Active, Ended, Outcomes,
       Completers
<1>3. \A x \in Runs : IsOver(x) => IsOver(x)'
BY DEF IsOver, ExecutionOK, TypeOK, RequestOK, ExecutionPoints, Active, Ended,
       Outcomes, Completers
<1>4. UNCHANGED <<telling, subject, notices>>
  BY DEF rowVars, completerVars
<1>5. CompleterOK' /\ ToldOnce'
  BY <1>3, <1>4, TellingUntouched
<1> QED
  BY <1>1, <1>2, <1>5

-----------------------------------------------------------------------------
(* The invariant, and what follows from it *)

\* Every step keeps the invariant.
LEMMA NextIInv == IInv /\ [Next]_vars => IInv'
<1> SUFFICES ASSUME IInv, [Next]_vars PROVE IInv'
  OBVIOUS
<1>1. CASE UNCHANGED vars
  BY <1>1 DEF vars, rowVars, executionVars, completerVars, requestVars, instanceVars,
     IInv, TypeOK, RequestOK, ExecutionOK, CompleterOK, ToldOnce, IsOver
<1>2. ASSUME NEW r \in Runs, ExecutionStep(r) \/ QueueStops(r) \/ Purge(r)
      PROVE  IInv'
  <2>1. CASE ExecutionStep(r)
    BY <2>1, ExecutionStepKeeps
  <2>2. CASE QueueStops(r)
    BY <2>2, QueueStopsKeeps
  <2>3. CASE Purge(r)
    BY <2>3, PurgeKeeps
  <2> QED
    BY <1>2, <2>1, <2>2, <2>3
<1>3. ASSUME NEW r \in Runs, NEW i \in Instances, Begin(r, i)
      PROVE  IInv'
  BY <1>3, BeginKeeps
<1>4. ASSUME NEW c \in Completers, CompleterStep(c)
      PROVE  IInv'
  BY <1>4, CompleterStepKeeps
<1>5. ASSUME NEW q \in Requests, NEW r \in Runs, NEW i \in Instances, Ask(q, r, i)
      PROVE  IInv'
  BY <1>5, AskKeeps
<1>6. ASSUME NEW q \in Requests, RequestStep(q)
      PROVE  IInv'
  BY <1>6, RequestStepKeeps
<1>7. ASSUME NEW i \in Instances, BootStep(i) \/ Crash(i)
      PROVE  IInv'
  BY <1>7, InstanceStepKeeps
<1> QED
  BY <1>1, <1>2, <1>3, <1>4, <1>5, <1>6, <1>7 DEF Next

\* The invariant holds in every reachable state.
THEOREM Invariance == Spec => []IInv
<1>1. Init => IInv
  BY InitIInv
<1>2. IInv /\ [Next]_vars => IInv'
  BY NextIInv
<1> QED
  BY <1>1, <1>2, PTL DEF Spec

\* Every variable keeps its type.
THEOREM TypeCorrect == Spec => []TypeOK
<1>1. IInv => TypeOK
  BY DEF IInv
<1> QED
  BY <1>1, Invariance, PTL

\* However many executions, restarting instances and cancellations compete
\* for a run, its end is told to the notifier once at most (Complete).
THEOREM EndToldOnce == Spec => []ToldOnce
<1>1. IInv => ToldOnce
  BY DEF IInv
<1> QED
  BY <1>1, Invariance, PTL

-----------------------------------------------------------------------------
(* The rows follow TaskLifecycle *)

\* The update of EndRow completes the run of the abstract specification.
LEMMA EndRowCompletes ==
  ASSUME IInv, NEW c, NEW r \in Runs, NEW result \in Ended, EndRow(c, r, result)
  PROVE  Lifecycle!Next
<1>1. Lifecycle!Complete(r)
  BY DEF EndRow, Active, Ended, Lifecycle!Complete, Lifecycle!Move,
     Lifecycle!Active, Lifecycle!Ended
<1> QED
  BY <1>1 DEF Lifecycle!Next

\* Every step is a step of the life of one run, or changes no row.
LEMMA StepFollows == IInv /\ [Next]_vars => [Lifecycle!Next]_status
<1> SUFFICES ASSUME IInv, Next, status' # status PROVE Lifecycle!Next
  BY DEF vars, rowVars
<1> USE DEF rowVars
<1>1. ASSUME NEW r \in Runs, CreateRow(r) PROVE Lifecycle!Next
BY <1>1 DEF CreateRow, IInv, ExecutionOK, Lifecycle!Next, Lifecycle!Create,
       Lifecycle!Move
<1>2. ASSUME NEW r \in Runs, StartRow(r) PROVE Lifecycle!Next
  BY <1>2 DEF StartRow, Lifecycle!Next, Lifecycle!Start, Lifecycle!Move
<1>3. ASSUME NEW r \in Runs, CompleteExecution(r) PROVE Lifecycle!Next
  <2>1. outcome[r] \in Ended
    BY <1>3 DEF CompleteExecution, IInv, ExecutionOK, Outcomes, Ended
  <2>2. EndRow(r, r, outcome[r])
    BY <1>3 DEF CompleteExecution, AlreadyEnded
  <2> QED
    BY <2>1, <2>2, EndRowCompletes
<1>4. ASSUME NEW r \in Runs, Purge(r) PROVE Lifecycle!Next
BY <1>4 DEF Purge, Ended, Lifecycle!Next, Lifecycle!Purge, Lifecycle!Move,
       Lifecycle!Ended
<1>5. ASSUME NEW q \in Requests, Mark(q) PROVE Lifecycle!Next
  <2>1. target[q] \in Runs
    BY <1>5 DEF Mark, IInv, RequestOK
  <2>2. Lifecycle!AskToStop(target[q])
    BY <1>5 DEF Mark, Lifecycle!AskToStop, Lifecycle!Move
  <2> QED
    BY <2>1, <2>2 DEF Lifecycle!Next
<1>6. ASSUME NEW q \in Requests, Revert(q) PROVE Lifecycle!Next
  <2>1. target[q] \in Runs /\ seenStatus[q] \in {"queued", "running"}
    BY <1>6 DEF Revert, IInv, RequestOK, TypeOK
  <2>2. Lifecycle!RefuseToStop(target[q])
    BY <1>6, <2>1 DEF Revert, Lifecycle!RefuseToStop, Lifecycle!Move
  <2> QED
    BY <2>1, <2>2 DEF Lifecycle!Next
<1>7. ASSUME NEW i \in Instances, NEW r \in Runs, FailInterrupted(i, r)
      PROVE  Lifecycle!Next
  <2>1. EndRow(i, r, "interrupted") /\ "interrupted" \in Ended
    BY <1>7 DEF FailInterrupted, AlreadyEnded, Ended
  <2> QED
    BY <2>1, EndRowCompletes
<1>8. ASSUME NEW r \in Runs PROVE ~ (CreateRowFails(r) \/ Decide(r) \/ Leave(r) \/ QueueStops(r))
  BY DEF CreateRowFails, Decide, Leave, QueueStops
<1>9. ASSUME NEW r \in Runs, NEW i \in Instances PROVE ~ Begin(r, i)
  BY DEF Begin
<1>10. ASSUME NEW c \in Completers PROVE ~ CompleterStep(c)
  BY DEF CompleterStep, ReadDefinition, WriteDefinition, NotifyFinished
<1>11. ASSUME NEW q \in Requests, NEW r \in Runs, NEW i \in Instances
       PROVE  ~ Ask(q, r, i) /\ ~ Signal(q)
  BY DEF Ask, Signal
<1>12. ASSUME NEW i \in Instances
       PROVE  ~ (Boot(i) \/ RecoveryFails(i) \/ Serve(i) \/ Crash(i))
  BY DEF Boot, RecoveryFails, Serve, Crash
<1>13. ASSUME NEW q \in Requests PROVE ~ Signal(q)
  BY DEF Signal
<1> QED
  BY <1>1, <1>2, <1>3, <1>4, <1>5, <1>6, <1>7, <1>8, <1>9, <1>10, <1>11, <1>12, <1>13
     DEF Next, ExecutionStep, RequestStep, BootStep

\* The task center and the executor implement the life of a task run.
THEOREM Refinement == Spec => ImplementsLifecycle
<1>1. Init => Lifecycle!Init
  BY DEF Init, Lifecycle!Init
<1>2. IInv /\ [Next]_vars => [Lifecycle!Next]_status
  BY StepFollows
<1> QED
  BY <1>1, <1>2, Invariance, PTL DEF Spec, ImplementsLifecycle, Lifecycle!Spec

-----------------------------------------------------------------------------
(* One instance: a restart fails dead runs only *)

OneInstance == \A i, j \in Instances : i = j

\* An execution lives on an instance that serves, and has no failed row.
AliveOK ==
  \A r \in Runs :
    Executing(r) =>
      /\ host[r] \in Instances
      /\ life[host[r]] = "serving"
      /\ status[r] # "interrupted"

\* Every step keeps AliveOK if there is one instance.
LEMMA NextAlive == OneInstance /\ IInv /\ AliveOK /\ [Next]_vars => AliveOK'
<1> SUFFICES ASSUME OneInstance, IInv, AliveOK, [Next]_vars,
                    NEW r \in Runs, Executing(r)'
             PROVE  /\ host'[r] \in Instances
                    /\ life'[host'[r]] = "serving"
                    /\ status'[r] # "interrupted"
  BY DEF AliveOK
<1> USE DEF rowVars, executionVars, completerVars, requestVars, instanceVars
<1>1. TypeOK /\ ExecutionOK /\ (Executing(r) => /\ host[r] \in Instances
                                                /\ life[host[r]] = "serving"
                                                /\ status[r] # "interrupted")
  BY DEF IInv, AliveOK
<1>2. CASE UNCHANGED vars
  BY <1>1, <1>2 DEF vars, Executing
<1>3. ASSUME NEW x \in Runs, ExecutionStep(x) PROVE /\ host'[r] \in Instances
                                                    /\ life'[host'[r]] = "serving"
                                                    /\ status'[r] # "interrupted"
  <2>1. Executing(r) /\ UNCHANGED <<host, life>>
    BY <1>3, <1>1 DEF ExecutionStep, CreateRow, CreateRowFails, StartRow, Decide,
       CompleteExecution, Leave, Executing, TypeOK, ExecutionPoints
  <2>2. status'[r] # "interrupted"
    <3>1. CASE CompleteExecution(x)
      BY <3>1, <2>1, <1>1 DEF CompleteExecution, EndRow, AlreadyEnded, ExecutionOK,
         Outcomes, TypeOK
    <3>2. CASE ~ CompleteExecution(x)
      BY <3>2, <1>3, <2>1, <1>1 DEF ExecutionStep, CreateRow, CreateRowFails, StartRow,
         Decide, Leave, TypeOK
    <3> QED
      BY <3>1, <3>2
  <2> QED
    BY <2>1, <2>2, <1>1
<1>4. ASSUME NEW x \in Runs, NEW i \in Instances, Begin(x, i)
      PROVE  /\ host'[r] \in Instances
             /\ life'[host'[r]] = "serving"
             /\ status'[r] # "interrupted"
  <2>1. CASE x = r
    BY <1>4, <2>1, <1>1 DEF Begin, ExecutionOK, TypeOK
  <2>2. CASE x # r
    BY <1>4, <2>2, <1>1 DEF Begin, Executing, TypeOK
  <2> QED
    BY <2>1, <2>2
<1>5. ASSUME NEW i \in Instances, BootStep(i)
      PROVE  /\ host'[r] \in Instances
             /\ life'[host'[r]] = "serving"
             /\ status'[r] # "interrupted"
  <2>1. Executing(r) /\ UNCHANGED host
    BY <1>5 DEF BootStep, Boot, RecoveryFails, Serve, FailInterrupted, Executing
  <2>2. i = host[r] /\ life[i] = "serving"
    BY <1>1, <2>1 DEF OneInstance
  <2>3. FALSE
    BY <1>5, <2>2 DEF BootStep, Boot, RecoveryFails, Serve, FailInterrupted
  <2> QED
    BY <2>3
<1>6. ASSUME NEW i \in Instances, Crash(i)
      PROVE  /\ host'[r] \in Instances
             /\ life'[host'[r]] = "serving"
             /\ status'[r] # "interrupted"
  <2>1. Executing(r) /\ host[r] # i
    BY <1>6 DEF Crash, Executing
  <2>2. host[r] = i
    BY <1>1, <2>1 DEF OneInstance
  <2> QED
    BY <2>1, <2>2
<1>7. ASSUME UNCHANGED executionVars, UNCHANGED life, status'[r] # "interrupted" \/ UNCHANGED status
      PROVE  /\ host'[r] \in Instances
             /\ life'[host'[r]] = "serving"
             /\ status'[r] # "interrupted"
  BY <1>1, <1>7 DEF Executing
<1>8. ASSUME NEW c \in Completers, CompleterStep(c)
      PROVE  UNCHANGED executionVars /\ UNCHANGED life /\ UNCHANGED status
  BY <1>8 DEF CompleterStep, ReadDefinition, WriteDefinition, NotifyFinished
<1>9. ASSUME NEW q \in Requests, NEW x \in Runs, NEW i \in Instances, Ask(q, x, i)
      PROVE  UNCHANGED executionVars /\ UNCHANGED life /\ UNCHANGED status
  BY <1>9 DEF Ask
<1>10. ASSUME NEW q \in Requests, RequestStep(q)
       PROVE  /\ UNCHANGED <<execution, host, life>>
              /\ status'[r] # "interrupted" \/ UNCHANGED status \/ status'[r] = status[r]
  BY <1>10, <1>1 DEF RequestStep, Mark, Signal, Revert, TypeOK
<1>11. ASSUME NEW x \in Runs, QueueStops(x) \/ Purge(x)
       PROVE  /\ UNCHANGED <<execution, host, life>>
              /\ status'[r] # "interrupted" \/ status'[r] = status[r]
  BY <1>11, <1>1 DEF QueueStops, Purge, TypeOK
<1>12. ASSUME UNCHANGED <<execution, host, life>>,
              status'[r] # "interrupted" \/ status'[r] = status[r]
       PROVE  /\ host'[r] \in Instances
              /\ life'[host'[r]] = "serving"
              /\ status'[r] # "interrupted"
  BY <1>1, <1>12 DEF Executing
<1> QED
  BY <1>2, <1>3, <1>4, <1>5, <1>6, <1>7, <1>8, <1>9, <1>10, <1>11, <1>12 DEF Next

\* With one instance, RecoverInterrupted fails a run only if nothing executes
\* it any more.
THEOREM OnlyTheDeadAreInterrupted == OneInstance /\ Spec => []InterruptedIsDead
<1>1. Init => AliveOK
  BY DEF Init, AliveOK, Executing
<1>2. OneInstance /\ IInv /\ AliveOK /\ [Next]_vars => AliveOK'
  BY NextAlive
<1>3. AliveOK => InterruptedIsDead
  BY DEF AliveOK, InterruptedIsDead
<1>4. ASSUME OneInstance PROVE Spec => []InterruptedIsDead
  BY <1>1, <1>2, <1>3, <1>4, Invariance, PTL DEF Spec
<1> QED
  BY <1>4

-----------------------------------------------------------------------------
(* Who hears a request to cancel *)

\* A request to cancel that is being served.
Pending(q) == request[q] \in {"read", "marked", "unheard"}

\* An execution that has tried to write its row.
HasBegun(r) == execution[r] \notin {"idle", "registered"}

\* The cancels map holds the executions, and a request was asked of a run
\* that had begun, on an instance.
HeardOK ==
  /\ \A r \in Runs : registered[r] <=> Executing(r)
  /\ \A q \in Requests : Pending(q) => server[q] \in Instances /\ HasBegun(target[q])

\* No step takes an execution back, or takes back that it was told to stop.
LEMMA ExecutionAdvances ==
  ASSUME IInv, [Next]_vars, NEW r \in Runs
  PROVE  /\ HasBegun(r) => HasBegun(r)'
         /\ execution[r] = "gone" => execution'[r] = "gone"
         /\ stopped[r] => stopped'[r]
<1> USE DEF rowVars, executionVars, completerVars, requestVars, instanceVars, HasBegun,
            IInv, TypeOK
<1>1. CASE UNCHANGED vars
  BY <1>1 DEF vars
<1>2. ASSUME NEW x \in Runs, ExecutionStep(x) \/ QueueStops(x) \/ Purge(x)
      PROVE  /\ HasBegun(r) => HasBegun(r)'
             /\ execution[r] = "gone" => execution'[r] = "gone"
             /\ stopped[r] => stopped'[r]
  BY <1>2 DEF ExecutionStep, CreateRow, CreateRowFails, StartRow, Decide,
     CompleteExecution, Leave, QueueStops, Purge
<1>3. ASSUME NEW x \in Runs, NEW i \in Instances, Begin(x, i)
      PROVE  /\ HasBegun(r) => HasBegun(r)'
             /\ execution[r] = "gone" => execution'[r] = "gone"
             /\ stopped[r] => stopped'[r]
  BY <1>3 DEF Begin
<1>4. ASSUME NEW c \in Completers, CompleterStep(c)
      PROVE  UNCHANGED <<execution, stopped>>
  BY <1>4 DEF CompleterStep, ReadDefinition, WriteDefinition, NotifyFinished
<1>5. ASSUME NEW q \in Requests, NEW x \in Runs, NEW i \in Instances, Ask(q, x, i)
      PROVE  UNCHANGED <<execution, stopped>>
  BY <1>5 DEF Ask
<1>6. ASSUME NEW q \in Requests, RequestStep(q)
      PROVE  UNCHANGED execution /\ (stopped[r] => stopped'[r])
  BY <1>6 DEF RequestStep, Mark, Signal, Revert
<1>7. ASSUME NEW i \in Instances, BootStep(i)
      PROVE  UNCHANGED <<execution, stopped>>
  BY <1>7 DEF BootStep, Boot, RecoveryFails, Serve, FailInterrupted
<1>8. ASSUME NEW i \in Instances, Crash(i)
      PROVE  /\ HasBegun(r) => HasBegun(r)'
             /\ execution[r] = "gone" => execution'[r] = "gone"
             /\ stopped[r] => stopped'[r]
  BY <1>8 DEF Crash
<1> QED
  BY <1>1, <1>2, <1>3, <1>4, <1>5, <1>6, <1>7, <1>8 DEF Next

\* A request that is pending after a step was pending before, of the same run
\* on the same instance, or asks now, of a run that has a row.
LEMMA RequestAdvances ==
  ASSUME IInv, [Next]_vars, NEW q \in Requests, Pending(q)'
  PROVE  \/ Pending(q) /\ target'[q] = target[q] /\ server'[q] = server[q]
         \/ /\ request'[q] = "read" /\ server'[q] \in Instances
            /\ target'[q] \in Runs /\ HasBegun(target'[q])
            /\ UNCHANGED execution
<1> USE DEF rowVars, executionVars, completerVars, requestVars, instanceVars, Pending
<1>1. TypeOK /\ ExecutionOK
  BY DEF IInv
<1>2. CASE UNCHANGED vars
  BY <1>2 DEF vars
<1>3. ASSUME NEW x \in Runs, ExecutionStep(x) \/ QueueStops(x) \/ Purge(x)
      PROVE  UNCHANGED requestVars
  BY <1>3 DEF ExecutionStep, CreateRow, CreateRowFails, StartRow, Decide,
     CompleteExecution, Leave, QueueStops, Purge
<1>4. ASSUME NEW x \in Runs, NEW i \in Instances, Begin(x, i)
      PROVE  UNCHANGED requestVars
  BY <1>4 DEF Begin
<1>5. ASSUME NEW c \in Completers, CompleterStep(c)
      PROVE  UNCHANGED requestVars
  BY <1>5 DEF CompleterStep, ReadDefinition, WriteDefinition, NotifyFinished
<1>6. ASSUME NEW p \in Requests, NEW x \in Runs, NEW i \in Instances, Ask(p, x, i)
      PROVE  \/ Pending(q) /\ target'[q] = target[q] /\ server'[q] = server[q]
             \/ /\ request'[q] = "read" /\ server'[q] \in Instances
                /\ target'[q] \in Runs /\ HasBegun(target'[q])
                /\ UNCHANGED execution
  <2>1. CASE p = q
    BY <1>6, <2>1, <1>1 DEF Ask, ExecutionOK, TypeOK, HasBegun
  <2>2. CASE p # q
    BY <1>6, <2>2, <1>1 DEF Ask, TypeOK
  <2> QED
    BY <2>1, <2>2
<1>7. ASSUME NEW p \in Requests, RequestStep(p)
      PROVE  Pending(q) /\ target'[q] = target[q] /\ server'[q] = server[q]
  BY <1>7, <1>1 DEF RequestStep, Mark, Signal, Revert, TypeOK
<1>8. ASSUME NEW i \in Instances, BootStep(i)
      PROVE  UNCHANGED requestVars
  BY <1>8 DEF BootStep, Boot, RecoveryFails, Serve, FailInterrupted
<1>9. ASSUME NEW i \in Instances, Crash(i)
      PROVE  Pending(q) /\ target'[q] = target[q] /\ server'[q] = server[q]
  BY <1>9, <1>1 DEF Crash, TypeOK
<1> QED
  BY <1>2, <1>3, <1>4, <1>5, <1>6, <1>7, <1>8, <1>9 DEF Next

\* The cancels map holds the executions after every step.
LEMMA MapFollows ==
  ASSUME IInv, HeardOK, [Next]_vars, NEW r \in Runs
  PROVE  registered'[r] <=> Executing(r)'
<1> USE DEF rowVars, executionVars, completerVars, requestVars, instanceVars, Executing
<1>1. TypeOK /\ (registered[r] <=> Executing(r))
  BY DEF IInv, HeardOK
<1>2. CASE UNCHANGED vars
  BY <1>1, <1>2 DEF vars
<1>3. ASSUME NEW x \in Runs, ExecutionStep(x) \/ QueueStops(x) \/ Purge(x)
      PROVE  registered'[r] <=> Executing(r)'
  BY <1>1, <1>3 DEF ExecutionStep, CreateRow, CreateRowFails, StartRow, Decide,
     CompleteExecution, Leave, QueueStops, Purge, TypeOK
<1>4. ASSUME NEW x \in Runs, NEW i \in Instances, Begin(x, i)
      PROVE  registered'[r] <=> Executing(r)'
  BY <1>1, <1>4 DEF Begin, TypeOK
<1>5. ASSUME NEW c \in Completers, CompleterStep(c)
      PROVE  UNCHANGED <<execution, registered>>
  BY <1>5 DEF CompleterStep, ReadDefinition, WriteDefinition, NotifyFinished
<1>6. ASSUME NEW q \in Requests, NEW x \in Runs, NEW i \in Instances, Ask(q, x, i)
      PROVE  UNCHANGED <<execution, registered>>
  BY <1>6 DEF Ask
<1>7. ASSUME NEW q \in Requests, RequestStep(q)
      PROVE  UNCHANGED <<execution, registered>>
  BY <1>7 DEF RequestStep, Mark, Signal, Revert
<1>8. ASSUME NEW i \in Instances, BootStep(i)
      PROVE  UNCHANGED <<execution, registered>>
  BY <1>8 DEF BootStep, Boot, RecoveryFails, Serve, FailInterrupted
<1>9. ASSUME NEW i \in Instances, Crash(i)
      PROVE  registered'[r] <=> Executing(r)'
  BY <1>1, <1>9 DEF Crash, TypeOK
<1> QED
  BY <1>1, <1>2, <1>3, <1>4, <1>5, <1>6, <1>7, <1>8, <1>9 DEF Next

\* Every step keeps HeardOK.
LEMMA NextHeard == IInv /\ HeardOK /\ [Next]_vars => HeardOK'
<1> SUFFICES ASSUME IInv, HeardOK, [Next]_vars PROVE HeardOK'
  OBVIOUS
<1>1. ASSUME NEW r \in Runs PROVE registered'[r] <=> Executing(r)'
  BY MapFollows
<1>2. ASSUME NEW q \in Requests, Pending(q)'
      PROVE  server'[q] \in Instances /\ execution'[target'[q]] \notin {"idle", "registered"}
  <2>1. PICK x \in Runs : x = target'[q] /\ server'[q] \in Instances /\ HasBegun(x)
    BY <1>2, RequestAdvances DEF HeardOK, IInv, RequestOK, Pending
  <2>2. HasBegun(x)'
    BY <2>1, ExecutionAdvances
  <2> QED
    BY <2>1, <2>2 DEF HasBegun
<1> QED
  BY <1>1, <1>2 DEF HeardOK, HasBegun

-----------------------------------------------------------------------------
(* One instance: a run is not put back into the queue *)

\* A request that nobody heard was asked of a run that is not executed.
UnheardOK == \A q \in Requests : request[q] = "unheard" => execution[target[q]] = "gone"

\* Every step keeps UnheardOK if there is one instance: the map that was
\* searched is the map of the execution.
LEMMA NextUnheard ==
  OneInstance /\ IInv /\ AliveOK /\ HeardOK /\ UnheardOK /\ [Next]_vars => UnheardOK'
<1> SUFFICES ASSUME OneInstance, IInv, AliveOK, HeardOK, UnheardOK, [Next]_vars,
                    NEW q \in Requests, request'[q] = "unheard"
             PROVE  execution'[target'[q]] = "gone"
  BY DEF UnheardOK
<1>1. PICK x \in Runs : /\ x = target[q] /\ x = target'[q] /\ server[q] \in Instances
                        /\ HasBegun(x)
                        /\ Pending(q)
  BY RequestAdvances DEF HeardOK, IInv, RequestOK, Pending
<1>2. CASE request[q] = "unheard"
  <2>1. execution[x] = "gone"
    BY <1>1, <1>2 DEF UnheardOK
  <2> QED
    BY <2>1, <1>1, ExecutionAdvances
<1>3. CASE request[q] # "unheard"
  <2>1. Signal(q) /\ ~ Reaches(q) /\ UNCHANGED execution
    <3> USE DEF rowVars, executionVars, completerVars, requestVars, instanceVars
    <3>1. request \in [Requests -> {"idle", "read", "marked", "unheard", "accepted", "refused", "dead"}]
      BY DEF IInv, TypeOK
    <3>2. ASSUME NEW r \in Runs, ExecutionStep(r) \/ QueueStops(r) \/ Purge(r) PROVE FALSE
      BY <1>3, <3>2 DEF ExecutionStep, CreateRow, CreateRowFails, StartRow, Decide,
         CompleteExecution, Leave, QueueStops, Purge
    <3>3. ASSUME NEW r \in Runs, NEW i \in Instances, Begin(r, i) PROVE FALSE
      BY <1>3, <3>3 DEF Begin
    <3>4. ASSUME NEW c \in Completers, CompleterStep(c) PROVE FALSE
      BY <1>3, <3>4 DEF CompleterStep, ReadDefinition, WriteDefinition, NotifyFinished
    <3>5. ASSUME NEW p \in Requests, NEW r \in Runs, NEW i \in Instances, Ask(p, r, i) PROVE FALSE
      BY <1>3, <3>1, <3>5 DEF Ask
    <3>6. ASSUME NEW p \in Requests, Mark(p) \/ Revert(p) PROVE FALSE
      BY <1>3, <3>1, <3>6 DEF Mark, Revert
    <3>7. ASSUME NEW p \in Requests, Signal(p)
          PROVE  Signal(q) /\ ~ Reaches(q) /\ UNCHANGED execution
      <4>1. p = q
        BY <1>3, <3>1, <3>7 DEF Signal
      <4> QED
        BY <3>1, <3>7, <4>1 DEF Signal
    <3>8. ASSUME NEW i \in Instances, BootStep(i) \/ Crash(i) PROVE FALSE
      BY <1>3, <3>1, <3>8 DEF BootStep, Boot, RecoveryFails, Serve, FailInterrupted, Crash
    <3>9. ~ UNCHANGED vars
      BY <1>3 DEF vars
    <3> QED
      BY <3>2, <3>3, <3>4, <3>5, <3>6, <3>7, <3>8, <3>9 DEF Next, RequestStep
  <2>2. ~ (registered[x] /\ host[x] = server[q])
    BY <2>1, <1>1 DEF Reaches
  <2>3. ~ Executing(x)
    BY <2>2, <1>1 DEF OneInstance, AliveOK, HeardOK
  <2>4. execution[x] = "gone"
    BY <2>3, <1>1 DEF Executing, HasBegun, IInv, TypeOK, ExecutionPoints
  <2> QED
    BY <2>1, <2>4, <1>1
<1> QED
  BY <1>2, <1>3

\* No step shows a run that is at work as queued again.
LEMMA NotQueuedAgain ==
  ASSUME IInv, UnheardOK, [Next]_vars, NEW r \in Runs,
         status[r] \in {"running", "canceling"}, execution[r] = "working"
  PROVE  status'[r] # "queued"
<1> USE DEF rowVars, executionVars, completerVars, requestVars, instanceVars
<1>1. TypeOK /\ RequestOK /\ ExecutionOK
  BY DEF IInv
<1>2. CASE UNCHANGED vars
  BY <1>2 DEF vars
<1>3. ASSUME NEW x \in Runs, ExecutionStep(x) \/ QueueStops(x) \/ Purge(x)
      PROVE  status'[r] # "queued"
  BY <1>1, <1>3 DEF ExecutionStep, CreateRow, CreateRowFails, StartRow, Decide,
     CompleteExecution, Leave, QueueStops, Purge, EndRow, AlreadyEnded, TypeOK,
     ExecutionOK, Outcomes
<1>4. ASSUME NEW x \in Runs, NEW i \in Instances, Begin(x, i) PROVE status'[r] # "queued"
  BY <1>4 DEF Begin
<1>5. ASSUME NEW c \in Completers, CompleterStep(c) PROVE status'[r] # "queued"
  BY <1>5 DEF CompleterStep, ReadDefinition, WriteDefinition, NotifyFinished
<1>6. ASSUME NEW q \in Requests, NEW x \in Runs, NEW i \in Instances, Ask(q, x, i)
      PROVE  status'[r] # "queued"
  BY <1>6 DEF Ask
<1>7. ASSUME NEW q \in Requests, Mark(q) \/ Signal(q) PROVE status'[r] # "queued"
  BY <1>1, <1>7 DEF Mark, Signal, TypeOK
<1>8. ASSUME NEW q \in Requests, Revert(q) PROVE status'[r] # "queued"
  <2>1. target[q] # r
    BY <1>8 DEF Revert, UnheardOK
  <2> QED
    BY <1>1, <1>8, <2>1 DEF Revert, RequestOK, TypeOK
<1>9. ASSUME NEW i \in Instances, BootStep(i) \/ Crash(i) PROVE status'[r] # "queued"
  BY <1>1, <1>9 DEF BootStep, Boot, RecoveryFails, Serve, FailInterrupted, Crash,
     EndRow, AlreadyEnded, TypeOK
<1> QED
  BY <1>2, <1>3, <1>4, <1>5, <1>6, <1>7, <1>8, <1>9 DEF Next, RequestStep

\* With one instance, a run that was seen running is never shown as queued
\* again by a refused request that writes back what it read (RequestCancel).
THEOREM StartedIsNotQueuedAgain == OneInstance /\ Spec => StartedStaysStarted
<1>1. Init => AliveOK /\ HeardOK /\ UnheardOK
  BY DEF Init, AliveOK, HeardOK, UnheardOK, Executing, Pending
<1>2. OneInstance /\ IInv /\ AliveOK /\ [Next]_vars => AliveOK'
  BY NextAlive
<1>3. IInv /\ HeardOK /\ [Next]_vars => HeardOK'
  BY NextHeard
<1>4. OneInstance /\ IInv /\ AliveOK /\ HeardOK /\ UnheardOK /\ [Next]_vars => UnheardOK'
  BY NextUnheard
<1>5. IInv /\ UnheardOK /\ [Next]_vars =>
        [\A r \in Runs :
           status[r] \in {"running", "canceling"} /\ execution[r] = "working"
             => status'[r] # "queued"]_vars
  BY NotQueuedAgain
<1>6. ASSUME OneInstance PROVE Spec => StartedStaysStarted
  BY <1>1, <1>2, <1>3, <1>4, <1>5, <1>6, Invariance, PTL DEF Spec, StartedStaysStarted
<1> QED
  BY <1>6

-----------------------------------------------------------------------------
(* A database that obeys: a row in canceling is heard *)

\* An execution leaves once its row has ended.
LeftOK == \A r \in Runs : execution[r] = "leaving" => status[r] \notin Active

\* Every step keeps LeftOK if the database obeys.
LEMMA NextLeft ==
  ASSUME ~ Outages, IInv, LeftOK, [Next]_vars, NEW r \in Runs, execution'[r] = "leaving"
  PROVE  status'[r] \notin Active
<1> USE DEF rowVars, executionVars, completerVars, requestVars, instanceVars
<1>0. /\ TypeOK /\ ExecutionOK /\ (execution[r] = "leaving" => status[r] \notin Active)
      /\ RequestOK
  BY DEF IInv, LeftOK
<1>1. CASE UNCHANGED vars
  BY <1>0, <1>1 DEF vars
<1>2. ASSUME NEW x \in Runs, ExecutionStep(x)
      PROVE  status'[r] \notin Active
  BY <1>0, <1>2 DEF ExecutionStep, CreateRow, CreateRowFails, StartRow, Decide,
    CompleteExecution, Leave, EndRow, AlreadyEnded, TypeOK, ExecutionOK, Outcomes,
    Active, RequestOK
<1>3. ASSUME NEW x \in Runs, QueueStops(x) \/ Purge(x)
      PROVE  status'[r] \notin Active
  BY <1>0, <1>3 DEF QueueStops, Purge, TypeOK, ExecutionOK, Outcomes, Active, RequestOK
<1>4. ASSUME NEW x \in Runs, NEW i \in Instances, Begin(x, i)
      PROVE  status'[r] \notin Active
  BY <1>0, <1>4 DEF Begin, TypeOK, ExecutionOK, Outcomes, Active, RequestOK
<1>5. ASSUME NEW c \in Completers, CompleterStep(c)
      PROVE  status'[r] \notin Active
  BY <1>0, <1>5 DEF CompleterStep, ReadDefinition, WriteDefinition, NotifyFinished,
    TypeOK, ExecutionOK, Outcomes, Active, RequestOK
<1>6. ASSUME NEW p \in Requests, NEW x \in Runs, NEW i \in Instances, Ask(p, x, i)
      PROVE  status'[r] \notin Active
  BY <1>0, <1>6 DEF Ask, TypeOK, ExecutionOK, Outcomes, Active, RequestOK
<1>7. ASSUME NEW p \in Requests, RequestStep(p)
      PROVE  status'[r] \notin Active
  BY <1>0, <1>7 DEF RequestStep, Mark, Signal, Revert, TypeOK, ExecutionOK, Outcomes,
    Active, RequestOK
<1>8. ASSUME NEW i \in Instances, BootStep(i)
      PROVE  status'[r] \notin Active
  BY <1>0, <1>8 DEF BootStep, Boot, RecoveryFails, Serve, FailInterrupted, EndRow,
    AlreadyEnded, TypeOK, ExecutionOK, Outcomes, Active, RequestOK
<1>9. ASSUME NEW i \in Instances, Crash(i)
      PROVE  status'[r] \notin Active
  BY <1>0, <1>9 DEF Crash, TypeOK, ExecutionOK, Outcomes, Active, RequestOK
<1> QED
  BY <1>1, <1>2, <1>3, <1>4, <1>5, <1>6, <1>7, <1>8, <1>9 DEF Next

\* A row enters canceling by a request that is in progress.
LEMMA CancelingBegins ==
  ASSUME IInv, [Next]_vars, NEW r \in Runs, status[r] # "canceling", status'[r] = "canceling"
  PROVE  \E q \in Requests : target'[q] = r /\ request'[q] = "marked"
<1> USE DEF rowVars, executionVars, completerVars, requestVars, instanceVars
<1>0. TypeOK /\ ExecutionOK /\ RequestOK
  BY DEF IInv
<1>1. ~ UNCHANGED vars
  BY DEF vars
<1>2. ASSUME NEW x \in Runs, ExecutionStep(x)
      PROVE  \E q \in Requests : target'[q] = r /\ request'[q] = "marked"
  BY <1>0, <1>2 DEF ExecutionStep, CreateRow, CreateRowFails, StartRow, Decide,
    CompleteExecution, Leave, EndRow, AlreadyEnded, TypeOK, ExecutionOK, Outcomes, RequestOK
<1>3. ASSUME NEW x \in Runs, QueueStops(x) \/ Purge(x)
      PROVE  \E q \in Requests : target'[q] = r /\ request'[q] = "marked"
  BY <1>0, <1>3 DEF QueueStops, Purge, TypeOK, ExecutionOK, Outcomes, RequestOK
<1>4. ASSUME NEW x \in Runs, NEW i \in Instances, Begin(x, i)
      PROVE  \E q \in Requests : target'[q] = r /\ request'[q] = "marked"
  BY <1>0, <1>4 DEF Begin, TypeOK, ExecutionOK, Outcomes, RequestOK
<1>5. ASSUME NEW c \in Completers, CompleterStep(c)
      PROVE  \E q \in Requests : target'[q] = r /\ request'[q] = "marked"
  BY <1>0, <1>5 DEF CompleterStep, ReadDefinition, WriteDefinition, NotifyFinished,
    TypeOK, ExecutionOK, Outcomes, RequestOK
<1>6. ASSUME NEW p \in Requests, NEW x \in Runs, NEW i \in Instances, Ask(p, x, i)
      PROVE  \E q \in Requests : target'[q] = r /\ request'[q] = "marked"
  BY <1>0, <1>6 DEF Ask, TypeOK, ExecutionOK, Outcomes, RequestOK
<1>7. ASSUME NEW p \in Requests, RequestStep(p)
      PROVE  \E q \in Requests : target'[q] = r /\ request'[q] = "marked"
  BY <1>0, <1>7 DEF RequestStep, Mark, Signal, Revert, TypeOK, ExecutionOK, Outcomes,
    RequestOK
<1>8. ASSUME NEW i \in Instances, BootStep(i)
      PROVE  \E q \in Requests : target'[q] = r /\ request'[q] = "marked"
  BY <1>0, <1>8 DEF BootStep, Boot, RecoveryFails, Serve, FailInterrupted, EndRow,
    AlreadyEnded, TypeOK, ExecutionOK, Outcomes, RequestOK
<1>9. ASSUME NEW i \in Instances, Crash(i)
      PROVE  \E q \in Requests : target'[q] = r /\ request'[q] = "marked"
  BY <1>0, <1>9 DEF Crash, TypeOK, ExecutionOK, Outcomes, RequestOK
<1> QED
  BY <1>1, <1>2, <1>3, <1>4, <1>5, <1>6, <1>7, <1>8, <1>9 DEF Next

\* A request in progress that has marked r goes on, has told the execution,
\* or died with its instance.
LEMMA RequestGoesOn ==
  ASSUME ~ Outages, IInv, HeardOK, LeftOK, [Next]_vars, NEW r \in Runs,
         NEW q \in Requests, target[q] = r, request[q] \in {"marked", "unheard"},
         status[r] = "canceling", status'[r] = "canceling"
  PROVE  \/ target'[q] = r /\ request'[q] \in {"marked", "unheard"}
         \/ stopped'[r] /\ execution'[r] \in {"created", "working", "decided"}
         \/ life'[server[q]] = "down"
<1> USE DEF rowVars, executionVars, completerVars, requestVars, instanceVars
<1>0. /\ TypeOK /\ ExecutionOK /\ RequestOK
      /\ execution[r] # "leaving" /\ (registered[r] <=> Executing(r))
      /\ server[q] \in Instances /\ HasBegun(r)
  BY DEF IInv, LeftOK, HeardOK, Pending, Active
<1>1. CASE UNCHANGED vars
  BY <1>0, <1>1 DEF vars
<1>2. ASSUME NEW x \in Runs, ExecutionStep(x)
      PROVE  \/ target'[q] = r /\ request'[q] \in {"marked", "unheard"}
             \/ stopped'[r] /\ execution'[r] \in {"created", "working", "decided"}
             \/ life'[server[q]] = "down"
  BY <1>0, <1>2 DEF ExecutionStep, CreateRow, CreateRowFails, StartRow, Decide,
    CompleteExecution, Leave, EndRow, AlreadyEnded, TypeOK, Executing, HasBegun, Reaches
<1>3. ASSUME NEW x \in Runs, QueueStops(x) \/ Purge(x)
      PROVE  \/ target'[q] = r /\ request'[q] \in {"marked", "unheard"}
             \/ stopped'[r] /\ execution'[r] \in {"created", "working", "decided"}
             \/ life'[server[q]] = "down"
  BY <1>0, <1>3 DEF QueueStops, Purge, TypeOK, Executing, HasBegun, Reaches
<1>4. ASSUME NEW x \in Runs, NEW i \in Instances, Begin(x, i)
      PROVE  \/ target'[q] = r /\ request'[q] \in {"marked", "unheard"}
             \/ stopped'[r] /\ execution'[r] \in {"created", "working", "decided"}
             \/ life'[server[q]] = "down"
  BY <1>0, <1>4 DEF Begin, TypeOK, Executing, HasBegun, Reaches
<1>5. ASSUME NEW c \in Completers, CompleterStep(c)
      PROVE  \/ target'[q] = r /\ request'[q] \in {"marked", "unheard"}
             \/ stopped'[r] /\ execution'[r] \in {"created", "working", "decided"}
             \/ life'[server[q]] = "down"
  BY <1>0, <1>5 DEF CompleterStep, ReadDefinition, WriteDefinition, NotifyFinished,
    TypeOK, Executing, HasBegun, Reaches
<1>6. ASSUME NEW p \in Requests, NEW x \in Runs, NEW i \in Instances, Ask(p, x, i)
      PROVE  \/ target'[q] = r /\ request'[q] \in {"marked", "unheard"}
             \/ stopped'[r] /\ execution'[r] \in {"created", "working", "decided"}
             \/ life'[server[q]] = "down"
  BY <1>0, <1>6 DEF Ask, TypeOK, Executing, HasBegun, Reaches
<1>7. ASSUME NEW p \in Requests, RequestStep(p)
      PROVE  \/ target'[q] = r /\ request'[q] \in {"marked", "unheard"}
             \/ stopped'[r] /\ execution'[r] \in {"created", "working", "decided"}
             \/ life'[server[q]] = "down"
  BY <1>0, <1>7 DEF RequestStep, Mark, Signal, Revert, TypeOK, Executing, HasBegun, Reaches
<1>8. ASSUME NEW i \in Instances, BootStep(i)
      PROVE  \/ target'[q] = r /\ request'[q] \in {"marked", "unheard"}
             \/ stopped'[r] /\ execution'[r] \in {"created", "working", "decided"}
             \/ life'[server[q]] = "down"
  BY <1>0, <1>8 DEF BootStep, Boot, RecoveryFails, Serve, FailInterrupted, EndRow,
    AlreadyEnded, TypeOK, Executing, HasBegun, Reaches
<1>9. ASSUME NEW i \in Instances, Crash(i)
      PROVE  \/ target'[q] = r /\ request'[q] \in {"marked", "unheard"}
             \/ stopped'[r] /\ execution'[r] \in {"created", "working", "decided"}
             \/ life'[server[q]] = "down"
  BY <1>0, <1>9 DEF Crash, TypeOK, Executing, HasBegun, Reaches
<1> QED
  BY <1>1, <1>2, <1>3, <1>4, <1>5, <1>6, <1>7, <1>8, <1>9 DEF Next

\* An execution that was told goes on, or died with its instance.
LEMMA ExecutionGoesOn ==
  ASSUME ~ Outages, IInv, [Next]_vars, NEW r \in Runs,
         stopped[r], execution[r] \in {"created", "working", "decided"},
         status[r] = "canceling", status'[r] = "canceling"
  PROVE  \/ stopped'[r] /\ execution'[r] \in {"created", "working", "decided"}
         \/ \E j \in Instances : life'[j] = "down"
<1> USE DEF rowVars, executionVars, completerVars, requestVars, instanceVars
<1>0. TypeOK /\ ExecutionOK /\ RequestOK
  BY DEF IInv
<1>1. CASE UNCHANGED vars
  BY <1>0, <1>1 DEF vars
<1>2. ASSUME NEW x \in Runs, ExecutionStep(x)
      PROVE  \/ stopped'[r] /\ execution'[r] \in {"created", "working", "decided"}
             \/ \E j \in Instances : life'[j] = "down"
  BY <1>0, <1>2 DEF ExecutionStep, CreateRow, CreateRowFails, StartRow, Decide,
    CompleteExecution, Leave, EndRow, AlreadyEnded, TypeOK, ExecutionOK, Outcomes, Active
<1>3. ASSUME NEW x \in Runs, QueueStops(x) \/ Purge(x)
      PROVE  \/ stopped'[r] /\ execution'[r] \in {"created", "working", "decided"}
             \/ \E j \in Instances : life'[j] = "down"
  BY <1>0, <1>3 DEF QueueStops, Purge, TypeOK, ExecutionOK, Outcomes, Active
<1>4. ASSUME NEW x \in Runs, NEW i \in Instances, Begin(x, i)
      PROVE  \/ stopped'[r] /\ execution'[r] \in {"created", "working", "decided"}
             \/ \E j \in Instances : life'[j] = "down"
  BY <1>0, <1>4 DEF Begin, TypeOK, ExecutionOK, Outcomes, Active
<1>5. ASSUME NEW c \in Completers, CompleterStep(c)
      PROVE  \/ stopped'[r] /\ execution'[r] \in {"created", "working", "decided"}
             \/ \E j \in Instances : life'[j] = "down"
  BY <1>0, <1>5 DEF CompleterStep, ReadDefinition, WriteDefinition, NotifyFinished,
    TypeOK, ExecutionOK, Outcomes, Active
<1>6. ASSUME NEW p \in Requests, NEW x \in Runs, NEW i \in Instances, Ask(p, x, i)
      PROVE  \/ stopped'[r] /\ execution'[r] \in {"created", "working", "decided"}
             \/ \E j \in Instances : life'[j] = "down"
  BY <1>0, <1>6 DEF Ask, TypeOK, ExecutionOK, Outcomes, Active
<1>7. ASSUME NEW p \in Requests, RequestStep(p)
      PROVE  \/ stopped'[r] /\ execution'[r] \in {"created", "working", "decided"}
             \/ \E j \in Instances : life'[j] = "down"
  BY <1>0, <1>7 DEF RequestStep, Mark, Signal, Revert, TypeOK, ExecutionOK, Outcomes, Active
<1>8. ASSUME NEW i \in Instances, BootStep(i)
      PROVE  \/ stopped'[r] /\ execution'[r] \in {"created", "working", "decided"}
             \/ \E j \in Instances : life'[j] = "down"
  BY <1>0, <1>8 DEF BootStep, Boot, RecoveryFails, Serve, FailInterrupted, EndRow,
    AlreadyEnded, TypeOK, ExecutionOK, Outcomes, Active
<1>9. ASSUME NEW i \in Instances, Crash(i)
      PROVE  \/ stopped'[r] /\ execution'[r] \in {"created", "working", "decided"}
             \/ \E j \in Instances : life'[j] = "down"
  BY <1>0, <1>9 DEF Crash, TypeOK, ExecutionOK, Outcomes, Active
<1> QED
  BY <1>1, <1>2, <1>3, <1>4, <1>5, <1>6, <1>7, <1>8, <1>9 DEF Next

\* An instance that will fail r when it starts, or is about to, goes on.
LEMMA RecoveryGoesOn ==
  ASSUME ~ Outages, IInv, [Next]_vars, NEW r \in Runs, NEW j \in Instances,
         life[j] = "down" \/ (life[j] = "recovering" /\ r \in unfinished[j]),
         status[r] = "canceling", status'[r] = "canceling"
  PROVE  life'[j] = "down" \/ (life'[j] = "recovering" /\ r \in unfinished'[j])
<1> USE DEF rowVars, executionVars, completerVars, requestVars, instanceVars
<1>0. TypeOK /\ status[r] \in Active
  BY DEF IInv, Active
<1>1. CASE UNCHANGED vars
  BY <1>0, <1>1 DEF vars
<1>2. ASSUME NEW x \in Runs, ExecutionStep(x)
      PROVE  life'[j] = "down" \/ (life'[j] = "recovering" /\ r \in unfinished'[j])
  BY <1>0, <1>2 DEF ExecutionStep, CreateRow, CreateRowFails, StartRow, Decide,
    CompleteExecution, Leave, EndRow, AlreadyEnded, TypeOK
<1>3. ASSUME NEW x \in Runs, QueueStops(x) \/ Purge(x)
      PROVE  life'[j] = "down" \/ (life'[j] = "recovering" /\ r \in unfinished'[j])
  BY <1>0, <1>3 DEF QueueStops, Purge, TypeOK
<1>4. ASSUME NEW x \in Runs, NEW i \in Instances, Begin(x, i)
      PROVE  life'[j] = "down" \/ (life'[j] = "recovering" /\ r \in unfinished'[j])
  BY <1>0, <1>4 DEF Begin, TypeOK
<1>5. ASSUME NEW c \in Completers, CompleterStep(c)
      PROVE  life'[j] = "down" \/ (life'[j] = "recovering" /\ r \in unfinished'[j])
  BY <1>0, <1>5 DEF CompleterStep, ReadDefinition, WriteDefinition, NotifyFinished, TypeOK
<1>6. ASSUME NEW p \in Requests, NEW x \in Runs, NEW i \in Instances, Ask(p, x, i)
      PROVE  life'[j] = "down" \/ (life'[j] = "recovering" /\ r \in unfinished'[j])
  BY <1>0, <1>6 DEF Ask, TypeOK
<1>7. ASSUME NEW p \in Requests, RequestStep(p)
      PROVE  life'[j] = "down" \/ (life'[j] = "recovering" /\ r \in unfinished'[j])
  BY <1>0, <1>7 DEF RequestStep, Mark, Signal, Revert, TypeOK
<1>8. ASSUME NEW i \in Instances, BootStep(i)
      PROVE  life'[j] = "down" \/ (life'[j] = "recovering" /\ r \in unfinished'[j])
  BY <1>0, <1>8 DEF BootStep, Boot, RecoveryFails, Serve, FailInterrupted, EndRow,
    AlreadyEnded, TypeOK
<1>9. ASSUME NEW i \in Instances, Crash(i)
      PROVE  life'[j] = "down" \/ (life'[j] = "recovering" /\ r \in unfinished'[j])
  BY <1>0, <1>9 DEF Crash, TypeOK
<1> QED
  BY <1>1, <1>2, <1>3, <1>4, <1>5, <1>6, <1>7, <1>8, <1>9 DEF Next

\* Every step keeps LeftOK and CancelingIsHeard if the database obeys.
LEMMA NextCanceling ==
  ASSUME ~ Outages, IInv, HeardOK, LeftOK, CancelingIsHeard, [Next]_vars
  PROVE  LeftOK' /\ CancelingIsHeard'
<1>1. LeftOK'
  BY NextLeft DEF LeftOK, Active
<1>2. ASSUME NEW r \in Runs, status'[r] = "canceling"
      PROVE  \/ \E q \in Requests : target'[q] = r /\ request'[q] \in {"marked", "unheard"}
             \/ stopped'[r] /\ execution'[r] \in {"created", "working", "decided"}
             \/ \E i \in Instances :
                  life'[i] = "down" \/ (life'[i] = "recovering" /\ r \in unfinished'[i])
  <2>1. CASE status[r] # "canceling"
    BY <1>2, <2>1, CancelingBegins
  <2>2. ASSUME status[r] = "canceling", NEW q \in Requests, target[q] = r,
               request[q] \in {"marked", "unheard"}
        PROVE  \/ \E p \in Requests : target'[p] = r /\ request'[p] \in {"marked", "unheard"}
               \/ stopped'[r] /\ execution'[r] \in {"created", "working", "decided"}
               \/ \E i \in Instances : life'[i] = "down"
    <3>1. server[q] \in Instances
      BY <2>2 DEF HeardOK, Pending
    <3> QED
      BY <1>2, <2>2, <3>1, RequestGoesOn
  <2>3. ASSUME status[r] = "canceling", stopped[r],
               execution[r] \in {"created", "working", "decided"}
        PROVE  \/ stopped'[r] /\ execution'[r] \in {"created", "working", "decided"}
               \/ \E i \in Instances : life'[i] = "down"
    BY <1>2, <2>3, ExecutionGoesOn
  <2>4. ASSUME status[r] = "canceling", NEW j \in Instances,
               life[j] = "down" \/ (life[j] = "recovering" /\ r \in unfinished[j])
        PROVE  life'[j] = "down" \/ (life'[j] = "recovering" /\ r \in unfinished'[j])
    BY <1>2, <2>4, RecoveryGoesOn
  <2> QED
    BY <2>1, <2>2, <2>3, <2>4 DEF CancelingIsHeard
<1> QED
  BY <1>1, <1>2 DEF CancelingIsHeard

\* If the database obeys, on any number of instances, a row does not stay in
\* canceling with nobody at work on it (RequestCancel and CancelTask).
THEOREM CancelingHeard ==
  ASSUME ~ Outages
  PROVE  Spec => []CancelingIsHeard
<1>1. Init => HeardOK /\ LeftOK /\ CancelingIsHeard
  BY DEF Init, HeardOK, LeftOK, CancelingIsHeard, Executing, Pending
<1>2. IInv /\ HeardOK /\ LeftOK /\ CancelingIsHeard /\ [Next]_vars
        => HeardOK' /\ LeftOK' /\ CancelingIsHeard'
  BY NextHeard, NextCanceling
<1> QED
  BY <1>1, <1>2, Invariance, PTL DEF Spec

\* The same in the calm weather of the runs, where only a storm refuses
\* statements.
THEOREM CalmCancelingHeard ==
  ASSUME ~ Outages
  PROVE  Forecast => []CalmCancelingIsHeard
<1> DEFINE CalmInv == weather = "calm" => IInv /\ HeardOK /\ LeftOK /\ CancelingIsHeard
<1>1. WeatherInit => CalmInv
  BY InitIInv DEF WeatherInit, Init, HeardOK, LeftOK, CancelingIsHeard, Executing, Pending
<1>2. CalmInv /\ [WeatherNext]_<<vars, weather>> => CalmInv'
  <2> SUFFICES ASSUME CalmInv, [WeatherNext]_<<vars, weather>>, weather' = "calm"
               PROVE  IInv' /\ HeardOK' /\ LeftOK' /\ CancelingIsHeard'
    OBVIOUS
  <2>1. weather = "calm" /\ [Next]_vars
    BY DEF WeatherNext, Calm, Storm, Steady, Next, ExecutionStep, CompleterStep,
       RequestStep, BootStep
  <2> QED
    BY <2>1, NextIInv, NextHeard, NextCanceling
<1>3. CalmInv => CalmCancelingIsHeard
  BY DEF CalmCancelingIsHeard
<1> QED
  BY <1>1, <1>2, <1>3, PTL DEF Forecast
=============================================================================
