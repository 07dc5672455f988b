---------------------------- MODULE JobLifecycle ----------------------------
(***************************************************************************)
(* What the job queue promises to the code that enqueues a job: a job is   *)
(* tried at most MaxAttempts times, one try after the other; it ends       *)
(* exactly once, as succeeded, failed or cancelled; it fails only after    *)
(* its last try; and nothing happens to it after its end but its removal.  *)
(* JobQueue implements this with rows, leases and workers.                 *)
(***************************************************************************)
EXTENDS Naturals

CONSTANTS
  Jobs,
  MaxAttempts

VARIABLES
  phase,    \* phase[j]: where job j is in its life
  tries     \* tries[j]: how many times a worker took job j

vars == <<phase, tries>>

Open == {"waiting", "trying"}
Ended == {"succeeded", "failed", "cancelled"}
Phases == {"absent", "purged"} \cup Open \cup Ended

TypeOK ==
  /\ phase \in [Jobs -> Phases]
  /\ tries \in [Jobs -> 0 .. MaxAttempts]

Init ==
  /\ phase = [j \in Jobs |-> "absent"]
  /\ tries = [j \in Jobs |-> 0]

Move(j, from, to) ==
  /\ phase[j] \in from
  /\ phase' = [phase EXCEPT ![j] = to]

Submit(j) ==
  /\ Move(j, {"absent"}, "waiting")
  /\ UNCHANGED tries

Try(j) ==
  /\ tries[j] < MaxAttempts
  /\ Move(j, {"waiting"}, "trying")
  /\ tries' = [tries EXCEPT ![j] = @ + 1]

\* A try failed or its worker was lost, and there are tries left.
Retry(j) ==
  /\ tries[j] < MaxAttempts
  /\ Move(j, {"trying"}, "waiting")
  /\ UNCHANGED tries

Succeed(j) ==
  /\ Move(j, {"trying"}, "succeeded")
  /\ UNCHANGED tries

GiveUp(j) ==
  /\ tries[j] = MaxAttempts
  /\ Move(j, {"trying"}, "failed")
  /\ UNCHANGED tries

\* One cancellation ends every open job of a set, at once.
CancelAll(S) ==
  /\ S # {}
  /\ \A j \in S : phase[j] \in Open
  /\ phase' = [j \in Jobs |-> IF j \in S THEN "cancelled" ELSE phase[j]]
  /\ UNCHANGED tries

Purge(j) ==
  /\ Move(j, Ended, "purged")
  /\ UNCHANGED tries

Next ==
  \/ \E j \in Jobs :
       Submit(j) \/ Try(j) \/ Retry(j) \/ Succeed(j) \/ GiveUp(j) \/ Purge(j)
  \/ \E S \in SUBSET Jobs : CancelAll(S)

Spec == Init /\ [][Next]_vars
=============================================================================
