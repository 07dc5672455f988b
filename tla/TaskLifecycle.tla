--------------------------- MODULE TaskLifecycle ---------------------------
(***************************************************************************)
(* What the task center promises to whoever looks at a task run: it is     *)
(* queued, then running, possibly asked to stop, and ends exactly once.    *)
(* A request to stop may be refused, and a restart of the server may put   *)
(* a run that can be resumed back in the queue.  TaskCenter implements     *)
(* this with a row and the code that runs it; Transfers is built upon it.  *)
(***************************************************************************)
CONSTANT
  Runs

VARIABLE
  status    \* status[r]: the status column of the row of r

Active == {"queued", "running", "canceling"}

\* "interrupted" stands for failed with the error code server_restarted.
Ended == {"succeeded", "partial_success", "failed", "canceled", "interrupted"}

Statuses == {"absent", "purged"} \cup Active \cup Ended

TypeOK == status \in [Runs -> Statuses]

Init == status = [r \in Runs |-> "absent"]

Move(r, from, to) ==
  /\ status[r] \in from
  /\ status' = [status EXCEPT ![r] = to]

Create(r) == Move(r, {"absent"}, "queued")

Start(r) == Move(r, {"queued"}, "running")

AskToStop(r) == Move(r, {"queued", "running"}, "canceling")

\* Nobody here can stop the run: it is as it was before the request.
RefuseToStop(r) == \E before \in {"queued", "running"} : Move(r, {"canceling"}, before)

Complete(r) == \E result \in Ended : Move(r, Active, result)

\* After a restart, a run whose work can be resumed waits for it.
Resume(r) == Move(r, Active, "queued")

Purge(r) == Move(r, Ended, "purged")

Next ==
  \E r \in Runs :
    \/ Create(r) \/ Start(r) \/ AskToStop(r) \/ RefuseToStop(r)
    \/ Complete(r) \/ Resume(r) \/ Purge(r)

Spec == Init /\ [][Next]_status
=============================================================================
