---------------------------- MODULE JobQueueProofs ----------------------------
(***************************************************************************)
(* Theorems about JobQueue, for any number of rows, workers and processes  *)
(* and any lease, heartbeat and retry times.                               *)
(*                                                                         *)
(* The invariant IInv is the conjunction of what rows, processes and       *)
(* workers look like with three facts that make it inductive: the attempt  *)
(* a worker has in hand is that of the row as long as claimed_by names it, *)
(* the attempt Fail has read is too, and the attempt a recovery pass has   *)
(* read is, as long as the lease is expired by the clock of that pass.     *)
(* Each action has a lemma that it preserves IInv, built from five lemmas  *)
(* on the statements (claim, finish, requeue, renew, none).                *)
(***************************************************************************)
EXTENDS JobQueue, TLAPS

USE WorkerAssumption, JobAssumption, TimeAssumption, SwitchAssumption
USE DEF Active, Held, Terminal, Statuses, Modes, Steps

RowInv ==
  /\ RowsOK
  /\ AttemptsCounted
  /\ QueuedCanBeClaimed
  /\ FailedMeansExhausted

OwnerInv == HolderHasLatestAttempt /\ SeenIsLatest

\* A step after which no worker owns a row it did not own before, and the
\* attempt of an owned row is the same.
OwnersKept ==
  \A w \in Workers, j \in Jobs :
    Owns(w, j)' => Owns(w, j) /\ attempt'[j] = attempt[j]

\* A step after which no lease is expired that was not before.
LeasesKept ==
  \A i \in Instances, j \in Jobs :
    status'[j] \in Held /\ lease'[j] + scanAge[i] <= 0
    => ExpiredAtScan(i, j) /\ attempt'[j] = attempt[j]

\* Init establishes the invariant.
LEMMA InitIInv == Init => IInv
BY DEF Init, IInv, TypeOK, RowsOK, ProcessesOK, WorkersOK, WorkerHasRow, AttemptsCounted,
       HolderHasLatestAttempt, SeenIsLatest, ScanIsLatest, QueuedCanBeClaimed,
       FailedMeansExhausted, Owns, ExpiredAtScan

\* A claim keeps the row invariant, renews no lease but its own, and gives one row one owner.
LEMMA ClaimRow ==
  ASSUME NEW j \in Jobs, NEW w \in Workers, RowInv, ProcessesOK,
         Claimable(j), StampClaim(j, w)
  PROVE  /\ RowInv'
         /\ LeasesKept
         /\ \A v \in Workers, k \in Jobs :
              Owns(v, k)' => (v = w /\ k = j) \/ (Owns(v, k) /\ attempt'[k] = attempt[k])
<1> USE DEF RowInv, RowsOK, AttemptsCounted, QueuedCanBeClaimed, FailedMeansExhausted,
            StampClaim, Claimable
<1>1. RowsOK'
  <2>1. LeaseTicks \in (-MaxScan) .. LeaseTicks
    OBVIOUS
  <2> QED BY <2>1
<1>2. AttemptsCounted' /\ QueuedCanBeClaimed' /\ FailedMeansExhausted'
  OBVIOUS
<1>3. LeasesKept
  <2>1. SUFFICES ASSUME NEW i \in Instances, NEW k \in Jobs,
                        status'[k] \in Held, lease'[k] + scanAge[i] <= 0
                 PROVE  ExpiredAtScan(i, k) /\ attempt'[k] = attempt[k]
    BY DEF LeasesKept
  <2>2. k # j
    BY <2>1 DEF ProcessesOK
  <2> QED
    BY <2>1, <2>2 DEF ExpiredAtScan
<1>4. \A v \in Workers, k \in Jobs :
        Owns(v, k)' => (v = w /\ k = j) \/ (Owns(v, k) /\ attempt'[k] = attempt[k])
  <2> TAKE v \in Workers, k \in Jobs
  <2> HAVE Owns(v, k)'
  <2>1. CASE k = j
    BY <2>1 DEF Owns
  <2>2. CASE k # j
    BY <2>2 DEF Owns
  <2> QED BY <2>1, <2>2
<1> QED BY <1>1, <1>2, <1>3, <1>4

\* Ending a row keeps the row invariant and creates no owner and no expired lease.
LEMMA FinishedRow ==
  ASSUME NEW j \in Jobs, NEW s \in Terminal, RowInv,
         s = "failed" => attempt[j] = MaxAttempts, FinishRow(j, s)
  PROVE  RowInv' /\ OwnersKept /\ LeasesKept
<1> USE DEF RowInv, RowsOK, FinishRow
<1>1. RowsOK'
  OBVIOUS
<1>2. AttemptsCounted' /\ QueuedCanBeClaimed' /\ FailedMeansExhausted'
  BY DEF AttemptsCounted, QueuedCanBeClaimed, FailedMeansExhausted
<1>3. OwnersKept /\ LeasesKept
  BY DEF OwnersKept, LeasesKept, Owns, ExpiredAtScan
<1> QED BY <1>1, <1>2, <1>3

\* Giving a row back for another attempt does so too.
LEMMA RequeuedRow ==
  ASSUME NEW j \in Jobs, NEW d \in Nat, RowInv, attempt[j] < MaxAttempts, RequeueRow(j, d)
  PROVE  RowInv' /\ OwnersKept /\ LeasesKept
<1> USE DEF RowInv, RowsOK, RequeueRow
<1>1. RowsOK'
  OBVIOUS
<1>2. AttemptsCounted' /\ QueuedCanBeClaimed' /\ FailedMeansExhausted'
  BY DEF AttemptsCounted, QueuedCanBeClaimed, FailedMeansExhausted
<1>3. OwnersKept /\ LeasesKept
  BY DEF OwnersKept, LeasesKept, Owns, ExpiredAtScan
<1> QED BY <1>1, <1>2, <1>3

\* A heartbeat does so too.
LEMMA RenewedRow ==
  ASSUME NEW j \in Jobs, RowInv, ProcessesOK, RenewLease(j)
  PROVE  RowInv' /\ OwnersKept /\ LeasesKept
<1> USE DEF RowInv, RowsOK, RenewLease
<1>1. RowsOK'
  OBVIOUS
<1>2. AttemptsCounted' /\ QueuedCanBeClaimed' /\ FailedMeansExhausted'
  BY DEF AttemptsCounted, QueuedCanBeClaimed, FailedMeansExhausted
<1>3. OwnersKept
  BY DEF OwnersKept, Owns
<1>4. LeasesKept
  BY DEF LeasesKept, ExpiredAtScan, ProcessesOK
<1> QED BY <1>1, <1>2, <1>3, <1>4

\* So does a step that leaves the table alone.
LEMMA SameRows ==
  ASSUME RowInv, UNCHANGED rowVars
  PROVE  RowInv' /\ OwnersKept /\ LeasesKept
BY DEF RowInv, RowsOK, AttemptsCounted, QueuedCanBeClaimed, FailedMeansExhausted,
       OwnersKept, LeasesKept, Owns, ExpiredAtScan, rowVars

\* If no owner is created, the attempts of owners stay the latest ones.
LEMMA KeptOwners ==
  ASSUME OwnersKept, OwnerInv, WorkersOK, WorkerHasRow,
         \A w \in Workers : pc'[w] \notin {"idle", "selected", "reread"}
                           => cur'[w] = cur[w] /\ mine'[w] = mine[w],
         \A w \in Workers : pc'[w] \notin {"idle", "selected", "reread"}
                           => pc[w] \notin {"idle", "selected", "reread"},
         \A w \in Workers : pc'[w] = "failing2" => pc[w] = "failing2" /\ seen'[w] = seen[w]
  PROVE  OwnerInv'
<1>1. SUFFICES ASSUME NEW w \in Workers, pc'[w] \notin {"idle", "selected", "reread"},
                      Owns(w, cur[w])'
               PROVE  /\ mine'[w] = attempt'[cur'[w]]
                      /\ pc'[w] = "failing2" => seen'[w] = attempt'[cur'[w]]
  BY DEF OwnerInv, HolderHasLatestAttempt, SeenIsLatest
<1>2. cur'[w] = cur[w] /\ cur[w] \in Jobs
  BY <1>1 DEF WorkerHasRow
<1>3. Owns(w, cur[w]) /\ attempt'[cur[w]] = attempt[cur[w]]
  BY <1>1, <1>2 DEF OwnersKept, Owns
<1> QED BY <1>1, <1>2, <1>3 DEF OwnerInv, HolderHasLatestAttempt, SeenIsLatest

\* If no lease expires, what recovery passes have read stays true.
LEMMA KeptScans ==
  ASSUME LeasesKept, ScanIsLatest, ProcessesOK,
         scanAge' = scanAge, \A i \in Instances : scan'[i] \subseteq scan[i]
  PROVE  ScanIsLatest'
<1>1. SUFFICES ASSUME NEW i \in Instances, NEW r \in scan'[i], ExpiredAtScan(i, r[1])'
               PROVE  r[2] = attempt'[r[1]]
  BY DEF ScanIsLatest
<1>2. r \in scan[i] /\ r[1] \in Jobs
  BY DEF ProcessesOK
<1>3. ExpiredAtScan(i, r[1]) /\ attempt'[r[1]] = attempt[r[1]]
  BY <1>1, <1>2 DEF LeasesKept, ExpiredAtScan
<1> QED BY <1>2, <1>3 DEF ScanIsLatest

\* The parts of the invariant.
LEMMA IInvParts ==
  ASSUME IInv
  PROVE  RowInv /\ ProcessesOK /\ WorkersOK /\ WorkerHasRow /\ OwnerInv /\ ScanIsLatest
BY DEF IInv, TypeOK, RowInv, OwnerInv

\* ClaimSelect preserves the invariant.
LEMMA ClaimSelectStep ==
  ASSUME NEW w \in Workers, IInv, ClaimSelect(w)
  PROVE  IInv'
<1>1. RowInv' /\ OwnersKept /\ LeasesKept
  BY IInvParts, SameRows DEF ClaimSelect, Candidate, Claimable, Goto, Serving, rowVars
<1>2. ProcessesOK'
  BY IInvParts DEF ProcessesOK, WorkersOK, WorkerHasRow, RowsOK, RowInv, ClaimSelect,
     Candidate, Claimable, Goto, Serving, procVars, scanVars, cancelVars
<1>3. WorkersOK' /\ WorkerHasRow'
  <2>1. PICK j \in Jobs : cur' = [cur EXCEPT ![w] = j]
    BY DEF ClaimSelect
  <2>2. pc' = [pc EXCEPT ![w] = "selected"] /\ UNCHANGED <<mine, seen, alive, beat>>
    BY DEF ClaimSelect, Goto
  <2>3. WorkersOK'
    BY <2>1, <2>2, IInvParts DEF WorkersOK, Steps
  <2>4. WorkerHasRow'
    BY <2>1, <2>2, IInvParts DEF WorkersOK, WorkerHasRow
  <2> QED
    BY <2>3, <2>4
<1>4. OwnerInv'
  BY <1>1, IInvParts, KeptOwners DEF WorkersOK, ClaimSelect, Candidate, Claimable, Goto,
     Serving, workerVars
<1>5. ScanIsLatest'
  BY <1>1, IInvParts, KeptScans DEF ProcessesOK, ClaimSelect, Candidate, Claimable, Goto,
     Serving, scanVars
<1> QED BY <1>1, <1>2, <1>3, <1>4, <1>5 DEF IInv, TypeOK, RowInv, OwnerInv

\* ClaimLost preserves the invariant.
LEMMA ClaimLostStep ==
  ASSUME NEW w \in Workers, IInv, ClaimLost(w)
  PROVE  IInv'
<1>1. RowInv' /\ OwnersKept /\ LeasesKept
  BY IInvParts, SameRows DEF ClaimLost, BackToLoop, Goto, rowVars
<1>2. ProcessesOK'
  BY IInvParts DEF ProcessesOK, WorkersOK, WorkerHasRow, RowsOK, RowInv, ClaimLost,
     BackToLoop, Goto, procVars, scanVars, cancelVars
<1>3. WorkersOK' /\ WorkerHasRow'
  BY IInvParts DEF WorkersOK, WorkerHasRow, RowInv, RowsOK, ClaimLost, BackToLoop, Goto,
     workerVars
<1>4. OwnerInv'
  BY <1>1, IInvParts, KeptOwners DEF WorkersOK, ClaimLost, BackToLoop, Goto, workerVars
<1>5. ScanIsLatest'
  BY <1>1, IInvParts, KeptScans DEF ProcessesOK, ClaimLost, BackToLoop, Goto, scanVars
<1> QED BY <1>1, <1>2, <1>3, <1>4, <1>5 DEF IInv, TypeOK, RowInv, OwnerInv

\* ClaimReread preserves the invariant.
LEMMA ClaimRereadStep ==
  ASSUME NEW w \in Workers, IInv, ClaimReread(w)
  PROVE  IInv'
<1>1. RowInv' /\ OwnersKept /\ LeasesKept
  BY IInvParts, SameRows DEF ClaimReread, Goto, rowVars
<1>2. ProcessesOK'
  BY IInvParts DEF ProcessesOK, WorkersOK, WorkerHasRow, RowsOK, RowInv, ClaimReread, Goto,
     procVars, scanVars, cancelVars
<1>3. WorkersOK' /\ WorkerHasRow'
  BY IInvParts DEF WorkersOK, WorkerHasRow, RowInv, RowsOK, ClaimReread, Goto, workerVars
<1>4. OwnerInv'
  <2>1. \A v \in Workers : Owns(v, cur[v])' => Owns(v, cur[v]) /\ attempt' = attempt /\ cur' = cur
    BY DEF ClaimReread, Owns, rowVars
  <2> QED BY <2>1, IInvParts DEF OwnerInv, HolderHasLatestAttempt, SeenIsLatest, WorkersOK,
             ClaimReread, Goto
<1>5. ScanIsLatest'
  BY <1>1, IInvParts, KeptScans DEF ProcessesOK, ClaimReread, Goto, scanVars
<1> QED BY <1>1, <1>2, <1>3, <1>4, <1>5 DEF IInv, TypeOK, RowInv, OwnerInv

\* MarkRunning preserves the invariant.
LEMMA MarkRunningStep ==
  ASSUME NEW w \in Workers, IInv, MarkRunning(w)
  PROVE  IInv'
<1>1. RowInv' /\ OwnersKept /\ LeasesKept
  BY IInvParts DEF RowInv, RowsOK, AttemptsCounted, QueuedCanBeClaimed,
     FailedMeansExhausted, OwnersKept, LeasesKept, Owns, ExpiredAtScan, WorkerHasRow,
     MarkRunning, Goto
<1>2. ProcessesOK'
  BY IInvParts DEF ProcessesOK, WorkersOK, WorkerHasRow, RowsOK, RowInv, MarkRunning, Goto,
     procVars, scanVars, cancelVars
<1>3. WorkersOK' /\ WorkerHasRow'
  BY IInvParts DEF WorkersOK, WorkerHasRow, RowInv, RowsOK, MarkRunning, Goto, workerVars
<1>4. OwnerInv'
  BY <1>1, IInvParts, KeptOwners DEF WorkersOK, MarkRunning, Goto, workerVars
<1>5. ScanIsLatest'
  BY <1>1, IInvParts, KeptScans DEF ProcessesOK, MarkRunning, Goto, scanVars
<1> QED BY <1>1, <1>2, <1>3, <1>4, <1>5 DEF IInv, TypeOK, RowInv, OwnerInv

\* MarkRunningLost preserves the invariant.
LEMMA MarkRunningLostStep ==
  ASSUME NEW w \in Workers, IInv, MarkRunningLost(w)
  PROVE  IInv'
<1>1. RowInv' /\ OwnersKept /\ LeasesKept
  BY IInvParts, SameRows DEF MarkRunningLost, BackToLoop, Goto, rowVars
<1>2. ProcessesOK'
  BY IInvParts DEF ProcessesOK, WorkersOK, WorkerHasRow, RowsOK, RowInv, MarkRunningLost,
     BackToLoop, Goto, procVars, scanVars, cancelVars
<1>3. WorkersOK' /\ WorkerHasRow'
  BY IInvParts DEF WorkersOK, WorkerHasRow, RowInv, RowsOK, MarkRunningLost, BackToLoop,
     Goto, workerVars
<1>4. OwnerInv'
  BY <1>1, IInvParts, KeptOwners DEF WorkersOK, MarkRunningLost, BackToLoop, Goto,
     workerVars
<1>5. ScanIsLatest'
  BY <1>1, IInvParts, KeptScans DEF ProcessesOK, MarkRunningLost, BackToLoop, Goto, scanVars
<1> QED BY <1>1, <1>2, <1>3, <1>4, <1>5 DEF IInv, TypeOK, RowInv, OwnerInv

\* Register preserves the invariant.
LEMMA RegisterStep ==
  ASSUME NEW w \in Workers, IInv, Register(w)
  PROVE  IInv'
<1>1. RowInv' /\ OwnersKept /\ LeasesKept
  BY IInvParts, SameRows DEF Register, Goto, Serving, rowVars
<1>2. ProcessesOK'
  BY IInvParts DEF ProcessesOK, WorkersOK, WorkerHasRow, RowsOK, RowInv, Register, Goto,
     Serving, procVars, scanVars, cancelVars
<1>3. WorkersOK' /\ WorkerHasRow'
  BY IInvParts DEF WorkersOK, WorkerHasRow, RowInv, RowsOK, Register, Goto, Serving,
     workerVars
<1>4. OwnerInv'
  BY <1>1, IInvParts, KeptOwners DEF WorkersOK, Register, Goto, Serving, workerVars
<1>5. ScanIsLatest'
  BY <1>1, IInvParts, KeptScans DEF ProcessesOK, Register, Goto, Serving, scanVars
<1> QED BY <1>1, <1>2, <1>3, <1>4, <1>5 DEF IInv, TypeOK, RowInv, OwnerInv

\* FirstHeartbeat preserves the invariant.
LEMMA FirstHeartbeatStep ==
  ASSUME NEW w \in Workers, IInv, FirstHeartbeat(w)
  PROVE  IInv'
<1>1. RowInv' /\ OwnersKept /\ LeasesKept
  <2>1. CASE Owns(w, cur[w])
    <3>1. RenewLease(cur[w])
      BY <2>1 DEF FirstHeartbeat
    <3> QED BY <3>1, IInvParts, RenewedRow DEF WorkerHasRow, FirstHeartbeat
  <2>2. CASE ~Owns(w, cur[w])
    BY <2>2, IInvParts, SameRows DEF FirstHeartbeat
  <2> QED BY <2>1, <2>2
<1>2. ProcessesOK'
  BY IInvParts DEF ProcessesOK, WorkersOK, WorkerHasRow, RowsOK, RowInv, FirstHeartbeat,
     RenewLease, Goto, procVars, scanVars, cancelVars
<1>3. WorkersOK' /\ WorkerHasRow'
  <2>1. BeatTicks \in 0 .. BeatTicks
    OBVIOUS
  <2>2. pc[w] = "check" /\ UNCHANGED <<cur, mine, seen, alive>>
    BY DEF FirstHeartbeat
  <2>3. CASE beat' = [beat EXCEPT ![w] = BeatTicks] /\ pc' = [pc EXCEPT ![w] = "handling"]
    BY <2>1, <2>2, <2>3, IInvParts DEF WorkersOK, WorkerHasRow
  <2>4. CASE beat' = beat /\ pc' = [pc EXCEPT ![w] = "leaving"]
    BY <2>2, <2>4, IInvParts DEF WorkersOK, WorkerHasRow
  <2> QED BY <2>3, <2>4 DEF FirstHeartbeat, Goto
<1>4. OwnerInv'
  BY <1>1, IInvParts, KeptOwners DEF WorkersOK, FirstHeartbeat, RenewLease, Goto, workerVars
<1>5. ScanIsLatest'
  BY <1>1, IInvParts, KeptScans DEF ProcessesOK, FirstHeartbeat, RenewLease, Goto, scanVars
<1> QED BY <1>1, <1>2, <1>3, <1>4, <1>5 DEF IInv, TypeOK, RowInv, OwnerInv

\* Heartbeat preserves the invariant.
LEMMA HeartbeatStep ==
  ASSUME NEW w \in Workers, IInv, Heartbeat(w)
  PROVE  IInv'
<1>1. RowInv' /\ OwnersKept /\ LeasesKept
  <2>1. CASE Owns(w, cur[w])
    <3>1. RenewLease(cur[w])
      BY <2>1 DEF Heartbeat
    <3> QED BY <3>1, IInvParts, RenewedRow DEF WorkerHasRow, Heartbeat
  <2>2. CASE ~Owns(w, cur[w])
    BY <2>2, IInvParts, SameRows DEF Heartbeat
  <2> QED BY <2>1, <2>2
<1>2. ProcessesOK'
  BY IInvParts DEF ProcessesOK, WorkersOK, WorkerHasRow, RowsOK, RowInv, Heartbeat,
     RenewLease, procVars, scanVars, cancelVars
<1>3. WorkersOK' /\ WorkerHasRow'
  <2>1. BeatTicks \in 0 .. BeatTicks
    OBVIOUS
  <2>2. /\ beat' = [beat EXCEPT ![w] = BeatTicks]
        /\ alive' = alive \/ alive' = [alive EXCEPT ![w] = FALSE]
        /\ UNCHANGED <<pc, cur, mine, seen>>
    BY DEF Heartbeat
  <2> QED BY <2>1, <2>2, IInvParts DEF WorkersOK, WorkerHasRow
<1>4. OwnerInv'
  BY <1>1, IInvParts, KeptOwners DEF WorkersOK, Heartbeat, RenewLease, workerVars
<1>5. ScanIsLatest'
  BY <1>1, IInvParts, KeptScans DEF ProcessesOK, Heartbeat, RenewLease, scanVars
<1> QED BY <1>1, <1>2, <1>3, <1>4, <1>5 DEF IInv, TypeOK, RowInv, OwnerInv

\* Complete preserves the invariant.
LEMMA CompleteStep ==
  ASSUME NEW w \in Workers, IInv, Complete(w)
  PROVE  IInv'
<1>1. RowInv' /\ OwnersKept /\ LeasesKept
  <2>1. CASE Owns(w, cur[w])
    <3>1. FinishRow(cur[w], "succeeded")
      BY <2>1 DEF Complete
    <3> QED BY <3>1, IInvParts, FinishedRow DEF WorkerHasRow, Complete
  <2>2. CASE ~Owns(w, cur[w])
    BY <2>2, IInvParts, SameRows DEF Complete
  <2> QED BY <2>1, <2>2
<1>2. ProcessesOK'
  BY IInvParts DEF ProcessesOK, WorkersOK, WorkerHasRow, RowsOK, RowInv, Complete,
     FinishRow, Goto, procVars, scanVars, cancelVars
<1>3. WorkersOK' /\ WorkerHasRow'
  BY IInvParts DEF WorkersOK, WorkerHasRow, RowInv, RowsOK, Complete, FinishRow, Goto,
     workerVars
<1>4. OwnerInv'
  BY <1>1, IInvParts, KeptOwners DEF WorkersOK, Complete, FinishRow, Goto, workerVars
<1>5. ScanIsLatest'
  BY <1>1, IInvParts, KeptScans DEF ProcessesOK, Complete, FinishRow, Goto, scanVars
<1> QED BY <1>1, <1>2, <1>3, <1>4, <1>5 DEF IInv, TypeOK, RowInv, OwnerInv

\* FailRead preserves the invariant.
LEMMA FailReadStep ==
  ASSUME NEW w \in Workers, IInv, FailRead(w)
  PROVE  IInv'
<1>1. RowInv' /\ OwnersKept /\ LeasesKept
  BY IInvParts, SameRows DEF FailRead, Goto, rowVars
<1>2. ProcessesOK'
  BY IInvParts DEF ProcessesOK, WorkersOK, WorkerHasRow, RowsOK, RowInv, FailRead, Goto,
     procVars, scanVars, cancelVars
<1>3. WorkersOK' /\ WorkerHasRow'
  <2>1. attempt[cur[w]] \in 0 .. MaxAttempts
    BY IInvParts DEF RowInv, RowsOK, WorkerHasRow, FailRead
  <2>2. CASE status[cur[w]] = "purged"
    BY <2>2, IInvParts DEF WorkersOK, WorkerHasRow, FailRead, Goto
  <2>3. CASE status[cur[w]] # "purged"
    BY <2>1, <2>3, IInvParts DEF WorkersOK, WorkerHasRow, FailRead, Goto
  <2> QED BY <2>2, <2>3
<1>4. OwnerInv'
  <2>1. \A v \in Workers : Owns(v, cur[v])' => Owns(v, cur[v]) /\ attempt' = attempt /\ cur' = cur /\ mine' = mine
    BY DEF FailRead, Owns, rowVars
  <2>2. HolderHasLatestAttempt'
    BY <2>1, IInvParts DEF OwnerInv, HolderHasLatestAttempt, WorkersOK, FailRead, Goto
  <2>3. SeenIsLatest'
    <3>1. CASE status[cur[w]] = "purged"
      BY <2>1, <3>1, IInvParts DEF OwnerInv, SeenIsLatest, WorkersOK, FailRead, Goto
    <3>2. CASE status[cur[w]] # "purged"
      <4>1. seen' = [seen EXCEPT ![w] = attempt[cur[w]]] /\ pc' = [pc EXCEPT ![w] = "failing2"]
        BY <3>2 DEF FailRead, Goto
      <4> QED BY <2>1, <4>1, IInvParts DEF OwnerInv, SeenIsLatest, WorkersOK
    <3> QED BY <3>1, <3>2
  <2> QED BY <2>2, <2>3 DEF OwnerInv
<1>5. ScanIsLatest'
  BY <1>1, IInvParts, KeptScans DEF ProcessesOK, FailRead, Goto, scanVars
<1> QED BY <1>1, <1>2, <1>3, <1>4, <1>5 DEF IInv, TypeOK, RowInv, OwnerInv

\* Leave preserves the invariant.
LEMMA LeaveStep ==
  ASSUME NEW w \in Workers, IInv, Leave(w)
  PROVE  IInv'
<1>1. RowInv' /\ OwnersKept /\ LeasesKept
  BY IInvParts, SameRows DEF Leave, BackToLoop, Goto, rowVars
<1>2. ProcessesOK'
  BY IInvParts DEF ProcessesOK, WorkersOK, WorkerHasRow, RowsOK, RowInv, Leave, BackToLoop,
     Goto, procVars, scanVars, cancelVars
<1>3. WorkersOK' /\ WorkerHasRow'
  BY IInvParts DEF WorkersOK, WorkerHasRow, RowInv, RowsOK, Leave, BackToLoop, Goto,
     workerVars
<1>4. OwnerInv'
  BY <1>1, IInvParts, KeptOwners DEF WorkersOK, Leave, BackToLoop, Goto, workerVars
<1>5. ScanIsLatest'
  BY <1>1, IInvParts, KeptScans DEF ProcessesOK, Leave, BackToLoop, Goto, scanVars
<1> QED BY <1>1, <1>2, <1>3, <1>4, <1>5 DEF IInv, TypeOK, RowInv, OwnerInv

\* HandlerReturns preserves the invariant.
LEMMA HandlerReturnsStep ==
  ASSUME NEW w \in Workers, IInv, HandlerReturns(w)
  PROVE  IInv'
<1>1. RowInv' /\ OwnersKept /\ LeasesKept
  BY IInvParts, SameRows DEF HandlerReturns, Goto, QueueCtxDone, rowVars
<1>2. ProcessesOK'
  BY IInvParts DEF ProcessesOK, WorkersOK, WorkerHasRow, RowsOK, RowInv, HandlerReturns,
     Goto, QueueCtxDone, procVars, scanVars, cancelVars
<1>3. WorkersOK' /\ WorkerHasRow'
  <2>1. PICK step \in {"leaving", "completing", "failing"} : pc' = [pc EXCEPT ![w] = step]
    BY DEF HandlerReturns, Goto
  <2>2. pc[w] = "handling" /\ alive' = [alive EXCEPT ![w] = FALSE]
        /\ UNCHANGED <<cur, mine, seen, beat>>
    BY DEF HandlerReturns
  <2>3. pc' \in [Workers -> Steps]
    BY <2>1, IInvParts DEF WorkersOK, Steps
  <2>4. alive' \in [Workers -> BOOLEAN]
    BY <2>2, IInvParts DEF WorkersOK
  <2>5. WorkersOK'
    BY <2>2, <2>3, <2>4, IInvParts DEF WorkersOK
  <2>6. WorkerHasRow'
    BY <2>1, <2>2, IInvParts DEF WorkersOK, WorkerHasRow
  <2> QED
    BY <2>5, <2>6
<1>4. OwnerInv'
  BY <1>1, IInvParts, KeptOwners DEF WorkersOK, HandlerReturns, Goto, QueueCtxDone,
     workerVars
<1>5. ScanIsLatest'
  BY <1>1, IInvParts, KeptScans DEF ProcessesOK, HandlerReturns, Goto, QueueCtxDone,
     scanVars
<1> QED BY <1>1, <1>2, <1>3, <1>4, <1>5 DEF IInv, TypeOK, RowInv, OwnerInv

\* StatementFails preserves the invariant.
LEMMA StatementFailsStep ==
  ASSUME NEW w \in Workers, IInv, StatementFails(w)
  PROVE  IInv'
<1>1. RowInv' /\ OwnersKept /\ LeasesKept
  BY IInvParts, SameRows DEF StatementFails, BackToLoop, Goto, QueueCtxDone, rowVars
<1>2. ProcessesOK'
  BY IInvParts DEF ProcessesOK, WorkersOK, WorkerHasRow, RowsOK, RowInv, StatementFails,
     BackToLoop, Goto, QueueCtxDone, procVars, scanVars, cancelVars
<1>3. WorkersOK' /\ WorkerHasRow'
  <2>1. CASE pc[w] \in {"selected", "reread", "claimed"}
    <3>1. BackToLoop(w)
      BY <2>1 DEF StatementFails
    <3> QED BY <3>1, IInvParts DEF WorkersOK, WorkerHasRow, BackToLoop, Goto
  <2>2. CASE pc[w] \in {"check", "completing", "failing", "failing2"}
    BY <2>2, IInvParts DEF WorkersOK, WorkerHasRow, StatementFails, Goto
  <2>3. CASE pc[w] = "handling"
    BY <2>3, IInvParts DEF WorkersOK, WorkerHasRow, StatementFails
  <2> QED BY <2>1, <2>2, <2>3 DEF StatementFails
<1>4. OwnerInv'
  BY <1>1, IInvParts, KeptOwners DEF WorkersOK, StatementFails, BackToLoop, Goto,
     QueueCtxDone, workerVars
<1>5. ScanIsLatest'
  BY <1>1, IInvParts, KeptScans DEF ProcessesOK, StatementFails, BackToLoop, Goto,
     QueueCtxDone, scanVars
<1> QED BY <1>1, <1>2, <1>3, <1>4, <1>5 DEF IInv, TypeOK, RowInv, OwnerInv

\* CancelSelect preserves the invariant.
LEMMA CancelSelectStep ==
  ASSUME NEW i \in Instances, IInv, CancelSelect(i)
  PROVE  IInv'
<1>1. RowInv' /\ OwnersKept /\ LeasesKept
  BY IInvParts, SameRows DEF CancelSelect, rowVars
<1>2. ProcessesOK'
  <2>1. PICK S \in SUBSET Jobs : cancelIds' = [cancelIds EXCEPT ![i] = S]
    BY DEF CancelSelect
  <2> QED BY <2>1, IInvParts DEF ProcessesOK, CancelSelect, procVars, scanVars
<1>3. WorkersOK' /\ WorkerHasRow'
  BY IInvParts DEF WorkersOK, WorkerHasRow, RowInv, RowsOK, CancelSelect, workerVars
<1>4. OwnerInv'
  BY <1>1, IInvParts, KeptOwners DEF WorkersOK, CancelSelect, workerVars
<1>5. ScanIsLatest'
  BY <1>1, IInvParts, KeptScans DEF ProcessesOK, CancelSelect, scanVars
<1> QED BY <1>1, <1>2, <1>3, <1>4, <1>5 DEF IInv, TypeOK, RowInv, OwnerInv

\* CancelUpdate preserves the invariant.
LEMMA CancelUpdateStep ==
  ASSUME NEW i \in Instances, IInv, CancelUpdate(i)
  PROVE  IInv'
<1>1. RowInv' /\ OwnersKept /\ LeasesKept
  BY IInvParts DEF RowInv, RowsOK, AttemptsCounted, QueuedCanBeClaimed,
     FailedMeansExhausted, OwnersKept, LeasesKept, Owns, ExpiredAtScan, WorkerHasRow,
     CancelUpdate
<1>2. ProcessesOK'
  BY IInvParts DEF ProcessesOK, WorkersOK, WorkerHasRow, RowsOK, RowInv, CancelUpdate,
     procVars, scanVars, cancelVars
<1>3. WorkersOK' /\ WorkerHasRow'
  BY IInvParts DEF WorkersOK, WorkerHasRow, RowInv, RowsOK, CancelUpdate, workerVars
<1>4. OwnerInv'
  BY <1>1, IInvParts, KeptOwners DEF WorkersOK, CancelUpdate, workerVars
<1>5. ScanIsLatest'
  BY <1>1, IInvParts, KeptScans DEF ProcessesOK, CancelUpdate, scanVars
<1> QED BY <1>1, <1>2, <1>3, <1>4, <1>5 DEF IInv, TypeOK, RowInv, OwnerInv

\* CancelNotify preserves the invariant.
LEMMA CancelNotifyStep ==
  ASSUME NEW i \in Instances, IInv, CancelNotify(i)
  PROVE  IInv'
<1>1. RowInv' /\ OwnersKept /\ LeasesKept
  BY IInvParts, SameRows DEF CancelNotify, rowVars
<1>2. ProcessesOK'
  BY IInvParts DEF ProcessesOK, WorkersOK, WorkerHasRow, RowsOK, RowInv, CancelNotify,
     procVars, scanVars, cancelVars
<1>3. WorkersOK' /\ WorkerHasRow'
  BY IInvParts DEF WorkersOK, WorkerHasRow, RowInv, RowsOK, CancelNotify, workerVars
<1>4. OwnerInv'
  BY <1>1, IInvParts, KeptOwners DEF WorkersOK, CancelNotify, workerVars
<1>5. ScanIsLatest'
  BY <1>1, IInvParts, KeptScans DEF ProcessesOK, CancelNotify, scanVars
<1> QED BY <1>1, <1>2, <1>3, <1>4, <1>5 DEF IInv, TypeOK, RowInv, OwnerInv

\* ScanAborts preserves the invariant.
LEMMA ScanAbortsStep ==
  ASSUME NEW i \in Instances, IInv, ScanAborts(i)
  PROVE  IInv'
<1>1. RowInv' /\ OwnersKept /\ LeasesKept
  BY IInvParts, SameRows DEF ScanAborts, rowVars
<1>2. ProcessesOK'
  BY IInvParts DEF ProcessesOK, WorkersOK, WorkerHasRow, RowsOK, RowInv, ScanAborts,
     procVars, scanVars, cancelVars
<1>3. WorkersOK' /\ WorkerHasRow'
  BY IInvParts DEF WorkersOK, WorkerHasRow, RowInv, RowsOK, ScanAborts, workerVars
<1>4. OwnerInv'
  BY <1>1, IInvParts, KeptOwners DEF WorkersOK, ScanAborts, workerVars
<1>5. ScanIsLatest'
  BY <1>1, IInvParts, KeptScans DEF ProcessesOK, ScanAborts, scanVars
<1> QED BY <1>1, <1>2, <1>3, <1>4, <1>5 DEF IInv, TypeOK, RowInv, OwnerInv

\* SpawnWorkers preserves the invariant.
LEMMA SpawnWorkersStep ==
  ASSUME NEW i \in Instances, IInv, SpawnWorkers(i)
  PROVE  IInv'
<1>1. RowInv' /\ OwnersKept /\ LeasesKept
  BY IInvParts, SameRows DEF SpawnWorkers, rowVars
<1>2. ProcessesOK'
  BY IInvParts DEF ProcessesOK, WorkersOK, WorkerHasRow, RowsOK, RowInv, SpawnWorkers,
     procVars, scanVars, cancelVars
<1>3. WorkersOK' /\ WorkerHasRow'
  BY IInvParts DEF WorkersOK, WorkerHasRow, RowInv, RowsOK, SpawnWorkers, workerVars
<1>4. OwnerInv'
  BY <1>1, IInvParts, KeptOwners DEF WorkersOK, SpawnWorkers, workerVars
<1>5. ScanIsLatest'
  BY <1>1, IInvParts, KeptScans DEF ProcessesOK, SpawnWorkers, scanVars
<1> QED BY <1>1, <1>2, <1>3, <1>4, <1>5 DEF IInv, TypeOK, RowInv, OwnerInv

\* Stop preserves the invariant.
LEMMA StopStep ==
  ASSUME NEW i \in Instances, IInv, Stop(i)
  PROVE  IInv'
<1>1. RowInv' /\ OwnersKept /\ LeasesKept
  BY IInvParts, SameRows DEF Stop, rowVars
<1>2. ProcessesOK'
  <2>1. crashes' \in 0 .. MaxCrashes
    BY IInvParts DEF ProcessesOK, Stop
  <2>2. mode' \in [Instances -> Modes]
    BY IInvParts DEF ProcessesOK, Stop, Modes
  <2> QED
    BY <2>1, <2>2, IInvParts DEF ProcessesOK, Stop, scanVars, cancelVars
<1>3. WorkersOK' /\ WorkerHasRow'
  BY IInvParts DEF WorkersOK, WorkerHasRow, RowInv, RowsOK, Stop, workerVars
<1>4. OwnerInv'
  BY <1>1, IInvParts, KeptOwners DEF WorkersOK, Stop, workerVars
<1>5. ScanIsLatest'
  BY <1>1, IInvParts, KeptScans DEF ProcessesOK, Stop, scanVars
<1> QED BY <1>1, <1>2, <1>3, <1>4, <1>5 DEF IInv, TypeOK, RowInv, OwnerInv

\* StopReturns preserves the invariant.
LEMMA StopReturnsStep ==
  ASSUME NEW i \in Instances, IInv, StopReturns(i)
  PROVE  IInv'
<1>1. RowInv' /\ OwnersKept /\ LeasesKept
  BY IInvParts DEF RowInv, RowsOK, AttemptsCounted, QueuedCanBeClaimed,
     FailedMeansExhausted, OwnersKept, LeasesKept, Owns, ExpiredAtScan, WorkerHasRow,
     StopReturns, ProcessGone
<1>2. ProcessesOK'
  BY IInvParts DEF ProcessesOK, WorkersOK, WorkerHasRow, RowsOK, RowInv, StopReturns,
     ProcessGone, procVars, scanVars, cancelVars
<1>3. WorkersOK' /\ WorkerHasRow'
  BY IInvParts DEF WorkersOK, WorkerHasRow, RowInv, RowsOK, StopReturns, ProcessGone,
     workerVars
<1>4. OwnerInv'
  BY <1>1, IInvParts, KeptOwners DEF WorkersOK, StopReturns, ProcessGone, workerVars
<1>5. ScanIsLatest'
  BY <1>1, IInvParts, KeptScans DEF ProcessesOK, StopReturns, ProcessGone, scanVars
<1> QED BY <1>1, <1>2, <1>3, <1>4, <1>5 DEF IInv, TypeOK, RowInv, OwnerInv

\* Crash preserves the invariant.
LEMMA CrashStep ==
  ASSUME NEW i \in Instances, IInv, Crash(i)
  PROVE  IInv'
<1>1. RowInv' /\ OwnersKept /\ LeasesKept
  BY IInvParts DEF RowInv, RowsOK, AttemptsCounted, QueuedCanBeClaimed,
     FailedMeansExhausted, OwnersKept, LeasesKept, Owns, ExpiredAtScan, WorkerHasRow,
     Crash, ProcessGone
<1>2. ProcessesOK'
  <2>1. crashes' \in 0 .. MaxCrashes /\ UNCHANGED scanAge
    BY IInvParts DEF ProcessesOK, Crash, ProcessGone
  <2>2. mode' \in [Instances -> Modes]
    BY IInvParts DEF ProcessesOK, Crash, ProcessGone, Modes
  <2>3. running' \in [Instances -> [Jobs -> Workers \cup {NoWorker}]]
    BY IInvParts DEF ProcessesOK, Crash, ProcessGone
  <2>4. /\ scan' \in [Instances -> SUBSET (Jobs \X (0 .. MaxAttempts))]
        /\ cancelIds' \in [Instances -> SUBSET Jobs]
        /\ cancelAt' \in [Instances -> {"none", "update", "notify"}]
    BY IInvParts DEF ProcessesOK, Crash, ProcessGone
  <2> QED
    BY <2>1, <2>2, <2>3, <2>4, IInvParts DEF ProcessesOK
<1>3. WorkersOK' /\ WorkerHasRow'
  BY IInvParts DEF WorkersOK, WorkerHasRow, RowInv, RowsOK, Crash, ProcessGone, workerVars
<1>4. OwnerInv'
  BY <1>1, IInvParts, KeptOwners DEF WorkersOK, Crash, ProcessGone, workerVars
<1>5. ScanIsLatest'
  BY <1>1, IInvParts, KeptScans DEF ProcessesOK, Crash, ProcessGone, scanVars
<1> QED BY <1>1, <1>2, <1>3, <1>4, <1>5 DEF IInv, TypeOK, RowInv, OwnerInv

\* Enqueue preserves the invariant.
LEMMA EnqueueStep ==
  ASSUME NEW j \in Jobs, IInv, Enqueue(j)
  PROVE  IInv'
<1>1. RowInv' /\ OwnersKept /\ LeasesKept
  BY IInvParts DEF RowInv, RowsOK, AttemptsCounted, QueuedCanBeClaimed,
     FailedMeansExhausted, OwnersKept, LeasesKept, Owns, ExpiredAtScan, WorkerHasRow,
     Enqueue
<1>2. ProcessesOK'
  BY IInvParts DEF ProcessesOK, WorkersOK, WorkerHasRow, RowsOK, RowInv, Enqueue, procVars,
     scanVars, cancelVars
<1>3. WorkersOK' /\ WorkerHasRow'
  BY IInvParts DEF WorkersOK, WorkerHasRow, RowInv, RowsOK, Enqueue, workerVars
<1>4. OwnerInv'
  BY <1>1, IInvParts, KeptOwners DEF WorkersOK, Enqueue, workerVars
<1>5. ScanIsLatest'
  BY <1>1, IInvParts, KeptScans DEF ProcessesOK, Enqueue, scanVars
<1> QED BY <1>1, <1>2, <1>3, <1>4, <1>5 DEF IInv, TypeOK, RowInv, OwnerInv

\* CleanupTerminal preserves the invariant.
LEMMA CleanupTerminalStep ==
  ASSUME NEW j \in Jobs, IInv, CleanupTerminal(j)
  PROVE  IInv'
<1>1. RowInv' /\ OwnersKept /\ LeasesKept
  BY IInvParts DEF RowInv, RowsOK, AttemptsCounted, QueuedCanBeClaimed,
     FailedMeansExhausted, OwnersKept, LeasesKept, Owns, ExpiredAtScan, WorkerHasRow,
     CleanupTerminal
<1>2. ProcessesOK'
  BY IInvParts DEF ProcessesOK, WorkersOK, WorkerHasRow, RowsOK, RowInv, CleanupTerminal,
     procVars, scanVars, cancelVars
<1>3. WorkersOK' /\ WorkerHasRow'
  BY IInvParts DEF WorkersOK, WorkerHasRow, RowInv, RowsOK, CleanupTerminal, workerVars
<1>4. OwnerInv'
  BY <1>1, IInvParts, KeptOwners DEF WorkersOK, CleanupTerminal, workerVars
<1>5. ScanIsLatest'
  BY <1>1, IInvParts, KeptScans DEF ProcessesOK, CleanupTerminal, scanVars
<1> QED BY <1>1, <1>2, <1>3, <1>4, <1>5 DEF IInv, TypeOK, RowInv, OwnerInv

\* ClaimLocked preserves the invariant.
LEMMA ClaimLockedStep ==
  ASSUME NEW w \in Workers, IInv, ClaimLocked(w)
  PROVE  IInv'
<1> PICK j \in Jobs : /\ Candidate(j)
                     /\ StampClaim(j, w)
                     /\ cur' = [cur EXCEPT ![w] = j]
                     /\ mine' = [mine EXCEPT ![w] = attempt[j] + 1]
  BY DEF ClaimLocked
<1>0. Claimable(j) /\ StampClaim(j, w)
  BY DEF Candidate
<1>1. /\ RowInv' /\ LeasesKept
      /\ \A v \in Workers, k \in Jobs :
           Owns(v, k)' => (v = w /\ k = j) \/ (Owns(v, k) /\ attempt'[k] = attempt[k])
  BY <1>0, ClaimRow, IInvParts
<1>2. ProcessesOK'
  BY IInvParts DEF ProcessesOK, ClaimLocked, procVars, scanVars, cancelVars
<1>3. WorkersOK' /\ WorkerHasRow'
  <2>1. attempt[j] + 1 \in 0 .. MaxAttempts
    BY <1>0, IInvParts DEF RowInv, RowsOK, Claimable
  <2>2. /\ cur' = [cur EXCEPT ![w] = j]
        /\ mine' = [mine EXCEPT ![w] = attempt[j] + 1]
        /\ pc' = [pc EXCEPT ![w] = "claimed"]
        /\ UNCHANGED <<seen, alive, beat>>
    BY DEF ClaimLocked, Goto
  <2> QED BY <2>1, <2>2, IInvParts DEF WorkersOK, WorkerHasRow
<1>4. OwnerInv'
  <2>1. SUFFICES ASSUME NEW v \in Workers, Owns(v, cur[v])',
                        pc'[v] \notin {"idle", "selected", "reread"}
                 PROVE  /\ mine'[v] = attempt'[cur'[v]]
                        /\ pc'[v] = "failing2" => seen'[v] = attempt'[cur'[v]]
    BY DEF OwnerInv, HolderHasLatestAttempt, SeenIsLatest
  <2>2. CASE v = w
    BY <1>0, <2>2, IInvParts DEF WorkersOK, RowInv, RowsOK, StampClaim, ClaimLocked, Goto
  <2>3. CASE v # w
    <3>1. pc'[v] = pc[v] /\ cur'[v] = cur[v] /\ mine'[v] = mine[v] /\ seen'[v] = seen[v]
      BY <2>3, IInvParts DEF WorkersOK, ClaimLocked, Goto
    <3>2. cur[v] \in Jobs /\ Owns(v, cur[v])'
      BY <2>1, <3>1, IInvParts DEF WorkerHasRow, Owns
    <3>3. Owns(v, cur[v]) /\ attempt'[cur[v]] = attempt[cur[v]]
      BY <1>1, <2>1, <2>3, <3>1, <3>2 DEF Owns
    <3> QED BY <2>1, <3>1, <3>3, IInvParts DEF OwnerInv, HolderHasLatestAttempt,
               SeenIsLatest
  <2> QED BY <2>2, <2>3
<1>5. ScanIsLatest'
  BY <1>1, IInvParts, KeptScans DEF ProcessesOK, ClaimLocked, scanVars
<1> QED BY <1>1, <1>2, <1>3, <1>4, <1>5 DEF IInv, TypeOK, RowInv, OwnerInv

\* ClaimUpdate preserves the invariant.
LEMMA ClaimUpdateStep ==
  ASSUME NEW w \in Workers, IInv, ClaimUpdate(w)
  PROVE  IInv'
<1> DEFINE j == cur[w]
<1>0. j \in Jobs /\ Claimable(j) /\ StampClaim(j, w)
  BY IInvParts DEF ClaimUpdate, WorkerHasRow
<1> HIDE DEF j
<1>1. /\ RowInv' /\ LeasesKept
      /\ \A v \in Workers, k \in Jobs :
           Owns(v, k)' => (v = w /\ k = j) \/ (Owns(v, k) /\ attempt'[k] = attempt[k])
  BY <1>0, ClaimRow, IInvParts
<1>2. ProcessesOK'
  BY IInvParts DEF ProcessesOK, ClaimUpdate, procVars, scanVars, cancelVars
<1>3. WorkersOK' /\ WorkerHasRow'
  BY <1>0, IInvParts DEF WorkersOK, WorkerHasRow, ClaimUpdate, Goto
<1>4. OwnerInv'
  <2>1. SUFFICES ASSUME NEW v \in Workers, Owns(v, cur[v])',
                        pc'[v] \notin {"idle", "selected", "reread"}
                 PROVE  /\ mine'[v] = attempt'[cur'[v]]
                        /\ pc'[v] = "failing2" => seen'[v] = attempt'[cur'[v]]
    BY DEF OwnerInv, HolderHasLatestAttempt, SeenIsLatest
  <2>2. v # w
    BY <2>1, IInvParts DEF WorkersOK, ClaimUpdate, Goto
  <2>3. pc'[v] = pc[v] /\ cur'[v] = cur[v] /\ mine'[v] = mine[v] /\ seen'[v] = seen[v]
    BY <2>2, IInvParts DEF WorkersOK, ClaimUpdate, Goto
  <2>4. cur[v] \in Jobs
    BY <2>1, <2>3, IInvParts DEF WorkerHasRow
  <2>5. Owns(v, cur[v]) /\ attempt'[cur[v]] = attempt[cur[v]]
    BY <1>1, <2>1, <2>2, <2>3, <2>4 DEF Owns
  <2> QED BY <2>1, <2>3, <2>5, IInvParts DEF OwnerInv, HolderHasLatestAttempt, SeenIsLatest
<1>5. ScanIsLatest'
  BY <1>1, IInvParts, KeptScans DEF ProcessesOK, ClaimUpdate, scanVars
<1> QED BY <1>1, <1>2, <1>3, <1>4, <1>5 DEF IInv, TypeOK, RowInv, OwnerInv

\* FailWrite preserves the invariant.
LEMMA FailWriteStep ==
  ASSUME NEW w \in Workers, IInv, FailWrite(w)
  PROVE  IInv'
<1>1. RowInv' /\ OwnersKept /\ LeasesKept
  <2>1. CASE ~Owns(w, cur[w])
    BY <2>1, IInvParts, SameRows DEF FailWrite
  <2>2. CASE Owns(w, cur[w])
    <3>1. cur[w] \in Jobs /\ seen[w] = attempt[cur[w]] /\ mine[w] = attempt[cur[w]]
      BY <2>2, IInvParts DEF FailWrite, WorkerHasRow, OwnerInv, SeenIsLatest,
         HolderHasLatestAttempt
    <3>2. RetryDelay[mine[w]] \in Nat
      BY <2>2, <3>1, IInvParts DEF RowInv, RowsOK, AttemptsCounted, Owns
    <3>3. CASE seen[w] < MaxAttempts
      <4>1. RequeueRow(cur[w], RetryDelay[mine[w]])
        BY <2>2, <3>1, <3>3, IInvParts DEF FailWrite, RowInv, RowsOK
      <4> QED BY <3>1, <3>2, <3>3, <4>1, IInvParts, RequeuedRow
    <3>4. CASE seen[w] >= MaxAttempts
      <4>1. FinishRow(cur[w], "failed")
        BY <2>2, <3>1, <3>4, IInvParts DEF FailWrite, RowInv, RowsOK
      <4>2. attempt[cur[w]] = MaxAttempts
        BY <3>1, <3>4, IInvParts DEF RowInv, RowsOK
      <4> QED BY <3>1, <4>1, <4>2, IInvParts, FinishedRow
    <3> QED BY <3>1, <3>3, <3>4, IInvParts DEF RowInv, RowsOK
  <2> QED BY <2>1, <2>2
<1>2. ProcessesOK'
  BY IInvParts DEF ProcessesOK, FailWrite, procVars, scanVars, cancelVars
<1>3. WorkersOK' /\ WorkerHasRow'
  BY IInvParts DEF WorkersOK, WorkerHasRow, FailWrite, Goto
<1>4. OwnerInv'
  BY <1>1, IInvParts, KeptOwners DEF WorkersOK, FailWrite, Goto
<1>5. ScanIsLatest'
  BY <1>1, IInvParts, KeptScans DEF FailWrite, scanVars
<1> QED BY <1>1, <1>2, <1>3, <1>4, <1>5 DEF IInv, TypeOK, RowInv, OwnerInv

\* ScanUpdate preserves the invariant.
LEMMA ScanUpdateStep ==
  ASSUME NEW i \in Instances, IInv, ScanUpdate(i)
  PROVE  IInv'
<1> PICK r \in scan[i] :
      /\ scan' = [scan EXCEPT ![i] = @ \ {r}]
      /\ \/ ~ExpiredAtScan(i, r[1]) /\ UNCHANGED rowVars
         \/ ExpiredAtScan(i, r[1]) /\ r[2] < MaxAttempts /\ RequeueRow(r[1], 0)
         \/ ExpiredAtScan(i, r[1]) /\ r[2] >= MaxAttempts /\ FinishRow(r[1], "failed")
  BY DEF ScanUpdate
<1>0. \/ ~ExpiredAtScan(i, r[1]) /\ UNCHANGED rowVars
      \/ ExpiredAtScan(i, r[1]) /\ r[2] < MaxAttempts /\ RequeueRow(r[1], 0)
      \/ ExpiredAtScan(i, r[1]) /\ r[2] >= MaxAttempts /\ FinishRow(r[1], "failed")
  OBVIOUS
<1>1. RowInv' /\ OwnersKept /\ LeasesKept
  <2>1. r[1] \in Jobs /\ r[2] \in 0 .. MaxAttempts
    BY IInvParts DEF ProcessesOK
  <2>2. CASE ~ExpiredAtScan(i, r[1])
    BY <1>0, <2>2, IInvParts, SameRows
  <2>3. CASE ExpiredAtScan(i, r[1])
    <3>1. r[2] = attempt[r[1]]
      BY <2>3, IInvParts DEF ScanIsLatest
    <3>2. CASE r[2] < MaxAttempts
      BY <1>0, <2>1, <2>3, <3>1, <3>2, IInvParts, RequeuedRow
    <3>3. CASE r[2] >= MaxAttempts
      <4>1. attempt[r[1]] = MaxAttempts /\ FinishRow(r[1], "failed")
        BY <1>0, <2>1, <2>3, <3>1, <3>3, IInvParts
      <4> QED BY <2>1, <4>1, IInvParts, FinishedRow
    <3> QED BY <2>1, <3>2, <3>3
  <2> QED BY <2>2, <2>3
<1>2. ProcessesOK'
  BY IInvParts DEF ProcessesOK, ScanUpdate, procVars, cancelVars
<1>3. WorkersOK' /\ WorkerHasRow'
  BY IInvParts DEF WorkersOK, WorkerHasRow, ScanUpdate, workerVars
<1>4. OwnerInv'
  BY <1>1, IInvParts, KeptOwners DEF ScanUpdate, workerVars
<1>5. ScanIsLatest'
  BY <1>1, IInvParts, KeptScans DEF ProcessesOK, ScanUpdate
<1> QED BY <1>1, <1>2, <1>3, <1>4, <1>5 DEF IInv, TypeOK, RowInv, OwnerInv

\* ScanSelect preserves the invariant.
LEMMA ScanSelectStep ==
  ASSUME NEW i \in Instances, IInv, ScanSelect(i)
  PROVE  IInv'
<1>1. RowInv' /\ OwnersKept /\ LeasesKept
  BY IInvParts, SameRows DEF ScanSelect, Expired, rowVars
<1>2. ProcessesOK'
  <2>1. {<<j, attempt[j]>> : j \in Expired} \in SUBSET (Jobs \X (0 .. MaxAttempts))
    BY IInvParts DEF RowInv, RowsOK, Expired
  <2>2. scan' \in [Instances -> SUBSET (Jobs \X (0 .. MaxAttempts))]
    BY <2>1, IInvParts DEF ProcessesOK, ScanSelect
  <2>3. scanAge' \in [Instances -> 0 .. MaxScan]
    BY IInvParts DEF ProcessesOK, ScanSelect
  <2> QED
    BY <2>2, <2>3, IInvParts DEF ProcessesOK, ScanSelect, procVars, cancelVars
<1>3. WorkersOK' /\ WorkerHasRow'
  BY IInvParts DEF WorkersOK, WorkerHasRow, RowInv, RowsOK, ScanSelect, Expired, workerVars
<1>4. OwnerInv'
  BY <1>1, IInvParts, KeptOwners DEF WorkersOK, ScanSelect, Expired, workerVars
<1>5. ScanIsLatest'
  <2>1. SUFFICES ASSUME NEW k \in Instances, NEW r \in scan'[k], ExpiredAtScan(k, r[1])'
                 PROVE  r[2] = attempt'[r[1]]
    BY DEF ScanIsLatest
  <2>2. CASE k = i
    BY <2>2, IInvParts DEF ProcessesOK, ScanSelect, Expired, rowVars
  <2>3. CASE k # i
    BY <2>1, <2>3, IInvParts DEF ProcessesOK, ScanIsLatest, ExpiredAtScan, ScanSelect,
       rowVars
  <2> QED BY <2>2, <2>3
<1> QED BY <1>1, <1>2, <1>3, <1>4, <1>5 DEF IInv, TypeOK, RowInv, OwnerInv

\* Start preserves the invariant.
LEMMA StartStep ==
  ASSUME NEW i \in Instances, IInv, Start(i)
  PROVE  IInv'
<1>1. RowInv' /\ OwnersKept /\ LeasesKept
  BY IInvParts, SameRows DEF Start, Expired, rowVars
<1>2. ProcessesOK'
  <2>1. mode' \in [Instances -> Modes]
    BY IInvParts DEF ProcessesOK, Start, Modes
  <2>2. {<<j, attempt[j]>> : j \in Expired} \in SUBSET (Jobs \X (0 .. MaxAttempts))
    BY IInvParts DEF RowInv, RowsOK, Expired
  <2>3. scan' \in [Instances -> SUBSET (Jobs \X (0 .. MaxAttempts))]
    BY <2>2, IInvParts DEF ProcessesOK, Start
  <2>4. scanAge' \in [Instances -> 0 .. MaxScan]
    BY IInvParts DEF ProcessesOK, Start
  <2> QED
    BY <2>1, <2>3, <2>4, IInvParts DEF ProcessesOK, Start, cancelVars
<1>3. WorkersOK' /\ WorkerHasRow'
  BY IInvParts DEF WorkersOK, WorkerHasRow, RowInv, RowsOK, Start, Expired, workerVars
<1>4. OwnerInv'
  BY <1>1, IInvParts, KeptOwners DEF WorkersOK, Start, Expired, workerVars
<1>5. ScanIsLatest'
  <2>1. SUFFICES ASSUME NEW k \in Instances, NEW r \in scan'[k], ExpiredAtScan(k, r[1])'
                 PROVE  r[2] = attempt'[r[1]]
    BY DEF ScanIsLatest
  <2>2. CASE k = i
    BY <2>2, IInvParts DEF ProcessesOK, Start, Expired, rowVars
  <2>3. CASE k # i
    BY <2>1, <2>3, IInvParts DEF ProcessesOK, ScanIsLatest, ExpiredAtScan, Start, rowVars
  <2> QED BY <2>2, <2>3
<1> QED BY <1>1, <1>2, <1>3, <1>4, <1>5 DEF IInv, TypeOK, RowInv, OwnerInv

\* Tick preserves the invariant.
LEMMA TickStep ==
  ASSUME IInv, Tick
  PROVE  IInv'
<1>1. RowInv' /\ OwnersKept
  BY IInvParts DEF RowInv, RowsOK, AttemptsCounted, QueuedCanBeClaimed,
     FailedMeansExhausted,
                   OwnersKept, Owns, Tick, CountDown
<1>2. ProcessesOK'
  <2>1. \A i \in Instances : scanAge'[i] \in 0 .. MaxScan
    BY IInvParts DEF ProcessesOK, Tick
  <2> QED BY <2>1, IInvParts DEF ProcessesOK, Tick, procVars, cancelVars
<1>3. WorkersOK' /\ WorkerHasRow'
  <2>1. beat' \in [Workers -> 0 .. BeatTicks]
    BY IInvParts DEF WorkersOK, Tick, CountDown
  <2>2. UNCHANGED <<pc, cur, mine, seen, alive>>
    BY DEF Tick
  <2>3. WorkersOK'
    BY <2>1, <2>2, IInvParts DEF WorkersOK
  <2>4. WorkerHasRow'
    BY <2>2, IInvParts DEF WorkerHasRow
  <2> QED
    BY <2>3, <2>4
<1>4. OwnerInv'
  BY <1>1, IInvParts, KeptOwners DEF Tick
<1>5. ScanIsLatest'
  <2>1. SUFFICES ASSUME NEW i \in Instances, NEW r \in scan[i], ExpiredAtScan(i, r[1])'
                 PROVE  r[2] = attempt[r[1]]
    BY DEF ScanIsLatest, Tick
  <2>2. r[1] \in Jobs /\ lease[r[1]] \in Int /\ scanAge[i] \in Nat /\ scanAge[i] < MaxScan
    BY IInvParts DEF ProcessesOK, RowInv, RowsOK, Tick
  <2>3. status[r[1]] \in Held /\ lease'[r[1]] + scanAge'[i] <= 0 /\ scanAge'[i] = scanAge[i] + 1
    BY <2>1, <2>2 DEF ExpiredAtScan, Tick
  <2>4. lease[r[1]] + scanAge[i] <= 0
    <3>1. lease'[r[1]] = lease[r[1]] \/ lease'[r[1]] = lease[r[1]] - 1
      BY <2>2 DEF Tick
    <3>2. scanAge'[i] = scanAge[i] + 1 /\ lease'[r[1]] + scanAge'[i] <= 0
      BY <2>3
    <3> QED
      BY <2>2, <3>1, <3>2
  <2> QED BY <2>3, <2>4, IInvParts DEF ScanIsLatest, ExpiredAtScan
<1> QED BY <1>1, <1>2, <1>3, <1>4, <1>5 DEF IInv, TypeOK, RowInv, OwnerInv

\* Every step preserves the invariant.
LEMMA NextStep == IInv /\ [Next]_vars => IInv'
<1> SUFFICES ASSUME IInv, [Next]_vars PROVE IInv'
  OBVIOUS
<1>1. CASE Tick
  BY <1>1, TickStep
<1>2. ASSUME NEW j \in Jobs, Enqueue(j) \/ CleanupTerminal(j)
      PROVE  IInv'
  BY <1>2, EnqueueStep, CleanupTerminalStep
<1>3. ASSUME NEW w \in Workers, Worker(w)
      PROVE  IInv'
  BY <1>3, ClaimLockedStep, ClaimSelectStep, ClaimUpdateStep, ClaimLostStep,
     ClaimRereadStep, MarkRunningStep, MarkRunningLostStep, RegisterStep,
     FirstHeartbeatStep, HeartbeatStep, CompleteStep, FailReadStep,
     FailWriteStep, LeaveStep DEF Worker
<1>4. ASSUME NEW w \in Workers, HandlerReturns(w) \/ StatementFails(w)
      PROVE  IInv'
  BY <1>4, HandlerReturnsStep, StatementFailsStep
<1>5. ASSUME NEW i \in Instances, Cancel(i) \/ Recovery(i) \/ ScanAborts(i)
      PROVE  IInv'
  BY <1>5, CancelSelectStep, CancelUpdateStep, CancelNotifyStep, ScanSelectStep,
     ScanUpdateStep, ScanAbortsStep DEF Cancel, Recovery
<1>6. ASSUME NEW i \in Instances, Boot(i) \/ Stop(i) \/ StopReturns(i) \/ Crash(i)
      PROVE  IInv'
  BY <1>6, StartStep, SpawnWorkersStep, StopStep, StopReturnsStep, CrashStep DEF Boot
<1>7. CASE UNCHANGED vars
  BY <1>7 DEF vars, rowVars, procVars, scanVars, cancelVars, workerVars, IInv, TypeOK,
     RowsOK,
     ProcessesOK, WorkersOK, WorkerHasRow, AttemptsCounted, HolderHasLatestAttempt,
     SeenIsLatest, ScanIsLatest, QueuedCanBeClaimed, FailedMeansExhausted, Owns, ExpiredAtScan
<1> QED BY <1>1, <1>2, <1>3, <1>4, <1>5, <1>6, <1>7 DEF Next

\* The inductive invariant holds in every reachable state.
THEOREM Invariance == Spec => []IInv
<1>1. Init => IInv
  BY InitIInv
<1>2. IInv /\ [Next]_vars => IInv'
  BY NextStep
<1> QED BY <1>1, <1>2, PTL DEF Spec

-----------------------------------------------------------------------------
(* The properties that follow from the invariant. *)

\* Every reachable state is well-typed.
THEOREM TypeCorrect == Spec => []TypeOK
BY Invariance, PTL DEF IInv

\* No row is ever put back in the queue with its attempts used up.
THEOREM QueuedStaysClaimable == Spec => []QueuedCanBeClaimed
BY Invariance, PTL DEF IInv

\* No job is given up before its last attempt.
THEOREM FailsOnlyExhausted == Spec => []FailedMeansExhausted
BY Invariance, PTL DEF IInv

\* The worker's name in claimed_by fences off every earlier attempt.
THEOREM NameFencesAttempts == Spec => []HolderHasLatestAttempt
BY Invariance, PTL DEF IInv

\* Only the latest attempt's worker makes a job succeed.
LEMMA SuccessStep ==
  ASSUME IInv, [Next]_vars, NEW j \in Jobs,
         status[j] # "succeeded", status'[j] = "succeeded"
  PROVE  \E w \in Workers : pc[w] = "completing" /\ cur[w] = j /\ mine[w] = attempt[j]
<1>0. status \in [Jobs -> Statuses]
  BY IInvParts DEF RowInv, RowsOK
<1>1. \E w \in Workers : Complete(w)
  <2> SUFFICES ASSUME \A w \in Workers : ~Complete(w)
               PROVE  FALSE
    OBVIOUS
  <2>1. CASE Tick \/ UNCHANGED vars
    BY <2>1 DEF Tick, vars, rowVars
  <2>2. ASSUME NEW k \in Jobs, Enqueue(k) \/ CleanupTerminal(k)
        PROVE  FALSE
    BY <1>0, <2>2 DEF Enqueue, CleanupTerminal
  <2>3. ASSUME NEW w \in Workers, Worker(w)
        PROVE  FALSE
    <3>1. CASE ClaimLocked(w) \/ ClaimUpdate(w)
      BY <1>0, <3>1 DEF ClaimLocked, ClaimUpdate, StampClaim
    <3>2. CASE MarkRunning(w) \/ FailWrite(w)
      BY <1>0, <3>2 DEF MarkRunning, FailWrite, FinishRow, RequeueRow, rowVars
    <3>3. CASE UNCHANGED status
      BY <3>3
    <3> QED BY <2>3, <3>1, <3>2, <3>3
         DEF Worker, ClaimSelect, ClaimLost, ClaimReread, MarkRunningLost, Register,
             FirstHeartbeat, Heartbeat, FailRead, Leave, RenewLease, rowVars
  <2>4. ASSUME NEW w \in Workers, HandlerReturns(w) \/ StatementFails(w)
        PROVE  FALSE
    BY <2>4 DEF HandlerReturns, StatementFails, rowVars
  <2>5. ASSUME NEW i \in Instances, Cancel(i) \/ Recovery(i) \/ ScanAborts(i)
        PROVE  FALSE
    BY <1>0, <2>5 DEF Cancel, Recovery, CancelSelect, CancelUpdate, CancelNotify, ScanSelect,
       ScanUpdate, ScanAborts, FinishRow, RequeueRow, rowVars
  <2>6. ASSUME NEW i \in Instances, Boot(i) \/ Stop(i) \/ StopReturns(i) \/ Crash(i)
        PROVE  FALSE
    BY <2>6 DEF Boot, Start, SpawnWorkers, Stop, StopReturns, Crash, ProcessGone, rowVars
  <2> QED BY <2>1, <2>2, <2>3, <2>4, <2>5, <2>6 DEF Next
<1> PICK w \in Workers : Complete(w)
  BY <1>1
<1>2. pc[w] = "completing" /\ Owns(w, cur[w]) /\ cur[w] = j
  BY <1>0, IInvParts DEF Complete, FinishRow, WorkerHasRow, rowVars
<1> QED BY <1>2, IInvParts DEF OwnerInv, HolderHasLatestAttempt

\* A job is marked succeeded by the worker of its latest attempt only
\* (MarkSucceeded is conditional on claimed_by).
THEOREM SuccessIsLatest == Spec => SucceedsByLatestAttempt
<1>1. IInv /\ [Next]_vars =>
        [\A j \in Jobs :
           status[j] # "succeeded" /\ status'[j] = "succeeded"
           => \E w \in Workers :
                /\ pc[w] = "completing"
                /\ cur[w] = j
                /\ mine[w] = attempt[j]]_vars
  BY SuccessStep
<1> QED BY <1>1, Invariance, PTL DEF Spec, SucceedsByLatestAttempt

-----------------------------------------------------------------------------
(* The queue implements the life cycle it promises. *)

\* The phase of a job follows the status of its row.
LEMMA PhaseMoves ==
  ASSUME RowsOK, NEW j \in Jobs, NEW s \in Statuses,
         status' = [status EXCEPT ![j] = s]
  PROVE  Phase' = [Phase EXCEPT ![j] = PhaseOf(s)]
BY DEF RowsOK, Phase, PhaseOf

\* The phase of one job.
LEMMA PhaseAt ==
  ASSUME NEW j \in Jobs
  PROVE  Phase[j] = PhaseOf(status[j])
BY DEF Phase

\* No phase changes while no status does.
LEMMA PhaseStays ==
  ASSUME status' = status
  PROVE  Phase' = Phase
BY DEF Phase, PhaseOf

\* A claim is one more try.
LEMMA ClaimIsTry ==
  ASSUME RowInv, NEW j \in Jobs, NEW w \in Workers, Claimable(j), StampClaim(j, w)
  PROVE  Life!Try(j)
BY PhaseMoves, PhaseAt DEF RowInv, Claimable, StampClaim, Life!Try, Life!Move, PhaseOf

\* The end of a row that is held is the end of the job.
LEMMA FinishIsEnd ==
  ASSUME RowInv, NEW j \in Jobs, status[j] \in Held, NEW s \in {"succeeded", "failed"},
         s = "failed" => attempt[j] = MaxAttempts, FinishRow(j, s)
  PROVE  Life!Succeed(j) \/ Life!GiveUp(j)
BY PhaseMoves, PhaseAt
   DEF RowInv, FinishRow, Life!Succeed, Life!GiveUp, Life!Move, PhaseOf

\* Giving a held row back is a retry.
LEMMA RequeueIsRetry ==
  ASSUME RowInv, NEW j \in Jobs, NEW d \in Nat, status[j] \in Held,
         attempt[j] < MaxAttempts, RequeueRow(j, d)
  PROVE  Life!Retry(j)
BY PhaseMoves, PhaseAt DEF RowInv, RequeueRow, Life!Retry, Life!Move, PhaseOf

\* Every step of the queue is a step of the life of a job, or none.
LEMMA LifeStep == IInv /\ [Next]_vars => [Life!Next]_(Life!vars)
<1> SUFFICES ASSUME IInv, [Next]_vars
             PROVE  Life!Next \/ (Phase' = Phase /\ attempt' = attempt)
  BY DEF Life!vars
<1>0. RowInv /\ RowsOK
  BY IInvParts DEF RowInv
<1>1. CASE Tick \/ UNCHANGED vars
  BY <1>1, PhaseStays DEF Tick, vars, rowVars
<1>2. ASSUME NEW j \in Jobs, Enqueue(j)
      PROVE  Life!Submit(j)
  BY <1>0, <1>2, PhaseMoves, PhaseAt DEF Enqueue, Life!Submit, Life!Move, PhaseOf
<1>3. ASSUME NEW j \in Jobs, CleanupTerminal(j)
      PROVE  Life!Purge(j)
  BY <1>0, <1>3, PhaseMoves, PhaseAt
     DEF CleanupTerminal, Life!Purge, Life!Move, Life!Ended, PhaseOf
<1>4. ASSUME NEW w \in Workers, Worker(w)
      PROVE  Life!Next \/ (Phase' = Phase /\ attempt' = attempt)
  <2>1. CASE ClaimLocked(w)
    <3>1. PICK j \in Jobs : Claimable(j) /\ StampClaim(j, w)
      BY <2>1 DEF ClaimLocked, Candidate
    <3> QED BY <1>0, <3>1, ClaimIsTry DEF Life!Next
  <2>2. CASE ClaimUpdate(w)
    <3>1. cur[w] \in Jobs /\ Claimable(cur[w]) /\ StampClaim(cur[w], w)
      BY <2>2, IInvParts DEF ClaimUpdate, WorkerHasRow
    <3> QED BY <1>0, <3>1, ClaimIsTry DEF Life!Next
  <2>3. CASE MarkRunning(w)
    <3>1. cur[w] \in Jobs
      BY <2>3, IInvParts DEF MarkRunning, WorkerHasRow
    <3>2. Phase' = [Phase EXCEPT ![cur[w]] = PhaseOf("running")]
      BY <1>0, <2>3, <3>1, PhaseMoves DEF MarkRunning
    <3>3. Phase[cur[w]] = PhaseOf("running")
      BY <2>3, <3>1, PhaseAt DEF MarkRunning, PhaseOf
    <3> QED BY <2>3, <3>1, <3>2, <3>3 DEF MarkRunning, Phase
  <2>4. CASE Complete(w)
    <3>1. CASE Owns(w, cur[w])
      <4>1. cur[w] \in Jobs /\ FinishRow(cur[w], "succeeded") /\ status[cur[w]] \in Held
        BY <2>4, <3>1, IInvParts DEF Complete, WorkerHasRow, Owns
      <4> QED BY <1>0, <4>1, FinishIsEnd DEF Life!Next
    <3>2. CASE ~Owns(w, cur[w])
      BY <2>4, <3>2, PhaseStays DEF Complete, rowVars
    <3> QED BY <3>1, <3>2
  <2>5. CASE FailWrite(w)
    <3>1. CASE ~Owns(w, cur[w])
      BY <2>5, <3>1, PhaseStays DEF FailWrite, rowVars
    <3>2. CASE Owns(w, cur[w])
      <4>1. /\ cur[w] \in Jobs
            /\ status[cur[w]] \in Held
            /\ seen[w] = attempt[cur[w]]
            /\ attempt[cur[w]] \in 0 .. MaxAttempts
        BY <1>0, <2>5, <3>2, IInvParts
           DEF FailWrite, WorkerHasRow, OwnerInv, SeenIsLatest, Owns, RowsOK
      <4>2. RetryDelay[mine[w]] \in Nat
        BY <1>0, <2>5, <3>2, <4>1, IInvParts
           DEF FailWrite, OwnerInv, HolderHasLatestAttempt, RowInv, AttemptsCounted
      <4>3. CASE seen[w] < MaxAttempts
        <5>1. RequeueRow(cur[w], RetryDelay[mine[w]])
          BY <2>5, <3>2, <4>1, <4>3 DEF FailWrite
        <5> QED BY <1>0, <4>1, <4>2, <4>3, <5>1, RequeueIsRetry DEF Life!Next
      <4>4. CASE seen[w] >= MaxAttempts
        <5>1. FinishRow(cur[w], "failed") /\ attempt[cur[w]] = MaxAttempts
          BY <2>5, <3>2, <4>1, <4>4 DEF FailWrite
        <5> QED BY <1>0, <4>1, <5>1, FinishIsEnd DEF Life!Next
      <4> QED BY <4>1, <4>3, <4>4
    <3> QED BY <3>1, <3>2
  <2>6. CASE UNCHANGED <<status, attempt>>
    BY <2>6, PhaseStays
  <2> QED BY <1>4, <2>1, <2>2, <2>3, <2>4, <2>5, <2>6
       DEF Worker, ClaimSelect, ClaimLost, ClaimReread, MarkRunningLost, Register,
           FirstHeartbeat, Heartbeat, FailRead, Leave, RenewLease, rowVars
<1>5. ASSUME NEW w \in Workers, HandlerReturns(w) \/ StatementFails(w)
      PROVE  Phase' = Phase /\ attempt' = attempt
  BY <1>5, PhaseStays DEF HandlerReturns, StatementFails, rowVars
<1>6. ASSUME NEW i \in Instances, CancelUpdate(i)
      PROVE  Life!Next \/ (Phase' = Phase /\ attempt' = attempt)
  <2> DEFINE hit == {j \in cancelIds[i] : status[j] \in Active}
  <2>1. hit \in SUBSET Jobs /\ attempt' = attempt
    BY <1>6, IInvParts DEF CancelUpdate, ProcessesOK
  <2>2. status' = [j \in Jobs |-> IF j \in hit THEN "cancelled" ELSE status[j]]
    BY <1>6 DEF CancelUpdate
  <2>3. Phase' = [j \in Jobs |-> IF j \in hit THEN "cancelled" ELSE Phase[j]]
    BY <2>2 DEF Phase, PhaseOf
  <2>4. \A j \in hit : Phase[j] \in Life!Open
    BY <2>1, PhaseAt DEF PhaseOf, Life!Open
  <2>5. CASE hit = {}
    BY <2>1, <2>3, <2>5 DEF Phase
  <2>6. CASE hit # {}
    <3>1. Life!CancelAll(hit)
      BY <2>1, <2>3, <2>4, <2>6 DEF Life!CancelAll
    <3> QED BY <2>1, <3>1 DEF Life!Next
  <2> QED BY <2>5, <2>6
<1>7. ASSUME NEW i \in Instances, ScanUpdate(i)
      PROVE  Life!Next \/ (Phase' = Phase /\ attempt' = attempt)
  <2>1. PICK r \in scan[i] :
          \/ UNCHANGED rowVars
          \/ ExpiredAtScan(i, r[1]) /\ r[2] < MaxAttempts /\ RequeueRow(r[1], 0)
          \/ ExpiredAtScan(i, r[1]) /\ r[2] >= MaxAttempts /\ FinishRow(r[1], "failed")
    BY <1>7 DEF ScanUpdate
  <2>2. r[1] \in Jobs /\ r[2] \in 0 .. MaxAttempts
    BY IInvParts DEF ProcessesOK
  <2>3. CASE UNCHANGED rowVars
    BY <2>3, PhaseStays DEF rowVars
  <2>4. CASE ExpiredAtScan(i, r[1])
    <3>1. r[2] = attempt[r[1]] /\ status[r[1]] \in Held
      BY <2>4, IInvParts DEF ScanIsLatest, ExpiredAtScan
    <3>2. CASE r[2] < MaxAttempts /\ RequeueRow(r[1], 0)
      BY <1>0, <2>2, <3>1, <3>2, RequeueIsRetry DEF Life!Next
    <3>3. CASE r[2] >= MaxAttempts /\ FinishRow(r[1], "failed")
      <4>1. attempt[r[1]] = MaxAttempts
        BY <2>2, <3>1, <3>3
      <4> QED BY <1>0, <2>2, <3>1, <3>3, <4>1, FinishIsEnd DEF Life!Next
    <3>4. CASE UNCHANGED rowVars
      BY <3>4, PhaseStays DEF rowVars
    <3> QED BY <2>1, <3>2, <3>3, <3>4
  <2> QED BY <2>1, <2>3, <2>4
<1>8. ASSUME NEW i \in Instances,
             \/ CancelSelect(i) \/ CancelNotify(i) \/ ScanSelect(i) \/ ScanAborts(i)
             \/ Boot(i) \/ Stop(i) \/ StopReturns(i) \/ Crash(i)
      PROVE  Phase' = Phase /\ attempt' = attempt
  BY <1>8, PhaseStays DEF CancelSelect, CancelNotify, ScanSelect, ScanAborts, Boot, Start,
     SpawnWorkers, Stop, StopReturns, Crash, ProcessGone, rowVars
<1> QED BY <1>1, <1>2, <1>3, <1>4, <1>5, <1>6, <1>7, <1>8
     DEF Next, Cancel, Recovery, Life!Next

\* The queue implements the life cycle of a job.
THEOREM Refinement == Spec => LifecycleHolds
<1>1. Init => Life!Init
  BY DEF Init, Life!Init, Phase, PhaseOf
<1>2. IInv /\ [Next]_vars => [Life!Next]_(Life!vars)
  BY LifeStep
<1> QED BY <1>1, <1>2, Invariance, PTL DEF Spec, LifecycleHolds, Life!Spec

-----------------------------------------------------------------------------
(* While no process stalls, at most one live handler runs for a job. *)

Lost == {"cancelled", "purged"}

Live(w) == pc[w] = "handling" /\ alive[w]

\* A step after which every live handler was live before, and still owns its
\* row under the same lease unless the job was cancelled.
LiveKept ==
  \A w \in Workers :
    Live(w)' =>
      /\ Live(w)
      /\ cur'[w] = cur[w]
      /\ beat'[w] = beat[w]
      /\ status[cur[w]] \in Lost => status'[cur[w]] \in Lost
      /\ Owns(w, cur[w]) /\ lease[cur[w]] >= 1
         => \/ Owns(w, cur[w])' /\ lease'[cur[w]] = lease[cur[w]]
            \/ status'[cur[w]] \in Lost

\* The parts of the invariant of live handlers.
LEMMA LInvParts ==
  ASSUME LInv
  PROVE  /\ IInv /\ RowsOK /\ WorkersOK /\ ProcessesOK /\ WorkerHasRow
         /\ LiveLease /\ OneLiveHandler
BY IInvParts DEF LInv, RowInv

\* What LiveLease says of one live handler.
LEMMA LiveOwns ==
  ASSUME LInv, NEW w \in Workers, Live(w)
  PROVE  /\ cur[w] \in Jobs
         /\ \/ /\ Owns(w, cur[w])
               /\ lease[cur[w]] = beat[w] + (LeaseTicks - BeatTicks)
               /\ lease[cur[w]] >= 1
            \/ status[cur[w]] \in Lost
<1>1. cur[w] \in Jobs /\ beat[w] \in 0 .. BeatTicks
  BY LInvParts DEF WorkersOK, WorkerHasRow, Live
<1> QED BY <1>1, LInvParts DEF LiveLease, Live, Lost

\* LiveKept is enough for the invariant of live handlers.
LEMMA KeptLive ==
  ASSUME LInv, LiveKept
  PROVE  LiveLease' /\ OneLiveHandler'
<1>1. ASSUME NEW w \in Workers, Live(w)'
      PROVE  \/ Owns(w, cur[w])' /\ lease'[cur'[w]] = beat'[w] + (LeaseTicks - BeatTicks)
             \/ status'[cur'[w]] \in Lost
  BY <1>1, LiveOwns DEF LiveKept, Owns
<1>2. LiveLease'
  BY <1>1 DEF LiveLease, Live, Lost, Owns
<1>3. OneLiveHandler'
  BY LInvParts DEF OneLiveHandler, LiveKept, Live
<1> QED BY <1>2, <1>3

\* The statements of one worker cannot touch the row of another one's live handler.
LEMMA OwnRowLive ==
  ASSUME LInv, NEW w \in Workers, Owns(w, cur[w]), NEW v \in Workers, v # w,
         Live(v), cur[v] = cur[w]
  PROVE  FALSE
BY LiveOwns DEF Owns, Lost

\* ClaimSelect keeps every live handler on its row.
LEMMA ClaimSelectLive ==
  ASSUME LInv, NEW w \in Workers, ClaimSelect(w)
  PROVE  LiveKept
BY LInvParts DEF LiveKept, Live, Owns, WorkersOK, ClaimSelect, Goto,
   rowVars, workerVars

\* ClaimLost keeps every live handler on its row.
LEMMA ClaimLostLive ==
  ASSUME LInv, NEW w \in Workers, ClaimLost(w)
  PROVE  LiveKept
BY LInvParts DEF LiveKept, Live, Owns, WorkersOK, ClaimLost, BackToLoop, Goto,
   rowVars, workerVars

\* ClaimReread keeps every live handler on its row.
LEMMA ClaimRereadLive ==
  ASSUME LInv, NEW w \in Workers, ClaimReread(w)
  PROVE  LiveKept
BY LInvParts DEF LiveKept, Live, Owns, WorkersOK, ClaimReread, Goto,
   rowVars, workerVars

\* MarkRunningLost keeps every live handler on its row.
LEMMA MarkRunningLostLive ==
  ASSUME LInv, NEW w \in Workers, MarkRunningLost(w)
  PROVE  LiveKept
BY LInvParts DEF LiveKept, Live, Owns, WorkersOK, MarkRunningLost, BackToLoop, Goto,
   rowVars, workerVars

\* Register keeps every live handler on its row.
LEMMA RegisterLive ==
  ASSUME LInv, NEW w \in Workers, Register(w)
  PROVE  LiveKept
BY LInvParts DEF LiveKept, Live, Owns, WorkersOK, Register, Goto,
   rowVars, workerVars

\* FailRead keeps every live handler on its row.
LEMMA FailReadLive ==
  ASSUME LInv, NEW w \in Workers, FailRead(w)
  PROVE  LiveKept
BY LInvParts DEF LiveKept, Live, Owns, WorkersOK, FailRead, Goto,
   rowVars, workerVars

\* Leave keeps every live handler on its row.
LEMMA LeaveLive ==
  ASSUME LInv, NEW w \in Workers, Leave(w)
  PROVE  LiveKept
BY LInvParts DEF LiveKept, Live, Owns, WorkersOK, Leave, BackToLoop, Goto,
   rowVars, workerVars

\* HandlerReturns keeps every live handler on its row.
LEMMA HandlerReturnsLive ==
  ASSUME LInv, NEW w \in Workers, HandlerReturns(w)
  PROVE  LiveKept
BY LInvParts DEF LiveKept, Live, Owns, WorkersOK, HandlerReturns, Goto,
   rowVars, workerVars

\* StatementFails keeps every live handler on its row.
LEMMA StatementFailsLive ==
  ASSUME LInv, NEW w \in Workers, StatementFails(w)
  PROVE  LiveKept
BY LInvParts DEF LiveKept, Live, Owns, WorkersOK, StatementFails, BackToLoop, Goto,
   rowVars, workerVars

\* CancelSelect keeps every live handler on its row.
LEMMA CancelSelectLive ==
  ASSUME LInv, NEW i \in Instances, CancelSelect(i)
  PROVE  LiveKept
BY LInvParts DEF LiveKept, Live, Owns, WorkersOK, CancelSelect,
   rowVars, workerVars

\* CancelNotify keeps every live handler on its row.
LEMMA CancelNotifyLive ==
  ASSUME LInv, NEW i \in Instances, CancelNotify(i)
  PROVE  LiveKept
BY LInvParts DEF LiveKept, Live, Owns, WorkersOK, CancelNotify,
   rowVars, workerVars

\* ScanSelect keeps every live handler on its row.
LEMMA ScanSelectLive ==
  ASSUME LInv, NEW i \in Instances, ScanSelect(i)
  PROVE  LiveKept
BY LInvParts DEF LiveKept, Live, Owns, WorkersOK, ScanSelect,
   rowVars, workerVars

\* ScanAborts keeps every live handler on its row.
LEMMA ScanAbortsLive ==
  ASSUME LInv, NEW i \in Instances, ScanAborts(i)
  PROVE  LiveKept
BY LInvParts DEF LiveKept, Live, Owns, WorkersOK, ScanAborts,
   rowVars, workerVars

\* Start keeps every live handler on its row.
LEMMA StartLive ==
  ASSUME LInv, NEW i \in Instances, Start(i)
  PROVE  LiveKept
BY LInvParts DEF LiveKept, Live, Owns, WorkersOK, Start,
   rowVars, workerVars

\* SpawnWorkers keeps every live handler on its row.
LEMMA SpawnWorkersLive ==
  ASSUME LInv, NEW i \in Instances, SpawnWorkers(i)
  PROVE  LiveKept
BY LInvParts DEF LiveKept, Live, Owns, WorkersOK, SpawnWorkers,
   rowVars, workerVars

\* Stop keeps every live handler on its row.
LEMMA StopLive ==
  ASSUME LInv, NEW i \in Instances, Stop(i)
  PROVE  LiveKept
BY LInvParts DEF LiveKept, Live, Owns, WorkersOK, Stop,
   rowVars, workerVars

\* A claimed row was queued, so no live handler owned it.
LEMMA ClaimLive ==
  ASSUME LInv, NEW w \in Workers, ClaimLocked(w) \/ ClaimUpdate(w)
  PROVE  LiveKept
<1>1. PICK j \in Jobs : Claimable(j) /\ StampClaim(j, w)
  BY LInvParts DEF ClaimLocked, ClaimUpdate, Candidate, WorkerHasRow
<1>2. SUFFICES ASSUME NEW v \in Workers, Live(v)'
               PROVE  /\ Live(v) /\ cur'[v] = cur[v] /\ beat'[v] = beat[v]
                      /\ cur[v] # j
  BY <1>1, <1>2, LiveOwns, LInvParts DEF LiveKept, StampClaim, Owns, RowsOK, Lost
<1>3. v # w /\ Live(v) /\ cur'[v] = cur[v] /\ beat'[v] = beat[v]
  BY <1>2, LInvParts DEF ClaimLocked, ClaimUpdate, Goto, Live, WorkersOK
<1> QED BY <1>1, <1>3, LiveOwns DEF Claimable, Owns, Lost

\* The row of another worker's live handler is not marked.
LEMMA MarkRunningLive ==
  ASSUME LInv, NEW w \in Workers, MarkRunning(w)
  PROVE  LiveKept
<1>1. cur[w] \in Jobs
  BY LInvParts DEF MarkRunning, WorkerHasRow
<1>2. SUFFICES ASSUME NEW v \in Workers, Live(v)'
               PROVE  Live(v) /\ cur'[v] = cur[v] /\ beat'[v] = beat[v] /\ cur[v] # cur[w]
  BY <1>1, <1>2, LInvParts DEF LiveKept, MarkRunning, Owns, RowsOK, Lost
<1>3. v # w /\ Live(v) /\ cur'[v] = cur[v] /\ beat'[v] = beat[v]
  BY <1>2, LInvParts DEF MarkRunning, Goto, Live, WorkersOK
<1> QED BY <1>3, OwnRowLive DEF MarkRunning, Owns

\* Complete and FailWrite: the row is the worker's own, and its handler is over.
LEMMA OutcomeLive ==
  ASSUME LInv, NEW w \in Workers, Complete(w) \/ FailWrite(w)
  PROVE  LiveKept
<1>1. cur[w] \in Jobs
  BY LInvParts DEF Complete, FailWrite, WorkerHasRow
<1>2. ASSUME NEW v \in Workers, Live(v)'
      PROVE  v # w /\ Live(v) /\ cur'[v] = cur[v] /\ beat'[v] = beat[v]
  BY <1>2, LInvParts DEF Complete, FailWrite, Goto, Live, WorkersOK
<1>3. CASE UNCHANGED rowVars
  BY <1>2, <1>3 DEF LiveKept, Owns, rowVars
<1>4. CASE ~ UNCHANGED rowVars
  <2>1. Owns(w, cur[w])
    BY <1>4 DEF Complete, FailWrite
  <2>2. \A j \in Jobs \ {cur[w]} :
          status'[j] = status[j] /\ holder'[j] = holder[j] /\ lease'[j] = lease[j]
    BY <1>1, LInvParts DEF Complete, FailWrite, FinishRow, RequeueRow, rowVars, RowsOK
  <2>3. ASSUME NEW v \in Workers, Live(v)'
        PROVE  cur[v] \in Jobs \ {cur[w]}
    BY <1>2, <2>1, <2>3, OwnRowLive, LiveOwns
  <2> QED BY <1>2, <2>2, <2>3 DEF LiveKept, Owns
<1> QED BY <1>3, <1>4

\* A cancelled row is lost to its live handler, and only that.
LEMMA CancelUpdateLive ==
  ASSUME LInv, NEW i \in Instances, CancelUpdate(i)
  PROVE  LiveKept
BY LInvParts, LiveOwns DEF LiveKept, CancelUpdate, Live, Owns, Lost, workerVars

\* A recovery pass only takes rows whose lease is over, and no live handler's is.
LEMMA ScanUpdateLive ==
  ASSUME LInv, NEW i \in Instances, ScanUpdate(i)
  PROVE  LiveKept
<1>1. PICK r \in scan[i] :
        \/ UNCHANGED rowVars
        \/ ExpiredAtScan(i, r[1]) /\ RequeueRow(r[1], 0)
        \/ ExpiredAtScan(i, r[1]) /\ FinishRow(r[1], "failed")
  BY DEF ScanUpdate
<1>2. UNCHANGED workerVars
  BY DEF ScanUpdate
<1>3. r[1] \in Jobs /\ scanAge[i] \in Nat
  BY LInvParts DEF ProcessesOK
<1>4. CASE UNCHANGED rowVars
  BY <1>2, <1>4 DEF LiveKept, Live, Owns, rowVars, workerVars
<1>5. CASE ExpiredAtScan(i, r[1]) /\ (RequeueRow(r[1], 0) \/ FinishRow(r[1], "failed"))
  <2>1. ASSUME NEW v \in Workers, Live(v)
        PROVE  cur[v] \in Jobs \ {r[1]}
    <3>1. cur[v] \in Jobs /\ lease[cur[v]] \in Int
      BY <2>1, LiveOwns, LInvParts DEF RowsOK
    <3>2. CASE status[cur[v]] \in Lost
      BY <1>5, <3>1, <3>2 DEF ExpiredAtScan, Lost
    <3>3. CASE lease[cur[v]] >= 1
      BY <1>3, <1>5, <3>1, <3>3 DEF ExpiredAtScan
    <3> QED BY <2>1, <3>2, <3>3, LiveOwns
  <2>2. \A j \in Jobs \ {r[1]} :
          status'[j] = status[j] /\ holder'[j] = holder[j] /\ lease'[j] = lease[j]
    BY <1>3, <1>5, LInvParts DEF FinishRow, RequeueRow, RowsOK
  <2> QED BY <1>2, <2>1, <2>2 DEF LiveKept, Live, Owns, workerVars
<1> QED BY <1>1, <1>4, <1>5

\* Request keeps every live handler on its row.
LEMMA RequestLive ==
  ASSUME LInv, NEW j \in Jobs, Enqueue(j) \/ CleanupTerminal(j)
  PROVE  LiveKept
<1>1. UNCHANGED <<holder, lease>> /\ UNCHANGED workerVars
  BY DEF Enqueue, CleanupTerminal
<1>2. ASSUME NEW v \in Workers, Live(v)
      PROVE  /\ status[cur[v]] \in Lost => status'[cur[v]] \in Lost
             /\ Owns(v, cur[v]) => Owns(v, cur[v])'
  <2>1. cur[v] \in Jobs
    BY <1>2, LiveOwns
  <2>2. CASE cur[v] # j
    <3>1. status'[cur[v]] = status[cur[v]]
      BY <2>1, <2>2, LInvParts DEF Enqueue, CleanupTerminal, RowsOK
    <3> QED BY <1>1, <3>1 DEF Owns, workerVars
  <2>3. CASE cur[v] = j
    <3>1. status[j] \notin Held
      BY DEF Enqueue, CleanupTerminal
    <3>2. status[j] \in Lost => status'[j] \in Lost
      BY LInvParts DEF Enqueue, CleanupTerminal, RowsOK, Lost
    <3> QED BY <2>3, <3>1, <3>2 DEF Owns, workerVars
  <2> QED BY <2>2, <2>3
<1> QED BY <1>1, <1>2 DEF LiveKept, Live, Owns, workerVars

\* The end of a process touches the rows of its own workers only.
LEMMA ProcessGoneLive ==
  ASSUME LInv, NEW i \in Instances, StopReturns(i) \/ Crash(i)
  PROVE  LiveKept
<1>1. ProcessGone(i)
  BY DEF StopReturns, Crash
<1>2. SUFFICES ASSUME NEW w \in Workers, Live(w)'
               PROVE  /\ Live(w)
                      /\ cur'[w] = cur[w]
                      /\ beat'[w] = beat[w]
                      /\ status[cur[w]] \in Lost => status'[cur[w]] \in Lost
                      /\ Owns(w, cur[w]) /\ lease[cur[w]] >= 1
                         => \/ Owns(w, cur[w])' /\ lease'[cur[w]] = lease[cur[w]]
                            \/ status'[cur[w]] \in Lost
  BY DEF LiveKept
<1>3. Home[w] # i /\ Live(w) /\ cur'[w] = cur[w] /\ beat'[w] = beat[w]
  BY <1>1, <1>2 DEF ProcessGone, Live
<1>4. cur[w] \in Jobs
  BY <1>3, LiveOwns
<1>5. UNCHANGED <<status, lease>> /\ (holder[cur[w]] = w => holder'[cur[w]] = w)
  BY <1>1, <1>3, <1>4 DEF ProcessGone
<1> QED
  BY <1>3, <1>5 DEF Owns

\* A handler that starts owns its row, so no other live handler has it.
LEMMA FirstHeartbeatLive ==
  ASSUME LInv, NEW w \in Workers, FirstHeartbeat(w)
  PROVE  LiveLease' /\ OneLiveHandler'
<1>1. CASE ~Owns(w, cur[w])
  <2>1. LiveKept
    BY <1>1, LInvParts DEF LiveKept, FirstHeartbeat, Goto, Live, Owns, WorkersOK, rowVars
  <2> QED BY <2>1, KeptLive
<1>2. CASE Owns(w, cur[w])
  <2>1. /\ pc' = [pc EXCEPT ![w] = "handling"]
        /\ beat' = [beat EXCEPT ![w] = BeatTicks]
        /\ lease' = [lease EXCEPT ![cur[w]] = LeaseTicks]
        /\ UNCHANGED <<status, holder, cur, alive>>
        /\ cur[w] \in Jobs
    BY <1>2, LInvParts DEF FirstHeartbeat, RenewLease, Goto, WorkerHasRow
  <2>2. ASSUME NEW v \in Workers, v # w, Live(v)'
        PROVE  Live(v) /\ cur[v] \in Jobs \ {cur[w]}
    <3>1. Live(v)
      BY <2>1, <2>2, LInvParts DEF Live, WorkersOK
    <3> QED BY <1>2, <2>2, <3>1, OwnRowLive, LiveOwns
  <2>3. ASSUME NEW v \in Workers, Live(v)'
        PROVE  \/ Owns(v, cur[v])' /\ lease'[cur[v]] = beat'[v] + (LeaseTicks - BeatTicks)
               \/ status'[cur[v]] \in Lost
    <3>1. CASE v = w
      BY <1>2, <2>1, <3>1, LInvParts DEF Owns, RowsOK, WorkersOK
    <3>2. CASE v # w
      BY <2>1, <2>2, <2>3, <3>2, LiveOwns, LInvParts DEF Owns, RowsOK, WorkersOK
    <3> QED BY <3>1, <3>2
  <2>4. LiveLease'
    BY <2>1, <2>3 DEF LiveLease, Live, Lost, Owns
  <2>5. OneLiveHandler'
    BY <2>1, <2>2, LInvParts DEF OneLiveHandler, Live
  <2> QED BY <2>4, <2>5
<1> QED BY <1>1, <1>2

\* A heartbeat renews the lease and the ticker of one live handler.
LEMMA HeartbeatLive ==
  ASSUME LInv, NEW w \in Workers, Heartbeat(w)
  PROVE  LiveLease' /\ OneLiveHandler'
<1>1. CASE ~Owns(w, cur[w])
  <2>1. \A v \in Workers : Live(v)' => v # w
    BY <1>1, LInvParts DEF Heartbeat, Live, WorkersOK
  <2>2. LiveKept
    BY <1>1, <2>1, LInvParts DEF LiveKept, Heartbeat, Live, Owns, WorkersOK, rowVars
  <2> QED BY <2>2, KeptLive
<1>2. CASE Owns(w, cur[w])
  <2>1. /\ beat' = [beat EXCEPT ![w] = BeatTicks]
        /\ lease' = [lease EXCEPT ![cur[w]] = LeaseTicks]
        /\ UNCHANGED <<status, holder, pc, cur, alive>>
        /\ Live(w) /\ cur[w] \in Jobs
    BY <1>2, LInvParts DEF Heartbeat, RenewLease, WorkerHasRow, Live
  <2>2. ASSUME NEW v \in Workers, v # w, Live(v)
        PROVE  cur[v] \in Jobs \ {cur[w]}
    BY <2>1, <2>2, LiveOwns, LInvParts DEF OneLiveHandler, Live
  <2>3. ASSUME NEW v \in Workers, Live(v)
        PROVE  \/ Owns(v, cur[v])' /\ lease'[cur[v]] = beat'[v] + (LeaseTicks - BeatTicks)
               \/ status'[cur[v]] \in Lost
    <3>1. CASE v = w
      BY <1>2, <2>1, <3>1, LInvParts DEF Owns, RowsOK, WorkersOK
    <3>2. CASE v # w
      BY <2>1, <2>2, <2>3, <3>2, LiveOwns, LInvParts DEF Owns, RowsOK, WorkersOK
    <3> QED BY <3>1, <3>2
  <2>4. LiveLease'
    BY <2>1, <2>3 DEF LiveLease, Live, Lost, Owns
  <2>5. OneLiveHandler'
    BY <2>1, LInvParts DEF OneLiveHandler
  <2> QED BY <2>4, <2>5
<1> QED BY <1>1, <1>2

\* Time: a live handler's heartbeat is not due, so its lease and its ticker
\* both have one tick less.
LEMMA TickLive ==
  ASSUME ~Stalls, LInv, Tick
  PROVE  LiveLease' /\ OneLiveHandler'
<1>1. UNCHANGED <<status, holder, pc, cur, alive>>
  BY DEF Tick
<1>2. ASSUME NEW w \in Workers, Live(w)
      PROVE  \/ Owns(w, cur[w])' /\ lease'[cur[w]] = beat'[w] + (LeaseTicks - BeatTicks)
             \/ status'[cur[w]] \in Lost
  <2>1. beat[w] \in Nat /\ beat[w] # 0
    BY <1>2, LInvParts DEF Tick, BeatDue, Live, WorkersOK
  <2>2. beat'[w] = beat[w] - 1
    BY <2>1 DEF Tick, CountDown
  <2>3. CASE status[cur[w]] \in Lost
    BY <1>1, <2>3
  <2>4. CASE Owns(w, cur[w]) /\ lease[cur[w]] = beat[w] + (LeaseTicks - BeatTicks)
    <3>1. cur[w] \in Jobs /\ status[cur[w]] \in Held /\ lease[cur[w]] > -MaxScan
      BY <1>2, <2>1, <2>4, LiveOwns DEF Owns
    <3>2. lease'[cur[w]] = lease[cur[w]] - 1
      BY <3>1 DEF Tick
    <3> QED BY <1>1, <2>1, <2>2, <2>4, <3>2 DEF Owns
  <2> QED BY <1>2, <2>3, <2>4, LiveOwns
<1>3. LiveLease'
  BY <1>1, <1>2 DEF LiveLease, Live, Lost, Owns
<1>4. OneLiveHandler'
  BY <1>1, LInvParts DEF OneLiveHandler
<1> QED BY <1>3, <1>4

\* Every step preserves the invariant of live handlers.
LEMMA LiveStep == ~Stalls => (LInv /\ [Next]_vars => LInv')
<1> SUFFICES ASSUME ~Stalls, LInv, [Next]_vars PROVE LInv'
  OBVIOUS
<1>1. IInv'
  BY NextStep, LInvParts
<1>2. LiveLease' /\ OneLiveHandler'
  <2>1. CASE Tick
    BY <2>1, TickLive
  <2>2. ASSUME NEW j \in Jobs, Enqueue(j) \/ CleanupTerminal(j)
        PROVE  LiveKept
    BY <2>2, RequestLive
  <2>3. ASSUME NEW w \in Workers, FirstHeartbeat(w) \/ Heartbeat(w)
        PROVE  LiveLease' /\ OneLiveHandler'
    BY <2>3, FirstHeartbeatLive, HeartbeatLive
  <2>4. ASSUME NEW w \in Workers, Worker(w), ~FirstHeartbeat(w), ~Heartbeat(w)
        PROVE  LiveKept
    BY <2>4, ClaimLive, ClaimSelectLive, ClaimLostLive, ClaimRereadLive, MarkRunningLive,
       MarkRunningLostLive, RegisterLive, OutcomeLive, FailReadLive, LeaveLive DEF Worker
  <2>5. ASSUME NEW w \in Workers, HandlerReturns(w) \/ StatementFails(w)
        PROVE  LiveKept
    BY <2>5, HandlerReturnsLive, StatementFailsLive
  <2>6. ASSUME NEW i \in Instances, Cancel(i) \/ Recovery(i) \/ ScanAborts(i)
        PROVE  LiveKept
    BY <2>6, CancelSelectLive, CancelUpdateLive, CancelNotifyLive, ScanSelectLive,
       ScanUpdateLive, ScanAbortsLive DEF Cancel, Recovery
  <2>7. ASSUME NEW i \in Instances, Boot(i) \/ Stop(i) \/ StopReturns(i) \/ Crash(i)
        PROVE  LiveKept
    BY <2>7, StartLive, SpawnWorkersLive, StopLive, ProcessGoneLive DEF Boot
  <2>8. CASE UNCHANGED vars
    BY <2>8, LInvParts DEF vars, rowVars, workerVars, LiveLease, OneLiveHandler, Owns
  <2> QED BY <2>1, <2>2, <2>3, <2>4, <2>5, <2>6, <2>7, <2>8, KeptLive DEF Next
<1> QED BY <1>1, <1>2 DEF LInv

\* As long as no process stalls past a due heartbeat, one job never has two
\* handlers running with live contexts.
THEOREM OneHandler == ~Stalls => (Spec => []OneLiveHandler)
<1> SUFFICES ASSUME ~Stalls PROVE Spec => []OneLiveHandler
  OBVIOUS
<1>1. Init => LInv
  BY InitIInv DEF LInv, Init, LiveLease, OneLiveHandler
<1>2. LInv /\ [Next]_vars => LInv'
  BY LiveStep
<1>3. LInv => OneLiveHandler
  BY DEF LInv
<1> QED BY <1>1, <1>2, <1>3, PTL DEF Spec

=============================================================================
