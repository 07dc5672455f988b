--------------------------- MODULE SftpPoolProofs ---------------------------
(***************************************************************************)
(* Proofs about SftpPool, for any finite set of requests, any number of    *)
(* calls of CloseByKey and any number of permits.                          *)
(*                                                                         *)
(* The counts and the usability of the pooled connection rest on two facts *)
(* about ownership: the connection a request dials is its own until it is  *)
(* pooled (DialedOnce), and what an actor is about to mark, drop or close  *)
(* has left the pool for good (OutOfPool).  That no unmarked connection is *)
(* closed under a counted session needs more: whoever has decided to close *)
(* one has found no user of it when nobody could find it any more          *)
(* (DoomedMarked).  That none leaks is the other half: a connection that is*)
(* not closed is in the pool or some actor will look at it once more       *)
(* (Kept), and one that left the pool is marked before the last look       *)
(* (MarkComes), so that the last to leave closes it.                       *)
(***************************************************************************)
EXTENDS SftpPool, FiniteSetTheorems, TLAPS

\* The steps of a request.
RequestSteps == {"waiting", "get", "recheck", "count", "dial", "insert", "put", "session",
  "invalidate", "uncount", "condemn", "bury", "giveBack", "using", "release", "decRef",
  "settle", "mark", "check", "done"}

\* A request whose session failed gives up the connection.
Failing == {"invalidate", "uncount", "condemn", "bury"}
Dropping == {"mark", "check"}

\* Each actor is at a step of its own, and goes on where its callers do.
StepsOK ==
  /\ \A r \in Requests :
       /\ pc[r] \in RequestSteps
       /\ pc[r] \in Dropping => then[r] \in {"recheck", "dial", "put"}
       /\ pc[r] = "count" => how[r] = "late"
       /\ pc[r] \in Failing => then[r] \in {"recheck", "giveBack"}
  /\ \A k \in Closers : /\ pc[k] \in {"new", "mark", "check", "done"}
                        /\ then[k] = "done"
  /\ /\ pc[Cleaner] \in {"asleep", "probe", "mark", "check", "close", "stopped"}
     /\ pc[Cleaner] \in Dropping => then[Cleaner] = "asleep"
     /\ pc[Cleaner] = "close" => then[Cleaner] \in {"asleep", "stopped"}

\* The steps with a connection at hand.
AtWork == {"count", "session", "using", "release", "decRef", "settle", "close", "probe"}
            \cup Failing \cup Dropping
ConnOK == \A a \in Actors : pc[a] \in AtWork => conn[a] \in Requests

\* The request has not dialed.
Undialed(r) ==
  \/ pc[r] \in {"waiting", "get", "recheck", "dial"}
  \/ pc[r] \in Dropping /\ then[r] \in {"recheck", "dial"}
  \/ pc[r] \in Failing /\ then[r] = "recheck"
  \/ pc[r] = "session" /\ how[r] = "found"

\* Nobody but the request that dials it knows the connection.
Unshared(c) ==
  /\ ~closing[c] /\ c \notin toClose /\ pooled # c
  /\ \A a \in Actors : conn[a] # c

\* A connection is unknown before it is dialed and until it is pooled.
DialedOnce == \A r \in Requests :
  /\ Undialed(r) => conns[r] = "none"
  /\ Brings(r, r) => conns[r] = "open"
  /\ conns[r] = "none" \/ Brings(r, r) => Unshared(r)

\* What is about to be marked, dropped or closed is not in the pool.
OutOfPool ==
  /\ \A a \in Actors : pc[a] \in {"mark", "check", "close", "uncount", "condemn", "bury"} =>
       conn[a] # pooled
  /\ \A r \in Requests : pc[r] \in {"decRef", "settle"} /\ ~current[r] => conn[r] # pooled

\* Whoever closes because of the mark has set it.
MarkedFirst == \A a \in Actors : pc[a] \in {"check", "bury"} => closing[conn[a]]

\* The connection is closed, or somebody is about to close it for lack of users.
Doomed(c) ==
  \/ conns[c] = "closed" \/ c \in toClose
  \/ pc[Cleaner] = "close" /\ conn[Cleaner] = c
  \/ \E q \in Requests : pc[q] = "settle" /\ ~current[q] /\ conn[q] = c

\* The request's reference was counted under the pool's lock, or by dialling.
Counted(r) == pc[r] \in {"session", "using"} /\ how[r] # "late"

\* Only a marked connection is doomed while such a request uses it.
DoomedMarked == \A r \in Requests :
  Counted(r) /\ Doomed(conn[r]) /\ ~Stopping => closing[conn[r]]

\* A step changes neither who uses the connection nor, as long as it is alive, its count.
Untouched(d) == /\ Users(d)' = Users(d)
                /\ Alive(d)' => Alive(d) /\ refs'[d] = refs[d]

\* The inductive invariant.
IInv ==
  /\ TypeOK /\ StepsOK /\ ConnOK /\ PermitsCounted /\ RefsCounted /\ DialedOnce /\ PooledIsUsable
  /\ OutOfPool /\ MarkedFirst /\ DoomedMarked

-----------------------------------------------------------------------------

\* Every step keeps the types; permits stay below the limit because of the guard.
LEMMA TypeStep ==
  ASSUME IInv, Next
  PROVE  TypeOK'
<1> USE PoolAssumption DEF pool, ssh, locals, Goto, Leave, TakeOut, Close, IncRef, DecRef, Pool,
    ReleasePermit, TypeOK, StepsOK, ConnOK, IInv, Actors, Steps, RequestSteps, AtWork, Failing,
    Dropping
<1>1. ASSUME NEW r \in Requests, AcquirePermit(r) PROVE TypeOK'
  BY <1>1 DEF AcquirePermit
<1>2. ASSUME NEW r \in Requests, GiveUp(r) PROVE TypeOK'
  BY <1>2 DEF GiveUp
<1>3. ASSUME NEW r \in Requests, Get(r) PROVE TypeOK'
  BY <1>3 DEF Get, Reuses, Healthy
<1>4. ASSUME NEW r \in Requests, Recheck(r) PROVE TypeOK'
  BY <1>4 DEF Recheck, Reuses, Healthy
<1>5. ASSUME NEW r \in Requests, CountLate(r) PROVE TypeOK'
  BY <1>5 DEF CountLate
<1>6. ASSUME NEW r \in Requests, ConnectFails(r) PROVE TypeOK'
  BY <1>6 DEF ConnectFails
<1>7. ASSUME NEW r \in Requests, Connect(r) PROVE TypeOK'
  BY <1>7 DEF Connect
<1>8. ASSUME NEW r \in Requests, Insert(r) PROVE TypeOK'
  BY <1>8 DEF Insert, Reuses, Healthy
<1>9. ASSUME NEW r \in Requests, Put(r) PROVE TypeOK'
  BY <1>9 DEF Put
<1>10. ASSUME NEW r \in Requests, OpenSession(r) PROVE TypeOK'
  BY <1>10 DEF OpenSession
<1>11. ASSUME NEW r \in Requests, SessionFails(r) PROVE TypeOK'
  BY <1>11 DEF SessionFails
<1>12. ASSUME NEW r \in Requests, Invalidate(r) PROVE TypeOK'
  BY <1>12 DEF Invalidate
<1>13. ASSUME NEW r \in Requests, Uncount(r) PROVE TypeOK'
  BY <1>13 DEF Uncount
<1>14. ASSUME NEW r \in Requests, Condemn(r) PROVE TypeOK'
  BY <1>14 DEF Condemn
<1>15. ASSUME NEW r \in Requests, Bury(r) PROVE TypeOK'
  BY <1>15 DEF Bury
<1>16. ASSUME NEW r \in Requests, GiveBack(r) PROVE TypeOK'
  BY <1>16 DEF GiveBack
<1>17. ASSUME NEW r \in Requests, EndSession(r) PROVE TypeOK'
  BY <1>17 DEF EndSession
<1>18. ASSUME NEW r \in Requests, ReadCurrent(r) PROVE TypeOK'
  BY <1>18 DEF ReadCurrent
<1>19. ASSUME NEW r \in Requests, ReleaseRef(r) PROVE TypeOK'
  <2>1. conn[r] \in Requests /\ refs' \in [Requests -> Nat]
    BY <1>19 DEF ReleaseRef
  <2>2. CASE refs'[conn[r]] = 0 /\ Goto(r, "settle") /\ UNCHANGED <<conn, then, current>>
    BY <1>19, <2>1, <2>2 DEF ReleaseRef
  <2>3. CASE refs'[conn[r]] > 0 /\ Leave(r, "done") /\ current' = [current EXCEPT ![r] = FALSE]
    BY <1>19, <2>1, <2>3 DEF ReleaseRef
  <2> QED
    BY <1>19, <2>2, <2>3 DEF ReleaseRef
<1>20. ASSUME NEW r \in Requests, Settle(r) PROVE TypeOK'
  BY <1>20 DEF Settle
<1>21. ASSUME NEW r \in Requests, CloseLater(r) PROVE TypeOK'
  BY <1>21 DEF CloseLater
<1>22. ASSUME NEW a \in Actors, MarkClosing(a) PROVE TypeOK'
  BY <1>22 DEF MarkClosing
<1>23. ASSUME NEW a \in Actors, MaybeClose(a) PROVE TypeOK'
  BY <1>23 DEF MaybeClose
<1>24. ASSUME NEW k \in Closers, CloseByKey(k) PROVE TypeOK'
  BY <1>24 DEF CloseByKey
<1>25. ASSUME SweepExpired PROVE TypeOK'
  BY <1>25 DEF SweepExpired, Unused
<1>26. ASSUME SweepIdle PROVE TypeOK'
  BY <1>26 DEF SweepIdle, Unused
<1>27. ASSUME ProbeAnswered PROVE TypeOK'
  BY <1>27 DEF ProbeAnswered
<1>28. ASSUME Evict PROVE TypeOK'
  BY <1>28 DEF Evict
<1>29. ASSUME CloseAll PROVE TypeOK'
  BY <1>29 DEF CloseAll
<1>30. ASSUME CloseTaken PROVE TypeOK'
  BY <1>30 DEF CloseTaken
<1> QED
  BY <1>1, <1>2, <1>3, <1>4, <1>5, <1>6, <1>7, <1>8, <1>9, <1>10, <1>11, <1>12, <1>13, <1>14,
      <1>15, <1>16, <1>17, <1>18, <1>19, <1>20, <1>21, <1>22, <1>23, <1>24, <1>25, <1>26, <1>27,
      <1>28, <1>29, <1>30
  DEF Next, GetStep, ReleaseStep, Drop, CleanerStep

\* Every step leaves each actor at one of its own steps, and knowing where it goes on.
LEMMA StepsStep ==
  ASSUME IInv, Next
  PROVE  StepsOK'
<1> USE PoolAssumption DEF pool, ssh, locals, Goto, Leave, TakeOut, Close, IncRef, DecRef, Pool,
    ReleasePermit, TypeOK, StepsOK, IInv, Actors, RequestSteps, Failing, Dropping
<1>1. ASSUME NEW r \in Requests, AcquirePermit(r) PROVE StepsOK'
  BY <1>1 DEF AcquirePermit
<1>2. ASSUME NEW r \in Requests, GiveUp(r) PROVE StepsOK'
  BY <1>2 DEF GiveUp
<1>3. ASSUME NEW r \in Requests, Get(r) PROVE StepsOK'
  BY <1>3 DEF Get, Reuses, Healthy
<1>4. ASSUME NEW r \in Requests, Recheck(r) PROVE StepsOK'
  BY <1>4 DEF Recheck, Reuses, Healthy
<1>5. ASSUME NEW r \in Requests, CountLate(r) PROVE StepsOK'
  BY <1>5 DEF CountLate
<1>6. ASSUME NEW r \in Requests, ConnectFails(r) PROVE StepsOK'
  BY <1>6 DEF ConnectFails
<1>7. ASSUME NEW r \in Requests, Connect(r) PROVE StepsOK'
  BY <1>7 DEF Connect
<1>8. ASSUME NEW r \in Requests, Insert(r) PROVE StepsOK'
  BY <1>8 DEF Insert, Reuses, Healthy
<1>9. ASSUME NEW r \in Requests, Put(r) PROVE StepsOK'
  BY <1>9 DEF Put
<1>10. ASSUME NEW r \in Requests, OpenSession(r) PROVE StepsOK'
  BY <1>10 DEF OpenSession
<1>11. ASSUME NEW r \in Requests, SessionFails(r) PROVE StepsOK'
  BY <1>11 DEF SessionFails
<1>12. ASSUME NEW r \in Requests, Invalidate(r) PROVE StepsOK'
  BY <1>12 DEF Invalidate
<1>13. ASSUME NEW r \in Requests, Uncount(r) PROVE StepsOK'
  BY <1>13 DEF Uncount
<1>14. ASSUME NEW r \in Requests, Condemn(r) PROVE StepsOK'
  BY <1>14 DEF Condemn
<1>15. ASSUME NEW r \in Requests, Bury(r) PROVE StepsOK'
  BY <1>15 DEF Bury
<1>16. ASSUME NEW r \in Requests, GiveBack(r) PROVE StepsOK'
  BY <1>16 DEF GiveBack
<1>17. ASSUME NEW r \in Requests, EndSession(r) PROVE StepsOK'
  BY <1>17 DEF EndSession
<1>18. ASSUME NEW r \in Requests, ReadCurrent(r) PROVE StepsOK'
  BY <1>18 DEF ReadCurrent
<1>19. ASSUME NEW r \in Requests, ReleaseRef(r) PROVE StepsOK'
  BY <1>19 DEF ReleaseRef
<1>20. ASSUME NEW r \in Requests, Settle(r) PROVE StepsOK'
  BY <1>20 DEF Settle
<1>21. ASSUME NEW r \in Requests, CloseLater(r) PROVE StepsOK'
  BY <1>21 DEF CloseLater
<1>22. ASSUME NEW a \in Actors, MarkClosing(a) PROVE StepsOK'
  BY <1>22 DEF MarkClosing
<1>23. ASSUME NEW a \in Actors, MaybeClose(a) PROVE StepsOK'
  BY <1>23 DEF MaybeClose
<1>24. ASSUME NEW k \in Closers, CloseByKey(k) PROVE StepsOK'
  BY <1>24 DEF CloseByKey
<1>25. ASSUME SweepExpired PROVE StepsOK'
  BY <1>25 DEF SweepExpired, Unused
<1>26. ASSUME SweepIdle PROVE StepsOK'
  BY <1>26 DEF SweepIdle, Unused
<1>27. ASSUME ProbeAnswered PROVE StepsOK'
  BY <1>27 DEF ProbeAnswered
<1>28. ASSUME Evict PROVE StepsOK'
  BY <1>28 DEF Evict
<1>29. ASSUME CloseAll PROVE StepsOK'
  BY <1>29 DEF CloseAll
<1>30. ASSUME CloseTaken PROVE StepsOK'
  BY <1>30 DEF CloseTaken
<1> QED
  BY <1>1, <1>2, <1>3, <1>4, <1>5, <1>6, <1>7, <1>8, <1>9, <1>10, <1>11, <1>12, <1>13, <1>14,
      <1>15, <1>16, <1>17, <1>18, <1>19, <1>20, <1>21, <1>22, <1>23, <1>24, <1>25, <1>26, <1>27,
      <1>28, <1>29, <1>30
  DEF Next, GetStep, ReleaseStep, Drop, CleanerStep

\* An actor that works on a connection has one.
LEMMA ConnStep ==
  ASSUME IInv, Next
  PROVE  ConnOK'
<1> USE PoolAssumption DEF pool, ssh, locals, Goto, Leave, TakeOut, Close, IncRef, DecRef, Pool,
    ReleasePermit, TypeOK, StepsOK, ConnOK, IInv, Actors, RequestSteps, AtWork, Failing, Dropping
<1>1. ASSUME NEW r \in Requests, AcquirePermit(r) PROVE ConnOK'
  BY <1>1 DEF AcquirePermit
<1>2. ASSUME NEW r \in Requests, GiveUp(r) PROVE ConnOK'
  BY <1>2 DEF GiveUp
<1>3. ASSUME NEW r \in Requests, Get(r) PROVE ConnOK'
  BY <1>3 DEF Get, Reuses, Healthy
<1>4. ASSUME NEW r \in Requests, Recheck(r) PROVE ConnOK'
  BY <1>4 DEF Recheck, Reuses, Healthy
<1>5. ASSUME NEW r \in Requests, CountLate(r) PROVE ConnOK'
  BY <1>5 DEF CountLate
<1>6. ASSUME NEW r \in Requests, ConnectFails(r) PROVE ConnOK'
  BY <1>6 DEF ConnectFails
<1>7. ASSUME NEW r \in Requests, Connect(r) PROVE ConnOK'
  BY <1>7 DEF Connect
<1>8. ASSUME NEW r \in Requests, Insert(r) PROVE ConnOK'
  BY <1>8 DEF Insert, Reuses, Healthy
<1>9. ASSUME NEW r \in Requests, Put(r) PROVE ConnOK'
  BY <1>9 DEF Put
<1>10. ASSUME NEW r \in Requests, OpenSession(r) PROVE ConnOK'
  BY <1>10 DEF OpenSession
<1>11. ASSUME NEW r \in Requests, SessionFails(r) PROVE ConnOK'
  BY <1>11 DEF SessionFails
<1>12. ASSUME NEW r \in Requests, Invalidate(r) PROVE ConnOK'
  BY <1>12 DEF Invalidate
<1>13. ASSUME NEW r \in Requests, Uncount(r) PROVE ConnOK'
  BY <1>13 DEF Uncount
<1>14. ASSUME NEW r \in Requests, Condemn(r) PROVE ConnOK'
  BY <1>14 DEF Condemn
<1>15. ASSUME NEW r \in Requests, Bury(r) PROVE ConnOK'
  BY <1>15 DEF Bury
<1>16. ASSUME NEW r \in Requests, GiveBack(r) PROVE ConnOK'
  BY <1>16 DEF GiveBack
<1>17. ASSUME NEW r \in Requests, EndSession(r) PROVE ConnOK'
  BY <1>17 DEF EndSession
<1>18. ASSUME NEW r \in Requests, ReadCurrent(r) PROVE ConnOK'
  BY <1>18 DEF ReadCurrent
<1>19. ASSUME NEW r \in Requests, ReleaseRef(r) PROVE ConnOK'
  BY <1>19 DEF ReleaseRef
<1>20. ASSUME NEW r \in Requests, Settle(r) PROVE ConnOK'
  BY <1>20 DEF Settle
<1>21. ASSUME NEW r \in Requests, CloseLater(r) PROVE ConnOK'
  BY <1>21 DEF CloseLater
<1>22. ASSUME NEW a \in Actors, MarkClosing(a) PROVE ConnOK'
  BY <1>22 DEF MarkClosing
<1>23. ASSUME NEW a \in Actors, MaybeClose(a) PROVE ConnOK'
  BY <1>23 DEF MaybeClose
<1>24. ASSUME NEW k \in Closers, CloseByKey(k) PROVE ConnOK'
  BY <1>24 DEF CloseByKey
<1>25. ASSUME SweepExpired PROVE ConnOK'
  BY <1>25 DEF SweepExpired, Unused
<1>26. ASSUME SweepIdle PROVE ConnOK'
  BY <1>26 DEF SweepIdle, Unused
<1>27. ASSUME ProbeAnswered PROVE ConnOK'
  BY <1>27 DEF ProbeAnswered
<1>28. ASSUME Evict PROVE ConnOK'
  BY <1>28 DEF Evict
<1>29. ASSUME CloseAll PROVE ConnOK'
  BY <1>29 DEF CloseAll
<1>30. ASSUME CloseTaken PROVE ConnOK'
  BY <1>30 DEF CloseTaken
<1> QED
  BY <1>1, <1>2, <1>3, <1>4, <1>5, <1>6, <1>7, <1>8, <1>9, <1>10, <1>11, <1>12, <1>13, <1>14,
      <1>15, <1>16, <1>17, <1>18, <1>19, <1>20, <1>21, <1>22, <1>23, <1>24, <1>25, <1>26, <1>27,
      <1>28, <1>29, <1>30
  DEF Next, GetStep, ReleaseStep, Drop, CleanerStep

\* A connection is marked before it is closed for the mark's sake.
LEMMA MarkedStep ==
  ASSUME IInv, Next
  PROVE  MarkedFirst'
<1> USE PoolAssumption DEF pool, ssh, locals, Goto, Leave, TakeOut, Close, IncRef, DecRef, Pool,
    ReleasePermit, TypeOK, StepsOK, ConnOK, IInv, Actors, RequestSteps, AtWork, Failing, Dropping,
    MarkedFirst
<1>1. ASSUME NEW r \in Requests, AcquirePermit(r) PROVE MarkedFirst'
  BY <1>1 DEF AcquirePermit
<1>2. ASSUME NEW r \in Requests, GiveUp(r) PROVE MarkedFirst'
  BY <1>2 DEF GiveUp
<1>3. ASSUME NEW r \in Requests, Get(r) PROVE MarkedFirst'
  BY <1>3 DEF Get, Reuses, Healthy
<1>4. ASSUME NEW r \in Requests, Recheck(r) PROVE MarkedFirst'
  BY <1>4 DEF Recheck, Reuses, Healthy
<1>5. ASSUME NEW r \in Requests, CountLate(r) PROVE MarkedFirst'
  BY <1>5 DEF CountLate
<1>6. ASSUME NEW r \in Requests, ConnectFails(r) PROVE MarkedFirst'
  BY <1>6 DEF ConnectFails
<1>7. ASSUME NEW r \in Requests, Connect(r) PROVE MarkedFirst'
  BY <1>7 DEF Connect
<1>8. ASSUME NEW r \in Requests, Insert(r) PROVE MarkedFirst'
  BY <1>8 DEF Insert, Reuses, Healthy
<1>9. ASSUME NEW r \in Requests, Put(r) PROVE MarkedFirst'
  BY <1>9 DEF Put
<1>10. ASSUME NEW r \in Requests, OpenSession(r) PROVE MarkedFirst'
  BY <1>10 DEF OpenSession
<1>11. ASSUME NEW r \in Requests, SessionFails(r) PROVE MarkedFirst'
  BY <1>11 DEF SessionFails
<1>12. ASSUME NEW r \in Requests, Invalidate(r) PROVE MarkedFirst'
  BY <1>12 DEF Invalidate
<1>13. ASSUME NEW r \in Requests, Uncount(r) PROVE MarkedFirst'
  BY <1>13 DEF Uncount
<1>14. ASSUME NEW r \in Requests, Condemn(r) PROVE MarkedFirst'
  BY <1>14 DEF Condemn
<1>15. ASSUME NEW r \in Requests, Bury(r) PROVE MarkedFirst'
  BY <1>15 DEF Bury
<1>16. ASSUME NEW r \in Requests, GiveBack(r) PROVE MarkedFirst'
  BY <1>16 DEF GiveBack
<1>17. ASSUME NEW r \in Requests, EndSession(r) PROVE MarkedFirst'
  BY <1>17 DEF EndSession
<1>18. ASSUME NEW r \in Requests, ReadCurrent(r) PROVE MarkedFirst'
  BY <1>18 DEF ReadCurrent
<1>19. ASSUME NEW r \in Requests, ReleaseRef(r) PROVE MarkedFirst'
  BY <1>19 DEF ReleaseRef
<1>20. ASSUME NEW r \in Requests, Settle(r) PROVE MarkedFirst'
  BY <1>20 DEF Settle
<1>21. ASSUME NEW r \in Requests, CloseLater(r) PROVE MarkedFirst'
  BY <1>21 DEF CloseLater
<1>22. ASSUME NEW a \in Actors, MarkClosing(a) PROVE MarkedFirst'
  BY <1>22 DEF MarkClosing
<1>23. ASSUME NEW a \in Actors, MaybeClose(a) PROVE MarkedFirst'
  BY <1>23 DEF MaybeClose
<1>24. ASSUME NEW k \in Closers, CloseByKey(k) PROVE MarkedFirst'
  BY <1>24 DEF CloseByKey
<1>25. ASSUME SweepExpired PROVE MarkedFirst'
  BY <1>25 DEF SweepExpired, Unused
<1>26. ASSUME SweepIdle PROVE MarkedFirst'
  BY <1>26 DEF SweepIdle, Unused
<1>27. ASSUME ProbeAnswered PROVE MarkedFirst'
  BY <1>27 DEF ProbeAnswered
<1>28. ASSUME Evict PROVE MarkedFirst'
  BY <1>28 DEF Evict
<1>29. ASSUME CloseAll PROVE MarkedFirst'
  BY <1>29 DEF CloseAll
<1>30. ASSUME CloseTaken PROVE MarkedFirst'
  BY <1>30 DEF CloseTaken
<1> QED
  BY <1>1, <1>2, <1>3, <1>4, <1>5, <1>6, <1>7, <1>8, <1>9, <1>10, <1>11, <1>12, <1>13, <1>14,
      <1>15, <1>16, <1>17, <1>18, <1>19, <1>20, <1>21, <1>22, <1>23, <1>24, <1>25, <1>26, <1>27,
      <1>28, <1>29, <1>30
  DEF Next, GetStep, ReleaseStep, Drop, CleanerStep

\* What an actor is about to mark, drop or close has left the pool, and does not come back.
LEMMA OutStep ==
  ASSUME IInv, Next
  PROVE  OutOfPool'
<1> USE PoolAssumption DEF pool, ssh, locals, Goto, Leave, TakeOut, Close, IncRef, DecRef, Pool,
    ReleasePermit, TypeOK, StepsOK, ConnOK, IInv, Actors, RequestSteps, AtWork, Failing, Dropping,
    OutOfPool, DialedOnce, Unshared, Undialed, Brings
<1>1. ASSUME NEW r \in Requests, AcquirePermit(r) PROVE OutOfPool'
  BY <1>1 DEF AcquirePermit
<1>2. ASSUME NEW r \in Requests, GiveUp(r) PROVE OutOfPool'
  BY <1>2 DEF GiveUp
<1>3. ASSUME NEW r \in Requests, Get(r) PROVE OutOfPool'
  BY <1>3 DEF Get, Reuses, Healthy
<1>4. ASSUME NEW r \in Requests, Recheck(r) PROVE OutOfPool'
  BY SMTT(30), <1>4 DEF Recheck, Reuses, Healthy
<1>5. ASSUME NEW r \in Requests, CountLate(r) PROVE OutOfPool'
  BY <1>5 DEF CountLate
<1>6. ASSUME NEW r \in Requests, ConnectFails(r) PROVE OutOfPool'
  BY <1>6 DEF ConnectFails
<1>7. ASSUME NEW r \in Requests, Connect(r) PROVE OutOfPool'
  BY <1>7 DEF Connect
<1>8. ASSUME NEW r \in Requests, Insert(r) PROVE OutOfPool'
  BY <1>8 DEF Insert, Reuses, Healthy
<1>9. ASSUME NEW r \in Requests, Put(r) PROVE OutOfPool'
  BY <1>9 DEF Put
<1>10. ASSUME NEW r \in Requests, OpenSession(r) PROVE OutOfPool'
  BY <1>10 DEF OpenSession
<1>11. ASSUME NEW r \in Requests, SessionFails(r) PROVE OutOfPool'
  BY <1>11 DEF SessionFails
<1>12. ASSUME NEW r \in Requests, Invalidate(r) PROVE OutOfPool'
  BY <1>12 DEF Invalidate
<1>13. ASSUME NEW r \in Requests, Uncount(r) PROVE OutOfPool'
  BY <1>13 DEF Uncount
<1>14. ASSUME NEW r \in Requests, Condemn(r) PROVE OutOfPool'
  BY <1>14 DEF Condemn
<1>15. ASSUME NEW r \in Requests, Bury(r) PROVE OutOfPool'
  BY <1>15 DEF Bury
<1>16. ASSUME NEW r \in Requests, GiveBack(r) PROVE OutOfPool'
  BY <1>16 DEF GiveBack
<1>17. ASSUME NEW r \in Requests, EndSession(r) PROVE OutOfPool'
  BY <1>17 DEF EndSession
<1>18. ASSUME NEW r \in Requests, ReadCurrent(r) PROVE OutOfPool'
  <2>1. \A a \in Actors : pc'[a] \in {"mark", "check", "close", "uncount", "condemn", "bury"} =>
          conn'[a] # pooled'
    BY <1>18 DEF ReadCurrent
  <2>2. ASSUME NEW q \in Requests, pc'[q] \in {"decRef", "settle"}, ~current'[q]
        PROVE  conn'[q] # pooled'
    <3>1. CASE q = r
      <4>1. current'[r] = (pooled = conn[r])
        BY <1>18 DEF ReadCurrent
      <4> QED
        BY <1>18, <2>2, <3>1, <4>1 DEF ReadCurrent
    <3>2. CASE q # r
      BY <1>18, <2>2, <3>2 DEF ReadCurrent
    <3> QED
      BY <3>1, <3>2
  <2> QED
    BY <2>1, <2>2 
<1>19. ASSUME NEW r \in Requests, ReleaseRef(r) PROVE OutOfPool'
  <2>1. CASE Goto(r, "settle") /\ UNCHANGED <<conn, then, current>>
    BY <1>19, <2>1 DEF ReleaseRef
  <2>2. CASE Leave(r, "done") /\ current' = [current EXCEPT ![r] = FALSE]
    <3>1. ASSUME NEW q \in Requests, pc'[q] \in {"decRef", "settle"}
          PROVE  conn'[q] = conn[q] /\ pooled' = pooled /\ pc[q] \in {"decRef", "settle"}
                 /\ current'[q] = current[q]
      <4>1. q # r /\ conn'[q] = conn[q] /\ pooled' = pooled /\ pc[q] \in {"decRef", "settle"}
        BY <1>19, <2>2, <3>1 DEF ReleaseRef
      <4>2. current'[q] = current[q]
        BY <2>2, <4>1
      <4> QED
        BY <4>1, <4>2
    <3>2. ASSUME NEW a \in Actors, pc'[a] \in {"mark", "check", "close", "uncount", "condemn", "bury"}
          PROVE  pc'[a] = pc[a] /\ conn'[a] = conn[a] /\ pooled' = pooled
      BY <1>19, <2>2, <3>2 DEF ReleaseRef
    <3> QED
      BY <3>1, <3>2
  <2> QED
    BY <1>19, <2>1, <2>2 DEF ReleaseRef
<1>20. ASSUME NEW r \in Requests, Settle(r) PROVE OutOfPool'
  BY <1>20 DEF Settle
<1>21. ASSUME NEW r \in Requests, CloseLater(r) PROVE OutOfPool'
  BY <1>21 DEF CloseLater
<1>22. ASSUME NEW a \in Actors, MarkClosing(a) PROVE OutOfPool'
  BY <1>22 DEF MarkClosing
<1>23. ASSUME NEW a \in Actors, MaybeClose(a) PROVE OutOfPool'
  BY <1>23 DEF MaybeClose
<1>24. ASSUME NEW k \in Closers, CloseByKey(k) PROVE OutOfPool'
  BY <1>24 DEF CloseByKey
<1>25. ASSUME SweepExpired PROVE OutOfPool'
  BY <1>25 DEF SweepExpired, Unused
<1>26. ASSUME SweepIdle PROVE OutOfPool'
  BY <1>26 DEF SweepIdle, Unused
<1>27. ASSUME ProbeAnswered PROVE OutOfPool'
  BY <1>27 DEF ProbeAnswered
<1>28. ASSUME Evict PROVE OutOfPool'
  BY <1>28 DEF Evict
<1>29. ASSUME CloseAll PROVE OutOfPool'
  BY <1>29 DEF CloseAll
<1>30. ASSUME CloseTaken PROVE OutOfPool'
  BY <1>30 DEF CloseTaken
<1> QED
  BY <1>1, <1>2, <1>3, <1>4, <1>5, <1>6, <1>7, <1>8, <1>9, <1>10, <1>11, <1>12, <1>13, <1>14,
      <1>15, <1>16, <1>17, <1>18, <1>19, <1>20, <1>21, <1>22, <1>23, <1>24, <1>25, <1>26, <1>27,
      <1>28, <1>29, <1>30
  DEF Next, GetStep, ReleaseStep, Drop, CleanerStep

\* A request dials once, and nobody else sees its connection before it is pooled.
LEMMA DialedStep ==
  ASSUME IInv, Next
  PROVE  DialedOnce'
<1> USE PoolAssumption DEF pool, ssh, locals, Goto, Leave, TakeOut, Close, IncRef, DecRef, Pool,
    ReleasePermit, TypeOK, StepsOK, ConnOK, IInv, Actors, RequestSteps, AtWork, Failing, Dropping,
    DialedOnce, Unshared, Undialed, Brings, PooledIsUsable, Alive
<1>1. ASSUME NEW r \in Requests, AcquirePermit(r) PROVE DialedOnce'
  BY <1>1 DEF AcquirePermit
<1>2. ASSUME NEW r \in Requests, GiveUp(r) PROVE DialedOnce'
  BY <1>2 DEF GiveUp
<1>3. ASSUME NEW r \in Requests, Get(r) PROVE DialedOnce'
  BY <1>3 DEF Get, Reuses, Healthy
<1>4. ASSUME NEW r \in Requests, Recheck(r) PROVE DialedOnce'
  BY <1>4 DEF Recheck, Reuses, Healthy
<1>5. ASSUME NEW r \in Requests, CountLate(r) PROVE DialedOnce'
  BY <1>5, SMTT(60) DEF CountLate
<1>6. ASSUME NEW r \in Requests, ConnectFails(r) PROVE DialedOnce'
  BY <1>6 DEF ConnectFails
<1>7. ASSUME NEW r \in Requests, Connect(r) PROVE DialedOnce'
  BY <1>7 DEF Connect
<1>8. ASSUME NEW r \in Requests, Insert(r) PROVE DialedOnce'
  BY <1>8 DEF Insert, Reuses, Healthy
<1>9. ASSUME NEW r \in Requests, Put(r) PROVE DialedOnce'
  BY <1>9 DEF Put
<1>10. ASSUME NEW r \in Requests, OpenSession(r) PROVE DialedOnce'
  BY <1>10 DEF OpenSession
<1>11. ASSUME NEW r \in Requests, SessionFails(r) PROVE DialedOnce'
  BY <1>11 DEF SessionFails
<1>12. ASSUME NEW r \in Requests, Invalidate(r) PROVE DialedOnce'
  BY <1>12 DEF Invalidate
<1>13. ASSUME NEW r \in Requests, Uncount(r) PROVE DialedOnce'
  BY <1>13 DEF Uncount
<1>14. ASSUME NEW r \in Requests, Condemn(r) PROVE DialedOnce'
  BY <1>14 DEF Condemn
<1>15. ASSUME NEW r \in Requests, Bury(r) PROVE DialedOnce'
  BY <1>15 DEF Bury
<1>16. ASSUME NEW r \in Requests, GiveBack(r) PROVE DialedOnce'
  BY <1>16 DEF GiveBack
<1>17. ASSUME NEW r \in Requests, EndSession(r) PROVE DialedOnce'
  BY <1>17 DEF EndSession
<1>18. ASSUME NEW r \in Requests, ReadCurrent(r) PROVE DialedOnce'
  BY <1>18 DEF ReadCurrent
<1>19. ASSUME NEW r \in Requests, ReleaseRef(r) PROVE DialedOnce'
  BY <1>19 DEF ReleaseRef
<1>20. ASSUME NEW r \in Requests, Settle(r) PROVE DialedOnce'
  BY <1>20 DEF Settle
<1>21. ASSUME NEW r \in Requests, CloseLater(r) PROVE DialedOnce'
  BY <1>21 DEF CloseLater
<1>22. ASSUME NEW a \in Actors, MarkClosing(a) PROVE DialedOnce'
  BY <1>22 DEF MarkClosing
<1>23. ASSUME NEW a \in Actors, MaybeClose(a) PROVE DialedOnce'
  BY <1>23 DEF MaybeClose
<1>24. ASSUME NEW k \in Closers, CloseByKey(k) PROVE DialedOnce'
  BY <1>24 DEF CloseByKey
<1>25. ASSUME SweepExpired PROVE DialedOnce'
  BY <1>25 DEF SweepExpired, Unused
<1>26. ASSUME SweepIdle PROVE DialedOnce'
  BY <1>26 DEF SweepIdle, Unused
<1>27. ASSUME ProbeAnswered PROVE DialedOnce'
  BY <1>27 DEF ProbeAnswered
<1>28. ASSUME Evict PROVE DialedOnce'
  BY <1>28 DEF Evict
<1>29. ASSUME CloseAll PROVE DialedOnce'
  BY <1>29 DEF CloseAll
<1>30. ASSUME CloseTaken PROVE DialedOnce'
  BY <1>30 DEF CloseTaken
<1> QED
  BY <1>1, <1>2, <1>3, <1>4, <1>5, <1>6, <1>7, <1>8, <1>9, <1>10, <1>11, <1>12, <1>13, <1>14,
      <1>15, <1>16, <1>17, <1>18, <1>19, <1>20, <1>21, <1>22, <1>23, <1>24, <1>25, <1>26, <1>27,
      <1>28, <1>29, <1>30
  DEF Next, GetStep, ReleaseStep, Drop, CleanerStep

\* The pooled connection stays usable: what is marked or closed was taken out before.
LEMMA PooledStep ==
  ASSUME IInv, Next
  PROVE  PooledIsUsable'
<1> USE PoolAssumption DEF pool, ssh, locals, Goto, Leave, TakeOut, Close, IncRef, DecRef, Pool,
    ReleasePermit, TypeOK, StepsOK, ConnOK, IInv, Actors, RequestSteps, AtWork, Failing, Dropping,
    OutOfPool, DialedOnce, Unshared, Undialed, Brings, PooledIsUsable, Alive
<1>1. ASSUME NEW r \in Requests, AcquirePermit(r) PROVE PooledIsUsable'
  BY <1>1 DEF AcquirePermit
<1>2. ASSUME NEW r \in Requests, GiveUp(r) PROVE PooledIsUsable'
  BY <1>2 DEF GiveUp
<1>3. ASSUME NEW r \in Requests, Get(r) PROVE PooledIsUsable'
  BY <1>3 DEF Get, Reuses, Healthy
<1>4. ASSUME NEW r \in Requests, Recheck(r) PROVE PooledIsUsable'
  BY <1>4 DEF Recheck, Reuses, Healthy
<1>5. ASSUME NEW r \in Requests, CountLate(r) PROVE PooledIsUsable'
  BY <1>5 DEF CountLate
<1>6. ASSUME NEW r \in Requests, ConnectFails(r) PROVE PooledIsUsable'
  BY <1>6 DEF ConnectFails
<1>7. ASSUME NEW r \in Requests, Connect(r) PROVE PooledIsUsable'
  BY <1>7 DEF Connect
<1>8. ASSUME NEW r \in Requests, Insert(r) PROVE PooledIsUsable'
  BY <1>8 DEF Insert, Reuses, Healthy
<1>9. ASSUME NEW r \in Requests, Put(r) PROVE PooledIsUsable'
  BY <1>9 DEF Put
<1>10. ASSUME NEW r \in Requests, OpenSession(r) PROVE PooledIsUsable'
  BY <1>10 DEF OpenSession
<1>11. ASSUME NEW r \in Requests, SessionFails(r) PROVE PooledIsUsable'
  BY <1>11 DEF SessionFails
<1>12. ASSUME NEW r \in Requests, Invalidate(r) PROVE PooledIsUsable'
  BY <1>12 DEF Invalidate
<1>13. ASSUME NEW r \in Requests, Uncount(r) PROVE PooledIsUsable'
  BY <1>13 DEF Uncount
<1>14. ASSUME NEW r \in Requests, Condemn(r) PROVE PooledIsUsable'
  BY <1>14 DEF Condemn
<1>15. ASSUME NEW r \in Requests, Bury(r) PROVE PooledIsUsable'
  BY <1>15 DEF Bury
<1>16. ASSUME NEW r \in Requests, GiveBack(r) PROVE PooledIsUsable'
  BY <1>16 DEF GiveBack
<1>17. ASSUME NEW r \in Requests, EndSession(r) PROVE PooledIsUsable'
  BY <1>17 DEF EndSession
<1>18. ASSUME NEW r \in Requests, ReadCurrent(r) PROVE PooledIsUsable'
  BY <1>18 DEF ReadCurrent
<1>19. ASSUME NEW r \in Requests, ReleaseRef(r) PROVE PooledIsUsable'
  BY <1>19 DEF ReleaseRef
<1>20. ASSUME NEW r \in Requests, Settle(r) PROVE PooledIsUsable'
  BY <1>20 DEF Settle
<1>21. ASSUME NEW r \in Requests, CloseLater(r) PROVE PooledIsUsable'
  BY <1>21 DEF CloseLater
<1>22. ASSUME NEW a \in Actors, MarkClosing(a) PROVE PooledIsUsable'
  BY <1>22 DEF MarkClosing
<1>23. ASSUME NEW a \in Actors, MaybeClose(a) PROVE PooledIsUsable'
  BY <1>23 DEF MaybeClose
<1>24. ASSUME NEW k \in Closers, CloseByKey(k) PROVE PooledIsUsable'
  BY <1>24 DEF CloseByKey
<1>25. ASSUME SweepExpired PROVE PooledIsUsable'
  BY <1>25 DEF SweepExpired, Unused
<1>26. ASSUME SweepIdle PROVE PooledIsUsable'
  BY <1>26 DEF SweepIdle, Unused
<1>27. ASSUME ProbeAnswered PROVE PooledIsUsable'
  BY <1>27 DEF ProbeAnswered
<1>28. ASSUME Evict PROVE PooledIsUsable'
  BY <1>28 DEF Evict
<1>29. ASSUME CloseAll PROVE PooledIsUsable'
  BY <1>29 DEF CloseAll
<1>30. ASSUME CloseTaken PROVE PooledIsUsable'
  BY <1>30 DEF CloseTaken
<1> QED
  BY <1>1, <1>2, <1>3, <1>4, <1>5, <1>6, <1>7, <1>8, <1>9, <1>10, <1>11, <1>12, <1>13, <1>14,
      <1>15, <1>16, <1>17, <1>18, <1>19, <1>20, <1>21, <1>22, <1>23, <1>24, <1>25, <1>26, <1>27,
      <1>28, <1>29, <1>30
  DEF Next, GetStep, ReleaseStep, Drop, CleanerStep

\* The requests that hold a permit are finitely many.
LEMMA PermittedFinite == IsFiniteSet(Permitted)
BY PoolAssumption, FS_Subset DEF PoolAssumption, Permitted

\* Every step that takes or returns a permit moves one request into or out of Permitted.
LEMMA PermitsStep ==
  ASSUME IInv, Next
  PROVE  PermitsCounted'
<1> USE PoolAssumption DEF pool, ssh, locals, Goto, Leave, TakeOut, Close, IncRef, DecRef, Pool,
    ReleasePermit, TypeOK, StepsOK, ConnOK, IInv, Actors, RequestSteps, AtWork, Failing, Dropping
<1>1. ASSUME NEW r \in Requests, AcquirePermit(r) PROVE PermitsCounted'
  <2>1. /\ Permitted' = Permitted \cup {r} /\ r \notin Permitted
        /\ permits' = permits + 1
    BY <1>1 DEF AcquirePermit, Permitted, HasPermit
  <2> QED
    BY <2>1, PermittedFinite, FS_AddElement DEF PermitsCounted
<1>2. ASSUME NEW r \in Requests, GiveUp(r) PROVE PermitsCounted'
  <2>1. Permitted' = Permitted /\ permits' = permits
    BY <1>2 DEF GiveUp, Permitted, HasPermit
  <2> QED
    BY <2>1 DEF PermitsCounted
<1>3. ASSUME NEW r \in Requests, Get(r) PROVE PermitsCounted'
  <2>1. Permitted' = Permitted /\ permits' = permits
    BY <1>3 DEF Get, Permitted, HasPermit
  <2> QED
    BY <2>1 DEF PermitsCounted
<1>4. ASSUME NEW r \in Requests, Recheck(r) PROVE PermitsCounted'
  <2>1. Permitted' = Permitted /\ permits' = permits
    BY <1>4 DEF Recheck, Permitted, HasPermit
  <2> QED
    BY <2>1 DEF PermitsCounted
<1>5. ASSUME NEW r \in Requests, CountLate(r) PROVE PermitsCounted'
  <2>1. Permitted' = Permitted /\ permits' = permits
    BY <1>5 DEF CountLate, Permitted, HasPermit
  <2> QED
    BY <2>1 DEF PermitsCounted
<1>6. ASSUME NEW r \in Requests, ConnectFails(r) PROVE PermitsCounted'
  <2>1. Permitted' = Permitted /\ permits' = permits
    BY <1>6 DEF ConnectFails, Permitted, HasPermit
  <2> QED
    BY <2>1 DEF PermitsCounted
<1>7. ASSUME NEW r \in Requests, Connect(r) PROVE PermitsCounted'
  <2>1. Permitted' = Permitted /\ permits' = permits
    BY <1>7 DEF Connect, Permitted, HasPermit
  <2> QED
    BY <2>1 DEF PermitsCounted
<1>8. ASSUME NEW r \in Requests, Insert(r) PROVE PermitsCounted'
  <2>1. Permitted' = Permitted /\ permits' = permits
    BY <1>8 DEF Insert, Permitted, HasPermit
  <2> QED
    BY <2>1 DEF PermitsCounted
<1>9. ASSUME NEW r \in Requests, Put(r) PROVE PermitsCounted'
  <2>1. Permitted' = Permitted /\ permits' = permits
    BY <1>9 DEF Put, Permitted, HasPermit
  <2> QED
    BY <2>1 DEF PermitsCounted
<1>10. ASSUME NEW r \in Requests, OpenSession(r) PROVE PermitsCounted'
  <2>1. Permitted' = Permitted /\ permits' = permits
    BY <1>10 DEF OpenSession, Permitted, HasPermit
  <2> QED
    BY <2>1 DEF PermitsCounted
<1>11. ASSUME NEW r \in Requests, SessionFails(r) PROVE PermitsCounted'
  <2>1. Permitted' = Permitted /\ permits' = permits
    BY <1>11 DEF SessionFails, Permitted, HasPermit
  <2> QED
    BY <2>1 DEF PermitsCounted
<1>12. ASSUME NEW r \in Requests, Invalidate(r) PROVE PermitsCounted'
  <2>1. Permitted' = Permitted /\ permits' = permits
    BY <1>12 DEF Invalidate, Permitted, HasPermit
  <2> QED
    BY <2>1 DEF PermitsCounted
<1>13. ASSUME NEW r \in Requests, Uncount(r) PROVE PermitsCounted'
  <2>1. Permitted' = Permitted /\ permits' = permits
    BY <1>13 DEF Uncount, Permitted, HasPermit
  <2> QED
    BY <2>1 DEF PermitsCounted
<1>14. ASSUME NEW r \in Requests, Condemn(r) PROVE PermitsCounted'
  <2>1. Permitted' = Permitted /\ permits' = permits
    BY <1>14 DEF Condemn, Permitted, HasPermit
  <2> QED
    BY <2>1 DEF PermitsCounted
<1>15. ASSUME NEW r \in Requests, Bury(r) PROVE PermitsCounted'
  <2>1. Permitted' = Permitted /\ permits' = permits
    BY <1>15 DEF Bury, Permitted, HasPermit
  <2> QED
    BY <2>1 DEF PermitsCounted
<1>16. ASSUME NEW r \in Requests, GiveBack(r) PROVE PermitsCounted'
  <2>1. /\ Permitted' = Permitted \ {r} /\ r \in Permitted
        /\ permits' = IF permits > 0 THEN permits - 1 ELSE 0
    BY <1>16 DEF GiveBack, Permitted, HasPermit
  <2>2. Cardinality(Permitted') = Cardinality(Permitted) - 1 /\ Cardinality(Permitted') \in Nat
    BY <2>1, PermittedFinite, FS_RemoveElement, FS_CardinalityType
  <2> QED
    BY <2>1, <2>2 DEF PermitsCounted
<1>17. ASSUME NEW r \in Requests, EndSession(r) PROVE PermitsCounted'
  <2>1. /\ Permitted' = Permitted \ {r} /\ r \in Permitted
        /\ permits' = IF permits > 0 THEN permits - 1 ELSE 0
    BY <1>17 DEF EndSession, Permitted, HasPermit
  <2>2. Cardinality(Permitted') = Cardinality(Permitted) - 1 /\ Cardinality(Permitted') \in Nat
    BY <2>1, PermittedFinite, FS_RemoveElement, FS_CardinalityType
  <2> QED
    BY <2>1, <2>2 DEF PermitsCounted
<1>18. ASSUME NEW r \in Requests, ReadCurrent(r) PROVE PermitsCounted'
  <2>1. Permitted' = Permitted /\ permits' = permits
    BY <1>18 DEF ReadCurrent, Permitted, HasPermit
  <2> QED
    BY <2>1 DEF PermitsCounted
<1>19. ASSUME NEW r \in Requests, ReleaseRef(r) PROVE PermitsCounted'
  <2>1. Permitted' = Permitted /\ permits' = permits
    BY <1>19 DEF ReleaseRef, Permitted, HasPermit
  <2> QED
    BY <2>1 DEF PermitsCounted
<1>20. ASSUME NEW r \in Requests, Settle(r) PROVE PermitsCounted'
  <2>1. Permitted' = Permitted /\ permits' = permits
    BY <1>20 DEF Settle, Permitted, HasPermit
  <2> QED
    BY <2>1 DEF PermitsCounted
<1>21. ASSUME NEW r \in Requests, CloseLater(r) PROVE PermitsCounted'
  <2>1. Permitted' = Permitted /\ permits' = permits
    BY <1>21 DEF CloseLater, Permitted, HasPermit
  <2> QED
    BY <2>1 DEF PermitsCounted
<1>22. ASSUME NEW a \in Actors, MarkClosing(a) PROVE PermitsCounted'
  <2>1. Permitted' = Permitted /\ permits' = permits
    BY <1>22 DEF MarkClosing, Permitted, HasPermit
  <2> QED
    BY <2>1 DEF PermitsCounted
<1>23. ASSUME NEW a \in Actors, MaybeClose(a) PROVE PermitsCounted'
  <2>1. Permitted' = Permitted /\ permits' = permits
    BY <1>23 DEF MaybeClose, Permitted, HasPermit
  <2> QED
    BY <2>1 DEF PermitsCounted
<1>24. ASSUME NEW k \in Closers, CloseByKey(k) PROVE PermitsCounted'
  <2>1. Permitted' = Permitted /\ permits' = permits
    BY <1>24 DEF CloseByKey, Permitted, HasPermit
  <2> QED
    BY <2>1 DEF PermitsCounted
<1>25. ASSUME SweepExpired PROVE PermitsCounted'
  <2>1. Permitted' = Permitted /\ permits' = permits
    BY <1>25 DEF SweepExpired, Permitted, HasPermit
  <2> QED
    BY <2>1 DEF PermitsCounted
<1>26. ASSUME SweepIdle PROVE PermitsCounted'
  <2>1. Permitted' = Permitted /\ permits' = permits
    BY <1>26 DEF SweepIdle, Permitted, HasPermit
  <2> QED
    BY <2>1 DEF PermitsCounted
<1>27. ASSUME ProbeAnswered PROVE PermitsCounted'
  <2>1. Permitted' = Permitted /\ permits' = permits
    BY <1>27 DEF ProbeAnswered, Permitted, HasPermit
  <2> QED
    BY <2>1 DEF PermitsCounted
<1>28. ASSUME Evict PROVE PermitsCounted'
  <2>1. Permitted' = Permitted /\ permits' = permits
    BY <1>28 DEF Evict, Permitted, HasPermit
  <2> QED
    BY <2>1 DEF PermitsCounted
<1>29. ASSUME CloseAll PROVE PermitsCounted'
  <2>1. Permitted' = Permitted /\ permits' = permits
    BY <1>29 DEF CloseAll, Permitted, HasPermit
  <2> QED
    BY <2>1 DEF PermitsCounted
<1>30. ASSUME CloseTaken PROVE PermitsCounted'
  <2>1. Permitted' = Permitted /\ permits' = permits
    BY <1>30 DEF CloseTaken, Permitted, HasPermit
  <2> QED
    BY <2>1 DEF PermitsCounted
<1> QED
  BY <1>1, <1>2, <1>3, <1>4, <1>5, <1>6, <1>7, <1>8, <1>9, <1>10, <1>11, <1>12, <1>13, <1>14,
      <1>15, <1>16, <1>17, <1>18, <1>19, <1>20, <1>21, <1>22, <1>23, <1>24, <1>25, <1>26, <1>27,
      <1>28, <1>29, <1>30
  DEF Next, GetStep, ReleaseStep, Drop, CleanerStep

\* A set with one element more.
LEMMA OneMore ==
  ASSUME NEW S, NEW x, IsFiniteSet(S), x \notin S
  PROVE  Cardinality(S \cup {x}) = Cardinality(S) + 1
BY FS_AddElement

\* A set with one element less.
LEMMA OneLess ==
  ASSUME NEW S, NEW x, IsFiniteSet(S), x \in S
  PROVE  /\ Cardinality(S \ {x}) = Cardinality(S) - 1
         /\ Cardinality(S \ {x}) \in Nat /\ Cardinality(S) \in Nat
BY FS_RemoveElement, FS_CardinalityType

\* The users of a connection are finitely many.
LEMMA UsersFinite == \A c : IsFiniteSet(Users(c))
BY PoolAssumption, FS_Subset DEF PoolAssumption, Users

\* The counts stay right when no user and no count changes.
LEMMA CountsKept ==
  ASSUME RefsCounted, \A d \in Requests : Untouched(d)
  PROVE  RefsCounted'
BY DEF RefsCounted, Untouched

\* IncRef by a request that joins the users of c.
LEMMA UserJoins ==
  ASSUME RefsCounted, NEW c \in Requests, NEW r,
         \A d \in Requests \ {c} : Untouched(d),
         Alive(c)' => Alive(c),
         r \notin Users(c), Users(c)' = Users(c) \cup {r}, refs'[c] = refs[c] + 1
  PROVE  RefsCounted'
<1>1. Cardinality(Users(c)') = Cardinality(Users(c)) + 1
  BY UsersFinite, OneMore
<1> QED
  BY <1>1 DEF RefsCounted, Untouched

\* DecRef by a request that leaves the users of c.
LEMMA UserLeaves ==
  ASSUME RefsCounted, NEW c \in Requests, NEW r,
         \A d \in Requests \ {c} : Untouched(d),
         Alive(c)' => Alive(c),
         r \in Users(c), Users(c)' = Users(c) \ {r},
         refs'[c] = IF refs[c] > 0 THEN refs[c] - 1 ELSE 0
  PROVE  RefsCounted'
<1>1. /\ Cardinality(Users(c)') = Cardinality(Users(c)) - 1
      /\ Cardinality(Users(c)') \in Nat /\ Cardinality(Users(c)) \in Nat
  BY UsersFinite, OneLess
<1>2. Alive(c)' => refs'[c] = Cardinality(Users(c)')
  <2>1. SUFFICES ASSUME Alive(c)' PROVE refs'[c] = Cardinality(Users(c)')
    OBVIOUS
  <2>2. refs[c] = Cardinality(Users(c))
    BY <2>1 DEF RefsCounted
  <2> QED
    BY <2>2, <1>1
<1> QED
  BY <1>2 DEF RefsCounted, Untouched

\* The request that dials r is its first user.
LEMMA UserDials ==
  ASSUME RefsCounted, NEW r \in Requests, Users(r)' = {r}, refs'[r] = 1,
         \A d \in Requests \ {r} : Untouched(d)
  PROVE  RefsCounted'
<1>1. Cardinality(Users(r)') = 1
  BY FS_Singleton
<1>2. refs'[r] = Cardinality(Users(r)')
  BY <1>1
<1>3. \A d \in Requests \ {r} : Alive(d)' => refs'[d] = Cardinality(Users(d)')
  BY DEF RefsCounted, Untouched
<1> QED
  BY <1>2, <1>3 DEF RefsCounted, Untouched

\* Every step that changes a count moves one request into or out of the users of a connection.
LEMMA RefsStep ==
  ASSUME IInv, Next
  PROVE  RefsCounted'
<1> USE PoolAssumption DEF pool, ssh, locals, Goto, Leave, TakeOut, Close, IncRef, DecRef, Pool,
    ReleasePermit, TypeOK, StepsOK, ConnOK, IInv, Actors, RequestSteps, AtWork, Failing, Dropping
<1>1. ASSUME NEW r \in Requests, AcquirePermit(r) PROVE RefsCounted'
  <2>1. \A d \in Requests : Untouched(d)
    BY <1>1 DEF AcquirePermit, Untouched, Users, Holds, Brings, DialedOnce, Unshared, Undialed,
        Alive
  <2> QED
    BY <2>1, CountsKept DEF IInv
<1>2. ASSUME NEW r \in Requests, GiveUp(r) PROVE RefsCounted'
  <2>1. \A d \in Requests : Untouched(d)
    BY <1>2 DEF GiveUp, Untouched, Users, Holds, Brings, DialedOnce, Unshared, Undialed, Alive
  <2> QED
    BY <2>1, CountsKept DEF IInv
<1>3. ASSUME NEW r \in Requests, Get(r) PROVE RefsCounted'
  <2>1. CASE Reuses(r) /\ IncRef(pooled) /\ conn' = [conn EXCEPT ![r] = pooled]
               /\ Goto(r, "session") /\ UNCHANGED <<conns, toClose, then>>
    <3>1. PICK c \in Requests : c = pooled
      BY <1>3, <2>1 DEF Get, Reuses, Healthy
    <3>2. /\ \A d \in Requests \ {c} : Untouched(d)
          /\ r \notin Users(c) /\ Users(c)' = Users(c) \cup {r} /\ refs'[c] = refs[c] + 1
          /\ Alive(c)' => Alive(c)
      BY <1>3, <2>1, <3>1 DEF Get, Untouched, Users, Holds, Brings, DialedOnce, Unshared,
          Undialed, Alive
    <3> QED
      BY <3>2, UserJoins DEF IInv
  <2>2. CASE UNCHANGED ssh
    <3>1. \A d \in Requests : Untouched(d)
      BY <1>3, <2>2 DEF Get, Untouched, Users, Holds, Brings, DialedOnce, Unshared, Undialed, Alive
    <3> QED
      BY <3>1, CountsKept DEF IInv
  <2> QED
    BY <1>3, <2>1, <2>2 DEF Get
<1>4. ASSUME NEW r \in Requests, Recheck(r) PROVE RefsCounted'
  <2>1. \A d \in Requests : Untouched(d)
    BY <1>4 DEF Recheck, Reuses, Healthy, Untouched, Users, Holds, Brings, DialedOnce, Unshared,
        Undialed, Alive
  <2> QED
    BY <2>1, CountsKept DEF IInv
<1>5. ASSUME NEW r \in Requests, CountLate(r) PROVE RefsCounted'
  <2>1. PICK c \in Requests : c = conn[r]
    BY <1>5 DEF CountLate
  <2>2. /\ \A d \in Requests \ {c} : Untouched(d)
        /\ r \notin Users(c) /\ Users(c)' = Users(c) \cup {r} /\ refs'[c] = refs[c] + 1
        /\ Alive(c)' => Alive(c)
    BY <1>5, <2>1 DEF CountLate, Untouched, Users, Holds, Brings, DialedOnce, Unshared, Undialed,
        Alive
  <2> QED
    BY <2>2, UserJoins DEF IInv
<1>6. ASSUME NEW r \in Requests, ConnectFails(r) PROVE RefsCounted'
  <2>1. \A d \in Requests : Untouched(d)
    BY <1>6 DEF ConnectFails, Untouched, Users, Holds, Brings, DialedOnce, Unshared, Undialed, Alive
  <2> QED
    BY <2>1, CountsKept DEF IInv
<1>7. ASSUME NEW r \in Requests, Connect(r) PROVE RefsCounted'
  <2>1. /\ Users(r)' = {r} /\ refs'[r] = 1
        /\ \A d \in Requests \ {r} : Untouched(d)
    BY <1>7 DEF Connect, Untouched, Users, Holds, Brings, DialedOnce, Unshared, Undialed, Alive
  <2> QED
    BY <2>1, UserDials DEF IInv
<1>8. ASSUME NEW r \in Requests, Insert(r) PROVE RefsCounted'
  <2>1. CASE toClose' = toClose \cup {r} /\ conn' = [conn EXCEPT ![r] = pooled]
               /\ Goto(r, "count") /\ UNCHANGED then
    <3>1. ~Alive(r)'
      BY <1>8, <2>1 DEF Alive
    <3>2. \A d \in Requests \ {r} : Untouched(d)
      BY <1>8, <2>1 DEF Insert, Untouched, Users, Holds, Brings, DialedOnce, Unshared, Undialed,
          Alive
    <3> QED
      BY <3>1, <3>2 DEF IInv, RefsCounted, Untouched
  <2>2. CASE TakeOut(r, "put") /\ Goto(r, "mark") /\ UNCHANGED toClose
    <3>1. \A d \in Requests : Untouched(d)
      BY <1>8, <2>2 DEF Insert, Untouched, Users, Holds, Brings, DialedOnce, Unshared, Undialed,
          Alive
    <3> QED
      BY <3>1, CountsKept DEF IInv
  <2>3. CASE Pool(r) /\ UNCHANGED <<toClose, then>>
    <3>1. \A d \in Requests : Untouched(d)
      BY <1>8, <2>3 DEF Insert, Untouched, Users, Holds, Brings, DialedOnce, Unshared, Undialed,
          Alive
    <3> QED
      BY <3>1, CountsKept DEF IInv
  <2> QED
    BY <1>8, <2>1, <2>2, <2>3 DEF Insert
<1>9. ASSUME NEW r \in Requests, Put(r) PROVE RefsCounted'
  <2>1. \A d \in Requests : Untouched(d)
    BY <1>9 DEF Put, Untouched, Users, Holds, Brings, DialedOnce, Unshared, Undialed, Alive
  <2> QED
    BY <2>1, CountsKept DEF IInv
<1>10. ASSUME NEW r \in Requests, OpenSession(r) PROVE RefsCounted'
  <2>1. \A d \in Requests : Untouched(d)
    BY <1>10 DEF OpenSession, Untouched, Users, Holds, Brings, DialedOnce, Unshared, Undialed, Alive
  <2> QED
    BY <2>1, CountsKept DEF IInv
<1>11. ASSUME NEW r \in Requests, SessionFails(r) PROVE RefsCounted'
  <2>1. \A d \in Requests : Untouched(d)
    BY <1>11 DEF SessionFails, Untouched, Users, Holds, Brings, DialedOnce, Unshared, Undialed,
        Alive
  <2> QED
    BY <2>1, CountsKept DEF IInv
<1>12. ASSUME NEW r \in Requests, Invalidate(r) PROVE RefsCounted'
  <2>1. \A d \in Requests : Untouched(d)
    BY <1>12 DEF Invalidate, Untouched, Users, Holds, Brings, DialedOnce, Unshared, Undialed, Alive
  <2> QED
    BY <2>1, CountsKept DEF IInv
<1>13. ASSUME NEW r \in Requests, Uncount(r) PROVE RefsCounted'
  <2>1. PICK c \in Requests : c = conn[r]
    BY <1>13 DEF Uncount
  <2>2. /\ \A d \in Requests \ {c} : Untouched(d)
        /\ r \in Users(c) /\ Users(c)' = Users(c) \ {r}
        /\ refs'[c] = IF refs[c] > 0 THEN refs[c] - 1 ELSE 0
        /\ Alive(c)' => Alive(c)
    BY <1>13, <2>1 DEF Uncount, Untouched, Users, Holds, Brings, DialedOnce, Unshared, Undialed,
        Alive
  <2> QED
    BY <2>2, UserLeaves DEF IInv
<1>14. ASSUME NEW r \in Requests, Condemn(r) PROVE RefsCounted'
  <2>1. \A d \in Requests : Untouched(d)
    BY <1>14 DEF Condemn, Untouched, Users, Holds, Brings, DialedOnce, Unshared, Undialed, Alive
  <2> QED
    BY <2>1, CountsKept DEF IInv
<1>15. ASSUME NEW r \in Requests, Bury(r) PROVE RefsCounted'
  <2>1. \A d \in Requests : Untouched(d)
    BY <1>15 DEF Bury, Untouched, Users, Holds, Brings, DialedOnce, Unshared, Undialed, Alive
  <2> QED
    BY <2>1, CountsKept DEF IInv
<1>16. ASSUME NEW r \in Requests, GiveBack(r) PROVE RefsCounted'
  <2>1. \A d \in Requests : Untouched(d)
    BY <1>16 DEF GiveBack, Untouched, Users, Holds, Brings, DialedOnce, Unshared, Undialed, Alive
  <2> QED
    BY <2>1, CountsKept DEF IInv
<1>17. ASSUME NEW r \in Requests, EndSession(r) PROVE RefsCounted'
  <2>1. \A d \in Requests : Untouched(d)
    BY <1>17 DEF EndSession, Untouched, Users, Holds, Brings, DialedOnce, Unshared, Undialed, Alive
  <2> QED
    BY <2>1, CountsKept DEF IInv
<1>18. ASSUME NEW r \in Requests, ReadCurrent(r) PROVE RefsCounted'
  <2>1. \A d \in Requests : Untouched(d)
    BY <1>18 DEF ReadCurrent, Untouched, Users, Holds, Brings, DialedOnce, Unshared, Undialed, Alive
  <2> QED
    BY <2>1, CountsKept DEF IInv
<1>19. ASSUME NEW r \in Requests, ReleaseRef(r) PROVE RefsCounted'
  <2>1. PICK c \in Requests : c = conn[r]
    BY <1>19 DEF ReleaseRef
  <2>2. /\ \A d \in Requests \ {c} : Untouched(d)
        /\ r \in Users(c) /\ Users(c)' = Users(c) \ {r}
        /\ refs'[c] = IF refs[c] > 0 THEN refs[c] - 1 ELSE 0
        /\ Alive(c)' => Alive(c)
    BY <1>19, <2>1 DEF ReleaseRef, Untouched, Users, Holds, Brings, DialedOnce, Unshared,
        Undialed, Alive
  <2> QED
    BY <2>2, UserLeaves DEF IInv
<1>20. ASSUME NEW r \in Requests, Settle(r) PROVE RefsCounted'
  <2>1. \A d \in Requests : Untouched(d)
    BY <1>20 DEF Settle, Untouched, Users, Holds, Brings, DialedOnce, Unshared, Undialed, Alive
  <2> QED
    BY <2>1, CountsKept DEF IInv
<1>21. ASSUME NEW r \in Requests, CloseLater(r) PROVE RefsCounted'
  <2>1. \A d \in Requests : Untouched(d)
    BY <1>21 DEF CloseLater, Untouched, Users, Holds, Brings, DialedOnce, Unshared, Undialed, Alive
  <2> QED
    BY <2>1, CountsKept DEF IInv
<1>22. ASSUME NEW a \in Actors, MarkClosing(a) PROVE RefsCounted'
  <2>1. \A d \in Requests : Untouched(d)
    BY <1>22 DEF MarkClosing, Untouched, Users, Holds, Brings, DialedOnce, Unshared, Undialed, Alive
  <2> QED
    BY <2>1, CountsKept DEF IInv
<1>23. ASSUME NEW a \in Actors, MaybeClose(a) PROVE RefsCounted'
  <2>1. \A d \in Requests : Untouched(d)
    BY <1>23 DEF MaybeClose, Untouched, Users, Holds, Brings, DialedOnce, Unshared, Undialed, Alive
  <2> QED
    BY <2>1, CountsKept DEF IInv
<1>24. ASSUME NEW k \in Closers, CloseByKey(k) PROVE RefsCounted'
  <2>1. \A d \in Requests : Untouched(d)
    BY <1>24 DEF CloseByKey, Untouched, Users, Holds, Brings, DialedOnce, Unshared, Undialed, Alive
  <2> QED
    BY <2>1, CountsKept DEF IInv
<1>25. ASSUME SweepExpired PROVE RefsCounted'
  <2>1. \A d \in Requests : Untouched(d)
    BY <1>25 DEF SweepExpired, Unused, Untouched, Users, Holds, Brings, DialedOnce, Unshared,
        Undialed, Alive
  <2> QED
    BY <2>1, CountsKept DEF IInv
<1>26. ASSUME SweepIdle PROVE RefsCounted'
  <2>1. \A d \in Requests : Untouched(d)
    BY <1>26 DEF SweepIdle, Unused, Untouched, Users, Holds, Brings, DialedOnce, Unshared,
        Undialed, Alive
  <2> QED
    BY <2>1, CountsKept DEF IInv
<1>27. ASSUME ProbeAnswered PROVE RefsCounted'
  <2>1. \A d \in Requests : Untouched(d)
    BY <1>27 DEF ProbeAnswered, Untouched, Users, Holds, Brings, DialedOnce, Unshared, Undialed,
        Alive
  <2> QED
    BY <2>1, CountsKept DEF IInv
<1>28. ASSUME Evict PROVE RefsCounted'
  <2>1. \A d \in Requests : Untouched(d)
    BY <1>28 DEF Evict, Untouched, Users, Holds, Brings, DialedOnce, Unshared, Undialed, Alive
  <2> QED
    BY <2>1, CountsKept DEF IInv
<1>29. ASSUME CloseAll PROVE RefsCounted'
  <2>1. \A d \in Requests : Untouched(d)
    BY <1>29 DEF CloseAll, Untouched, Users, Holds, Brings, DialedOnce, Unshared, Undialed, Alive
  <2> QED
    BY <2>1, CountsKept DEF IInv
<1>30. ASSUME CloseTaken PROVE RefsCounted'
  <2>1. \A d \in Requests : Untouched(d)
    BY <1>30 DEF CloseTaken, Untouched, Users, Holds, Brings, DialedOnce, Unshared, Undialed, Alive
  <2> QED
    BY <2>1, CountsKept DEF IInv
<1> QED
  BY <1>1, <1>2, <1>3, <1>4, <1>5, <1>6, <1>7, <1>8, <1>9, <1>10, <1>11, <1>12, <1>13, <1>14,
      <1>15, <1>16, <1>17, <1>18, <1>19, <1>20, <1>21, <1>22, <1>23, <1>24, <1>25, <1>26, <1>27,
      <1>28, <1>29, <1>30
  DEF Next, GetStep, ReleaseStep, Drop, CleanerStep

\* A connection gets doomed only when nobody whose reference counts uses it, or marked.
LEMMA DoomedStep ==
  ASSUME IInv, Next
  PROVE  DoomedMarked'
<1> USE PoolAssumption DEF pool, ssh, locals, Goto, Leave, TakeOut, Close, IncRef, DecRef, Pool,
    ReleasePermit, TypeOK, StepsOK, ConnOK, IInv, Actors, RequestSteps, AtWork, Failing, Dropping,
    DoomedMarked, Doomed, Counted, Stopping, OutOfPool, DialedOnce, Unshared, Undialed, Brings,
    PooledIsUsable, Alive, MarkedFirst
<1>1. ASSUME NEW r \in Requests, AcquirePermit(r) PROVE DoomedMarked'
  BY <1>1 DEF AcquirePermit
<1>2. ASSUME NEW r \in Requests, GiveUp(r) PROVE DoomedMarked'
  BY <1>2 DEF GiveUp
<1>3. ASSUME NEW r \in Requests, Get(r) PROVE DoomedMarked'
  BY <1>3 DEF Get, Reuses, Healthy
<1>4. ASSUME NEW r \in Requests, Recheck(r) PROVE DoomedMarked'
  BY <1>4 DEF Recheck, Reuses, Healthy
<1>5. ASSUME NEW r \in Requests, CountLate(r) PROVE DoomedMarked'
  BY <1>5 DEF CountLate
<1>6. ASSUME NEW r \in Requests, ConnectFails(r) PROVE DoomedMarked'
  BY <1>6 DEF ConnectFails
<1>7. ASSUME NEW r \in Requests, Connect(r) PROVE DoomedMarked'
  BY <1>7 DEF Connect
<1>8. ASSUME NEW r \in Requests, Insert(r) PROVE DoomedMarked'
  BY <1>8 DEF Insert, Reuses, Healthy
<1>9. ASSUME NEW r \in Requests, Put(r) PROVE DoomedMarked'
  BY <1>9 DEF Put
<1>10. ASSUME NEW r \in Requests, OpenSession(r) PROVE DoomedMarked'
  BY <1>10 DEF OpenSession
<1>11. ASSUME NEW r \in Requests, SessionFails(r) PROVE DoomedMarked'
  BY <1>11 DEF SessionFails
<1>12. ASSUME NEW r \in Requests, Invalidate(r) PROVE DoomedMarked'
  BY <1>12 DEF Invalidate
<1>13. ASSUME NEW r \in Requests, Uncount(r) PROVE DoomedMarked'
  BY <1>13 DEF Uncount
<1>14. ASSUME NEW r \in Requests, Condemn(r) PROVE DoomedMarked'
  BY <1>14 DEF Condemn
<1>15. ASSUME NEW r \in Requests, Bury(r) PROVE DoomedMarked'
  BY <1>15 DEF Bury
<1>16. ASSUME NEW r \in Requests, GiveBack(r) PROVE DoomedMarked'
  BY <1>16 DEF GiveBack
<1>17. ASSUME NEW r \in Requests, EndSession(r) PROVE DoomedMarked'
  BY <1>17 DEF EndSession
<1>18. ASSUME NEW r \in Requests, ReadCurrent(r) PROVE DoomedMarked'
  BY <1>18 DEF ReadCurrent
<1>19. ASSUME NEW r \in Requests, ReleaseRef(r) PROVE DoomedMarked'
  <2>1. PICK c \in Requests : c = conn[r]
    BY <1>19 DEF ReleaseRef
  <2>2. CASE refs'[c] = 0 /\ Goto(r, "settle") /\ UNCHANGED <<conn, then, current>>
    <3>1. RefsCounted'
      BY RefsStep
    <3>2. IsFiniteSet(Users(c)')
      BY FS_Subset DEF PoolAssumption, Users
    <3>3. Alive(c)' => Users(c)' = {}
      BY <2>2, <3>1, <3>2, FS_EmptySet DEF RefsCounted
    <3> QED
      BY <1>19, <2>1, <2>2, <3>3 DEF ReleaseRef, Users, Holds
  <2>3. CASE Leave(r, "done")
    BY <1>19, <2>3 DEF ReleaseRef
  <2> QED
    BY <1>19, <2>1, <2>2, <2>3 DEF ReleaseRef
<1>20. ASSUME NEW r \in Requests, Settle(r) PROVE DoomedMarked'
  BY <1>20 DEF Settle
<1>21. ASSUME NEW r \in Requests, CloseLater(r) PROVE DoomedMarked'
  BY <1>21 DEF CloseLater
<1>22. ASSUME NEW a \in Actors, MarkClosing(a) PROVE DoomedMarked'
  BY <1>22 DEF MarkClosing
<1>23. ASSUME NEW a \in Actors, MaybeClose(a) PROVE DoomedMarked'
  BY <1>23 DEF MaybeClose
<1>24. ASSUME NEW k \in Closers, CloseByKey(k) PROVE DoomedMarked'
  BY <1>24 DEF CloseByKey
<1>25. ASSUME SweepExpired PROVE DoomedMarked'
  <2>1. PICK c \in Requests : c = pooled /\ refs[c] = 0 /\ Alive(c)
    BY <1>25 DEF SweepExpired, Unused
  <2>2. Users(c) = {}
    BY <2>1, UsersFinite, FS_EmptySet DEF RefsCounted
  <2> QED
    BY <1>25, <2>1, <2>2 DEF SweepExpired, Users, Holds
<1>26. ASSUME SweepIdle PROVE DoomedMarked'
  BY <1>26 DEF SweepIdle, Unused
<1>27. ASSUME ProbeAnswered PROVE DoomedMarked'
  BY <1>27 DEF ProbeAnswered
<1>28. ASSUME Evict PROVE DoomedMarked'
  BY <1>28 DEF Evict
<1>29. ASSUME CloseAll PROVE DoomedMarked'
  BY <1>29 DEF CloseAll
<1>30. ASSUME CloseTaken PROVE DoomedMarked'
  BY <1>30 DEF CloseTaken
<1> QED
  BY <1>1, <1>2, <1>3, <1>4, <1>5, <1>6, <1>7, <1>8, <1>9, <1>10, <1>11, <1>12, <1>13, <1>14,
      <1>15, <1>16, <1>17, <1>18, <1>19, <1>20, <1>21, <1>22, <1>23, <1>24, <1>25, <1>26, <1>27,
      <1>28, <1>29, <1>30
  DEF Next, GetStep, ReleaseStep, Drop, CleanerStep

\* The invariant holds at the start.
LEMMA InitInv == Init => IInv
<1> SUFFICES ASSUME Init PROVE IInv
  OBVIOUS
<1>1. Permitted = {} /\ Cardinality(Permitted) = 0
  BY FS_EmptySet DEF Init, Actors, Permitted, HasPermit
<1>2. TypeOK
  BY PoolAssumption DEF PoolAssumption, Init, TypeOK, Actors, Steps
<1>3. StepsOK /\ ConnOK /\ PermitsCounted /\ RefsCounted
  BY <1>1, PoolAssumption DEF PoolAssumption, Init, Actors, StepsOK, RequestSteps, Dropping,
      Failing,
    ConnOK, AtWork, PermitsCounted, RefsCounted, Alive
<1>4. DialedOnce /\ PooledIsUsable
  BY PoolAssumption DEF PoolAssumption, Init, Actors, DialedOnce, Undialed, Brings, Unshared,
    Dropping, Failing, PooledIsUsable
<1>5. OutOfPool /\ MarkedFirst /\ DoomedMarked
  BY PoolAssumption DEF PoolAssumption, Init, Actors, OutOfPool, MarkedFirst, DoomedMarked, Counted
<1> QED
  BY <1>2, <1>3, <1>4, <1>5 DEF IInv

\* A step that changes nothing keeps it.
LEMMA StutterInv == IInv /\ UNCHANGED vars => IInv'
<1> SUFFICES ASSUME IInv, UNCHANGED vars PROVE IInv'
  OBVIOUS
<1> USE DEF vars, pool, ssh, locals, IInv
<1>1. TypeOK' /\ StepsOK' /\ ConnOK'
  BY DEF TypeOK, StepsOK, ConnOK
<1>2. Permitted' = Permitted /\ \A c : Users(c)' = Users(c)
  BY DEF Permitted, HasPermit, Users, Holds, Brings
<1>3. PermitsCounted'
  BY <1>2 DEF PermitsCounted
<1>4. RefsCounted'
  BY <1>2 DEF RefsCounted, Alive
<1>5. DialedOnce' /\ PooledIsUsable'
  BY DEF DialedOnce, Undialed, Brings, Unshared, PooledIsUsable, Alive
<1>6. OutOfPool' /\ MarkedFirst' /\ DoomedMarked'
  BY DEF OutOfPool, MarkedFirst, DoomedMarked, Doomed, Counted, Stopping
<1> QED
  BY <1>1, <1>3, <1>4, <1>5, <1>6

\* The pool keeps its invariant, whatever the requests, closers and permits.
THEOREM Invariance == Spec => []IInv
<1>1. IInv /\ [Next]_vars => IInv'
  <2> SUFFICES ASSUME IInv, [Next]_vars PROVE IInv'
    OBVIOUS
  <2>1. CASE Next
    BY <2>1, TypeStep, StepsStep, ConnStep, PermitsStep, RefsStep, DialedStep, PooledStep,
      OutStep, MarkedStep, DoomedStep DEF IInv
  <2>2. CASE UNCHANGED vars
    BY <2>2, StutterInv
  <2> QED
    BY <2>1, <2>2
<1> QED
  BY <1>1, InitInv, PTL DEF Spec

-----------------------------------------------------------------------------
\* The types, and never more permits out than PoolConfig.MaxSFTPSessionsPerConn.
THEOREM TypeCorrect == Spec => []TypeOK
<1>1. IInv => TypeOK
  BY DEF IInv
<1> QED
  BY <1>1, Invariance, PTL

\* acquirePermit, releasePermit: every permit out belongs to one request on its way.
THEOREM PermitsReturned == Spec => []PermitsCounted
<1>1. IInv => PermitsCounted
  BY DEF IInv
<1> QED
  BY <1>1, Invariance, PTL

\* No more sessions are open at once than there are permits.
THEOREM SessionsBounded ==
  Spec => [](Cardinality({r \in Requests : pc[r] = "using"}) <= MaxSessions)
<1>1. IInv => Cardinality({r \in Requests : pc[r] = "using"}) <= MaxSessions
  <2> SUFFICES ASSUME IInv
      PROVE Cardinality({r \in Requests : pc[r] = "using"}) <= MaxSessions
    OBVIOUS
  <2> DEFINE Using == {r \in Requests : pc[r] = "using"}
  <2>1. Using \in SUBSET Permitted
    BY DEF Permitted, HasPermit
  <2>2. Cardinality(Using) <= Cardinality(Permitted) /\ IsFiniteSet(Using)
    BY <2>1, PermittedFinite, FS_Subset
  <2>3. Cardinality(Permitted) <= MaxSessions /\ Cardinality(Permitted) \in Nat
    BY PoolAssumption DEF IInv, PermitsCounted, TypeOK, PoolAssumption
  <2>4. Cardinality(Using) \in Nat
    BY <2>2, FS_CardinalityType
  <2> QED
    BY <2>2, <2>3, <2>4, PoolAssumption DEF PoolAssumption
<1> QED
  BY <1>1, Invariance, PTL

\* IncRef, DecRef: the count of a connection that is not being closed is the number of
\* requests that hold it, although one path counts late and another rolls back.
THEOREM CountsExact == Spec => []RefsCounted
<1>1. IInv => RefsCounted
  BY DEF IInv
<1> QED
  BY <1>1, Invariance, PTL

\* The permits and the references together.
THEOREM CountersMatch == Spec => []CountsMatch
<1>1. PermitsCounted /\ RefsCounted => CountsMatch
  BY DEF CountsMatch
<1> QED
  BY <1>1, PermitsReturned, CountsExact, PTL

\* get finds no closed or marked connection in the pool.
THEOREM PooledUsable == Spec => []PooledIsUsable
<1>1. IInv => PooledIsUsable
  BY DEF IInv
<1> QED
  BY <1>1, Invariance, PTL

\* No unmarked connection is closed under a session whose reference was counted in time.
THEOREM CutsAreMarked == Spec => []CutOnlyIfMarked
<1>1. IInv => CutOnlyIfMarked
  <2> SUFFICES ASSUME IInv, NEW r \in Requests, pc[r] \in {"session", "using"},
        how[r] # "late", ~Stopping, conns[conn[r]] # "open"
      PROVE closing[conn[r]]
    BY DEF CutOnlyIfMarked
  <2>1. conn[r] \in Requests /\ r \in Actors
    BY DEF IInv, ConnOK, AtWork, Actors
  <2>2. conns[conn[r]] # "none"
    BY <2>1 DEF IInv, DialedOnce, Unshared
  <2>3. Doomed(conn[r])
    BY <2>1, <2>2 DEF IInv, TypeOK, Doomed
  <2> QED
    BY <2>3 DEF IInv, DoomedMarked, Counted
<1> QED
  BY <1>1, Invariance, PTL
-----------------------------------------------------------------------------
(* Nothing leaks *)

\* A session fails only because its connection is closed, or is one that refuses.
FailedClosed ==
  \A r \in Requests : pc[r] \in Failing /\ conn[r] \notin Flaky => conns[conn[r]] = "closed"

\* No request with a credential of its own has begun.
Unspent == \A r \in WithCredential : pc[r] = "waiting"

\* Only such a request closes the connection it found before it pools its own.
PutOwn == \A r \in Requests :
  pc[r] = "put" \/ (pc[r] \in Dropping /\ then[r] = "put") => r \in WithCredential

\* The actor uses the connection, or will look at it once more before it leaves.
Looking == {"count", "session", "using", "release", "decRef", "settle", "invalidate", "uncount",
            "mark", "check", "close"}
KeptBy(a, c) == (conn[a] = c /\ pc[a] \in Looking) \/ Brings(a, c)
Kept(c) == c = pooled \/ \E a \in Actors : KeptBy(a, c)

\* A connection that has left the pool is marked, or is about to be marked or closed.
TakenBy(a, c) == (conn[a] = c /\ pc[a] \in {"mark", "close"}) \/ Brings(a, c)
MarkComes(c) == c = pooled \/ closing[c] \/ \E a \in Actors : TakenBy(a, c)

LeakInv ==
  /\ FailedClosed /\ PutOwn
  /\ Unspent => \A c \in Requests \ Flaky : Alive(c) => Kept(c) /\ MarkComes(c)

\* Only a session on a closed connection fails, unless the remote end refuses it.
LEMMA FailedStep ==
  ASSUME IInv, LeakInv, Next
  PROVE  FailedClosed' /\ PutOwn'
<1> USE PoolAssumption DEF pool, ssh, locals, Goto, Leave, TakeOut, Close, IncRef, DecRef, Pool,
    ReleasePermit, TypeOK, StepsOK, ConnOK, IInv, Actors, RequestSteps, AtWork, Failing, Dropping,
    LeakInv, FailedClosed, PutOwn, DialedOnce, Undialed, Brings, Unshared
<1>1. ASSUME NEW r \in Requests, AcquirePermit(r) PROVE FailedClosed' /\ PutOwn'
  BY <1>1 DEF AcquirePermit
<1>2. ASSUME NEW r \in Requests, GiveUp(r) PROVE FailedClosed' /\ PutOwn'
  BY <1>2 DEF GiveUp
<1>3. ASSUME NEW r \in Requests, Get(r) PROVE FailedClosed' /\ PutOwn'
  BY <1>3 DEF Get, Reuses, Healthy
<1>4. ASSUME NEW r \in Requests, Recheck(r) PROVE FailedClosed' /\ PutOwn'
  BY <1>4 DEF Recheck, Reuses, Healthy
<1>5. ASSUME NEW r \in Requests, CountLate(r) PROVE FailedClosed' /\ PutOwn'
  BY <1>5 DEF CountLate
<1>6. ASSUME NEW r \in Requests, ConnectFails(r) PROVE FailedClosed' /\ PutOwn'
  BY <1>6 DEF ConnectFails
<1>7. ASSUME NEW r \in Requests, Connect(r) PROVE FailedClosed' /\ PutOwn'
  BY <1>7 DEF Connect
<1>8. ASSUME NEW r \in Requests, Insert(r) PROVE FailedClosed' /\ PutOwn'
  BY <1>8 DEF Insert, Reuses, Healthy
<1>9. ASSUME NEW r \in Requests, Put(r) PROVE FailedClosed' /\ PutOwn'
  BY <1>9 DEF Put
<1>10. ASSUME NEW r \in Requests, OpenSession(r) PROVE FailedClosed' /\ PutOwn'
  BY <1>10 DEF OpenSession
<1>11. ASSUME NEW r \in Requests, SessionFails(r) PROVE FailedClosed' /\ PutOwn'
  BY <1>11 DEF SessionFails
<1>12. ASSUME NEW r \in Requests, Invalidate(r) PROVE FailedClosed' /\ PutOwn'
  BY <1>12 DEF Invalidate
<1>13. ASSUME NEW r \in Requests, Uncount(r) PROVE FailedClosed' /\ PutOwn'
  BY <1>13 DEF Uncount
<1>14. ASSUME NEW r \in Requests, Condemn(r) PROVE FailedClosed' /\ PutOwn'
  BY <1>14 DEF Condemn
<1>15. ASSUME NEW r \in Requests, Bury(r) PROVE FailedClosed' /\ PutOwn'
  BY <1>15 DEF Bury
<1>16. ASSUME NEW r \in Requests, GiveBack(r) PROVE FailedClosed' /\ PutOwn'
  BY <1>16 DEF GiveBack
<1>17. ASSUME NEW r \in Requests, EndSession(r) PROVE FailedClosed' /\ PutOwn'
  BY <1>17 DEF EndSession
<1>18. ASSUME NEW r \in Requests, ReadCurrent(r) PROVE FailedClosed' /\ PutOwn'
  BY <1>18 DEF ReadCurrent
<1>19. ASSUME NEW r \in Requests, ReleaseRef(r) PROVE FailedClosed' /\ PutOwn'
  BY <1>19 DEF ReleaseRef
<1>20. ASSUME NEW r \in Requests, Settle(r) PROVE FailedClosed' /\ PutOwn'
  BY <1>20 DEF Settle
<1>21. ASSUME NEW r \in Requests, CloseLater(r) PROVE FailedClosed' /\ PutOwn'
  BY <1>21 DEF CloseLater
<1>22. ASSUME NEW a \in Actors, MarkClosing(a) PROVE FailedClosed' /\ PutOwn'
  BY <1>22 DEF MarkClosing
<1>23. ASSUME NEW a \in Actors, MaybeClose(a) PROVE FailedClosed' /\ PutOwn'
  BY <1>23 DEF MaybeClose
<1>24. ASSUME NEW k \in Closers, CloseByKey(k) PROVE FailedClosed' /\ PutOwn'
  BY <1>24 DEF CloseByKey
<1>25. ASSUME SweepExpired PROVE FailedClosed' /\ PutOwn'
  BY <1>25 DEF SweepExpired, Unused
<1>26. ASSUME SweepIdle PROVE FailedClosed' /\ PutOwn'
  BY <1>26 DEF SweepIdle, Unused
<1>27. ASSUME ProbeAnswered PROVE FailedClosed' /\ PutOwn'
  BY <1>27 DEF ProbeAnswered
<1>28. ASSUME Evict PROVE FailedClosed' /\ PutOwn'
  BY <1>28 DEF Evict
<1>29. ASSUME CloseAll PROVE FailedClosed' /\ PutOwn'
  BY <1>29 DEF CloseAll
<1>30. ASSUME CloseTaken PROVE FailedClosed' /\ PutOwn'
  BY <1>30 DEF CloseTaken
<1> QED
  BY <1>1, <1>2, <1>3, <1>4, <1>5, <1>6, <1>7, <1>8, <1>9, <1>10, <1>11, <1>12, <1>13, <1>14,
      <1>15, <1>16, <1>17, <1>18, <1>19, <1>20, <1>21, <1>22, <1>23, <1>24, <1>25, <1>26, <1>27,
      <1>28, <1>29, <1>30
  DEF Next, GetStep, ReleaseStep, Drop, CleanerStep

\* It is enough to look at the actor that moves and at the pool.
LEMMA MarkFrame ==
  ASSUME NEW c, NEW b \in Actors, MarkComes(c), closing[c] => closing'[c],
         \A a \in Actors : a # b /\ TakenBy(a, c) => TakenBy(a, c)',
         c = pooled \/ TakenBy(b, c) => MarkComes(c)'
  PROVE  MarkComes(c)'
BY DEF MarkComes

LEMMA KeptFrame ==
  ASSUME NEW c, NEW b \in Actors, Kept(c),
         \A a \in Actors : a # b /\ KeptBy(a, c) => KeptBy(a, c)',
         c = pooled \/ KeptBy(b, c) => Kept(c)'
  PROVE  Kept(c)'
BY DEF Kept

\* A connection that leaves the pool gets its mark, or is closed.
LEMMA MarkStep ==
  ASSUME IInv, LeakInv, Next, Unspent', NEW c \in Requests \ Flaky, Alive(c)'
  PROVE  MarkComes(c)'
<1> USE PoolAssumption DEF pool, ssh, locals, Goto, Leave, TakeOut, Close, IncRef, DecRef, Pool,
    ReleasePermit, TypeOK, StepsOK, ConnOK, IInv, Actors, RequestSteps, AtWork, Failing, Dropping,
    LeakInv, FailedClosed, PutOwn, Alive, Unspent, MarkComes, TakenBy, DialedOnce, Undialed, Unshared, Brings,
    PooledIsUsable
<1>1. ASSUME NEW r \in Requests, AcquirePermit(r) PROVE MarkComes(c)'
  BY SMTT(30), <1>1 DEF AcquirePermit
<1>2. ASSUME NEW r \in Requests, GiveUp(r) PROVE MarkComes(c)'
  <2>1. Alive(c) /\ MarkComes(c)
    BY <1>2 DEF GiveUp
  <2>2. \A a \in Actors : a # r /\ TakenBy(a, c) => TakenBy(a, c)'
    BY <1>2 DEF GiveUp
  <2>3. c = pooled \/ TakenBy(r, c) => MarkComes(c)'
    BY <1>2 DEF GiveUp
  <2> QED
    BY <1>2, <2>1, <2>2, <2>3, MarkFrame DEF GiveUp
<1>3. ASSUME NEW r \in Requests, Get(r) PROVE MarkComes(c)'
  <2>1. Alive(c) /\ MarkComes(c)
    BY SMTT(30), <1>3 DEF Get, Reuses, Healthy
  <2>2. \A a \in Actors : a # r /\ TakenBy(a, c) => TakenBy(a, c)'
    BY <1>3 DEF Get, Reuses, Healthy
  <2>3. c = pooled \/ TakenBy(r, c) => MarkComes(c)'
    BY <1>3 DEF Get, Reuses, Healthy
  <2> QED
    BY <1>3, <2>1, <2>2, <2>3, MarkFrame DEF Get
<1>4. ASSUME NEW r \in Requests, Recheck(r) PROVE MarkComes(c)'
  BY SMTT(30), <1>4 DEF Recheck, Reuses, Healthy
<1>5. ASSUME NEW r \in Requests, CountLate(r) PROVE MarkComes(c)'
  BY <1>5 DEF CountLate
<1>6. ASSUME NEW r \in Requests, ConnectFails(r) PROVE MarkComes(c)'
  BY SMTT(30), <1>6 DEF ConnectFails
<1>7. ASSUME NEW r \in Requests, Connect(r) PROVE MarkComes(c)'
  BY <1>7 DEF Connect
<1>8. ASSUME NEW r \in Requests, Insert(r) PROVE MarkComes(c)'
  <2>1. Alive(c) /\ MarkComes(c)
    BY SMTT(30), <1>8 DEF Insert, Reuses, Healthy
  <2>2. \A a \in Actors : a # r /\ TakenBy(a, c) => TakenBy(a, c)'
    BY <1>8 DEF Insert, Reuses, Healthy
  <2>3. c = pooled \/ TakenBy(r, c) => MarkComes(c)'
    BY <1>8 DEF Insert, Reuses, Healthy
  <2> QED
    BY <1>8, <2>1, <2>2, <2>3, MarkFrame DEF Insert
<1>9. ASSUME NEW r \in Requests, Put(r) PROVE MarkComes(c)'
  BY <1>9 DEF Put
<1>10. ASSUME NEW r \in Requests, OpenSession(r) PROVE MarkComes(c)'
  BY <1>10 DEF OpenSession
<1>11. ASSUME NEW r \in Requests, SessionFails(r) PROVE MarkComes(c)'
  BY SMTT(30), <1>11 DEF SessionFails
<1>12. ASSUME NEW r \in Requests, Invalidate(r) PROVE MarkComes(c)'
  BY <1>12 DEF Invalidate
<1>13. ASSUME NEW r \in Requests, Uncount(r) PROVE MarkComes(c)'
  BY <1>13 DEF Uncount
<1>14. ASSUME NEW r \in Requests, Condemn(r) PROVE MarkComes(c)'
  BY <1>14 DEF Condemn
<1>15. ASSUME NEW r \in Requests, Bury(r) PROVE MarkComes(c)'
  BY SMTT(30), <1>15 DEF Bury
<1>16. ASSUME NEW r \in Requests, GiveBack(r) PROVE MarkComes(c)'
  BY <1>16 DEF GiveBack
<1>17. ASSUME NEW r \in Requests, EndSession(r) PROVE MarkComes(c)'
  <2>1. Alive(c) /\ MarkComes(c)
    BY <1>17 DEF EndSession
  <2>2. \A a \in Actors : a # r /\ TakenBy(a, c) => TakenBy(a, c)'
    BY <1>17 DEF EndSession
  <2>3. c = pooled \/ TakenBy(r, c) => MarkComes(c)'
    BY <1>17 DEF EndSession
  <2> QED
    BY <1>17, <2>1, <2>2, <2>3, MarkFrame DEF EndSession
<1>18. ASSUME NEW r \in Requests, ReadCurrent(r) PROVE MarkComes(c)'
  BY <1>18 DEF ReadCurrent
<1>19. ASSUME NEW r \in Requests, ReleaseRef(r) PROVE MarkComes(c)'
  <2>1. Alive(c) /\ MarkComes(c)
    BY <1>19 DEF ReleaseRef
  <2>2. \A a \in Actors : a # r /\ TakenBy(a, c) => TakenBy(a, c)'
    BY <1>19 DEF ReleaseRef
  <2>3. c = pooled \/ TakenBy(r, c) => MarkComes(c)'
    BY <1>19 DEF ReleaseRef
  <2> QED
    BY <1>19, <2>1, <2>2, <2>3, MarkFrame DEF ReleaseRef
<1>20. ASSUME NEW r \in Requests, Settle(r) PROVE MarkComes(c)'
  BY SMTT(30), <1>20 DEF Settle
<1>21. ASSUME NEW r \in Requests, CloseLater(r) PROVE MarkComes(c)'
  BY <1>21 DEF CloseLater
<1>22. ASSUME NEW a \in Actors, MarkClosing(a) PROVE MarkComes(c)'
  BY <1>22 DEF MarkClosing
<1>23. ASSUME NEW a \in Actors, MaybeClose(a) PROVE MarkComes(c)'
  BY <1>23 DEF MaybeClose
<1>24. ASSUME NEW k \in Closers, CloseByKey(k) PROVE MarkComes(c)'
  BY <1>24 DEF CloseByKey
<1>25. ASSUME SweepExpired PROVE MarkComes(c)'
  BY <1>25 DEF SweepExpired, Unused
<1>26. ASSUME SweepIdle PROVE MarkComes(c)'
  BY <1>26 DEF SweepIdle, Unused
<1>27. ASSUME ProbeAnswered PROVE MarkComes(c)'
  BY <1>27 DEF ProbeAnswered
<1>28. ASSUME Evict PROVE MarkComes(c)'
  BY <1>28 DEF Evict
<1>29. ASSUME CloseAll PROVE MarkComes(c)'
  BY SMTT(30), <1>29 DEF CloseAll
<1>30. ASSUME CloseTaken PROVE MarkComes(c)'
  BY SMTT(30), <1>30 DEF CloseTaken
<1> QED
  BY <1>1, <1>2, <1>3, <1>4, <1>5, <1>6, <1>7, <1>8, <1>9, <1>10, <1>11, <1>12, <1>13, <1>14,
      <1>15, <1>16, <1>17, <1>18, <1>19, <1>20, <1>21, <1>22, <1>23, <1>24, <1>25, <1>26, <1>27,
      <1>28, <1>29, <1>30
  DEF Next, GetStep, ReleaseStep, Drop, CleanerStep

\* A connection whose count is not zero has a user.
LEMMA UsedIsKept ==
  ASSUME IInv', NEW c \in Requests, Alive(c)', refs'[c] > 0
  PROVE  Kept(c)'
<1>1. refs'[c] = Cardinality(Users(c)') /\ Users(c)' # {}
  BY FS_EmptySet DEF IInv, RefsCounted
<1>2. PICK q \in Requests : (Holds(q, c) \/ Brings(q, c))'
  BY <1>1 DEF Users
<1> QED
  BY <1>2 DEF Kept, KeptBy, Holds, Looking, Actors

\* Whoever leaves a connection last closes it, or leaves it in the pool.
LEMMA KeptStep ==
  ASSUME IInv, IInv', LeakInv, Next, Unspent', NEW c \in Requests \ Flaky, Alive(c)'
  PROVE  Kept(c)'
<1> USE PoolAssumption DEF pool, ssh, locals, Goto, Leave, TakeOut, Close, IncRef, DecRef, Pool,
    ReleasePermit, TypeOK, StepsOK, ConnOK, IInv, Actors, RequestSteps, AtWork, Failing, Dropping,
    LeakInv, FailedClosed, PutOwn, Alive, Unspent, MarkComes, TakenBy, Kept, KeptBy,
    Looking, DialedOnce, Undialed, Unshared, Brings,
    PooledIsUsable
<1>1. ASSUME NEW r \in Requests, AcquirePermit(r) PROVE Kept(c)'
  BY <1>1 DEF AcquirePermit
<1>2. ASSUME NEW r \in Requests, GiveUp(r) PROVE Kept(c)'
  BY <1>2 DEF GiveUp
<1>3. ASSUME NEW r \in Requests, Get(r) PROVE Kept(c)'
  BY SMTT(30), <1>3 DEF Get, Reuses, Healthy
<1>4. ASSUME NEW r \in Requests, Recheck(r) PROVE Kept(c)'
  <2>1. Kept(c)
    <3>1. Alive(c) /\ Unspent
      BY <1>4 DEF Recheck, Reuses, Healthy
    <3> QED
      BY SMTT(30), <3>1 DEF LeakInv
  <2>2. \A a \in Actors : a # r /\ KeptBy(a, c) => KeptBy(a, c)'
    BY <1>4 DEF Recheck, Reuses, Healthy
  <2>3. c = pooled \/ KeptBy(r, c) => Kept(c)'
    BY <1>4 DEF Recheck, Reuses, Healthy
  <2> QED
    BY <1>4, <2>1, <2>2, <2>3, KeptFrame DEF Recheck
<1>5. ASSUME NEW r \in Requests, CountLate(r) PROVE Kept(c)'
  BY <1>5 DEF CountLate
<1>6. ASSUME NEW r \in Requests, ConnectFails(r) PROVE Kept(c)'
  BY <1>6 DEF ConnectFails
<1>7. ASSUME NEW r \in Requests, Connect(r) PROVE Kept(c)'
  BY <1>7 DEF Connect
<1>8. ASSUME NEW r \in Requests, Insert(r) PROVE Kept(c)'
  <2>1. Kept(c)
    <3>1. Alive(c) /\ Unspent
      BY <1>8 DEF Insert, Reuses, Healthy
    <3> QED
      BY SMTT(30), <3>1 DEF LeakInv
  <2>2. \A a \in Actors : a # r /\ KeptBy(a, c) => KeptBy(a, c)'
    BY <1>8 DEF Insert, Reuses, Healthy
  <2>3. c = pooled \/ KeptBy(r, c) => Kept(c)'
    BY <1>8 DEF Insert, Reuses, Healthy
  <2> QED
    BY <1>8, <2>1, <2>2, <2>3, KeptFrame DEF Insert
<1>9. ASSUME NEW r \in Requests, Put(r) PROVE Kept(c)'
  BY <1>9 DEF Put
<1>10. ASSUME NEW r \in Requests, OpenSession(r) PROVE Kept(c)'
  BY <1>10 DEF OpenSession
<1>11. ASSUME NEW r \in Requests, SessionFails(r) PROVE Kept(c)'
  BY SMTT(30), <1>11 DEF SessionFails
<1>12. ASSUME NEW r \in Requests, Invalidate(r) PROVE Kept(c)'
  BY <1>12 DEF Invalidate
<1>13. ASSUME NEW r \in Requests, Uncount(r) PROVE Kept(c)'
  <2>1. Kept(c)
    <3>1. Alive(c) /\ Unspent
      BY <1>13 DEF Uncount
    <3> QED
      BY SMTT(30), <3>1 DEF LeakInv
  <2>2. \A a \in Actors : a # r /\ KeptBy(a, c) => KeptBy(a, c)'
    BY <1>13 DEF Uncount
  <2>3. c = pooled \/ KeptBy(r, c) => Kept(c)'
    BY <1>13 DEF Uncount
  <2> QED
    BY <1>13, <2>1, <2>2, <2>3, KeptFrame DEF Uncount
<1>14. ASSUME NEW r \in Requests, Condemn(r) PROVE Kept(c)'
  <2>1. Kept(c)
    <3>1. Alive(c) /\ Unspent
      BY <1>14 DEF Condemn
    <3> QED
      BY SMTT(30), <3>1 DEF LeakInv
  <2>2. \A a \in Actors : a # r /\ KeptBy(a, c) => KeptBy(a, c)'
    BY <1>14 DEF Condemn
  <2>3. c = pooled \/ KeptBy(r, c) => Kept(c)'
    BY <1>14 DEF Condemn
  <2> QED
    BY <1>14, <2>1, <2>2, <2>3, KeptFrame DEF Condemn
<1>15. ASSUME NEW r \in Requests, Bury(r) PROVE Kept(c)'
  BY <1>15 DEF Bury
<1>16. ASSUME NEW r \in Requests, GiveBack(r) PROVE Kept(c)'
  BY <1>16 DEF GiveBack
<1>17. ASSUME NEW r \in Requests, EndSession(r) PROVE Kept(c)'
  BY SMTT(30), <1>17 DEF EndSession
<1>18. ASSUME NEW r \in Requests, ReadCurrent(r) PROVE Kept(c)'
  BY <1>18 DEF ReadCurrent
<1>19. ASSUME NEW r \in Requests, ReleaseRef(r) PROVE Kept(c)'
  <2>1. Kept(c)
    <3>1. Alive(c) /\ Unspent
      BY <1>19 DEF ReleaseRef
    <3> QED
      BY SMTT(30), <3>1 DEF LeakInv
  <2>2. \A a \in Actors : a # r /\ KeptBy(a, c) => KeptBy(a, c)'
    BY <1>19 DEF ReleaseRef
  <2>3. c = pooled \/ KeptBy(r, c) => Kept(c)'
    <3>1. CASE c # conn[r] \/ c = pooled
      BY <1>19, <3>1 DEF ReleaseRef
    <3>2. CASE c = conn[r] /\ refs'[c] = 0
      BY <1>19, <3>2 DEF ReleaseRef
    <3>3. CASE c = conn[r] /\ refs'[c] > 0
      BY <3>3, UsedIsKept
    <3> QED
      BY <1>19, <3>1, <3>2, <3>3 DEF ReleaseRef
  <2> QED
    BY <1>19, <2>1, <2>2, <2>3, KeptFrame DEF ReleaseRef
<1>20. ASSUME NEW r \in Requests, Settle(r) PROVE Kept(c)'
  BY <1>20 DEF Settle
<1>21. ASSUME NEW r \in Requests, CloseLater(r) PROVE Kept(c)'
  BY <1>21 DEF CloseLater
<1>22. ASSUME NEW a \in Actors, MarkClosing(a) PROVE Kept(c)'
  <2>1. Kept(c)
    <3>1. Alive(c) /\ Unspent
      BY <1>22 DEF MarkClosing
    <3> QED
      BY <3>1 DEF LeakInv
  <2>2. \A b \in Actors : b # a /\ KeptBy(b, c) => KeptBy(b, c)'
    BY <1>22 DEF MarkClosing
  <2>3. c = pooled \/ KeptBy(a, c) => Kept(c)'
    BY <1>22 DEF MarkClosing
  <2> QED
    BY <1>22, <2>1, <2>2, <2>3, KeptFrame DEF MarkClosing
<1>23. ASSUME NEW a \in Actors, MaybeClose(a) PROVE Kept(c)'
  <2>1. Kept(c)
    <3>1. Alive(c) /\ Unspent
      BY <1>23 DEF MaybeClose
    <3> QED
      BY <3>1 DEF LeakInv
  <2>2. \A b \in Actors : b # a /\ KeptBy(b, c) => KeptBy(b, c)'
    BY <1>23 DEF MaybeClose
  <2>3. c = pooled \/ KeptBy(a, c) => Kept(c)'
    <3>1. CASE c # conn[a] \/ c = pooled
      BY <1>23, <3>1 DEF MaybeClose
    <3>2. CASE c = conn[a]
      <4>1. refs'[c] > 0
        BY <1>23, <3>2 DEF MaybeClose
      <4> QED
        BY <4>1, UsedIsKept
    <3> QED
      BY <3>1, <3>2
  <2> QED
    BY <1>23, <2>1, <2>2, <2>3, KeptFrame DEF MaybeClose
<1>24. ASSUME NEW k \in Closers, CloseByKey(k) PROVE Kept(c)'
  <2>1. Kept(c)
    <3>1. Alive(c) /\ Unspent
      BY <1>24 DEF CloseByKey
    <3> QED
      BY <3>1 DEF LeakInv
  <2>2. \A a \in Actors : a # k /\ KeptBy(a, c) => KeptBy(a, c)'
    BY <1>24 DEF CloseByKey
  <2>3. c = pooled \/ KeptBy(k, c) => Kept(c)'
    BY <1>24 DEF CloseByKey
  <2> QED
    BY <1>24, <2>1, <2>2, <2>3, KeptFrame DEF CloseByKey
<1>25. ASSUME SweepExpired PROVE Kept(c)'
  BY <1>25 DEF SweepExpired, Unused
<1>26. ASSUME SweepIdle PROVE Kept(c)'
  BY <1>26 DEF SweepIdle, Unused
<1>27. ASSUME ProbeAnswered PROVE Kept(c)'
  BY SMTT(30), <1>27 DEF ProbeAnswered
<1>28. ASSUME Evict PROVE Kept(c)'
  BY <1>28 DEF Evict
<1>29. ASSUME CloseAll PROVE Kept(c)'
  BY SMTT(30), <1>29 DEF CloseAll
<1>30. ASSUME CloseTaken PROVE Kept(c)'
  BY SMTT(30), <1>30 DEF CloseTaken
<1> QED
  BY SMTT(30), <1>1, <1>2, <1>3, <1>4, <1>5, <1>6, <1>7, <1>8, <1>9, <1>10, <1>11, <1>12, <1>13, <1>14,
      <1>15, <1>16, <1>17, <1>18, <1>19, <1>20, <1>21, <1>22, <1>23, <1>24, <1>25, <1>26, <1>27,
      <1>28, <1>29, <1>30
  DEF Next, GetStep, ReleaseStep, Drop, CleanerStep

LEMMA LeakNext ==
  ASSUME IInv, IInv', LeakInv, [Next]_vars
  PROVE  LeakInv'
<1>1. CASE Next
  BY <1>1, FailedStep, MarkStep, KeptStep DEF LeakInv
<1>2. CASE UNCHANGED vars
  BY <1>2 DEF vars, pool, ssh, locals, LeakInv, FailedClosed, PutOwn, Unspent, Alive, Kept, KeptBy,
    MarkComes, TakenBy, Brings
<1> QED
  BY <1>1, <1>2

\* releaseSSH, markClosingAndMaybeClose, cleanupOnce: a connection that is not in the pool any
\* more and that nobody works on is closed, or about to be, as long as the remote end refuses
\* no session on it and no request brings a credential of its own.
THEOREM ConnectionsAreClosed == Spec => []NothingLeaks
<1>1. Init => LeakInv
  BY PoolAssumption DEF Init, LeakInv, FailedClosed, PutOwn, Alive, Actors, Failing, Dropping
<1>2. IInv /\ IInv' /\ LeakInv /\ [Next]_vars => LeakInv'
  BY LeakNext
<1>3. LeakInv => NothingLeaks
  <2> SUFFICES ASSUME LeakInv, Unspent, NEW c \in Requests \ Flaky, Alive(c), c # pooled
               PROVE  Busy(c)
    BY DEF NothingLeaks, Unspent
  <2>1. PICK a \in Actors : KeptBy(a, c)
    BY DEF LeakInv, Kept
  <2> QED
    BY <2>1 DEF KeptBy, Busy, Users, Brings
<1> QED
  BY <1>1, <1>2, <1>3, Invariance, PTL DEF Spec
=============================================================================
