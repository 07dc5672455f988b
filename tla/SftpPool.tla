------------------------------ MODULE SftpPool ------------------------------
(***************************************************************************)
(* The pool of SSH connections behind the SFTP requests                    *)
(* (internal/domain/sftp/pool.go), for one key, that is one user and one   *)
(* server: keys share nothing but a lock.  A request takes a permit, then  *)
(* a connection (the pooled one if it is healthy, else one it dials), opens*)
(* an SFTP session on it and releases both.  CloseByKey, the cleanup loop, *)
(* a session that fails and the shutdown take connections out of the pool. *)
(*                                                                         *)
(* A step is what runs under one acquisition of the pool's lock or of a    *)
(* connection's lock.  A request dials at most once, so the connection that*)
(* request r dials is called r.                                            *)
(***************************************************************************)
EXTENDS Integers, FiniteSets

CONSTANTS
  Requests,        \* requests for a session, each made once
  WithCredential,  \* those made by GetWithCredential: they must not reuse
  Closers,         \* calls of CloseByKey, each made once
  Flaky,           \* those on whose connection the remote end may refuse a session
  MaxSessions,     \* PoolConfig.MaxSFTPSessionsPerConn
  Cleaner,         \* the goroutine of cleanupLoop, and CloseAll that ends it
  None             \* no connection

ASSUME PoolAssumption ==
  /\ IsFiniteSet(Requests)
  /\ WithCredential \subseteq Requests /\ Flaky \subseteq Requests
  /\ MaxSessions \in Nat \ {0}
  /\ Requests \cap Closers = {}
  /\ Cleaner \notin Requests \cup Closers
  /\ None \notin Requests

VARIABLES
  pooled,    \* Pool.connections[key]
  permits,   \* entries in Pool.semaphores[key]
  conns,     \* what has become of the connection: "none", "open", "closed"
  refs,      \* pooledSSHConn.refCount
  closing,   \* pooledSSHConn.closing
  toClose,   \* goroutines that will close a connection
  pc,        \* the next step of each actor
  conn,      \* the connection it works on
  then,      \* where it goes on when it has dropped that connection
  how,       \* how a request got its connection
  current,   \* isCurrent in releaseSSH
  last       \* newRef = 0 in invalidateSSHConn

pool == <<pooled, permits>>
ssh == <<conns, refs, closing, toClose>>
locals == <<conn, then, how, current, last>>
vars == <<pool, ssh, pc, locals>>

Actors == Requests \cup Closers \cup {Cleaner}

Healthy(c) == c # None /\ conns[c] = "open" /\ ~closing[c]

Init ==
  /\ pooled = None /\ permits = 0
  /\ conns = [r \in Requests |-> "none"]
  /\ refs = [r \in Requests |-> 0]
  /\ closing = [r \in Requests |-> FALSE]
  /\ toClose = {}
  /\ pc = [a \in Actors |-> IF a \in Requests THEN "waiting"
                        ELSE IF a = Cleaner THEN "asleep" ELSE "new"]
  /\ conn = [a \in Actors |-> None]
  /\ then = [a \in Actors |-> "done"]
  /\ how = [r \in Requests |-> "none"]
  /\ current = [r \in Requests |-> FALSE]
  /\ last = [r \in Requests |-> FALSE]

Goto(a, step) == pc' = [pc EXCEPT ![a] = step]

\* The actor is through with the connection at hand.
Leave(a, step) ==
  /\ Goto(a, step)
  /\ conn' = [conn EXCEPT ![a] = None]
  /\ then' = [then EXCEPT ![a] = "done"]

IncRef(c) == refs' = [refs EXCEPT ![c] = @ + 1]
DecRef(c) == refs' = [refs EXCEPT ![c] = IF @ > 0 THEN @ - 1 ELSE 0]
Close(c) == conns' = [conns EXCEPT ![c] = "closed"]

-----------------------------------------------------------------------------
(* Permits. *)

AcquirePermit(r) ==
  /\ pc[r] = "waiting" /\ permits < MaxSessions
  /\ permits' = permits + 1
  /\ Goto(r, "get")
  /\ UNCHANGED <<pooled, ssh, locals>>

\* The request's context ends while it waits.
GiveUp(r) ==
  /\ pc[r] = "waiting" /\ Goto(r, "done")
  /\ UNCHANGED <<pool, ssh, locals>>

ReleasePermit == permits' = IF permits > 0 THEN permits - 1 ELSE 0

-----------------------------------------------------------------------------
(* get and createNewSSH. *)

Reuses(r) == r \notin WithCredential /\ Healthy(pooled)

\* An actor takes the pooled connection out and goes on to drop it.
TakeOut(a, next) ==
  /\ pooled # None /\ pooled' = None
  /\ conn' = [conn EXCEPT ![a] = pooled]
  /\ then' = [then EXCEPT ![a] = next]

\* The first look into the pool counts the reference under the pool's lock.
Get(r) ==
  /\ pc[r] = "get"
  /\ \/ /\ Reuses(r)
        /\ IncRef(pooled)
        /\ conn' = [conn EXCEPT ![r] = pooled]
        /\ how' = [how EXCEPT ![r] = "found"]
        /\ Goto(r, "session")
        /\ UNCHANGED <<pooled, conns, closing, toClose, then>>
     \/ /\ ~Reuses(r)
        /\ TakeOut(r, "recheck") /\ Goto(r, "mark")
        /\ UNCHANGED <<ssh, how>>
     \/ /\ pooled = None /\ Goto(r, "recheck")
        /\ UNCHANGED <<pooled, ssh, conn, then, how>>
  /\ UNCHANGED <<permits, current, last>>

\* createNewSSH looks again: here the reference is counted after the unlock.
Recheck(r) ==
  /\ pc[r] = "recheck"
  /\ \/ /\ Reuses(r)
        /\ conn' = [conn EXCEPT ![r] = pooled]
        /\ how' = [how EXCEPT ![r] = "late"]
        /\ Goto(r, "count")
        /\ UNCHANGED <<pooled, then>>
     \/ /\ r \in WithCredential
        /\ TakeOut(r, "dial") /\ Goto(r, "mark")
        /\ UNCHANGED how
     \/ /\ ~Reuses(r) /\ (r \in WithCredential => pooled = None)
        /\ Goto(r, "dial")
        /\ UNCHANGED <<pooled, conn, then, how>>
  /\ UNCHANGED <<permits, ssh, current, last>>

CountLate(r) ==
  /\ pc[r] = "count"
  /\ IncRef(conn[r]) /\ Goto(r, "session")
  /\ UNCHANGED <<pool, conns, closing, toClose, locals>>

\* The server is not found, or the connection fails or times out.
ConnectFails(r) ==
  /\ pc[r] = "dial" /\ Leave(r, "giveBack")
  /\ UNCHANGED <<pool, ssh, how, current, last>>

Connect(r) ==
  /\ pc[r] = "dial" /\ Goto(r, "insert")
  /\ conns' = [conns EXCEPT ![r] = "open"]
  /\ refs' = [refs EXCEPT ![r] = 1]
  /\ UNCHANGED <<pool, closing, toClose, locals>>

Pool(r) ==
  /\ pooled' = r
  /\ conn' = [conn EXCEPT ![r] = r]
  /\ how' = [how EXCEPT ![r] = "dialed"]
  /\ Goto(r, "session")

\* The dialed connection goes into the pool, unless another one got there.
Insert(r) ==
  /\ pc[r] = "insert"
  /\ \/ /\ Reuses(r)
        /\ toClose' = toClose \cup {r}
        /\ conn' = [conn EXCEPT ![r] = pooled]
        /\ how' = [how EXCEPT ![r] = "late"]
        /\ Goto(r, "count")
        /\ UNCHANGED <<pooled, then>>
     \/ /\ r \in WithCredential
        /\ TakeOut(r, "put") /\ Goto(r, "mark")
        /\ UNCHANGED <<toClose, how>>
     \/ /\ ~Reuses(r) /\ (r \in WithCredential => pooled = None)
        /\ Pool(r)
        /\ UNCHANGED <<toClose, then>>
  /\ UNCHANGED <<permits, conns, refs, closing, current, last>>

\* After it dropped the connection it found, the request locks the pool again
\* and inserts its own without another look.
Put(r) ==
  /\ pc[r] = "put" /\ Pool(r)
  /\ UNCHANGED <<permits, ssh, then, current, last>>

-----------------------------------------------------------------------------
(* The session. *)

OpenSession(r) ==
  /\ pc[r] = "session" /\ conns[conn[r]] = "open" /\ Goto(r, "using")
  /\ UNCHANGED <<pool, ssh, locals>>

\* Only a connection of the first look is replaced by another one.
SessionFails(r) ==
  /\ pc[r] = "session" /\ Goto(r, "invalidate")
  /\ conns[conn[r]] = "closed" \/ conn[r] \in Flaky
  /\ then' = [then EXCEPT ![r] = IF how[r] = "found" THEN "recheck" ELSE "giveBack"]
  /\ UNCHANGED <<pool, ssh, conn, how, current, last>>

\* invalidateSSHConn in its four steps.
Invalidate(r) ==
  /\ pc[r] = "invalidate" /\ Goto(r, "uncount")
  /\ pooled' = IF pooled = conn[r] THEN None ELSE pooled
  /\ UNCHANGED <<permits, ssh, locals>>

\* Mutant of Uncount: the reference of the failed request is not rolled back.
MutantUncount(r) ==
  /\ pc[r] = "uncount" /\ Goto(r, "condemn")
  /\ last' = [last EXCEPT ![r] = refs[conn[r]] = 0]
  /\ UNCHANGED <<pool, ssh, conn, then, how, current>>

Uncount(r) ==
  /\ pc[r] = "uncount" /\ Goto(r, "condemn")
  /\ DecRef(conn[r])
  /\ last' = [last EXCEPT ![r] = refs'[conn[r]] = 0]
  /\ UNCHANGED <<pool, conns, closing, toClose, conn, then, how, current>>

Condemn(r) ==
  /\ pc[r] = "condemn" /\ Goto(r, "bury")
  /\ closing' = [closing EXCEPT ![conn[r]] = TRUE]
  /\ UNCHANGED <<pool, conns, refs, toClose, locals>>

Bury(r) ==
  /\ pc[r] = "bury" /\ Leave(r, then[r])
  /\ IF last[r] THEN Close(conn[r]) ELSE UNCHANGED conns
  /\ last' = [last EXCEPT ![r] = FALSE]
  /\ how' = [how EXCEPT ![r] = "none"]
  /\ UNCHANGED <<pool, refs, closing, toClose, current>>

GiveBack(r) ==
  /\ pc[r] = "giveBack" /\ Goto(r, "done")
  /\ ReleasePermit
  /\ UNCHANGED <<pooled, ssh, locals>>

\* Release ends the session and returns the permit, then the reference.
EndSession(r) ==
  /\ pc[r] = "using" /\ Goto(r, "release")
  /\ ReleasePermit
  /\ how' = [how EXCEPT ![r] = "none"]
  /\ UNCHANGED <<pooled, ssh, conn, then, current, last>>

ReadCurrent(r) ==
  /\ pc[r] = "release" /\ Goto(r, "decRef")
  /\ current' = [current EXCEPT ![r] = pooled = conn[r]]
  /\ UNCHANGED <<pool, ssh, conn, then, how, last>>

ReleaseRef(r) ==
  /\ pc[r] = "decRef"
  /\ DecRef(conn[r])
  /\ \/ refs'[conn[r]] = 0 /\ Goto(r, "settle") /\ UNCHANGED <<conn, then, current>>
     \/ refs'[conn[r]] > 0 /\ Leave(r, "done") /\ current' = [current EXCEPT ![r] = FALSE]
  /\ UNCHANGED <<pool, conns, closing, toClose, how, last>>

\* Mutant of Settle: only a connection that left the pool is closed, the mark is not read.
MutantSettle(r) ==
  /\ pc[r] = "settle" /\ Leave(r, "done")
  /\ IF ~current[r] THEN Close(conn[r]) ELSE UNCHANGED conns
  /\ current' = [current EXCEPT ![r] = FALSE]
  /\ UNCHANGED <<pool, refs, closing, toClose, how, last>>

\* The last reference is gone: a connection that is not the pooled one, or is
\* marked, is closed.
Settle(r) ==
  /\ pc[r] = "settle" /\ Leave(r, "done")
  /\ IF ~current[r] \/ closing[conn[r]] THEN Close(conn[r]) ELSE UNCHANGED conns
  /\ current' = [current EXCEPT ![r] = FALSE]
  /\ UNCHANGED <<pool, refs, closing, toClose, how, last>>

-----------------------------------------------------------------------------
(* markClosingAndMaybeClose, CloseByKey, the cleanup loop, CloseAll. *)

MarkClosing(a) ==
  /\ pc[a] = "mark" /\ Goto(a, "check")
  /\ closing' = [closing EXCEPT ![conn[a]] = TRUE]
  /\ UNCHANGED <<pool, conns, refs, toClose, locals>>

\* evictSSHConn closes the connection itself, the others start a goroutine.
MaybeClose(a) ==
  /\ pc[a] = "check" /\ Leave(a, then[a])
  /\ \/ /\ refs[conn[a]] = 0 /\ a # Cleaner
        /\ toClose' = toClose \cup {conn[a]} /\ UNCHANGED conns
     \/ /\ refs[conn[a]] = 0 /\ a = Cleaner
        /\ Close(conn[a]) /\ UNCHANGED toClose
     \/ /\ refs[conn[a]] > 0 /\ UNCHANGED <<toClose, conns>>
  /\ UNCHANGED <<pool, refs, closing, how, current, last>>

CloseLater(c) ==
  /\ c \in toClose /\ Close(c)
  /\ toClose' = toClose \ {c}
  /\ UNCHANGED <<pool, refs, closing, pc, locals>>

CloseByKey(k) ==
  /\ pc[k] = "new"
  /\ \/ TakeOut(k, "done") /\ Goto(k, "mark")
     \/ pooled = None /\ Goto(k, "done") /\ UNCHANGED <<pooled, conn, then>>
  /\ UNCHANGED <<permits, ssh, how, current, last>>

Unused == pooled # None /\ refs[pooled] = 0

\* cleanupOnce finds the connection idle for too long (or too old).
SweepExpired ==
  /\ pc[Cleaner] = "asleep" /\ Unused
  /\ TakeOut(Cleaner, "asleep") /\ Goto(Cleaner, "close")
  /\ UNCHANGED <<permits, ssh, how, current, last>>

\* ... or idle, and sends a keepalive after the unlock.
SweepIdle ==
  /\ pc[Cleaner] = "asleep" /\ Unused /\ ~closing[pooled]
  /\ conn' = [conn EXCEPT ![Cleaner] = pooled]
  /\ Goto(Cleaner, "probe")
  /\ UNCHANGED <<pool, ssh, then, how, current, last>>

ProbeAnswered ==
  /\ pc[Cleaner] = "probe" /\ conns[conn[Cleaner]] = "open"
  /\ Leave(Cleaner, "asleep")
  /\ UNCHANGED <<pool, ssh, how, current, last>>

\* No answer in time: evictSSHConn.
Evict ==
  /\ pc[Cleaner] = "probe" /\ Goto(Cleaner, "mark")
  /\ pooled' = IF pooled = conn[Cleaner] THEN None ELSE pooled
  /\ then' = [then EXCEPT ![Cleaner] = "asleep"]
  /\ UNCHANGED <<permits, ssh, conn, how, current, last>>

\* CloseAll waits for the loop to end, empties the pool and closes what it held.
CloseAll ==
  /\ pc[Cleaner] = "asleep"
  /\ \/ TakeOut(Cleaner, "stopped") /\ Goto(Cleaner, "close")
     \/ pooled = None /\ Goto(Cleaner, "stopped") /\ UNCHANGED <<pooled, conn, then>>
  /\ UNCHANGED <<permits, ssh, how, current, last>>

CloseTaken ==
  /\ pc[Cleaner] = "close" /\ Close(conn[Cleaner])
  /\ Leave(Cleaner, then[Cleaner])
  /\ UNCHANGED <<pool, refs, closing, toClose, how, current, last>>

-----------------------------------------------------------------------------
GetStep(r) ==
  \/ AcquirePermit(r) \/ Get(r) \/ Recheck(r) \/ CountLate(r)
  \/ ConnectFails(r) \/ Connect(r) \/ Insert(r) \/ Put(r)
  \/ OpenSession(r) \/ SessionFails(r)
ReleaseStep(r) ==
  \/ Invalidate(r) \/ Uncount(r) \/ Condemn(r) \/ Bury(r) \/ GiveBack(r)
  \/ EndSession(r) \/ ReadCurrent(r) \/ ReleaseRef(r) \/ Settle(r)
Drop(a) == MarkClosing(a) \/ MaybeClose(a)
CleanerStep == SweepExpired \/ SweepIdle \/ ProbeAnswered \/ Evict \/ CloseTaken

Next ==
  \/ \E r \in Requests : GiveUp(r) \/ GetStep(r) \/ ReleaseStep(r)
  \/ \E a \in Actors : Drop(a)
  \/ \E c \in Requests : CloseLater(c)
  \/ \E k \in Closers : CloseByKey(k)
  \/ CleanerStep \/ CloseAll

Spec == Init /\ [][Next]_vars

-----------------------------------------------------------------------------
(* Properties. *)

Steps == {"waiting", "get", "recheck", "count", "dial", "insert", "put", "session",
          "invalidate", "uncount", "condemn", "bury", "giveBack", "using", "release",
          "decRef", "settle", "mark", "check", "new", "done", "asleep", "probe",
          "close", "stopped"}

\* The variables have their types, and there are never more permits than sessions allowed.
TypeOK ==
  /\ pooled \in Requests \cup {None}
  /\ permits \in 0..MaxSessions
  /\ conns \in [Requests -> {"none", "open", "closed"}]
  /\ refs \in [Requests -> Nat]
  /\ closing \in [Requests -> BOOLEAN]
  /\ toClose \subseteq Requests
  /\ pc \in [Actors -> Steps]
  /\ conn \in [Actors -> Requests \cup {None}]
  /\ then \in [Actors -> {"recheck", "dial", "put", "giveBack", "done", "asleep", "stopped"}]
  /\ how \in [Requests -> {"none", "found", "late", "dialed"}]
  /\ current \in [Requests -> BOOLEAN]
  /\ last \in [Requests -> BOOLEAN]

HasPermit(r) == pc[r] \notin {"waiting", "done", "release", "decRef", "settle"}
Permitted == {r \in Requests : HasPermit(r)}

\* A permit is out for every request between acquirePermit and its release or its
\* failure, and for no other: none is lost on a way out, none is returned twice.
PermitsCounted == permits = Cardinality(Permitted)

Holds(r, c) == conn[r] = c /\ pc[r] \in
  {"session", "using", "release", "decRef", "invalidate", "uncount"}

\* The request that dialed c has not put it into the pool yet.
Brings(r, c) == r = c /\ \/ pc[r] \in {"insert", "put"}
                         \/ pc[r] \in {"mark", "check"} /\ then[r] = "put"

Users(c) == {r \in Requests : Holds(r, c) \/ Brings(r, c)}

Alive(c) == conns[c] = "open" /\ c \notin toClose

\* refCount of a connection that is not being closed is the number of requests that hold it.
RefsCounted == \A c \in Requests : Alive(c) => refs[c] = Cardinality(Users(c))

\* Both counters of the pool match the requests they count, whichever paths
\* fail, roll back or return twice: neither a permit nor a reference is lost
\* or given back twice (pool.go: acquirePermit, releasePermit, DecRef).
CountsMatch == PermitsCounted /\ RefsCounted

\* What the next request finds in the pool is neither closed nor about to be:
\* a connection is taken out before it is marked or closed.
PooledIsUsable == pooled # None => Alive(pooled) /\ ~closing[pooled]

Stopping == pc[Cleaner] = "stopped" \/ (pc[Cleaner] = "close" /\ then[Cleaner] = "stopped")

\* As long as the server runs, a session whose reference was counted under the lock (or
\* that dialed) loses its connection only if that was marked closing: neither the cleanup
\* of idle connections nor the release of another session closes it.
CutOnlyIfMarked ==
  \A r \in Requests :
    pc[r] \in {"session", "using"} /\ how[r] # "late" /\ ~Stopping =>
      conns[conn[r]] = "open" \/ closing[conn[r]]

Busy(c) == (\E a \in Actors : conn[a] = c) \/ Users(c) # {}

\* A connection out of the pool that nobody works on is closed: whoever leaves last closes
\* it.  (Not so once a session was refused on it, or a request with its own credential has
\* begun: see the README.)
NothingLeaks ==
  (\A r \in WithCredential : pc[r] = "waiting") =>
    \A c \in Requests \ Flaky : Alive(c) => c = pooled \/ Busy(c)

\* pool.go:594, "不要直接 Close，避免误伤并发中的请求；标记 closing 并在 refCount 归零后关闭":
\* no session in use loses its connection while the server runs.
InUseIsOpen ==
  \A r \in Requests : pc[r] = "using" /\ ~Stopping => conns[conn[r]] = "open"
=============================================================================
