----------------------------- MODULE WebSession -----------------------------
(***************************************************************************)
(* The login session of one page of the web client (web/src): the access   *)
(* token it holds, the one refresh it shares, the requests, loads and timer *)
(* that wait for that refresh, and the ways out: logout() and the expiry of *)
(* an idle session.  The page is single threaded: a step is what runs from  *)
(* one await, timer or event to the next, so an answer to the refresh wakes *)
(* all that wait for it in one step.                                       *)
(*                                                                         *)
(* The server is external and may answer anything.  The other tabs are the *)
(* environment too: through localStorage they set and lift the mark of an   *)
(* idle session and send the storage event that tells of it.               *)
(***************************************************************************)
EXTENDS FiniteSets

CONSTANTS
  Requests,   \* calls of apiFetch and authenticatedFetch in progress at once
  Loads,      \* calls of loadConfig in progress at once
  Logouts,    \* calls of logout() in progress at once
  Expiries    \* tails of expireForInactivity in progress at once

ASSUME SessionAssumption ==
  /\ IsFiniteSet(Requests) /\ IsFiniteSet(Loads)
  /\ Loads # {} /\ Logouts \cap Expiries = {}

VARIABLES
  token,       \* AuthStore.accessToken # null
  auth,        \* authStatus?.is_authenticated
  refreshing,  \* refreshPromise # null
  suspended,   \* refreshSuspended
  timer,       \* the two effects: "off" (not set up), "set", "running" a refresh
  due,         \* the effects have yet to run for the present token and status
  req,         \* the progress of each request
  load,        \* the progress of each loadConfig
  out,         \* the progress of each logout() and each idle expiry
  idleMark,    \* localStorage holds AUTH_IDLE_EXPIRED_KEY
  note         \* a storage event of another tab's mark is on its way

login == <<token, auth, suspended>>
work == <<req, load, out>>
sessionVars == <<login, refreshing, timer, due, work, idleMark, note>>

SignOuts == Logouts \cup Expiries

\* The start of the page: restore is shouldRestoreAuthSession(pathname).
FirstLoads(restore) ==
  {[l \in Loads |-> IF l = first THEN IF restore THEN "restore" ELSE "status"
                    ELSE "none"] : first \in Loads}

SessionInit ==
  /\ token = FALSE /\ auth = FALSE /\ refreshing = FALSE /\ suspended = FALSE
  /\ timer = "off" /\ due = FALSE
  /\ req = [r \in Requests |-> "idle"]
  /\ load \in FirstLoads(TRUE) \cup FirstLoads(FALSE)
  /\ out = [o \in SignOuts |-> "none"]
  /\ idleMark \in BOOLEAN /\ note = FALSE

SessionTypeOK ==
  /\ token \in BOOLEAN /\ auth \in BOOLEAN
  /\ refreshing \in BOOLEAN /\ suspended \in BOOLEAN /\ due \in BOOLEAN
  /\ idleMark \in BOOLEAN /\ note \in BOOLEAN
  /\ timer \in {"off", "set", "running"}
  /\ req \in [Requests -> {"idle", "ensuring", "sent", "waiting", "resent"}]
  /\ load \in [Loads -> {"none", "status", "restore", "refreshing", "again", "draining"}]
  /\ out \in [SignOuts -> {"none", "draining", "sent"}]

\* The user reloads the page, or handleGlobalUnauthorized does by setting
\* location.href: nothing of the page is left but what localStorage holds.
Reload ==
  /\ token' = FALSE /\ auth' = FALSE /\ refreshing' = FALSE /\ suspended' = FALSE
  /\ timer' = "off" /\ due' = FALSE
  /\ req' = [r \in Requests |-> "idle"]
  /\ load' \in FirstLoads(TRUE) \cup FirstLoads(FALSE)
  /\ out' = [o \in SignOuts |-> "none"]
  /\ note' = FALSE
  /\ UNCHANGED idleMark

\* clearToken, setAuthStatus and markLoggedOut: the effects, which depend on
\* the token and the status, will run again if one has changed.
Become(held, known) ==
  /\ token' = held /\ auth' = known
  /\ due' = (due \/ held # token \/ known # auth)

SignedOut == Become(FALSE, FALSE)

\* setToken.
NewToken == token' = TRUE /\ due' = TRUE /\ UNCHANGED auth

-----------------------------------------------------------------------------
(* refreshAccessToken and suspendSessionRefresh. *)

\* refreshAccessToken that does not throw: it starts a refresh or shares one.
Join == ~suspended /\ refreshing' = TRUE

\* Mutant of Drain: the sign-out does not wait for the refresh under way.
MutantDrain(waits, goesOn) == goesOn

\* suspendSessionRefresh: its caller waits for the refresh under way, if any.
Drain(waits, goesOn) == IF refreshing THEN waits ELSE goesOn

\* handleGlobalUnauthorized and handleAccountLocked: the token goes, unless
\* the page is at the login form or leaving already; Reload follows.
Eject == \E held \in {FALSE, token} : Become(held, auth)

Waits(r) == req[r] \in {"ensuring", "waiting"}

Draining == \E l \in Loads : load[l] = "draining"

\* The refresh ends, well or not: all that await it go on.  A request goes to
\* failed when it had a 401 and there is no new token.
Awake(ok, failed) ==
  /\ refreshing /\ refreshing' = FALSE
  /\ req' = [r \in Requests |-> CASE req[r] = "ensuring" -> IF ok THEN "sent" ELSE "idle"
                                  [] req[r] = "waiting" -> IF ok THEN "resent" ELSE failed
                                  [] OTHER -> req[r]]
  /\ load' = [l \in Loads |-> CASE load[l] = "refreshing" -> IF ok THEN "again" ELSE "none"
                                [] load[l] = "draining" -> "none"
                                [] OTHER -> load[l]]
  /\ out' = [o \in SignOuts |-> IF out[o] = "draining" THEN "sent" ELSE out[o]]
  /\ timer' = IF timer = "running" THEN "set" ELSE timer
  /\ UNCHANGED <<suspended, idleMark, note>>

\* Mutant of Wake: a request that had its 401 is not told of a failure.
MutantWake(ok) == Awake(ok, "waiting")

Wake(ok) == Awake(ok, "idle")

\* setToken with the new token; a load that only drained then clears it.
RefreshSucceeds ==
  /\ Wake(TRUE)
  /\ IF Draining THEN SignedOut ELSE NewToken

\* isTerminalRefreshTokenError: there is no session to restore.  The timer and
\* a load sign the page out, a request ejects it.
RefreshRefused ==
  /\ Wake(FALSE)
  /\ IF timer = "running" \/ \E l \in Loads : load[l] \in {"refreshing", "draining"}
       THEN SignedOut
       ELSE IF \E r \in Requests : Waits(r) THEN Eject ELSE UNCHANGED <<token, auth, due>>

\* The network or the server fails: the session stays, the timer tries again.
RefreshFails ==
  /\ Wake(FALSE)
  /\ IF Draining THEN SignedOut ELSE UNCHANGED <<token, auth, due>>

-----------------------------------------------------------------------------
(* The requests: openapiTransportFetch and authenticatedFetch. *)

SetReq(r, step) == req' = [req EXCEPT ![r] = step]

\* apiFetch sends at once; so does authenticatedFetch with a token that is
\* valid for long enough, and awaits a refresh without one.
Request(r) ==
  /\ req[r] = "idle"
  /\ \/ SetReq(r, "sent") /\ UNCHANGED refreshing
     \/ SetReq(r, "ensuring") /\ Join
  /\ UNCHANGED <<login, timer, due, load, out, idleMark, note>>

\* Any answer but a 401 and an account that is locked, and a failure.
Answered(r) ==
  /\ req[r] \in {"sent", "resent"}
  /\ SetReq(r, "idle")
  /\ UNCHANGED <<login, refreshing, timer, due, load, out, idleMark, note>>

\* The first 401: the refresh, or the error that it is suspended.
Unauthorized(r) ==
  /\ req[r] = "sent"
  /\ \/ SetReq(r, "waiting") /\ Join
     \/ suspended /\ SetReq(r, "idle") /\ UNCHANGED refreshing
  /\ UNCHANGED <<login, timer, due, load, out, idleMark, note>>

\* The second 401, or an account that is locked.
Ejected(r) ==
  /\ req[r] \in {"sent", "resent"}
  /\ SetReq(r, "idle")
  /\ Eject
  /\ UNCHANGED <<suspended, refreshing, timer, load, out, idleMark, note>>

-----------------------------------------------------------------------------
(* loadConfig with checkStatus. *)

SetLoad(l, step) == load' = [load EXCEPT ![l] = step]

StartLoad(l) ==
  /\ load[l] = "none"
  /\ \E step \in {"status", "restore"} : SetLoad(l, step)
  /\ UNCHANGED <<login, refreshing, timer, due, req, out, idleMark, note>>

\* setAuthStatus, and clearToken unless the status is authenticated.
Report(l, known) == SetLoad(l, "none") /\ Become(token /\ known, known)

\* The idle session first: it is marked if its time has run out, and if it is
\* marked the refresh is suspended and the page told to be signed out.
StatusIdle(l) ==
  /\ load[l] \in {"status", "restore"}
  /\ idleMark' = TRUE
  /\ suspended' = TRUE
  /\ IF refreshing THEN SetLoad(l, "draining") /\ UNCHANGED <<token, auth, due>>
                   ELSE Report(l, FALSE)
  /\ UNCHANGED <<refreshing, timer, req, out, note>>

\* Without the mark a status that is not authenticated is restored, if asked.
StatusKnown(l) ==
  /\ load[l] \in {"status", "restore"} /\ ~idleMark
  /\ \/ \E known \in BOOLEAN : Report(l, known)
     \/ /\ load[l] = "restore" /\ suspended
        /\ SetLoad(l, "none") /\ UNCHANGED <<token, auth, due>>
  /\ UNCHANGED <<suspended, refreshing, timer, req, out, idleMark, note>>

StatusRestores(l) ==
  /\ load[l] = "restore" /\ ~idleMark
  /\ SetLoad(l, "refreshing") /\ Join
  /\ UNCHANGED <<login, timer, due, req, out, idleMark, note>>

\* The second status, which does not look at the mark.
StatusAgain(l) ==
  /\ load[l] = "again"
  /\ \E known \in BOOLEAN : Report(l, known)
  /\ UNCHANGED <<suspended, refreshing, timer, req, out, idleMark, note>>

LoadFails(l) ==
  /\ load[l] \in {"status", "restore", "again"}
  /\ SetLoad(l, "none")
  /\ UNCHANGED <<login, refreshing, timer, due, req, out, idleMark, note>>

-----------------------------------------------------------------------------
(* Login, logout() and the other tabs. *)

\* The login form: setToken, resumeSessionRefresh, beginAuthenticatedSession
\* and refreshConfig.
Login ==
  /\ ~auth
  /\ NewToken
  /\ suspended' = FALSE
  /\ idleMark' = FALSE
  /\ \E l \in Loads : load[l] = "none" /\ SetLoad(l, "restore")
  /\ UNCHANGED <<refreshing, timer, req, out, note>>

SetOut(o, step) == out' = [out EXCEPT ![o] = step]

Logout(o) ==
  /\ auth /\ out[o] = "none"
  /\ suspended' = TRUE
  /\ SetOut(o, Drain("draining", "sent"))
  /\ UNCHANGED <<token, auth, refreshing, timer, due, req, load, idleMark, note>>

\* The answer to logout(), with what suspended is after a failure.
Finished(o, after) ==
  /\ out[o] = "sent" /\ SetOut(o, "none")
  /\ \/ SignedOut /\ idleMark' = FALSE /\ UNCHANGED suspended
     \/ suspended' = after /\ UNCHANGED <<token, auth, due, idleMark>>
  /\ UNCHANGED <<refreshing, timer, req, load, note>>

\* Mutant of LogoutDone: a logout that failed does not resume the refresh.
MutantLogoutDone(o) == Finished(o, suspended)

LogoutDone(o) == Finished(o, FALSE)

\* Another tab marks the session idle, or logs in or out and lifts the mark.
OtherTabExpires ==
  /\ idleMark' = TRUE /\ note' = TRUE
  /\ UNCHANGED <<login, refreshing, timer, due, work>>

OtherTabBegins ==
  /\ idleMark' = FALSE
  /\ UNCHANGED <<login, refreshing, timer, due, work, note>>

-----------------------------------------------------------------------------
(* The effects of SessionRefreshProvider. *)

\* The timer, or the page visible or online again.
TimerFires ==
  /\ timer = "set" /\ ~due
  /\ timer' = "running" /\ Join
  /\ UNCHANGED <<login, due, work, idleMark, note>>

\* expireForInactivity up to its first await; the effects are done with.
Expire(o) ==
  /\ out[o] = "none"
  /\ idleMark' = TRUE
  /\ SignedOut
  /\ suspended' = TRUE
  /\ timer' = "off"
  /\ SetOut(o, Drain("draining", "sent"))
  /\ UNCHANGED <<refreshing, req, load>>

IdleTimeout(o) == timer # "off" /\ Expire(o) /\ UNCHANGED note

\* handleStorage: the listener is there while the effects are set up.
StorageEvent(o) ==
  /\ note /\ note' = FALSE
  /\ IF timer # "off" THEN Expire(o)
     ELSE UNCHANGED <<login, refreshing, timer, due, work, idleMark>>

\* Mutant of RunEffects: the idle effect does not look at the mark when set up.
MutantRunEffects(o) ==
  /\ due /\ due' = FALSE
  /\ timer' = IF token /\ auth THEN "set" ELSE "off"
  /\ UNCHANGED <<login, refreshing, work, idleMark, note>>

\* The clean-ups and set-ups that a new token or status calls for.
RunEffects(o) ==
  /\ due
  /\ IF token /\ auth /\ idleMark
       THEN Expire(o)
       ELSE /\ due' = FALSE
            /\ timer' = IF token /\ auth THEN "set" ELSE "off"
            /\ UNCHANGED <<login, refreshing, work, idleMark>>
  /\ UNCHANGED note

\* The tail of expireForInactivity: its finally clears the token, whoever's.
ExpiryDone(o) ==
  /\ out[o] = "sent" /\ SetOut(o, "none")
  /\ Become(FALSE, auth)
  /\ UNCHANGED <<suspended, refreshing, timer, req, load, idleMark, note>>

-----------------------------------------------------------------------------
RequestStep(r) == Request(r) \/ Answered(r) \/ Unauthorized(r) \/ Ejected(r)

LoadStep(l) ==
  \/ StartLoad(l) \/ StatusIdle(l) \/ StatusKnown(l)
  \/ StatusRestores(l) \/ StatusAgain(l) \/ LoadFails(l)

ExpiryStep(o) == IdleTimeout(o) \/ StorageEvent(o) \/ RunEffects(o) \/ ExpiryDone(o)

SessionNext ==
  \/ RefreshSucceeds \/ RefreshRefused \/ RefreshFails
  \/ \E r \in Requests : RequestStep(r)
  \/ \E l \in Loads : LoadStep(l)
  \/ Login \/ TimerFires \/ OtherTabExpires \/ OtherTabBegins \/ Reload
  \/ \E o \in Logouts : Logout(o) \/ LogoutDone(o)
  \/ \E o \in Expiries : ExpiryStep(o)

SessionSpec == SessionInit /\ [][SessionNext]_sessionVars

\* Every request is answered or fails, and the page runs its effects and its
\* events.  Nobody has to send one, to log in or out or to reload.
SessionFairness ==
  /\ WF_sessionVars(RefreshSucceeds \/ RefreshRefused \/ RefreshFails)
  /\ \A r \in Requests : WF_sessionVars(Answered(r) \/ Unauthorized(r) \/ Ejected(r))
  /\ \A l \in Loads : WF_sessionVars(StatusIdle(l) \/ StatusKnown(l) \/ StatusRestores(l)
                                       \/ StatusAgain(l) \/ LoadFails(l))
  /\ \A o \in Logouts : WF_sessionVars(LogoutDone(o))
  /\ \A o \in Expiries : WF_sessionVars(ExpiryDone(o))
  /\ WF_sessionVars(\E o \in Expiries : RunEffects(o))
  /\ WF_sessionVars(\E o \in Expiries : StorageEvent(o))

-----------------------------------------------------------------------------
\* Whatever waits for a refresh (a request with its 401, the timer, a load, a
\* sign-out) has one to wait for: nothing is left behind when refreshPromise is
\* answered and set back to null in session-refresh.ts.
WaitersHaveRefresh ==
  (\/ timer = "running"
   \/ \E r \in Requests : Waits(r)
   \/ \E l \in Loads : load[l] \in {"refreshing", "draining"}
   \/ \E o \in SignOuts : out[o] = "draining") => refreshing

\* A sign-out or a load still waits for the refresh it found under way.
Drained == Draining \/ \E o \in SignOuts : out[o] = "draining"

\* Once the refresh is suspended, one that was under way is waited for before
\* the logout is sent and none starts behind it, so that no answer brings the
\* session's cookie back (the comment at session-refresh.ts:160-163).
SuspendDrains == suspended /\ refreshing => Drained

\* A page that has signed out (the refresh is suspended and no sign-out is in
\* progress) holds no token and waits for none, whatever its requests, its
\* loads and its timer were doing: it stays out until the next login.
OutMeansOut ==
  suspended /\ ~Drained /\ (\A o \in SignOuts : out[o] = "none")
    => ~token /\ ~refreshing

\* Every request and sign-out comes to its end, and so does what a load does
\* after its first status (a reload starts it anew): no await is left open.
EachSettles ==
  /\ \A r \in Requests : req[r] # "idle" ~> req[r] = "idle"
  /\ \A l \in Loads : load[l] \in {"refreshing", "again", "draining"}
                        ~> load[l] \in {"none", "status", "restore"}
  /\ \A o \in SignOuts : out[o] # "none" ~> out[o] = "none"

\* A page that is signed in while the session is marked idle goes out, even if
\* the mark was set by another tab while this page was restoring its session,
\* unless a login lifts the mark (session-refresh-provider.tsx:194-228).
IdleReachesPage == token /\ auth /\ idleMark ~> ~(token /\ auth /\ idleMark)
=============================================================================
