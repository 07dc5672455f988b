--------------------------- MODULE TerminalSocket ---------------------------
(***************************************************************************)
(* The connections of one terminal tab of the web client: the objects of   *)
(* TerminalWebSocket (lib/websocket-terminal.ts), the hook that makes them  *)
(* (hooks/useWebSocketConnection.ts) and the entry of the tab in the        *)
(* terminal store (stores/terminal-store.ts).                               *)
(*                                                                         *)
(* An object asks for a ticket, dials, and dials again when it is cut off.  *)
(* The tab may leave it at any time: for another server, for none, by       *)
(* closing, by cancelling the authentication.  The component may be         *)
(* unmounted and mounted again, and the connection outlives that.           *)
(*                                                                         *)
(* A step is what runs from one await, timer or event of the page to the    *)
(* next.  The tickets, the network and the server are external.             *)
(***************************************************************************)
EXTENDS Integers

CONSTANTS
  Sockets,               \* the objects the tab may make, each once (a bound)
  Servers,               \* the servers the tab may be turned to
  MaxReconnectAttempts,  \* TerminalWebSocket.maxReconnectAttempts
  None                   \* no object, no server

ASSUME TerminalAssumption ==
  /\ None \notin Sockets /\ None \notin Servers
  /\ MaxReconnectAttempts \in Nat

VARIABLES
  made,          \* the objects made so far
  phase,         \* TerminalWebSocket.phase
  step,          \* connectInternal: "ticket" (awaited), "timer" (to dial again)
  link,          \* its socket: "none", "dialing", "open", or "adrift", let go
                 \* of while it dialed
  manual,        \* TerminalWebSocket.isManualClose
  destroyed,     \* TerminalWebSocket.isDestroyed
  attempts,      \* TerminalWebSocket.reconnectAttempts
  instance,      \* the store has an entry for the tab
  stored,        \* its wsConnection
  storedServer,  \* its serverId
  mounted,       \* the component of the tab is mounted
  target,        \* its serverId, None unless shouldConnect
  ref,           \* its wsRef
  refServer,     \* its wsServerIdRef
  mine           \* the objects whose callbacks hold the refs of this mount

object == <<phase, step, link, manual, destroyed, attempts>>
entry == <<instance, stored, storedServer>>
hook == <<mounted, target, ref, refServer, mine>>
termVars == <<made, object, entry, hook>>

Pending == {"ticket", "ws_connecting", "ssh_connecting", "reconnecting"}
Phases == Pending \cup {"idle", "authenticating", "ready", "failed", "closed"}

TermInit ==
  /\ made = {}
  /\ phase = [o \in Sockets |-> "idle"]
  /\ step = [o \in Sockets |-> "none"]
  /\ link = [o \in Sockets |-> "none"]
  /\ manual = [o \in Sockets |-> FALSE]
  /\ destroyed = [o \in Sockets |-> FALSE]
  /\ attempts = [o \in Sockets |-> 0]
  /\ instance = FALSE /\ stored = None /\ storedServer = None
  /\ mounted = FALSE /\ target = None
  /\ ref = None /\ refServer = None /\ mine = {}

TermTypeOK ==
  /\ made \subseteq Sockets /\ mine \subseteq made
  /\ phase \in [Sockets -> Phases]
  /\ step \in [Sockets -> {"none", "ticket", "timer"}]
  /\ link \in [Sockets -> {"none", "dialing", "open", "adrift"}]
  /\ manual \in [Sockets -> BOOLEAN] /\ destroyed \in [Sockets -> BOOLEAN]
  /\ attempts \in [Sockets -> 0 .. MaxReconnectAttempts]
  /\ instance \in BOOLEAN /\ mounted \in BOOLEAN
  /\ stored \in made \cup {None} /\ ref \in made \cup {None}
  /\ storedServer \in Servers \cup {None} /\ refServer \in Servers \cup {None}
  /\ target \in Servers \cup {None}

To(f, o, value) == f' = [f EXCEPT ![o] = value]

-----------------------------------------------------------------------------
(* An object of its own. *)

\* disconnect() closes a socket that is open.  One that is dialing only loses
\* its handlers: it may still open and the server start its SSH session, but
\* the page no longer hears of it and cannot close it.
LetGo(o) == IF link[o] \in {"dialing", "adrift"} THEN "adrift" ELSE "none"

\* disconnect() of the objects in dead: what an await or a timer holds goes on.
Disconnect(dead) ==
  /\ phase' = [o \in Sockets |-> IF o \in dead THEN "closed" ELSE phase[o]]
  /\ link' = [o \in Sockets |-> IF o \in dead THEN LetGo(o) ELSE link[o]]
  /\ manual' = [o \in Sockets |-> manual[o] \/ o \in dead]
  /\ destroyed' = [o \in Sockets |-> destroyed[o] \/ o \in dead]
  /\ UNCHANGED <<step, attempts, made>>

\* disconnect() of the objects in dead, then new TerminalWebSocket and its
\* connect() as far as the ticket.
Replace(dead, o) ==
  /\ o \in Sockets \ made /\ made' = made \cup {o}
  /\ phase' = [p \in Sockets |-> IF p = o THEN "ticket"
                                 ELSE IF p \in dead THEN "closed" ELSE phase[p]]
  /\ step' = [step EXCEPT ![o] = "ticket"]
  /\ link' = [p \in Sockets |-> IF p \in dead THEN LetGo(p) ELSE link[p]]
  /\ manual' = [p \in Sockets |-> manual[p] \/ p \in dead]
  /\ destroyed' = [p \in Sockets |-> destroyed[p] \/ p \in dead]
  /\ UNCHANGED attempts

\* The hook's onDisconnected: its own refs and the store forget the object, if
\* they still hold it.
OnDisconnected(o) ==
  /\ IF ref = o /\ o \in mine THEN ref' = None /\ refServer' = None
                              ELSE UNCHANGED <<ref, refServer>>
  /\ stored' = IF stored = o THEN None ELSE stored
  /\ UNCHANGED <<instance, storedServer, mounted, target, mine>>

\* Mutant of TicketAnswered: it dials without a look at isDestroyed.
MutantTicketAnswered(o) ==
  /\ step[o] = "ticket" /\ To(step, o, "none")
  /\ To(phase, o, "ws_connecting") /\ To(link, o, "dialing")
  /\ UNCHANGED <<made, manual, destroyed, attempts, entry, hook>>

TicketAnswered(o) ==
  /\ step[o] = "ticket" /\ To(step, o, "none")
  /\ IF destroyed[o] THEN UNCHANGED <<phase, link>>
     ELSE To(phase, o, "ws_connecting") /\ To(link, o, "dialing")
  /\ UNCHANGED <<made, manual, destroyed, attempts, entry, hook>>

\* The catch of connectInternal, which does not ask whether the object is
\* destroyed: the tab is told all the same.
TicketFails(o) ==
  /\ step[o] = "ticket" /\ To(step, o, "none")
  /\ To(phase, o, "failed")
  /\ OnDisconnected(o)
  /\ UNCHANGED <<made, link, manual, destroyed, attempts>>

\* The reconnect timer, which nothing clears, calls connect().
TimerDials(o) ==
  /\ step[o] = "timer"
  /\ IF destroyed[o] THEN To(step, o, "none") /\ UNCHANGED phase
                     ELSE To(step, o, "ticket") /\ To(phase, o, "ticket")
  /\ UNCHANGED <<made, link, manual, destroyed, attempts, entry, hook>>

Opened(o) ==
  /\ link[o] = "dialing" /\ To(link, o, "open")
  /\ To(attempts, o, 0)
  /\ To(phase, o, "ssh_connecting")
  /\ UNCHANGED <<made, step, manual, destroyed, entry, hook>>

\* shouldReconnect; a close with code 1000 or 1001 is clean.
ShouldReconnect(o, clean) ==
  /\ ~manual[o] /\ ~destroyed[o] /\ attempts[o] < MaxReconnectAttempts
  /\ ~clean /\ phase[o] # "failed"

\* Mutant of Redial: the attempt is not counted.
MutantRedial(o) ==
  /\ To(phase, o, "reconnecting") /\ To(step, o, "timer")
  /\ UNCHANGED <<attempts, entry, hook>>

\* The attempt is counted and the timer started.
Redial(o) ==
  /\ To(attempts, o, attempts[o] + 1)
  /\ To(phase, o, "reconnecting") /\ To(step, o, "timer")
  /\ UNCHANGED <<entry, hook>>

\* The end, in phase "failed" if an error is on record.
GiveOver(o) ==
  /\ \E end \in {"failed", "closed"} :
       To(phase, o, IF phase[o] = "failed" THEN "failed" ELSE end)
  /\ OnDisconnected(o)
  /\ UNCHANGED <<attempts, step>>

\* The socket has the handlers of its object.
Heard(o) == link[o] \in {"dialing", "open"}

\* onclose.
Closed(o, clean) ==
  /\ Heard(o) /\ To(link, o, "none")
  /\ IF ShouldReconnect(o, clean) THEN Redial(o) ELSE GiveOver(o)
  /\ UNCHANGED <<made, manual, destroyed>>

\* A socket adrift fails to open, or its server or the browser ends it.
AdriftEnds(o) ==
  /\ link[o] = "adrift" /\ To(link, o, "none")
  /\ UNCHANGED <<made, phase, step, manual, destroyed, attempts, entry, hook>>

Asks(o) == link[o] = "open" /\ phase[o] \in {"ssh_connecting", "authenticating"}

\* "auth_prompt" or "host_key_prompt".
Prompted(o) ==
  /\ Asks(o) /\ To(phase, o, "authenticating")
  /\ UNCHANGED <<made, step, link, manual, destroyed, attempts, entry, hook>>

\* "connected".
Connected(o) ==
  /\ Asks(o) /\ To(phase, o, "ready")
  /\ UNCHANGED <<made, step, link, manual, destroyed, attempts, entry, hook>>

\* "error" with one of the codes after which the object does not dial again.
FatalError(o) ==
  /\ Asks(o) /\ To(phase, o, "failed") /\ To(manual, o, TRUE)
  /\ UNCHANGED <<made, step, link, destroyed, attempts, entry, hook>>

\* "closed": the server ends the session.
ServerCloses(o) ==
  /\ link[o] = "open"
  /\ Disconnect({o})
  /\ OnDisconnected(o)

-----------------------------------------------------------------------------
(* The hook and the store. *)

\* getCurrentSessionWs with refs r and rs.
Current(r, rs, server) ==
  IF r # None /\ rs = server THEN r ELSE IF storedServer = server THEN stored ELSE None

Some(o) == {o} \ {None}

\* No server to connect to: the connection there is goes.
Release(r) ==
  /\ Disconnect(Some(IF r # None THEN r ELSE stored))
  /\ ref' = None /\ refServer' = None /\ stored' = None
  /\ UNCHANGED storedServer

\* The connection there is serves: the hook adopts it.
Adopt(o, server) ==
  /\ ref' = o /\ refServer' = server
  /\ UNCHANGED <<made, object, stored, storedServer>>

\* Mutant of Renew: the connection to the other server is left as it is.
MutantRenew(r, server, o) ==
  /\ Replace({}, o)
  /\ ref' = o /\ refServer' = server
  /\ stored' = o /\ storedServer' = server

\* A new connection, after a disconnect() of the one the refs still hold.
Renew(r, server, o) ==
  /\ Replace(Some(r), o)
  /\ ref' = o /\ refServer' = server
  /\ stored' = o /\ storedServer' = server

\* The hook's effect for a server, with the refs r and rs that the render left
\* and the objects of this mount.
Effect(server, r, rs, objects) ==
  LET current == Current(r, rs, server) IN
  \/ server = None /\ Release(r) /\ mine' = objects
  \/ /\ server # None /\ current # None /\ storedServer = server
     /\ Adopt(current, server) /\ mine' = objects
  \/ /\ server # None /\ (current = None \/ storedServer # server)
     /\ \E o \in Sockets : Renew(r, server, o) /\ mine' = objects \cup {o}

\* The tab is turned to a server (a new tab before it is mounted) or, with None,
\* to no connection.  Without its terminal instance the effect waits for it.
SetTarget(server) ==
  /\ server # target /\ target' = server
  /\ IF mounted /\ (instance \/ server = None)
       THEN Effect(server, ref, refServer, mine)
       ELSE ~instance /\ UNCHANGED <<made, object, stored, storedServer, ref, refServer, mine>>
  /\ UNCHANGED <<instance, mounted>>

\* The terminal instance is there: the effect runs with it.
TerminalReady ==
  /\ mounted /\ ~instance /\ instance' = TRUE
  /\ Effect(target, ref, refServer, mine)
  /\ UNCHANGED <<mounted, target>>

\* The component comes (back): the render takes over the store's connection,
\* and the effect runs if the terminal instance is there.
Mount ==
  /\ ~mounted /\ mounted' = TRUE
  /\ IF instance
       THEN Effect(target, IF storedServer = target THEN stored ELSE None, storedServer, {})
       ELSE UNCHANGED <<made, object, stored, storedServer, ref, refServer, mine>>
  /\ UNCHANGED <<instance, target>>

\* The component goes; the connection stays.
Unmount ==
  /\ mounted /\ mounted' = FALSE
  /\ ref' = None /\ refServer' = None /\ mine' = {}
  /\ UNCHANGED <<made, object, entry, target>>

\* destroySession and resetAll: the tab is closed, or the user logs out.
DestroySession ==
  /\ instance /\ instance' = FALSE
  /\ Disconnect(Some(stored))
  /\ stored' = None /\ storedServer' = None
  /\ UNCHANGED hook

\* The user cancels the authentication: destroySession, and the tab goes back
\* to the configuration.
CancelAuth(o) ==
  /\ mounted /\ o \in mine /\ link[o] = "open" /\ phase[o] = "authenticating"
  /\ Disconnect(Some(stored) \cup {o})
  /\ instance' = FALSE /\ stored' = None /\ storedServer' = None
  /\ target' = None /\ ref' = None /\ refServer' = None
  /\ UNCHANGED <<mounted, mine>>

-----------------------------------------------------------------------------
ObjectStep(o) ==
  \/ TicketAnswered(o) \/ TicketFails(o) \/ TimerDials(o)
  \/ Opened(o) \/ (\E clean \in BOOLEAN : Closed(o, clean)) \/ AdriftEnds(o)
  \/ Prompted(o) \/ Connected(o) \/ FatalError(o) \/ ServerCloses(o)
  \/ CancelAuth(o)

TermNext ==
  \/ \E o \in Sockets : ObjectStep(o)
  \/ \E server \in Servers \cup {None} : SetTarget(server)
  \/ TerminalReady \/ Mount \/ Unmount \/ DestroySession

TermSpec == TermInit /\ [][TermNext]_termVars

\* What the server says of the SSH connection once the socket is open.
Verdict(o) == Prompted(o) \/ Connected(o) \/ FatalError(o) \/ ServerCloses(o)

\* Tickets and dials are answered or fail, timers run out, and a socket whose
\* object has failed is closed.  A server that is reached time and again says
\* at some time how its SSH connection went: the network does not cut off
\* every socket before that.
TermFairness ==
  \A o \in Sockets :
    /\ WF_termVars(TicketAnswered(o) \/ TicketFails(o))
    /\ WF_termVars(TimerDials(o))
    /\ WF_termVars(link[o] = "dialing" /\ (Opened(o) \/ Closed(o, FALSE)))
    /\ WF_termVars(phase[o] = "failed" /\ \E clean \in BOOLEAN : Closed(o, clean))
    /\ SF_termVars(Verdict(o))

-----------------------------------------------------------------------------
\* The object hears from its server, or is going to dial it.
Lives(o) == Heard(o) \/ (~destroyed[o] /\ step[o] # "none")

\* The connection that lives is the one the store holds for the tab, and the
\* one it holds lives: no object goes on dialing and reporting behind the tab
\* that is turned to another server (useWebSocketConnection.ts:336), closed or
\* mounted again, and no tab is left with a connection that is over.  (A bare
\* socket may be left adrift: see LetGo.)
StoredLives == \A o \in Sockets : Lives(o) <=> stored = o

\* An object that is destroyed never dials again, whether its ticket, its
\* timer or nothing is still under way (websocket-terminal.ts:240).
DestroyedStaysOff ==
  [][\A o \in Sockets : destroyed[o] => destroyed'[o] /\ link'[o] \notin {"dialing", "open"}]_termVars

\* The tab's connection does not stay on its way: it gets ready, asks the user
\* or is given up, after at most MaxReconnectAttempts dials in a row that fail.
ConnectingEnds ==
  \A o \in Sockets :
    stored = o /\ phase[o] \in Pending \cup {"failed"}
      ~> stored # o \/ phase[o] \in {"ready", "authenticating"}
=============================================================================
