---------------------------- MODULE MCWebClient ----------------------------
(***************************************************************************)
(* One page of the web client for TLC: its login session, one of its       *)
(* terminal tabs, or the monitoring of two tabs.  They share no variable,  *)
(* so a behaviour shows one of them, the scene, while the others stay as   *)
(* they began.                                                             *)
(***************************************************************************)
EXTENDS WebSession, TerminalSocket, MonitorSocket

CONSTANTS r1, l1, o1, x1, t1, t2, s1, s2, h1, h2, m1, m2, w1, w2

\* The second tab stays with one host.
TwoTabs == {<<h1, m1>>, <<h1, m2>>, <<h2, m1>>}

VARIABLE scene

clientVars == <<sessionVars, termVars, monitorVars, scene>>

Init ==
  /\ SessionInit /\ TermInit /\ MonitorInit
  /\ scene \in {"session", "terminal", "monitor"}
  /\ scene # "session" => ~idleMark /\ \E l \in Loads : load[l] = "status"

InSession == scene = "session" /\ UNCHANGED <<termVars, monitorVars, scene>>
InTerminal == scene = "terminal" /\ UNCHANGED <<sessionVars, monitorVars, scene>>
InMonitor == scene = "monitor" /\ UNCHANGED <<sessionVars, termVars, scene>>

\* SessionNext, TermNext and MonitorNext, one action a disjunct.
Next ==
  \/ RefreshSucceeds /\ InSession
  \/ RefreshRefused /\ InSession
  \/ RefreshFails /\ InSession
  \/ \E r \in Requests : Request(r) /\ InSession
  \/ \E r \in Requests : Answered(r) /\ InSession
  \/ \E r \in Requests : Unauthorized(r) /\ InSession
  \/ \E r \in Requests : Ejected(r) /\ InSession
  \/ \E l \in Loads : StartLoad(l) /\ InSession
  \/ \E l \in Loads : StatusIdle(l) /\ InSession
  \/ \E l \in Loads : StatusKnown(l) /\ InSession
  \/ \E l \in Loads : StatusRestores(l) /\ InSession
  \/ \E l \in Loads : StatusAgain(l) /\ InSession
  \/ \E l \in Loads : LoadFails(l) /\ InSession
  \/ Login /\ InSession
  \/ \E o \in Logouts : Logout(o) /\ InSession
  \/ \E o \in Logouts : LogoutDone(o) /\ InSession
  \/ TimerFires /\ InSession
  \/ \E o \in Expiries : IdleTimeout(o) /\ InSession
  \/ \E o \in Expiries : StorageEvent(o) /\ InSession
  \/ \E o \in Expiries : RunEffects(o) /\ InSession
  \/ \E o \in Expiries : ExpiryDone(o) /\ InSession
  \/ OtherTabExpires /\ InSession
  \/ OtherTabBegins /\ InSession
  \/ Reload /\ InSession
  \/ \E o \in Sockets : TicketAnswered(o) /\ InTerminal
  \/ \E o \in Sockets : TicketFails(o) /\ InTerminal
  \/ \E o \in Sockets : TimerDials(o) /\ InTerminal
  \/ \E o \in Sockets : Opened(o) /\ InTerminal
  \/ \E o \in Sockets, clean \in BOOLEAN : Closed(o, clean) /\ InTerminal
  \/ \E o \in Sockets : AdriftEnds(o) /\ InTerminal
  \/ \E o \in Sockets : Prompted(o) /\ InTerminal
  \/ \E o \in Sockets : Connected(o) /\ InTerminal
  \/ \E o \in Sockets : FatalError(o) /\ InTerminal
  \/ \E o \in Sockets : ServerCloses(o) /\ InTerminal
  \/ \E o \in Sockets : CancelAuth(o) /\ InTerminal
  \/ \E server \in Servers \cup {None} : SetTarget(server) /\ InTerminal
  \/ TerminalReady /\ InTerminal
  \/ Mount /\ InTerminal
  \/ Unmount /\ InTerminal
  \/ DestroySession /\ InTerminal
  \/ \E w \in Wires : TicketTaken(w) /\ InMonitor
  \/ \E w \in Wires : TicketRefused(w) /\ InMonitor
  \/ \E w \in Wires : WireOpens(w) /\ InMonitor
  \/ \E w \in Wires : WireDrops(w) /\ InMonitor
  \/ \E w \in Wires, clean \in BOOLEAN : CloseEnds(w, clean) /\ InMonitor
  \/ \E w \in Wires : Redials(w) /\ InMonitor
  \/ \E h \in Hooks, s \in Hosts : Watch(h, s) /\ InMonitor
  \/ \E h \in Hooks : Leave(h) /\ InMonitor
  \/ \E s \in Hosts : DestroyConnection(s) /\ InMonitor

FairSpec ==
  /\ Init /\ [][Next]_clientVars
  /\ \/ scene = "session" /\ SessionFairness
     \/ scene = "terminal" /\ TermFairness
     \/ scene = "monitor" /\ MonitorFairness
=============================================================================
