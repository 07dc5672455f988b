---------------------------- MODULE MonitorSocket ----------------------------
(***************************************************************************)
(* The monitoring connections of the web client: the store that shares one *)
(* connection per server among the tabs (stores/monitor-store.ts) and the  *)
(* hook of each tab that subscribes, dials and dials again                 *)
(* (components/terminal/monitor/hooks/useMonitorWebSocket.ts).             *)
(*                                                                         *)
(* A tab watches a server while its terminal is ready.  The first to watch *)
(* dials, and when the last has left a timer closes the connection.        *)
(* Tickets, dials and reconnect timers go on, whoever watches.             *)
(*                                                                         *)
(* A step is what runs from one await, timer or event of the page to the   *)
(* next.  The tickets, the network and the server are external.            *)
(***************************************************************************)
EXTENDS Integers, FiniteSets

CONSTANTS
  Hooks,          \* the tabs' calls of useMonitorWebSocket
  Hosts,          \* the servers
  Turns,          \* which hook may watch which host (a bound)
  Wires,          \* the attempts to connect that are under way at once (a bound)
  Nobody,         \* no host, no hook, no wire
  MaxReconnects,  \* maxReconnectAttempts
  MaxSweeps       \* timers of destroyConnection set at once for a host (a bound)

ASSUME MonitorAssumption ==
  /\ IsFiniteSet(Hooks) /\ Turns \subseteq Hooks \X Hosts
  /\ Nobody \notin Hooks /\ Nobody \notin Hosts /\ Nobody \notin Wires
  /\ MaxReconnects \in Nat /\ MaxSweeps \in Nat

VARIABLES
  serverId,          \* the hook's serverId, Nobody unless enabled
  wsRef,             \* its wsRef
  reconnectAttempts, \* its count
  wire,              \* an attempt: "ticket" (awaited), "dialing", "open",
                     \* "closing" or "aborting" (closed by the page when open,
                     \* when dialing), "timer" (to dial again), "none"
  by, host,          \* the hook and the server it is for
  connections,       \* the store: the wire of a host
  refCount,          \* the store: how many watch a host
  sweeps,            \* timers set to call destroyConnection
  gaveUp,            \* history: the last attempt for a watched host failed
  strays             \* history: wires nobody is going to close

hooks == <<serverId, wsRef, reconnectAttempts>>
wires == <<wire, by, host>>
store == <<connections, refCount, sweeps>>
history == <<gaveUp, strays>>
monitorVars == <<hooks, wires, store, history>>

\* readyState CONNECTING or OPEN.
Live(w) == w # Nobody /\ wire[w] \in {"dialing", "open"}
Watched(s) == \E h \in Hooks : serverId[h] = s

MonitorInit ==
  /\ serverId = [h \in Hooks |-> Nobody] /\ wsRef = [h \in Hooks |-> Nobody]
  /\ reconnectAttempts = [h \in Hooks |-> 0]
  /\ wire = [w \in Wires |-> "none"]
  /\ by = [w \in Wires |-> Nobody] /\ host = [w \in Wires |-> Nobody]
  /\ connections = [s \in Hosts |-> Nobody]
  /\ refCount = [s \in Hosts |-> 0] /\ sweeps = [s \in Hosts |-> 0]
  /\ gaveUp = [s \in Hosts |-> FALSE] /\ strays = {}

MonitorTypeOK ==
  /\ serverId \in [Hooks -> Hosts \cup {Nobody}]
  /\ wsRef \in [Hooks -> Wires \cup {Nobody}]
  /\ reconnectAttempts \in [Hooks -> 0 .. MaxReconnects]
  /\ wire \in [Wires -> {"none", "ticket", "dialing", "open", "closing",
                         "aborting", "timer"}]
  /\ by \in [Wires -> Hooks \cup {Nobody}]
  /\ host \in [Wires -> Hosts \cup {Nobody}]
  /\ \A w \in Wires : wire[w] # "none" => by[w] # Nobody /\ host[w] # Nobody
  /\ connections \in [Hosts -> Wires \cup {Nobody}]
  /\ refCount \in [Hosts -> Nat] /\ sweeps \in [Hosts -> 0 .. MaxSweeps]
  /\ gaveUp \in [Hosts -> BOOLEAN] /\ strays \subseteq Wires

-----------------------------------------------------------------------------
(* The attempts. *)

\* Mutant of HasWire: what the store has is not asked whether it is live.
MutantHasWire(h, s) == connections[s] # Nobody \/ Live(wsRef[h])

\* connect() returns: the store, or the hook itself, has a live connection.
HasWire(h, s) == Live(connections[s]) \/ Live(wsRef[h])

\* It returns for the hook's own live connection, though the store has none.
Bound(h, s) == Live(wsRef[h]) /\ ~Live(connections[s])

\* connect() as far as the ticket.
Ask(h, s, w) ==
  /\ wire' = [wire EXCEPT ![w] = "ticket"]
  /\ by' = [by EXCEPT ![w] = h] /\ host' = [host EXCEPT ![w] = s]

\* The end of a wire: what still refers to it, dead, may as well refer to none.
Gone(w) ==
  /\ wire' = [wire EXCEPT ![w] = "none"]
  /\ by' = [by EXCEPT ![w] = Nobody] /\ host' = [host EXCEPT ![w] = Nobody]
  /\ wsRef' = [h \in Hooks |-> IF wsRef[h] = w THEN Nobody ELSE wsRef[h]]
  /\ connections' =
       [s \in Hosts |-> IF connections[s] = w THEN Nobody ELSE connections[s]]

GiveUp(s, failed) ==
  gaveUp' = [gaveUp EXCEPT ![s] = @ \/ (failed /\ refCount[s] > 0)]

\* onclose: it dials again, but for a close with code 1000, as often as
\* allowed.  The enabled it asks is that of the call which made the wire.
Dropped(w, clean) ==
  IF ~clean /\ reconnectAttempts[by[w]] < MaxReconnects
  THEN /\ wire' = [wire EXCEPT ![w] = "timer"]
       /\ reconnectAttempts' = [reconnectAttempts EXCEPT ![by[w]] = @ + 1]
       /\ UNCHANGED <<by, host, wsRef, connections, gaveUp>>
  ELSE /\ Gone(w)
       /\ GiveUp(host[w], ~clean)
       /\ UNCHANGED reconnectAttempts

\* The ticket: new WebSocket, which the hook and the store then hold, whatever
\* they held before and whether or not somebody watches.
TicketTaken(w) ==
  LET s == host[w] IN
  /\ wire[w] = "ticket" /\ wire' = [wire EXCEPT ![w] = "dialing"]
  /\ wsRef' = [wsRef EXCEPT ![by[w]] = w]
  /\ connections' = [connections EXCEPT ![s] = w]
  /\ strays' = strays \cup {v \in Wires : v = connections[s] /\ Live(v)}
                      \cup {v \in {w} : refCount[s] = 0 /\ sweeps[s] = 0}
  /\ UNCHANGED <<serverId, reconnectAttempts, by, host, refCount, sweeps, gaveUp>>

\* The catch of connect(): nothing dials again.
TicketRefused(w) ==
  /\ wire[w] = "ticket" /\ Gone(w)
  /\ GiveUp(host[w], TRUE)
  /\ UNCHANGED <<serverId, reconnectAttempts, refCount, sweeps, strays>>

WireOpens(w) ==
  /\ wire[w] = "dialing" /\ wire' = [wire EXCEPT ![w] = "open"]
  /\ reconnectAttempts' = [reconnectAttempts EXCEPT ![by[w]] = 0]
  /\ UNCHANGED <<serverId, wsRef, by, host, store, history>>

\* The server or the network ends it, never with code 1000 (api/ws/monitor.go).
WireDrops(w) ==
  /\ Live(w) /\ Dropped(w, FALSE)
  /\ strays' = strays \ {w}
  /\ UNCHANGED <<serverId, refCount, sweeps>>

\* The end of a close by the page.  One that was dialing ends with code 1006.
CloseEnds(w, clean) ==
  /\ wire[w] \in {"closing", "aborting"} /\ (wire[w] = "aborting" => ~clean)
  /\ Dropped(w, clean)
  /\ UNCHANGED <<serverId, refCount, sweeps, strays>>

\* The reconnect timer, which nothing clears, calls the connect() of the time
\* when it was set.
Redials(w) ==
  /\ wire[w] = "timer"
  /\ IF HasWire(by[w], host[w])
     THEN Gone(w) /\ GiveUp(host[w], Bound(by[w], host[w]))
     ELSE /\ Ask(by[w], host[w], w)
          /\ gaveUp' = [gaveUp EXCEPT ![host[w]] = FALSE]
          /\ UNCHANGED <<wsRef, connections>>
  /\ UNCHANGED <<serverId, reconnectAttempts, refCount, sweeps, strays>>

-----------------------------------------------------------------------------
(* The tabs and the store. *)

\* The terminal of the tab is ready: the effects subscribe and connect.
Watch(h, s) ==
  /\ serverId[h] = Nobody /\ <<h, s>> \in Turns
  /\ serverId' = [serverId EXCEPT ![h] = s]
  /\ refCount' = [refCount EXCEPT ![s] = @ + 1]
  /\ IF HasWire(h, s) THEN UNCHANGED wires
     ELSE \E w \in Wires : wire[w] = "none" /\ Ask(h, s, w)
  /\ gaveUp' = [gaveUp EXCEPT ![s] = Bound(h, s)]
  /\ strays' = strays \ {connections[s]}
  /\ UNCHANGED <<wsRef, reconnectAttempts, connections, sweeps>>

\* The terminal is cut off, or the tab closed: unsubscribe.  What the hook has
\* under way goes on.
Leave(h) ==
  LET s == serverId[h] IN
  /\ s # Nobody /\ sweeps[s] < MaxSweeps
  /\ serverId' = [serverId EXCEPT ![h] = Nobody]
  /\ refCount' = [refCount EXCEPT ![s] = @ - 1]
  /\ sweeps' = [sweeps EXCEPT ![s] = IF refCount[s] = 1 THEN @ + 1 ELSE @]
  /\ gaveUp' = [gaveUp EXCEPT ![s] = @ /\ refCount[s] > 1]
  /\ UNCHANGED <<wsRef, reconnectAttempts, wires, connections, strays>>

\* What destroyConnection does to the host's wire, if in one of the states.
Destroy(s, states) ==
  LET w == connections[s] IN
  /\ wire' = [v \in Wires |->
                IF v # w \/ wire[v] \notin states THEN wire[v]
                ELSE IF wire[v] = "open" THEN "closing" ELSE "aborting"]
  /\ strays' = strays \ {w}
  /\ connections' = [connections EXCEPT ![s] = Nobody]

\* Mutant of DestroyConnection: it closes no socket that is still dialing.
MutantDestroyConnection(s) ==
  /\ sweeps[s] > 0 /\ sweeps' = [sweeps EXCEPT ![s] = @ - 1]
  /\ IF refCount[s] > 0 THEN UNCHANGED <<wire, connections, strays>>
                        ELSE Destroy(s, {"open"})
  /\ UNCHANGED <<hooks, by, host, refCount, gaveUp>>

\* destroyConnection: nothing while somebody watches.
DestroyConnection(s) ==
  /\ sweeps[s] > 0 /\ sweeps' = [sweeps EXCEPT ![s] = @ - 1]
  /\ IF refCount[s] > 0 THEN UNCHANGED <<wire, connections, strays>>
                        ELSE Destroy(s, {"dialing", "open"})
  /\ UNCHANGED <<hooks, by, host, refCount, gaveUp>>

-----------------------------------------------------------------------------
TicketEnds(w) == TicketTaken(w) \/ TicketRefused(w)
WireStep(w) ==
  \/ TicketEnds(w) \/ WireOpens(w) \/ WireDrops(w) \/ Redials(w)
  \/ \E clean \in BOOLEAN : CloseEnds(w, clean)

MonitorNext ==
  \/ \E w \in Wires : WireStep(w)
  \/ \E h \in Hooks, s \in Hosts : Watch(h, s)
  \/ \E h \in Hooks : Leave(h)
  \/ \E s \in Hosts : DestroyConnection(s)

MonitorSpec == MonitorInit /\ [][MonitorNext]_monitorVars

\* Requests for a ticket are answered or fail, and the reconnect timers fire.
\* Users, servers and the network need do nothing.
MonitorFairness ==
  \A w \in Wires : WF_monitorVars(TicketEnds(w)) /\ WF_monitorVars(Redials(w))

-----------------------------------------------------------------------------
\* A live connection is the one in the store, and somebody watches or a timer
\* is going to close it.  The only other ones were dialed when everybody had
\* left, or have been replaced in the store by the dial of another hook
\* (monitor-store.ts:236-283, useMonitorWebSocket.ts:392-440).
WiresHaveOwners ==
  \A w \in Wires :
    Live(w) /\ w \notin strays =>
      /\ connections[host[w]] = w
      /\ Watched(host[w]) \/ sweeps[host[w]] > 0

\* A host that is watched gets a connection, and another when it is cut off,
\* though the timer set when nobody watched comes late, and unless an attempt
\* came to nothing for good: the ticket was refused, the reconnects were used
\* up, or the hook had a live connection of its own to another host
\* (monitor-store.ts:303, useMonitorWebSocket.ts:404, 664).
WatchedGetsWire ==
  \A s \in Hosts :
    Watched(s) ~> Live(connections[s]) \/ ~Watched(s) \/ gaveUp[s]
=============================================================================
