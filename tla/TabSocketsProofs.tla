-------------------------- MODULE TabSocketsProofs --------------------------
(***************************************************************************)
(* Proofs about the WebSockets of a terminal tab: its terminal's           *)
(* (TerminalSocket), for any number of objects, servers and attempts to    *)
(* connect again, and its monitoring's (MonitorSocket), for any finite     *)
(* number of tabs and any number of servers, attempts and reconnects.      *)
(*                                                                         *)
(* StoredLives is not inductive: the effect of the hook disconnects the    *)
(* connection its refs hold, while it is the store's that must not be left *)
(* behind.  StoredIsTurnedTo closes the gap: as long as the store has a    *)
(* connection, the tab is turned to its server and a mounted component's   *)
(* refs hold that very connection.  Shapely says that an object has either *)
(* an await or a timer or a socket with handlers, and none of these once   *)
(* it is destroyed, up to an await or a timer that will find it so.        *)
(*                                                                         *)
(* WiresHaveOwners is inductive together with what the monitor store's     *)
(* numbers mean.  Counted: a host's count is the number of those that      *)
(* watch it.  HostsAgree: what the store has for a host was made for that  *)
(* host, and is still in use.                                              *)
(***************************************************************************)
EXTENDS TerminalSocket, MonitorSocket, FiniteSetTheorems, TLAPS

-----------------------------------------------------------------------------
(* The terminal: its invariant. *)

\* What holds of each object by itself.
Shapely ==
  \A o \in Sockets :
    /\ o \notin made => step[o] = "none" /\ link[o] = "none" /\ ~destroyed[o]
    /\ destroyed[o] => ~Heard(o)
    /\ step[o] # "none" => ~Heard(o)

\* The tab, its store and a mounted hook agree on the connection.
StoredIsTurnedTo ==
  stored # None =>
    /\ instance /\ target # None /\ storedServer = target
    /\ mounted => ref = stored /\ refServer = target

\* The inductive invariant.
TermInv == TermTypeOK /\ Shapely /\ StoredLives /\ StoredIsTurnedTo

-----------------------------------------------------------------------------
(* The terminal: the actions, one lemma each. *)

LEMMA TicketAnsweredKeepsInv ==
  ASSUME TermInv, NEW o \in Sockets, TicketAnswered(o)
  PROVE  TermInv'
<1>1. TermTypeOK'
  BY TerminalAssumption DEF TermInv, TermTypeOK, Phases, Pending, Shapely,
      Heard, TicketAnswered, To, object, entry, hook
<1>2. Shapely'
  BY TerminalAssumption DEF TermInv, TermTypeOK, Shapely, Heard,
      TicketAnswered, To, object, entry, hook
<1>3. StoredLives'
  BY TerminalAssumption DEF TermInv, TermTypeOK, Shapely, Heard, StoredLives,
      Lives, TicketAnswered, To, object, entry, hook
<1>4. StoredIsTurnedTo'
  BY TerminalAssumption DEF TermInv, TermTypeOK, StoredIsTurnedTo,
      TicketAnswered, To, object, entry, hook
<1> QED BY <1>1, <1>2, <1>3, <1>4 DEF TermInv

LEMMA TicketFailsKeepsInv ==
  ASSUME TermInv, NEW o \in Sockets, TicketFails(o)
  PROVE  TermInv'
<1>1. TermTypeOK'
  BY TerminalAssumption DEF TermInv, TermTypeOK, Phases, Pending, Shapely,
      Heard, TicketFails, OnDisconnected, To, object, entry, hook
<1>2. Shapely'
  BY TerminalAssumption DEF TermInv, TermTypeOK, Shapely, Heard, TicketFails,
      OnDisconnected, To, object, entry, hook
<1>3. StoredLives'
  BY TerminalAssumption DEF TermInv, TermTypeOK, Shapely, Heard, StoredLives,
      Lives, TicketFails, OnDisconnected, To, object, entry, hook
<1>4. StoredIsTurnedTo'
  BY TerminalAssumption DEF TermInv, TermTypeOK, StoredIsTurnedTo,
      TicketFails, OnDisconnected, To, object, entry, hook
<1> QED BY <1>1, <1>2, <1>3, <1>4 DEF TermInv

LEMMA TimerDialsKeepsInv ==
  ASSUME TermInv, NEW o \in Sockets, TimerDials(o)
  PROVE  TermInv'
<1>1. TermTypeOK'
  BY TerminalAssumption DEF TermInv, TermTypeOK, Phases, Pending, Shapely,
      Heard, TimerDials, To, object, entry, hook
<1>2. Shapely'
  BY TerminalAssumption DEF TermInv, TermTypeOK, Shapely, Heard, TimerDials,
      To, object, entry, hook
<1>3. StoredLives'
  BY TerminalAssumption DEF TermInv, TermTypeOK, Shapely, Heard, StoredLives,
      Lives, TimerDials, To, object, entry, hook
<1>4. StoredIsTurnedTo'
  BY TerminalAssumption DEF TermInv, TermTypeOK, StoredIsTurnedTo, TimerDials,
      To, object, entry, hook
<1> QED BY <1>1, <1>2, <1>3, <1>4 DEF TermInv

LEMMA OpenedKeepsInv ==
  ASSUME TermInv, NEW o \in Sockets, Opened(o)
  PROVE  TermInv'
<1>1. TermTypeOK'
  BY TerminalAssumption DEF TermInv, TermTypeOK, Phases, Pending, Shapely,
      Heard, Opened, To, object, entry, hook
<1>2. Shapely'
  BY TerminalAssumption DEF TermInv, TermTypeOK, Shapely, Heard, Opened, To,
      object, entry, hook
<1>3. StoredLives'
  BY TerminalAssumption DEF TermInv, TermTypeOK, Shapely, Heard, StoredLives,
      Lives, Opened, To, object, entry, hook
<1>4. StoredIsTurnedTo'
  BY TerminalAssumption DEF TermInv, TermTypeOK, StoredIsTurnedTo, Opened, To,
      object, entry, hook
<1> QED BY <1>1, <1>2, <1>3, <1>4 DEF TermInv

LEMMA AdriftEndsKeepsInv ==
  ASSUME TermInv, NEW o \in Sockets, AdriftEnds(o)
  PROVE  TermInv'
<1>1. TermTypeOK'
  BY TerminalAssumption DEF TermInv, TermTypeOK, Phases, Pending, Shapely,
      Heard, AdriftEnds, To, object, entry, hook
<1>2. Shapely'
  BY TerminalAssumption DEF TermInv, TermTypeOK, Shapely, Heard, AdriftEnds,
      To, object, entry, hook
<1>3. StoredLives'
  BY TerminalAssumption DEF TermInv, TermTypeOK, Shapely, Heard, StoredLives,
      Lives, AdriftEnds, To, object, entry, hook
<1>4. StoredIsTurnedTo'
  BY TerminalAssumption DEF TermInv, TermTypeOK, StoredIsTurnedTo, AdriftEnds,
      To, object, entry, hook
<1> QED BY <1>1, <1>2, <1>3, <1>4 DEF TermInv

LEMMA PromptedKeepsInv ==
  ASSUME TermInv, NEW o \in Sockets, Prompted(o)
  PROVE  TermInv'
<1>1. TermTypeOK'
  BY TerminalAssumption DEF TermInv, TermTypeOK, Phases, Pending, Shapely,
      Heard, Prompted, Asks, To, object, entry, hook
<1>2. Shapely'
  BY TerminalAssumption DEF TermInv, TermTypeOK, Shapely, Heard, Prompted,
      Asks, To, object, entry, hook
<1>3. StoredLives'
  BY TerminalAssumption DEF TermInv, TermTypeOK, Shapely, Heard, StoredLives,
      Lives, Prompted, Asks, To, object, entry, hook
<1>4. StoredIsTurnedTo'
  BY TerminalAssumption DEF TermInv, TermTypeOK, StoredIsTurnedTo, Prompted,
      Asks, To, object, entry, hook
<1> QED BY <1>1, <1>2, <1>3, <1>4 DEF TermInv

LEMMA ConnectedKeepsInv ==
  ASSUME TermInv, NEW o \in Sockets, Connected(o)
  PROVE  TermInv'
<1>1. TermTypeOK'
  BY TerminalAssumption DEF TermInv, TermTypeOK, Phases, Pending, Shapely,
      Heard, Connected, Asks, To, object, entry, hook
<1>2. Shapely'
  BY TerminalAssumption DEF TermInv, TermTypeOK, Shapely, Heard, Connected,
      Asks, To, object, entry, hook
<1>3. StoredLives'
  BY TerminalAssumption DEF TermInv, TermTypeOK, Shapely, Heard, StoredLives,
      Lives, Connected, Asks, To, object, entry, hook
<1>4. StoredIsTurnedTo'
  BY TerminalAssumption DEF TermInv, TermTypeOK, StoredIsTurnedTo, Connected,
      Asks, To, object, entry, hook
<1> QED BY <1>1, <1>2, <1>3, <1>4 DEF TermInv

LEMMA FatalErrorKeepsInv ==
  ASSUME TermInv, NEW o \in Sockets, FatalError(o)
  PROVE  TermInv'
<1>1. TermTypeOK'
  BY TerminalAssumption DEF TermInv, TermTypeOK, Phases, Pending, Shapely,
      Heard, FatalError, Asks, To, object, entry, hook
<1>2. Shapely'
  BY TerminalAssumption DEF TermInv, TermTypeOK, Shapely, Heard, FatalError,
      Asks, To, object, entry, hook
<1>3. StoredLives'
  BY TerminalAssumption DEF TermInv, TermTypeOK, Shapely, Heard, StoredLives,
      Lives, FatalError, Asks, To, object, entry, hook
<1>4. StoredIsTurnedTo'
  BY TerminalAssumption DEF TermInv, TermTypeOK, StoredIsTurnedTo, FatalError,
      Asks, To, object, entry, hook
<1> QED BY <1>1, <1>2, <1>3, <1>4 DEF TermInv

LEMMA ServerClosesKeepsInv ==
  ASSUME TermInv, NEW o \in Sockets, ServerCloses(o)
  PROVE  TermInv'
<1>1. TermTypeOK'
  BY TerminalAssumption DEF TermInv, TermTypeOK, Phases, Pending, Shapely,
      Heard, ServerCloses, Disconnect, LetGo, OnDisconnected, object, entry,
      hook
<1>2. Shapely'
  BY TerminalAssumption DEF TermInv, TermTypeOK, Shapely, Heard, ServerCloses,
      Disconnect, LetGo, OnDisconnected, object, entry, hook
<1>3. StoredLives'
  BY TerminalAssumption DEF TermInv, TermTypeOK, Shapely, Heard, StoredLives,
      Lives, ServerCloses, Disconnect, LetGo, OnDisconnected, object, entry,
      hook
<1>4. StoredIsTurnedTo'
  BY TerminalAssumption DEF TermInv, TermTypeOK, StoredIsTurnedTo,
      ServerCloses, Disconnect, LetGo, OnDisconnected, object, entry, hook
<1> QED BY <1>1, <1>2, <1>3, <1>4 DEF TermInv

LEMMA CancelAuthKeepsInv ==
  ASSUME TermInv, NEW o \in Sockets, CancelAuth(o)
  PROVE  TermInv'
<1>1. TermTypeOK'
  BY TerminalAssumption DEF TermInv, TermTypeOK, Phases, Pending, Shapely,
      Heard, CancelAuth, Disconnect, LetGo, Some, object, entry, hook
<1>2. Shapely'
  BY TerminalAssumption DEF TermInv, TermTypeOK, Shapely, Heard, CancelAuth,
      Disconnect, LetGo, Some, object, entry, hook
<1>3. StoredLives'
  BY TerminalAssumption DEF TermInv, TermTypeOK, Shapely, Heard, StoredLives,
      Lives, CancelAuth, Disconnect, LetGo, Some, object, entry, hook
<1>4. StoredIsTurnedTo'
  BY TerminalAssumption DEF TermInv, TermTypeOK, StoredIsTurnedTo, CancelAuth,
      Disconnect, LetGo, Some, object, entry, hook
<1> QED BY <1>1, <1>2, <1>3, <1>4 DEF TermInv

LEMMA UnmountKeepsInv ==
  ASSUME TermInv, Unmount
  PROVE  TermInv'
<1>1. TermTypeOK'
  BY TerminalAssumption DEF TermInv, TermTypeOK, Phases, Pending, Shapely,
      Heard, Unmount, object, entry, hook
<1>2. Shapely'
  BY TerminalAssumption DEF TermInv, TermTypeOK, Shapely, Heard, Unmount,
      object, entry, hook
<1>3. StoredLives'
  BY TerminalAssumption DEF TermInv, TermTypeOK, Shapely, Heard, StoredLives,
      Lives, Unmount, object, entry, hook
<1>4. StoredIsTurnedTo'
  BY TerminalAssumption DEF TermInv, TermTypeOK, StoredIsTurnedTo, Unmount,
      object, entry, hook
<1> QED BY <1>1, <1>2, <1>3, <1>4 DEF TermInv

LEMMA DestroySessionKeepsInv ==
  ASSUME TermInv, DestroySession
  PROVE  TermInv'
<1>1. TermTypeOK'
  BY TerminalAssumption DEF TermInv, TermTypeOK, Phases, Pending, Shapely,
      Heard, DestroySession, Disconnect, LetGo, Some, object, entry, hook
<1>2. Shapely'
  BY TerminalAssumption DEF TermInv, TermTypeOK, Shapely, Heard,
      DestroySession, Disconnect, LetGo, Some, object, entry, hook
<1>3. StoredLives'
  BY TerminalAssumption DEF TermInv, TermTypeOK, Shapely, Heard, StoredLives,
      Lives, DestroySession, Disconnect, LetGo, Some, object, entry, hook
<1>4. StoredIsTurnedTo'
  BY TerminalAssumption DEF TermInv, TermTypeOK, StoredIsTurnedTo,
      DestroySession, Disconnect, LetGo, Some, object, entry, hook
<1> QED BY <1>1, <1>2, <1>3, <1>4 DEF TermInv

LEMMA ClosedKeepsInv ==
  ASSUME TermInv, NEW o \in Sockets, NEW clean \in BOOLEAN, Closed(o, clean)
  PROVE  TermInv'
<1> USE TerminalAssumption DEF TermInv, To
<1>1. CASE ShouldReconnect(o, clean)
  <2>1. Redial(o)
    BY <1>1 DEF Closed
  <2>2. TermTypeOK'
    BY <1>1, <2>1 DEF TermTypeOK, Phases, Pending, Heard, Closed, Redial,
       ShouldReconnect, entry, hook
  <2>3. Shapely'
    BY <1>1, <2>1 DEF TermTypeOK, Shapely, Heard, Closed, Redial,
       ShouldReconnect
  <2>4. StoredLives'
    BY <1>1, <2>1 DEF TermTypeOK, StoredLives, Lives, Heard, Closed, Redial,
       ShouldReconnect, entry
  <2>5. StoredIsTurnedTo'
    BY <2>1 DEF StoredIsTurnedTo, Redial, entry, hook
  <2> QED BY <2>2, <2>3, <2>4, <2>5
<1>2. CASE ~ShouldReconnect(o, clean)
  <2>1. GiveOver(o)
    BY <1>2 DEF Closed
  <2>2. TermTypeOK'
    BY <2>1 DEF TermTypeOK, Phases, Pending, Closed, GiveOver, OnDisconnected
  <2>3. Shapely'
    BY <2>1 DEF TermTypeOK, Shapely, Heard, Closed, GiveOver
  <2>4. StoredLives'
    BY <2>1 DEF TermTypeOK, Shapely, StoredLives, Lives, Heard, Closed,
       GiveOver, OnDisconnected
  <2>5. StoredIsTurnedTo'
    BY <2>1 DEF TermTypeOK, StoredIsTurnedTo, GiveOver, OnDisconnected
  <2> QED BY <2>2, <2>3, <2>4, <2>5
<1> QED BY <1>1, <1>2

-----------------------------------------------------------------------------
(* The effect of the hook. *)

\* The effect may run with the refs r and rs if they hold the connection that
\* the store has, and only for a terminal instance that is there.
LEMMA EffectKeepsInv ==
  ASSUME TermInv,
         NEW server \in Servers \cup {None},
         NEW r \in made \cup {None}, NEW rs \in Servers \cup {None},
         NEW objects, objects \subseteq made,
         stored # None => r = stored /\ rs = storedServer,
         Effect(server, r, rs, objects),
         target' = server, mounted' = TRUE,
         instance' \in BOOLEAN, server # None => instance'
  PROVE  TermInv'
<1> USE TerminalAssumption DEF TermInv
<1>1. CASE server = None /\ Release(r) /\ mine' = objects
  <2> USE <1>1 DEF Release, Disconnect, LetGo, Some
  <2>1. TermTypeOK'
    BY DEF TermTypeOK, Phases, Pending
  <2>2. Shapely'
    BY DEF TermTypeOK, Shapely, Heard
  <2>3. StoredLives'
    <3> SUFFICES ASSUME NEW p \in Sockets, Lives(p)' PROVE FALSE
      BY DEF StoredLives
    <3>1. Lives(p) /\ p \notin Some(IF r # None THEN r ELSE stored)
      BY DEF TermTypeOK, Lives, Heard
    <3>2. stored = p /\ r = p
      BY <3>1 DEF StoredLives
    <3> QED BY <3>1, <3>2
  <2>4. StoredIsTurnedTo'
    BY DEF StoredIsTurnedTo
  <2> QED BY <2>1, <2>2, <2>3, <2>4
<1>2. CASE \E o \in made : /\ server # None /\ storedServer = server
                           /\ Current(r, rs, server) = o
                           /\ Adopt(o, server) /\ mine' = objects
  <2>1. PICK o \in made : /\ server # None /\ storedServer = server
                          /\ Current(r, rs, server) = o
                          /\ Adopt(o, server) /\ mine' = objects
    BY <1>2
  <2> USE <2>1 DEF Adopt, object
  <2>2. TermTypeOK'
    BY DEF TermTypeOK
  <2>3. Shapely'
    BY DEF Shapely, Heard
  <2>4. StoredLives'
    BY DEF StoredLives, Lives, Heard
  <2>5. StoredIsTurnedTo'
    BY DEF TermTypeOK, StoredIsTurnedTo, Current
  <2> QED BY <2>2, <2>3, <2>4, <2>5
<1>3. CASE \E o \in Sockets : /\ server # None /\ Renew(r, server, o)
                              /\ mine' = objects \cup {o}
  <2>1. PICK o \in Sockets : /\ server # None /\ Renew(r, server, o)
                             /\ mine' = objects \cup {o}
    BY <1>3
  <2> USE <2>1 DEF Renew, Replace, LetGo, Some
  <2>2. TermTypeOK'
    BY DEF TermTypeOK, Phases, Pending
  <2>3. Shapely'
    BY DEF TermTypeOK, Shapely, Heard
  <2>4. StoredLives'
    <3> SUFFICES ASSUME NEW p \in Sockets PROVE Lives(p)' <=> p = o
      BY DEF StoredLives
    <3>1. CASE p = o
      BY <3>1 DEF TermTypeOK, Shapely, Lives
    <3>2. CASE p # o
      <4> SUFFICES ASSUME Lives(p)' PROVE FALSE
        BY <3>2
      <4>1. Lives(p) /\ p \notin Some(r)
        BY <3>2 DEF TermTypeOK, Lives, Heard
      <4>2. stored = p /\ r = p
        BY <4>1 DEF StoredLives
      <4> QED BY <4>1, <4>2
    <3> QED BY <3>1, <3>2
  <2>5. StoredIsTurnedTo'
    BY DEF StoredIsTurnedTo
  <2> QED BY <2>2, <2>3, <2>4, <2>5
<1>4. Current(r, rs, server) \in made \cup {None}
  BY DEF Current, TermTypeOK
<1> QED BY <1>1, <1>2, <1>3, <1>4 DEF Effect

LEMMA SetTargetKeepsInv ==
  ASSUME TermInv, NEW server \in Servers \cup {None}, SetTarget(server)
  PROVE  TermInv'
<1>1. CASE mounted /\ (instance \/ server = None)
  <2>1. stored # None => ref = stored /\ refServer = storedServer
    BY <1>1 DEF TermInv, StoredIsTurnedTo
  <2>2. /\ ref \in made \cup {None} /\ refServer \in Servers \cup {None}
        /\ mine \subseteq made /\ instance \in BOOLEAN /\ mounted = TRUE
    BY <1>1 DEF TermInv, TermTypeOK
  <2>3. /\ target' = server /\ instance' = instance /\ mounted' = TRUE
        /\ server # None => instance
        /\ Effect(server, ref, refServer, mine)
    BY <1>1, <2>2 DEF SetTarget
  <2> QED BY <2>1, <2>2, <2>3, EffectKeepsInv
<1>2. CASE ~(mounted /\ (instance \/ server = None))
  <2> USE DEF TermInv
  <2>1. /\ ~instance /\ target' = server
        /\ UNCHANGED <<made, object, stored, storedServer, ref, refServer, mine,
                       instance, mounted>>
    BY <1>2 DEF SetTarget
  <2>2. TermTypeOK'
    BY <2>1 DEF TermTypeOK, object
  <2>3. Shapely'
    BY <2>1 DEF Shapely, Heard, object
  <2>4. StoredLives'
    BY <2>1 DEF StoredLives, Lives, Heard, object
  <2>5. StoredIsTurnedTo'
    BY <2>1 DEF StoredIsTurnedTo
  <2> QED BY <2>2, <2>3, <2>4, <2>5
<1> QED BY <1>1, <1>2

LEMMA TerminalReadyKeepsInv ==
  ASSUME TermInv, TerminalReady
  PROVE  TermInv'
<1>1. stored # None => ref = stored /\ refServer = storedServer
  BY DEF TermInv, StoredIsTurnedTo, TerminalReady
<1>2. /\ ref \in made \cup {None} /\ refServer \in Servers \cup {None}
      /\ target \in Servers \cup {None} /\ mine \subseteq made /\ mounted
  BY DEF TermInv, TermTypeOK, TerminalReady
<1>3. /\ target' = target /\ instance' = TRUE /\ mounted' = mounted
      /\ Effect(target, ref, refServer, mine)
  BY DEF TerminalReady
<1>4. mounted' = TRUE
  BY <1>2, <1>3 DEF TermInv, TermTypeOK
<1> QED BY <1>1, <1>2, <1>3, <1>4, EffectKeepsInv

LEMMA MountKeepsInv ==
  ASSUME TermInv, Mount
  PROVE  TermInv'
<1>1. CASE instance
  <2> DEFINE r == IF storedServer = target THEN stored ELSE None
  <2>1. stored # None => r = stored
    BY DEF TermInv, StoredIsTurnedTo
  <2>2. /\ r \in made \cup {None} /\ storedServer \in Servers \cup {None}
        /\ target \in Servers \cup {None} /\ {} \subseteq made
        /\ instance \in BOOLEAN
    BY DEF TermInv, TermTypeOK
  <2>3. /\ target' = target /\ mounted' = TRUE /\ instance' = instance
        /\ Effect(target, r, storedServer, {})
    BY <1>1 DEF Mount
  <2> HIDE DEF r
  <2> QED BY <1>1, <2>1, <2>2, <2>3, EffectKeepsInv
<1>2. CASE ~instance
  <2> USE <1>2 DEF TermInv, Mount, object
  <2>1. TermTypeOK'
    BY DEF TermTypeOK
  <2>2. Shapely' /\ StoredLives'
    BY DEF Shapely, StoredLives, Lives, Heard
  <2>3. StoredIsTurnedTo'
    BY DEF StoredIsTurnedTo
  <2> QED BY <2>1, <2>2, <2>3
<1> QED BY <1>1, <1>2

-----------------------------------------------------------------------------
(* The terminal: the theorems. *)

LEMMA TermInitSatisfiesInv == TermInit => TermInv
<1> SUFFICES ASSUME TermInit PROVE TermInv
  OBVIOUS
<1>1. TermTypeOK
  <2>1. attempts \in [Sockets -> 0 .. MaxReconnectAttempts]
    BY TerminalAssumption DEF TermInit
  <2> QED BY <2>1 DEF TermInit, TermTypeOK, Phases, Pending
<1>2. Shapely /\ StoredIsTurnedTo
  BY DEF TermInit, Shapely, StoredIsTurnedTo, Heard
<1>3. StoredLives
  BY TerminalAssumption DEF TermInit, StoredLives, Lives, Heard
<1> QED BY <1>1, <1>2, <1>3 DEF TermInv

LEMMA TermStutteringKeepsInv ==
  ASSUME TermInv, UNCHANGED termVars
  PROVE  TermInv'
<1>1. TermTypeOK'
  BY DEF TermInv, TermTypeOK, termVars, object, entry, hook
<1>2. Shapely' /\ StoredLives'
  BY DEF TermInv, Shapely, StoredLives, Lives, Heard, termVars, object, entry
<1>3. StoredIsTurnedTo'
  BY DEF TermInv, StoredIsTurnedTo, termVars, entry, hook
<1> QED BY <1>1, <1>2, <1>3 DEF TermInv

LEMMA ObjectStepKeepsInv ==
  ASSUME TermInv, NEW o \in Sockets, ObjectStep(o)
  PROVE  TermInv'
BY TicketAnsweredKeepsInv, TicketFailsKeepsInv, TimerDialsKeepsInv,
   OpenedKeepsInv, ClosedKeepsInv, AdriftEndsKeepsInv, PromptedKeepsInv,
   ConnectedKeepsInv, FatalErrorKeepsInv, ServerClosesKeepsInv,
   CancelAuthKeepsInv
   DEF ObjectStep

LEMMA TermStepKeepsInv == TermInv /\ [TermNext]_termVars => TermInv'
<1> SUFFICES ASSUME TermInv, [TermNext]_termVars PROVE TermInv'
  OBVIOUS
<1>1. CASE \E o \in Sockets : ObjectStep(o)
  BY <1>1, ObjectStepKeepsInv
<1>2. CASE \E server \in Servers \cup {None} : SetTarget(server)
  BY <1>2, SetTargetKeepsInv
<1>3. CASE TerminalReady \/ Mount \/ Unmount \/ DestroySession
  BY <1>3, TerminalReadyKeepsInv, MountKeepsInv, UnmountKeepsInv,
     DestroySessionKeepsInv
<1>4. CASE UNCHANGED termVars
  BY <1>4, TermStutteringKeepsInv
<1> QED BY <1>1, <1>2, <1>3, <1>4 DEF TermNext

\* The invariant holds of every tab at any time.
THEOREM TermInvHolds == TermSpec => []TermInv
BY TermInitSatisfiesInv, TermStepKeepsInv, PTL DEF TermSpec

\* Every variable of the tab keeps its type: in particular no object dials
\* again more than MaxReconnectAttempts times in a row
\* (shouldReconnect, websocket-terminal.ts:291-307).
THEOREM TermTypeCorrect == TermSpec => []TermTypeOK
<1>1. TermInv => TermTypeOK
  BY DEF TermInv
<1> QED BY <1>1, TermInvHolds, PTL

\* However the tab is turned to servers, closed, cancelled, unmounted and
\* mounted again, the one connection of it that lives is the one its entry in
\* the store holds (useWebSocketConnection.ts:288-457).
THEOREM OnlyTheStoredLives == TermSpec => []StoredLives
<1>1. TermInv => StoredLives
  BY DEF TermInv
<1> QED BY <1>1, TermInvHolds, PTL

-----------------------------------------------------------------------------
(* No object comes back once it is destroyed. *)

LEMMA StepKeepsDestroyed ==
  ASSUME TermInv, [TermNext]_termVars, NEW o \in Sockets, destroyed[o]
  PROVE  destroyed'[o]
<1>1. CASE UNCHANGED destroyed
  BY <1>1
<1>2. CASE \E dead : Disconnect(dead)
  BY <1>2 DEF Disconnect
<1>3. CASE \E dead, p : Replace(dead, p)
  BY <1>3 DEF Replace
<1>4. ASSUME NEW server, NEW r, NEW rs, NEW objects,
             Effect(server, r, rs, objects)
      PROVE  destroyed'[o]
  BY <1>1, <1>2, <1>3, <1>4 DEF Effect, Release, Adopt, Renew, object
<1>5. CASE \E p \in Sockets : ObjectStep(p)
  BY <1>1, <1>2, <1>5
     DEF ObjectStep, TicketAnswered, TicketFails, TimerDials, Opened, Closed,
         AdriftEnds, Prompted, Connected, FatalError, ServerCloses, CancelAuth
<1>6. CASE \E server \in Servers \cup {None} : SetTarget(server)
  BY <1>1, <1>4, <1>6 DEF SetTarget, object
<1>7. CASE TerminalReady \/ Mount
  BY <1>1, <1>4, <1>7 DEF TerminalReady, Mount, object
<1>8. CASE Unmount \/ DestroySession \/ UNCHANGED termVars
  BY <1>1, <1>2, <1>8 DEF Unmount, DestroySession, termVars, object
<1> QED BY <1>5, <1>6, <1>7, <1>8 DEF TermNext

\* An object that was destroyed stays so and dials no more, whatever ticket or
\* timer was under way when disconnect() was called
\* (websocket-terminal.ts:319-323, 343, 613-637).
THEOREM DestroyedNeverDials == TermSpec => DestroyedStaysOff
<1>1. TermInv /\ TermInv' /\ [TermNext]_termVars
        => [\A o \in Sockets : destroyed[o] =>
              destroyed'[o] /\ link'[o] \notin {"dialing", "open"}]_termVars
  <2> SUFFICES ASSUME TermInv, TermInv', [TermNext]_termVars,
                      NEW o \in Sockets, destroyed[o]
               PROVE  destroyed'[o] /\ link'[o] \notin {"dialing", "open"}
    OBVIOUS
  <2>1. destroyed'[o]
    BY StepKeepsDestroyed
  <2> QED BY <2>1 DEF TermInv, Shapely, Heard
<1> QED BY <1>1, TermInvHolds, PTL DEF TermSpec, DestroyedStaysOff

-----------------------------------------------------------------------------
(* The monitoring: its invariant. *)

\* Those that watch s by f, a value of serverId.
Watchers(f, s) == {h \in Hooks : f[h] = s}

Counted == \A s \in Hosts : refCount[s] = Cardinality(Watchers(serverId, s))

HostsAgree ==
  \A s \in Hosts : connections[s] # Nobody =>
    host[connections[s]] = s /\ wire[connections[s]] # "none"

\* The inductive invariant.
MonitorInv == MonitorTypeOK /\ Counted /\ HostsAgree /\ WiresHaveOwners

-----------------------------------------------------------------------------
(* The monitoring: counting. *)

LEMMA WatchersCount ==
  ASSUME NEW f, NEW s
  PROVE  /\ IsFiniteSet(Watchers(f, s))
         /\ Cardinality(Watchers(f, s)) \in Nat
         /\ Cardinality(Watchers(f, s)) = 0 <=> ~\E h \in Hooks : f[h] = s
<1>1. IsFiniteSet(Watchers(f, s))
  BY MonitorAssumption, FS_Subset DEF Watchers
<1>2. Watchers(f, s) = {} <=> ~\E h \in Hooks : f[h] = s  BY DEF Watchers
<1> QED BY <1>1, <1>2, FS_CardinalityType, FS_EmptySet

LEMMA WatcherComes ==
  ASSUME NEW f \in [Hooks -> Hosts \cup {Nobody}], NEW h \in Hooks, f[h] = Nobody,
         NEW s \in Hosts, NEW t \in Hosts
  PROVE  Cardinality(Watchers([f EXCEPT ![h] = s], t))
           = Cardinality(Watchers(f, t)) + (IF t = s THEN 1 ELSE 0)
<1>1. Nobody # s /\ Nobody # t  BY MonitorAssumption
<1>2. CASE t = s
  <2>1. Watchers([f EXCEPT ![h] = s], t) = Watchers(f, t) \cup {h} /\ h \notin Watchers(f, t)
    BY <1>1, <1>2 DEF Watchers
  <2>2. Cardinality(Watchers(f, t) \cup {h}) = Cardinality(Watchers(f, t)) + 1
    <3>1. IsFiniteSet(Watchers(f, t))  BY WatchersCount
    <3> QED BY ONLY <2>1, <3>1, FS_AddElement
  <2>3. Cardinality(Watchers([f EXCEPT ![h] = s], t)) = Cardinality(Watchers(f, t)) + 1
    BY <2>1, <2>2
  <2> QED BY <1>2, <2>3
<1>3. CASE t # s
  <2>1. Watchers([f EXCEPT ![h] = s], t) = Watchers(f, t)
    BY <1>1, <1>3 DEF Watchers
  <2> QED BY <1>3, <2>1, WatchersCount
<1> QED BY <1>2, <1>3

LEMMA WatcherGoes ==
  ASSUME NEW f \in [Hooks -> Hosts \cup {Nobody}], NEW h \in Hooks, f[h] # Nobody,
         NEW t \in Hosts
  PROVE  Cardinality(Watchers([f EXCEPT ![h] = Nobody], t))
           = Cardinality(Watchers(f, t)) - (IF t = f[h] THEN 1 ELSE 0)
<1>1. Nobody # t  BY MonitorAssumption
<1>2. CASE t = f[h]
  <2>1. Watchers([f EXCEPT ![h] = Nobody], t) = Watchers(f, t) \ {h} /\ h \in Watchers(f, t)
    BY <1>1, <1>2 DEF Watchers
  <2>2. Cardinality(Watchers(f, t) \ {h}) = Cardinality(Watchers(f, t)) - 1
    <3>1. IsFiniteSet(Watchers(f, t))  BY WatchersCount
    <3> QED BY ONLY <2>1, <3>1, FS_RemoveElement
  <2>3. Cardinality(Watchers([f EXCEPT ![h] = Nobody], t)) = Cardinality(Watchers(f, t)) - 1
    BY <2>1, <2>2
  <2> QED BY <1>2, <2>3
<1>3. CASE t # f[h]
  <2>1. Watchers([f EXCEPT ![h] = Nobody], t) = Watchers(f, t)
    BY <1>1, <1>3 DEF Watchers
  <2> QED BY <1>3, <2>1, WatchersCount
<1> QED BY <1>2, <1>3

LEMMA CountTells ==
  ASSUME Counted, NEW s \in Hosts
  PROVE  refCount[s] = 0 <=> ~Watched(s)
BY WatchersCount DEF Counted, Watched

LEMMA CountsKept ==
  ASSUME Counted, UNCHANGED <<serverId, refCount>>
  PROVE  Counted'
BY DEF Counted

-----------------------------------------------------------------------------
(* The monitoring: the actions, one lemma each. *)

LEMMA TicketTakenKeepsInv ==
  ASSUME MonitorInv, NEW w \in Wires, TicketTaken(w)
  PROVE  MonitorInv'
<1> DEFINE s == host[w]
<1>1. s \in Hosts /\ by[w] \in Hooks /\ w # Nobody
  BY MonitorAssumption DEF MonitorInv, MonitorTypeOK, TicketTaken
<1>2. MonitorTypeOK'
  BY <1>1, MonitorAssumption DEF MonitorInv, MonitorTypeOK, TicketTaken, Live
<1>3. Counted'
  BY CountsKept DEF MonitorInv, TicketTaken
<1>4. HostsAgree'
  BY <1>1, MonitorAssumption DEF MonitorInv, MonitorTypeOK, HostsAgree, TicketTaken
<1>5. WiresHaveOwners'
  <2> SUFFICES ASSUME NEW v \in Wires, Live(v)', v \notin strays'
               PROVE  /\ connections'[host'[v]] = v
                      /\ (Watched(host[v]) \/ sweeps[host[v]] > 0)'
    BY DEF WiresHaveOwners
  <2>1. CASE v = w
    <3>1. ~(refCount[s] = 0 /\ sweeps[s] = 0)
      BY <2>1 DEF TicketTaken
    <3>2. Watched(s) \/ sweeps[s] > 0
      BY <1>1, <3>1, CountTells DEF MonitorInv, MonitorTypeOK
    <3> QED BY <1>1, <2>1, <3>2 DEF TicketTaken, Watched, MonitorInv, MonitorTypeOK
  <2>2. CASE v # w
    <3>1. Live(v) /\ v \notin strays /\ v # connections[s]
      BY <2>2 DEF TicketTaken, Live, MonitorInv, MonitorTypeOK
    <3>2. connections[host[v]] = v /\ (Watched(host[v]) \/ sweeps[host[v]] > 0)
      BY <3>1 DEF MonitorInv, WiresHaveOwners
    <3> QED BY <1>1, <3>1, <3>2 DEF TicketTaken, Watched, MonitorInv, MonitorTypeOK
  <2> QED BY <2>1, <2>2
<1> QED BY <1>2, <1>3, <1>4, <1>5 DEF MonitorInv

\* A wire ends, or waits to dial again: the owners of the others stay.
LEMMA EndKeepsOwners ==
  ASSUME MonitorInv, NEW w \in Wires,
         Gone(w) \/ (wire' = [wire EXCEPT ![w] = "timer"] /\ UNCHANGED <<host, connections>>),
         strays' = strays \ {w} \/ UNCHANGED strays,
         UNCHANGED <<serverId, sweeps>>
  PROVE  WiresHaveOwners'
<1> SUFFICES ASSUME NEW v \in Wires, Live(v)', v \notin strays'
             PROVE  /\ connections'[host'[v]] = v
                    /\ (Watched(host[v]) \/ sweeps[host[v]] > 0)'
  BY DEF WiresHaveOwners
<1>1. v # w /\ Live(v) /\ v \notin strays /\ host'[v] = host[v]
  BY DEF Gone, Live, MonitorInv, MonitorTypeOK
<1>2. connections[host[v]] = v /\ (Watched(host[v]) \/ sweeps[host[v]] > 0)
  BY <1>1 DEF MonitorInv, WiresHaveOwners
<1>3. host[v] \in Hosts
  BY <1>1, MonitorAssumption DEF Live, MonitorInv, MonitorTypeOK
<1> QED BY <1>1, <1>2, <1>3 DEF Gone, Watched, MonitorInv, MonitorTypeOK

LEMMA GoneKeepsHosts ==
  ASSUME MonitorInv, NEW w \in Wires, Gone(w)
  PROVE  HostsAgree'
BY DEF MonitorInv, MonitorTypeOK, HostsAgree, Gone

LEMMA TimerKeepsHosts ==
  ASSUME MonitorInv, NEW w \in Wires, wire' = [wire EXCEPT ![w] = "timer"],
         UNCHANGED <<host, connections>>
  PROVE  HostsAgree'
BY MonitorAssumption DEF MonitorInv, MonitorTypeOK, HostsAgree

LEMMA GoneKeepsTypes ==
  ASSUME MonitorInv, NEW w \in Wires, Gone(w)
  PROVE  /\ wsRef' \in [Hooks -> Wires \cup {Nobody}]
         /\ wire' \in [Wires -> {"none", "ticket", "dialing", "open", "closing",
                                "aborting", "timer"}]
         /\ by' \in [Wires -> Hooks \cup {Nobody}]
         /\ host' \in [Wires -> Hosts \cup {Nobody}]
         /\ \A v \in Wires : wire'[v] # "none" => by'[v] # Nobody /\ host'[v] # Nobody
         /\ connections' \in [Hosts -> Wires \cup {Nobody}]
BY DEF MonitorInv, MonitorTypeOK, Gone

LEMMA GiveUpKeepsTypes ==
  ASSUME MonitorInv, NEW s, NEW failed \in BOOLEAN, GiveUp(s, failed)
  PROVE  gaveUp' \in [Hosts -> BOOLEAN]
BY DEF MonitorInv, MonitorTypeOK, GiveUp

LEMMA TicketRefusedKeepsInv ==
  ASSUME MonitorInv, NEW w \in Wires, TicketRefused(w)
  PROVE  MonitorInv'
<1>1. MonitorTypeOK'
  BY MonitorAssumption DEF MonitorInv, MonitorTypeOK, TicketRefused, Gone, GiveUp
<1>2. Counted'  BY CountsKept DEF MonitorInv, TicketRefused
<1>3. HostsAgree'  BY GoneKeepsHosts DEF TicketRefused
<1>4. WiresHaveOwners'  BY EndKeepsOwners DEF TicketRefused
<1> QED BY <1>1, <1>2, <1>3, <1>4 DEF MonitorInv

LEMMA WireOpensKeepsInv ==
  ASSUME MonitorInv, NEW w \in Wires, WireOpens(w)
  PROVE  MonitorInv'
<1>1. MonitorTypeOK'
  BY MonitorAssumption DEF MonitorInv, MonitorTypeOK, WireOpens, store, history
<1>2. Counted'  BY CountsKept DEF MonitorInv, WireOpens, store
<1>3. HostsAgree'
  BY MonitorAssumption DEF MonitorInv, MonitorTypeOK, HostsAgree, WireOpens, store
<1>4. WiresHaveOwners'
  BY DEF MonitorInv, MonitorTypeOK, WiresHaveOwners, Live, Watched, WireOpens, store, history
<1> QED BY <1>1, <1>2, <1>3, <1>4 DEF MonitorInv

LEMMA DroppedKeepsInv ==
  ASSUME MonitorInv, NEW w \in Wires, wire[w] # "none", NEW clean \in BOOLEAN,
         Dropped(w, clean), strays' = strays \ {w} \/ UNCHANGED strays,
         UNCHANGED <<serverId, refCount, sweeps>>
  PROVE  MonitorInv'
<1>1. by[w] \in Hooks /\ host[w] \in Hosts
  BY DEF MonitorInv, MonitorTypeOK
<1>2. MonitorTypeOK'
  <2>1. CASE ~clean /\ reconnectAttempts[by[w]] < MaxReconnects
    <3>1. reconnectAttempts' \in [Hooks -> 0 .. MaxReconnects]
      BY <1>1, <2>1, MonitorAssumption DEF MonitorInv, MonitorTypeOK, Dropped
    <3> QED BY <2>1, <3>1 DEF MonitorInv, MonitorTypeOK, Dropped
  <2>2. CASE ~(~clean /\ reconnectAttempts[by[w]] < MaxReconnects)
    <3>1. Gone(w) /\ GiveUp(host[w], ~clean) /\ UNCHANGED reconnectAttempts
      BY <2>2 DEF Dropped
    <3> QED BY <3>1, GoneKeepsTypes, GiveUpKeepsTypes DEF MonitorInv, MonitorTypeOK
  <2> QED BY <2>1, <2>2
<1>3. Counted'  BY CountsKept DEF MonitorInv
<1>4. HostsAgree'  BY GoneKeepsHosts, TimerKeepsHosts DEF Dropped
<1>5. WiresHaveOwners'  BY EndKeepsOwners DEF Dropped
<1> QED BY <1>2, <1>3, <1>4, <1>5 DEF MonitorInv

LEMMA RedialsKeepsInv ==
  ASSUME MonitorInv, NEW w \in Wires, Redials(w)
  PROVE  MonitorInv'
<1>1. by[w] \in Hooks /\ host[w] \in Hosts
  BY DEF MonitorInv, MonitorTypeOK, Redials
<1>2. MonitorTypeOK'
  <2>0. UNCHANGED <<serverId, reconnectAttempts, refCount, sweeps, strays>>
    BY DEF Redials
  <2>1. CASE HasWire(by[w], host[w])
    <3>1. Gone(w) /\ GiveUp(host[w], Bound(by[w], host[w]))
      BY <2>1 DEF Redials
    <3>2. gaveUp' \in [Hosts -> BOOLEAN]
      BY <3>1, GiveUpKeepsTypes DEF Bound, Live
    <3> QED BY <2>0, <3>1, <3>2, GoneKeepsTypes DEF MonitorInv, MonitorTypeOK
  <2>2. CASE ~HasWire(by[w], host[w])
    <3>1. /\ wire' = [wire EXCEPT ![w] = "ticket"]
          /\ by' = [by EXCEPT ![w] = by[w]] /\ host' = [host EXCEPT ![w] = host[w]]
          /\ gaveUp' = [gaveUp EXCEPT ![host[w]] = FALSE]
          /\ UNCHANGED <<wsRef, connections>>
      BY <2>2 DEF Redials, Ask
    <3>2. by' = by /\ host' = host
      BY <3>1 DEF MonitorInv, MonitorTypeOK
    <3>3. by[w] # Nobody /\ host[w] # Nobody
      BY <1>1, MonitorAssumption
    <3> QED BY <2>0, <3>1, <3>2, <3>3 DEF MonitorInv, MonitorTypeOK
  <2> QED BY <2>1, <2>2
<1>3. Counted'  BY CountsKept DEF MonitorInv, Redials
<1>4. CASE HasWire(by[w], host[w])
  <2>1. Gone(w)  BY <1>4 DEF Redials
  <2>2. HostsAgree'  BY <2>1, GoneKeepsHosts
  <2>3. WiresHaveOwners'  BY <2>1, EndKeepsOwners DEF Redials
  <2> QED BY <1>2, <1>3, <2>2, <2>3 DEF MonitorInv
<1>5. CASE ~HasWire(by[w], host[w])
  <2>1. /\ wire' = [wire EXCEPT ![w] = "ticket"] /\ host' = host
        /\ UNCHANGED <<connections, serverId, sweeps, strays>>
    BY <1>5 DEF Redials, Ask, MonitorInv, MonitorTypeOK
  <2>2. HostsAgree'
    BY <2>1, MonitorAssumption DEF MonitorInv, MonitorTypeOK, HostsAgree
  <2>3. WiresHaveOwners'
    BY <2>1 DEF MonitorInv, MonitorTypeOK, WiresHaveOwners, Live, Watched
  <2> QED BY <1>2, <1>3, <2>2, <2>3 DEF MonitorInv
<1> QED BY <1>4, <1>5
LEMMA WatchKeepsInv ==
  ASSUME MonitorInv, NEW h \in Hooks, NEW s \in Hosts, Watch(h, s)
  PROVE  MonitorInv'
<1>0. serverId' = [serverId EXCEPT ![h] = s] /\ serverId[h] = Nobody /\ s # Nobody
  BY MonitorAssumption DEF Watch
<1>1. PICK w \in Wires :
        UNCHANGED wires \/ (wire[w] = "none" /\ Ask(h, s, w))
  BY DEF Watch, HasWire, Live, MonitorInv, MonitorTypeOK
<1>2. MonitorTypeOK'
  BY <1>1, MonitorAssumption DEF MonitorInv, MonitorTypeOK, Watch, Ask, wires, Bound, Live
<1>3. Counted'
  <2> SUFFICES ASSUME NEW t \in Hosts
               PROVE  refCount'[t] = Cardinality(Watchers(serverId', t))
    BY DEF Counted
  <2>1. Cardinality(Watchers(serverId', t))
          = Cardinality(Watchers(serverId, t)) + (IF t = s THEN 1 ELSE 0)
    BY <1>0, WatcherComes DEF MonitorInv, MonitorTypeOK
  <2> QED BY <2>1, WatchersCount DEF Watch, MonitorInv, MonitorTypeOK, Counted
<1>4. HostsAgree'
  BY <1>1 DEF MonitorInv, MonitorTypeOK, HostsAgree, Watch, Ask, wires
<1>5. WiresHaveOwners'
  <2> SUFFICES ASSUME NEW v \in Wires, Live(v)', v \notin strays'
               PROVE  /\ connections[host'[v]] = v
                      /\ Watched(host[v])' \/ sweeps[host'[v]] > 0
    BY DEF WiresHaveOwners, Watch
  <2>1. Live(v) /\ host'[v] = host[v] /\ host[v] \in Hosts /\ host[v] # Nobody
    BY <1>1, MonitorAssumption DEF Ask, wires, Live, MonitorInv, MonitorTypeOK
  <2>2. CASE v \in strays
    <3>1. v = connections[s] /\ v # Nobody /\ host[v] = s
      BY <2>1, <2>2 DEF Watch, HostsAgree, MonitorInv, Live
    <3>2. serverId'[h] = s
      BY <1>0 DEF MonitorInv, MonitorTypeOK
    <3> QED BY <2>1, <3>1, <3>2 DEF Watched
  <2>3. CASE v \notin strays
    <3>1. connections[host[v]] = v /\ (Watched(host[v]) \/ sweeps[host[v]] > 0)
      BY <2>1, <2>3 DEF MonitorInv, WiresHaveOwners
    <3>2. Watched(host[v]) => \E i \in Hooks : serverId'[i] = host[v]
      BY <1>0, <2>1 DEF Watched, MonitorInv, MonitorTypeOK
    <3> QED BY <2>1, <3>1, <3>2 DEF Watched
  <2> QED BY <2>2, <2>3
<1> QED BY <1>2, <1>3, <1>4, <1>5 DEF MonitorInv

LEMMA LeaveKeepsInv ==
  ASSUME MonitorInv, NEW h \in Hooks, Leave(h)
  PROVE  MonitorInv'
<1> DEFINE s == serverId[h]
<1>0. /\ s \in Hosts /\ s # Nobody /\ refCount[s] > 0
      /\ serverId' = [serverId EXCEPT ![h] = Nobody]
  <2>1. s \in Hosts /\ s # Nobody /\ serverId' = [serverId EXCEPT ![h] = Nobody]
    BY DEF Leave, MonitorInv, MonitorTypeOK
  <2>2. Watched(s)  BY DEF Watched
  <2> QED BY <2>1, <2>2, CountTells DEF MonitorInv, MonitorTypeOK
<1>1. MonitorTypeOK'
  <2>1. refCount' \in [Hosts -> Nat] /\ sweeps' \in [Hosts -> 0 .. MaxSweeps]
    BY <1>0, MonitorAssumption DEF Leave, MonitorInv, MonitorTypeOK
  <2> QED BY <1>0, <2>1 DEF Leave, MonitorInv, MonitorTypeOK, wires
<1>2. Counted'
  <2> SUFFICES ASSUME NEW t \in Hosts
               PROVE  refCount'[t] = Cardinality(Watchers(serverId', t))
    BY DEF Counted
  <2>1. Cardinality(Watchers(serverId', t))
          = Cardinality(Watchers(serverId, t)) - (IF t = s THEN 1 ELSE 0)
    BY <1>0, WatcherGoes DEF MonitorInv, MonitorTypeOK
  <2> QED BY <2>1, WatchersCount DEF Leave, MonitorInv, MonitorTypeOK, Counted
<1>3. HostsAgree'
  BY DEF MonitorInv, HostsAgree, Leave, wires
<1>4. WiresHaveOwners'
  <2> SUFFICES ASSUME NEW v \in Wires, Live(v)', v \notin strays'
               PROVE  /\ connections[host[v]] = v
                      /\ (\E i \in Hooks : serverId'[i] = host[v]) \/ sweeps'[host[v]] > 0
    BY DEF WiresHaveOwners, Leave, wires, Watched
  <2>1. Live(v) /\ v \notin strays /\ host[v] \in Hosts /\ host[v] # Nobody
    BY MonitorAssumption DEF Leave, wires, Live, MonitorInv, MonitorTypeOK
  <2>2. connections[host[v]] = v /\ (Watched(host[v]) \/ sweeps[host[v]] > 0)
    BY <2>1 DEF MonitorInv, WiresHaveOwners
  <2>3. CASE host[v] = s
    <3>1. refCount[s] = 1 => sweeps'[s] > 0
      BY <1>0, MonitorAssumption DEF Leave, MonitorInv, MonitorTypeOK
    <3>2. refCount[s] # 1 => \E i \in Hooks : serverId'[i] = s
      <4>1. refCount[s] # 1 => refCount'[s] # 0
        BY <1>0 DEF Leave, MonitorInv, MonitorTypeOK
      <4>2. refCount'[s] = Cardinality(Watchers(serverId', s))
        BY <1>0, <1>2 DEF Counted
      <4>3. Cardinality(Watchers(serverId', s)) = 0
              <=> ~\E i \in Hooks : serverId'[i] = s
        BY WatchersCount
      <4> QED BY <4>1, <4>2, <4>3
    <3> QED BY <2>2, <2>3, <3>1, <3>2
  <2>4. CASE host[v] # s
    <3>1. sweeps'[host[v]] = sweeps[host[v]]
      BY <2>1, <2>4 DEF Leave, MonitorInv, MonitorTypeOK
    <3>2. Watched(host[v]) => \E i \in Hooks : serverId'[i] = host[v]
      BY <1>0, <2>4 DEF Watched, MonitorInv, MonitorTypeOK
    <3> QED BY <2>2, <3>1, <3>2
  <2> QED BY <2>3, <2>4
<1> QED BY <1>1, <1>2, <1>3, <1>4 DEF MonitorInv

LEMMA DestroyConnectionKeepsInv ==
  ASSUME MonitorInv, NEW s \in Hosts, DestroyConnection(s)
  PROVE  MonitorInv'
<1>1. MonitorTypeOK'
  BY MonitorAssumption DEF MonitorInv, MonitorTypeOK, DestroyConnection, Destroy, hooks
<1>2. Counted'  BY CountsKept DEF MonitorInv, DestroyConnection, hooks
<1>3. HostsAgree'
  BY DEF MonitorInv, MonitorTypeOK, HostsAgree, DestroyConnection, Destroy
<1>4. WiresHaveOwners'
  <2> SUFFICES ASSUME NEW v \in Wires, Live(v)', v \notin strays'
               PROVE  /\ connections'[host[v]] = v
                      /\ Watched(host[v]) \/ sweeps'[host[v]] > 0
    BY DEF WiresHaveOwners, DestroyConnection, hooks, Watched
  <2>1. CASE refCount[s] > 0
    <3>1. Watched(s)
      BY <2>1, CountTells DEF MonitorInv
    <3>2. /\ connections[host[v]] = v /\ (Watched(host[v]) \/ sweeps[host[v]] > 0)
          /\ connections' = connections
      BY <2>1 DEF DestroyConnection, Live, MonitorInv, WiresHaveOwners
    <3>3. host[v] # s => sweeps'[host[v]] = sweeps[host[v]]
      BY DEF DestroyConnection, MonitorInv, MonitorTypeOK
    <3> QED BY <3>1, <3>2, <3>3
  <2>2. CASE ~(refCount[s] > 0)
    <3>1. v # connections[s] /\ Live(v) /\ v \notin strays
      BY <2>2 DEF DestroyConnection, Destroy, Live, MonitorInv, MonitorTypeOK
    <3>2. connections[host[v]] = v /\ (Watched(host[v]) \/ sweeps[host[v]] > 0)
      BY <3>1 DEF MonitorInv, WiresHaveOwners
    <3>3. host[v] # s  BY <3>1, <3>2
    <3>4. host[v] \in Hosts
      BY <3>1 DEF Live, MonitorInv, MonitorTypeOK
    <3>5. connections'[host[v]] = connections[host[v]]
      BY <2>2, <3>3, <3>4 DEF DestroyConnection, Destroy, MonitorInv, MonitorTypeOK
    <3>6. sweeps'[host[v]] = sweeps[host[v]]
      BY <3>3, <3>4 DEF DestroyConnection, MonitorInv, MonitorTypeOK
    <3> QED BY <3>2, <3>5, <3>6
  <2> QED BY <2>1, <2>2
<1> QED BY <1>1, <1>2, <1>3, <1>4 DEF MonitorInv

-----------------------------------------------------------------------------
(* The monitoring: the theorems. *)

\* The store's counts, the hosts of its connections and the owners of the live
\* ones agree in every state of the monitoring (monitor-store.ts,
\* useMonitorWebSocket.ts).
THEOREM MonitorInvHolds == MonitorSpec => []MonitorInv
<1>1. MonitorInit => MonitorInv
  <2> SUFFICES ASSUME MonitorInit PROVE MonitorInv
    OBVIOUS
  <2>1. MonitorTypeOK  BY MonitorAssumption DEF MonitorInit, MonitorTypeOK
  <2>2. Counted
    <3> SUFFICES ASSUME NEW s \in Hosts
                 PROVE  refCount[s] = Cardinality(Watchers(serverId, s))
      BY DEF Counted
    <3>1. ~\E h \in Hooks : serverId[h] = s
      BY MonitorAssumption DEF MonitorInit
    <3> QED BY <3>1, WatchersCount DEF MonitorInit
  <2>3. HostsAgree  BY DEF MonitorInit, HostsAgree
  <2>4. WiresHaveOwners  BY DEF MonitorInit, WiresHaveOwners, Live
  <2> QED BY <2>1, <2>2, <2>3, <2>4 DEF MonitorInv
<1>2. MonitorInv /\ [MonitorNext]_monitorVars => MonitorInv'
  <2> SUFFICES ASSUME MonitorInv, [MonitorNext]_monitorVars PROVE MonitorInv'
    OBVIOUS
  <2>1. ASSUME NEW w \in Wires, WireStep(w) PROVE MonitorInv'
    <3>1. CASE TicketTaken(w)  BY <3>1, TicketTakenKeepsInv
    <3>2. CASE TicketRefused(w)  BY <3>2, TicketRefusedKeepsInv
    <3>3. CASE WireOpens(w)  BY <3>3, WireOpensKeepsInv
    <3>4. CASE WireDrops(w)
      <4>1. wire[w] # "none" /\ Dropped(w, FALSE) /\ strays' = strays \ {w}
            /\ UNCHANGED <<serverId, refCount, sweeps>>
        BY <3>4 DEF WireDrops, Live
      <4> QED BY <4>1, DroppedKeepsInv
    <3>5. CASE Redials(w)  BY <3>5, RedialsKeepsInv
    <3>6. ASSUME NEW clean \in BOOLEAN, CloseEnds(w, clean) PROVE MonitorInv'
      <4>1. wire[w] # "none" /\ Dropped(w, clean)
            /\ UNCHANGED <<serverId, refCount, sweeps, strays>>
        BY <3>6 DEF CloseEnds
      <4> QED BY <4>1, DroppedKeepsInv
    <3> QED BY <2>1, <3>1, <3>2, <3>3, <3>4, <3>5, <3>6 DEF WireStep, TicketEnds
  <2>2. ASSUME NEW h \in Hooks, NEW s \in Hosts, Watch(h, s) PROVE MonitorInv'
    BY <2>2, WatchKeepsInv
  <2>3. ASSUME NEW h \in Hooks, Leave(h) PROVE MonitorInv'
    BY <2>3, LeaveKeepsInv
  <2>4. ASSUME NEW s \in Hosts, DestroyConnection(s) PROVE MonitorInv'
    BY <2>4, DestroyConnectionKeepsInv
  <2>5. CASE UNCHANGED monitorVars
    BY <2>5 DEF monitorVars, hooks, wires, store, history, MonitorInv, MonitorTypeOK,
        Counted, HostsAgree, WiresHaveOwners, Live, Watched
  <2> QED BY <2>1, <2>2, <2>3, <2>4, <2>5 DEF MonitorNext
<1> QED BY <1>1, <1>2, PTL DEF MonitorSpec

\* Each variable of MonitorSocket keeps its domain and its range.
THEOREM MonitorTypeCorrect == MonitorSpec => []MonitorTypeOK
<1>1. MonitorInv => MonitorTypeOK  BY DEF MonitorInv
<1> QED BY <1>1, MonitorInvHolds, PTL

\* But for those dialed when everybody had left, or replaced by another hook's
\* dial, each live connection is the store's, and is watched or about to be
\* closed (subscribe and its cleanup, setConnection, destroyConnection).
THEOREM LiveWiresHaveOwners == MonitorSpec => []WiresHaveOwners
<1>1. MonitorInv => WiresHaveOwners  BY DEF MonitorInv
<1> QED BY <1>1, MonitorInvHolds, PTL

\* The page never closes the connection of a host that a tab watches: the
\* timer set when the last one left finds a count that tells of those who came
\* since (destroyConnection).
THEOREM WatchedNeverClosed ==
  MonitorSpec =>
    [][\A w \in Wires : Live(w) /\ wire'[w] \in {"closing", "aborting"}
                           => ~Watched(host[w])]_monitorVars
<1>1. MonitorInv /\ [MonitorNext]_monitorVars
        => [\A w \in Wires : Live(w) /\ wire'[w] \in {"closing", "aborting"}
                                => ~Watched(host[w])]_monitorVars
  <2> SUFFICES ASSUME MonitorInv, MonitorNext, NEW w \in Wires, Live(w),
                      wire'[w] \in {"closing", "aborting"}
               PROVE  ~Watched(host[w])
    OBVIOUS
  <2>0. wire \in [Wires -> {"none", "ticket", "dialing", "open", "closing", "aborting",
                          "timer"}]
        /\ wire[w] \in {"dialing", "open"} /\ w # Nobody
        /\ wire'[w] \in {"closing", "aborting"}
    BY DEF Live, MonitorInv, MonitorTypeOK
  <2>1. PICK s \in Hosts : DestroyConnection(s)
    <3>1. ASSUME NEW v \in Wires PROVE ~WireStep(v)
      <4>1. ~TicketTaken(v)  BY <2>0 DEF TicketTaken
      <4>2. ~Gone(v)  BY <2>0 DEF Gone
      <4>3. ~TicketRefused(v)  BY <4>2 DEF TicketRefused
      <4>4. ~WireOpens(v)  BY <2>0 DEF WireOpens
      <4>5. ~Dropped(v, TRUE) /\ ~Dropped(v, FALSE)
        BY <2>0, <4>2 DEF Dropped
      <4>6. ~WireDrops(v)  BY <4>5 DEF WireDrops
      <4>7. ~Ask(by[v], host[v], v)  BY <2>0 DEF Ask
      <4>8. ~Redials(v)  BY <4>2, <4>7 DEF Redials
      <4>9. \A clean \in BOOLEAN : ~CloseEnds(v, clean)
        BY <4>5 DEF CloseEnds
      <4> QED BY <4>1, <4>3, <4>4, <4>6, <4>8, <4>9 DEF WireStep, TicketEnds
    <3>2. ASSUME NEW h \in Hooks, NEW s \in Hosts PROVE ~Watch(h, s)
      BY <2>0 DEF Watch, Ask, wires
    <3>3. ASSUME NEW h \in Hooks PROVE ~Leave(h)
      BY <2>0 DEF Leave, wires
    <3> QED BY <3>1, <3>2, <3>3 DEF MonitorNext
  <2>2. refCount[s] = 0 /\ w = connections[s]
    <3>1. ~(refCount[s] > 0)
      BY <2>0, <2>1 DEF DestroyConnection
    <3>2. Destroy(s, {"dialing", "open"})
      BY <2>1, <3>1 DEF DestroyConnection
    <3>3. w = connections[s]
      <4> SUFFICES ASSUME w # connections[s] PROVE FALSE
        OBVIOUS
      <4>1. wire'[w] = wire[w]
        BY <2>0, <3>2 DEF Destroy, MonitorInv, MonitorTypeOK
      <4> QED BY <2>0, <4>1
    <3> QED BY <3>1, <3>3 DEF MonitorInv, MonitorTypeOK
  <2>3. host[w] = s  BY <2>0, <2>2 DEF MonitorInv, HostsAgree
  <2> QED BY <2>2, <2>3, CountTells DEF MonitorInv
<1> QED BY <1>1, MonitorInvHolds, PTL DEF MonitorSpec
=============================================================================
