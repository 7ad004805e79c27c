------------------------------ MODULE LiveProofs -----------------------------
(***************************************************************************)
(* The hub for any number of dashboards and broadcasters, any capacity of  *)
(* the channels and a server that may stop at any moment: nothing is sent  *)
(* to a closed channel, and clients, lock and channels are accounted for.  *)
(* The lock is what makes it true: a broadcast that still has clients to   *)
(* serve holds it for reading, so none of those clients can have left.     *)
(* At the end the pulse of the gateway, for any number of mishaps, and     *)
(* what Traffic shows of the parts it is made of.                          *)
(***************************************************************************)
EXTENDS Traffic, TLAPS

HubTypes ==
  /\ conn \in [Dashboards -> {"away", "open", "leaving", "left"}]
  /\ clients \subseteq Dashboards
  /\ left \in [Broadcasters -> SUBSET Dashboards]

\* A broadcast with clients still to serve holds the lock.
ServesUnderLock == \A b \in Broadcasters : left[b] # {} => b \in readers

\* The clients it still has to serve are registered.
ServesClients == \A b \in Broadcasters : left[b] \subseteq clients

\* The channel of a registered client is not closed.
ClientsAreOpen == \A c \in clients : conn[c] \in {"open", "leaving"}

\* Inductive.
HubInv == HubTypes /\ ServesUnderLock /\ ServesClients /\ ClientsAreOpen /\ NoSendOnClosed

-----------------------------------------------------------------------------
\* A server without clients.
LEMMA InitEstablishes == LiveInit => HubInv
<1> SUFFICES ASSUME HubInit PROVE HubInv
  BY DEF LiveInit
<1>1. HubTypes
  BY DEF HubInit, HubTypes
<1>2. ServesUnderLock /\ ServesClients /\ ClientsAreOpen
  BY DEF HubInit, ServesUnderLock, ServesClients, ClientsAreOpen
<1>3. NoSendOnClosed
  BY DEF HubInit, NoSendOnClosed
<1> QED
  BY <1>1, <1>2, <1>3 DEF HubInv

\* Whoever changes the clients holds the lock alone: nothing is left to serve.
LEMMA NobodyServed ==
  ASSUME HubInv, readers = {}
  PROVE  \A b \in Broadcasters : left[b] = {}
  BY DEF HubInv, ServesUnderLock

\* A new client has an open channel (hub.go Register).
LEMMA RegisterPreserves ==
  ASSUME HubInv, NEW c \in Dashboards, Register(c)
  PROVE  HubInv'
<1>1. HubTypes'
  BY DEF Register, HubInv, HubTypes
<1>2. ServesUnderLock' /\ ServesClients'
  BY NobodyServed DEF Register, HubInv, ServesUnderLock, ServesClients
<1>3. ClientsAreOpen'
  BY DEF Register, HubInv, HubTypes, ClientsAreOpen
<1>4. NoSendOnClosed'
  BY DEF Register, HubInv, NoSendOnClosed
<1> QED
  BY <1>1, <1>2, <1>3, <1>4 DEF HubInv

\* A client that leaves is not served by anybody (hub.go unregister).
LEMMA UnregisterPreserves ==
  ASSUME HubInv, NEW c \in Dashboards, Unregister(c)
  PROVE  HubInv'
<1>1. HubTypes'
  BY DEF Unregister, HubInv, HubTypes
<1>2. ServesUnderLock' /\ ServesClients'
  BY NobodyServed DEF Unregister, HubInv, ServesUnderLock, ServesClients
<1>3. ClientsAreOpen'
  BY DEF Unregister, HubInv, HubTypes, ClientsAreOpen
<1>4. NoSendOnClosed'
  BY DEF Unregister, HubInv, NoSendOnClosed
<1> QED
  BY <1>1, <1>2, <1>3, <1>4 DEF HubInv

\* A client waiting for the lock and one that comes back: no channel is closed.
LEMMA DisconnectPreserves ==
  ASSUME HubInv, NEW c \in Dashboards, Disconnect(c) \/ ComesBack(c)
  PROVE  HubInv'
<1> USE DEF Disconnect, ComesBack
<1>1. HubTypes'
  BY DEF HubInv, HubTypes
<1>2. ServesUnderLock' /\ ServesClients'
  BY DEF HubInv, ServesUnderLock, ServesClients
<1>3. ClientsAreOpen'
  BY DEF HubInv, HubTypes, ClientsAreOpen
<1>4. NoSendOnClosed'
  BY DEF HubInv, NoSendOnClosed
<1> QED
  BY <1>1, <1>2, <1>3, <1>4 DEF HubInv

\* A broadcast takes the lock and the clients of that moment (hub.go Broadcast).
LEMMA BroadcastPreserves ==
  ASSUME HubInv, NEW b \in Broadcasters, Broadcast(b)
  PROVE  HubInv'
<1> USE DEF Broadcast, Holders
<1>1. HubTypes'
  BY DEF HubInv, HubTypes
<1>2. ServesUnderLock'
  BY DEF HubInv, HubTypes, ServesUnderLock
<1>3. ServesClients'
  BY DEF HubInv, HubTypes, ServesClients
<1>4. ClientsAreOpen' /\ NoSendOnClosed'
  BY DEF HubInv, ClientsAreOpen, NoSendOnClosed
<1> QED
  BY <1>1, <1>2, <1>3, <1>4 DEF HubInv

\* The client that is served has an open channel (hub.go Send).
LEMMA SendPreserves ==
  ASSUME HubInv, NEW b \in Broadcasters, Send(b)
  PROVE  HubInv'
<1>1. PICK c \in left[b] : /\ left' = [left EXCEPT ![b] = @ \ {c}]
                           /\ panic' = (panic \/ conn[c] = "left")
  BY DEF Send
<1>2. UNCHANGED <<conn, clients, readers>>
  BY DEF Send
<1>3. conn[c] # "left"
  BY DEF HubInv, ServesClients, ClientsAreOpen
<1>4. NoSendOnClosed'
  BY <1>1, <1>3, Zenon DEF HubInv, NoSendOnClosed
<1>5. HubTypes' /\ ServesUnderLock' /\ ServesClients'
  BY <1>1, <1>2 DEF HubInv, HubTypes, ServesUnderLock, ServesClients
<1>6. ClientsAreOpen'
  BY <1>2 DEF HubInv, ClientsAreOpen
<1> QED
  BY <1>4, <1>5, <1>6 DEF HubInv

\* The lock is released only when everybody has been served.
LEMMA ReleasePreserves ==
  ASSUME HubInv, NEW b \in Broadcasters, Release(b)
  PROVE  HubInv'
<1> USE DEF Release
<1>1. HubTypes' /\ ServesUnderLock'
  BY DEF HubInv, HubTypes, ServesUnderLock
<1>2. ServesClients' /\ ClientsAreOpen' /\ NoSendOnClosed'
  BY DEF HubInv, ServesClients, ClientsAreOpen, NoSendOnClosed
<1> QED
  BY <1>1, <1>2 DEF HubInv

\* Nothing of the hub survives the process.
LEMMA ServerStopsPreserves ==
  ASSUME HubInv, ServerStops PROVE HubInv'
<1> USE DEF ServerStops
<1>1. HubTypes'
  BY DEF HubTypes
<1>2. ServesUnderLock' /\ ServesClients' /\ ClientsAreOpen'
  BY DEF ServesUnderLock, ServesClients, ClientsAreOpen
<1>3. NoSendOnClosed'
  BY DEF HubInv, NoSendOnClosed
<1> QED
  BY <1>1, <1>2, <1>3 DEF HubInv

\* Steps that leave the hub alone: the gateways' pulse, a start, a reader.
LEMMA OthersPreserve ==
  ASSUME HubInv, UNCHANGED <<conn, clients, readers, left, panic>>
  PROVE  HubInv'
  BY DEF HubInv, HubTypes, ServesUnderLock, ServesClients, ClientsAreOpen, NoSendOnClosed

\* Every step of the hub keeps the invariant.
LEMMA HubStepPreserves ==
  ASSUME HubInv, HubNext PROVE HubInv'
<1>1. ASSUME NEW c \in Dashboards, Register(c) PROVE HubInv'
  BY <1>1, RegisterPreserves
<1>2. ASSUME NEW c \in Dashboards, Disconnect(c) \/ ComesBack(c) PROVE HubInv'
  BY <1>2, DisconnectPreserves
<1>3. ASSUME NEW c \in Dashboards, Unregister(c) PROVE HubInv'
  BY <1>3, UnregisterPreserves
<1>4. ASSUME NEW c \in Dashboards, Take(c) PROVE HubInv'
  BY <1>4, OthersPreserve DEF Take
<1>5. ASSUME NEW b \in Broadcasters, Broadcast(b) PROVE HubInv'
  BY <1>5, BroadcastPreserves
<1>6. ASSUME NEW b \in Broadcasters, Send(b) PROVE HubInv'
  BY <1>6, SendPreserves
<1>7. ASSUME NEW b \in Broadcasters, Release(b) PROVE HubInv'
  BY <1>7, ReleasePreserves
<1> QED
  BY <1>1, <1>2, <1>3, <1>4, <1>5, <1>6, <1>7 DEF HubNext

\* So does every step of gateway and server.
LEMMA StepPreserves == HubInv /\ [LiveNext]_<<up, pulseVars, hubVars>> => HubInv'
<1> SUFFICES ASSUME HubInv, [LiveNext]_<<up, pulseVars, hubVars>> PROVE HubInv'
  OBVIOUS
<1>1. CASE HubNext
  BY <1>1, HubStepPreserves
<1>2. CASE ServerStops
  BY <1>2, ServerStopsPreserves
<1>3. CASE UNCHANGED hubVars
  BY <1>3, OthersPreserve DEF hubVars
<1>4. CASE ServerStarts
  BY <1>3, <1>4 DEF ServerStarts
<1> QED
  BY <1>1, <1>2, <1>3, <1>4 DEF LiveNext

\* However broadcasts, registrations, disconnects and restarts of the server
\* interleave, nothing is sent to a channel that unregister has closed (hub.go
\* Broadcast, Send, unregister).
THEOREM NoSendOnClosedAlways == LiveSpec => []NoSendOnClosed
<1>1. HubInv => NoSendOnClosed
  BY DEF HubInv
<1> QED
  BY <1>1, InitEstablishes, StepPreserves, PTL DEF LiveSpec

\* While a broadcast still has somebody to serve, nobody registers and nobody's
\* channel is closed: the set of clients it took is the set there is (hub.go
\* Register, unregister).
THEOREM ClientsKeptWhileServed ==
  LiveSpec => [][\A b \in Broadcasters : up' /\ left[b] # {} => clients' = clients]_clients
<1>1. ASSUME HubInv, LiveNext, NEW b \in Broadcasters, up', left[b] # {}
      PROVE  clients' = clients
  <2>1. readers # {}
    BY <1>1 DEF HubInv, ServesUnderLock
  <2>2. CASE HubNext
    BY <2>1, <2>2 DEF HubNext, Register, Disconnect, Unregister, Take, ComesBack, Broadcast,
                      Send, Release
  <2>3. CASE ServerStops
    BY <1>1, <2>3 DEF ServerStops
  <2>4. CASE UNCHANGED hubVars
    BY <2>4 DEF hubVars
  <2> QED
    BY <1>1, <2>2, <2>3, <2>4 DEF LiveNext, ServerStarts
<1>2. HubInv /\ [LiveNext]_<<up, pulseVars, hubVars>>
        => [\A b \in Broadcasters : up' /\ left[b] # {} => clients' = clients]_clients
  BY <1>1 DEF hubVars
<1> QED
  BY <1>2, InitEstablishes, StepPreserves, PTL DEF LiveSpec

-----------------------------------------------------------------------------
(* Clients, lock and channels.                                             *)

\* The safety behind NobodyWaits: the map holds exactly the dashboards that are
\* connected, so none that left is kept; the lock is held for reading by exactly
\* the broadcasts that run, so whoever waits for it waits for one of them; and no
\* channel holds more than it has room for (hub.go Register, unregister, Broadcast,
\* Send).
Accounted ==
  /\ clients = {c \in Dashboards : conn[c] \in {"open", "leaving"}}
  /\ readers = {b \in Broadcasters : at[b] = "sending"}
  /\ queued \in [Dashboards -> 0..Room]

\* The broadcasters are at rest or sending.
Running == at \in [Broadcasters -> {"idle", "sending"}]

\* The steps of a dashboard change no lock, those of a broadcast no connection.
LEMMA AccountedStays ==
  HubInv /\ Running /\ Accounted /\ [LiveNext]_<<up, pulseVars, hubVars>>
    => Running' /\ Accounted'
<1> SUFFICES ASSUME HubInv, Running, Accounted, [LiveNext]_<<up, pulseVars, hubVars>>
             PROVE  Running' /\ Accounted'
  OBVIOUS
<1> USE RoomAssumption DEF Accounted, Running
<1>1. /\ conn \in [Dashboards -> {"away", "open", "leaving", "left"}]
      /\ clients \subseteq Dashboards
  BY DEF HubInv, HubTypes
<1>2. ASSUME NEW c \in Dashboards, Register(c) PROVE Running' /\ Accounted'
  BY <1>1, <1>2 DEF Register
<1>3. ASSUME NEW c \in Dashboards, Disconnect(c) \/ ComesBack(c) PROVE Running' /\ Accounted'
  BY <1>1, <1>3 DEF Disconnect, ComesBack
<1>4. ASSUME NEW c \in Dashboards, Unregister(c) PROVE Running' /\ Accounted'
  BY <1>1, <1>4 DEF Unregister
<1>5. ASSUME NEW c \in Dashboards, Take(c) PROVE Running' /\ Accounted'
  BY <1>5 DEF Take
<1>6. ASSUME NEW b \in Broadcasters, Broadcast(b) PROVE Running' /\ Accounted'
  BY <1>6 DEF Broadcast, Holders
<1>7. ASSUME NEW b \in Broadcasters, Send(b) PROVE Running' /\ Accounted'
  <2>1. PICK c \in left[b] :
          queued' = IF queued[c] < Room THEN [queued EXCEPT ![c] = @ + 1] ELSE queued
    BY <1>7 DEF Send
  <2>2. c \in Dashboards
    BY <1>1 DEF HubInv, ServesClients
  <2>3. queued' \in [Dashboards -> 0..Room]
    BY <2>1, <2>2
  <2> QED
    BY <1>7, <2>3 DEF Send
<1>8. ASSUME NEW b \in Broadcasters, Release(b) PROVE Running' /\ Accounted'
  BY <1>8 DEF Release
<1>9. CASE ServerStops
  BY <1>9 DEF ServerStops
<1>10. CASE UNCHANGED hubVars
  BY <1>10 DEF hubVars
<1> QED
  BY <1>2, <1>3, <1>4, <1>5, <1>6, <1>7, <1>8, <1>9, <1>10
  DEF LiveNext, HubNext, ServerStarts

\* No dashboard that left stays in the map, nobody waits for a lock that no
\* broadcast holds, and a dashboard that does not read costs Room messages at most,
\* however connections, broadcasts and restarts of the server interleave.
THEOREM AccountedAlways == LiveSpec => []Accounted
<1>1. LiveInit => Running /\ Accounted
  BY RoomAssumption DEF LiveInit, HubInit, Running, Accounted
<1> QED
  BY <1>1, InitEstablishes, StepPreserves, AccountedStays, PTL DEF LiveSpec

-----------------------------------------------------------------------------
(* The pulse.                                                              *)

\* The beat under way says what the gateway still believes: whatever changes the
\* belief ends the beat.
BeatIsCurrent == beat # "none" => beat = IF online THEN "online" ELSE "offline"

\* Every end of a beat, and of the gateway, leaves a current beat or none.
LEMMA BeatStaysCurrent ==
  BeatIsCurrent /\ [LiveNext]_<<up, pulseVars, hubVars>> => BeatIsCurrent'
  BY DEF BeatIsCurrent, LiveNext, ServerStops, ServerStarts, pulseVars, PulseNext, Beat, Accepted,
         Refused, Unreachable, GivenUp, ServedLate, GatewayStops, GatewayStarts, Woken

\* The safety behind ConnectedShowsOnline: the table turns a gateway from online to
\* offline only if the gateway itself did not know it was connected, or by a request
\* it had given up (pulse.go beat, UpsertGateway).
OfflineHasACause ==
  [][row = "online" /\ row' = "offline" => ~online \/ "offline" \in late]_pulseVars

\* A gateway that believes it is connected is not shown offline, unless an old
\* request of its own is served late, for any mishaps and restarts of either side.
THEOREM OfflineHasACauseAlways == LiveSpec => OfflineHasACause
<1>1. LiveInit => BeatIsCurrent
  BY DEF LiveInit, PulseInit, BeatIsCurrent
<1>2. BeatIsCurrent /\ [LiveNext]_<<up, pulseVars, hubVars>> =>
        [row = "online" /\ row' = "offline" => ~online \/ "offline" \in late]_pulseVars
  BY DEF BeatIsCurrent, LiveNext, ServerStops, ServerStarts, pulseVars, PulseNext, Beat, Accepted,
         Refused, Unreachable, GivenUp, ServedLate, GatewayStops, GatewayStarts, Woken
<1> QED
  BY <1>1, <1>2, BeatStaysCurrent, PTL DEF LiveSpec, OfflineHasACause

-----------------------------------------------------------------------------
(* Traffic.                                                                *)

\* What the run of Traffic shows are behaviours of the pulse and the hub, of the edge
\* buffer and of the write bridge: what is proved of these holds there (main).
LEMMA TrafficShowsItsParts == TrafficSpec => LiveSpec /\ Spec /\ BridgeSpec
<1>1. TrafficInit => LiveInit /\ Init /\ BridgeInit
  BY DEF TrafficInit
<1>2. [TrafficNext]_<<liveVars, vars, bridgeVars, shown>> =>
        /\ [LiveNext]_<<up, pulseVars, hubVars>>
        /\ [Next]_vars
        /\ [BridgeNext]_bridgeVars
  BY DEF TrafficNext, liveVars
<1> QED
  BY <1>1, <1>2, PTL DEF TrafficSpec, LiveSpec, Spec, BridgeSpec
=============================================================================
