--------------------------------- MODULE Hub ---------------------------------
(***************************************************************************)
(* The hub between the server's event sources and the dashboards: a map of *)
(* clients under a read-write lock, a bounded channel for each, closed     *)
(* when the client leaves.  Broadcasts hold the lock for reading and do    *)
(* not wait for a slow client.                                             *)
(*                                                                         *)
(* An operator directly before another one with the same parameters is a   *)
(* mutated form of it, used by mutation runs only.                         *)
(***************************************************************************)
EXTENDS Integers, FiniteSets

CONSTANTS
  Dashboards,
  Broadcasters,   \* goroutines that broadcast: ingest, alarm engine, loop manager
  Room            \* capacity of a client's channel

ASSUME RoomAssumption == Room \in Nat \ {0}

VARIABLES
  conn,      \* conn[c]: "away", "open", "leaving" (waits for the lock) or "left"
  clients,   \* Hub.clients
  queued,    \* queued[c]: messages in the channel
  readers,   \* broadcasters that hold the lock for reading
  left,      \* left[b]: clients the running broadcast has still to serve
  at,        \* at[b]: "idle" or "sending"
  panic      \* a message was sent to a closed channel

hubVars == <<conn, clients, queued, readers, left, at, panic>>

HubInit ==
  /\ conn = [c \in Dashboards |-> "away"]
  /\ clients = {}
  /\ queued = [c \in Dashboards |-> 0]
  /\ readers = {}
  /\ left = [b \in Broadcasters |-> {}]
  /\ at = [b \in Broadcasters |-> "idle"]
  /\ panic = FALSE

\* WebSocket, Register.
Register(c) ==
  /\ conn[c] = "away" /\ readers = {}
  /\ conn' = [conn EXCEPT ![c] = "open"]
  /\ clients' = clients \cup {c}
  /\ queued' = [queued EXCEPT ![c] = 0]
  /\ UNCHANGED <<readers, left, at, panic>>

\* A read or a write fails, the handler calls Close and waits for the lock.
Disconnect(c) ==
  /\ conn[c] = "open"
  /\ conn' = [conn EXCEPT ![c] = "leaving"]
  /\ UNCHANGED <<clients, queued, readers, left, at, panic>>

Unregister(c) ==
  /\ conn[c] = "leaving" /\ readers = {}
  /\ conn' = [conn EXCEPT ![c] = "left"]
  /\ clients' = clients \ {c}
  /\ UNCHANGED <<queued, readers, left, at, panic>>

\* The writer goroutine; a slow dashboard takes nothing for as long as it likes.
Take(c) ==
  /\ queued[c] > 0
  /\ queued' = [queued EXCEPT ![c] = @ - 1]
  /\ UNCHANGED <<conn, clients, readers, left, at, panic>>

\* The next connection of the dashboard is a new client.
ComesBack(c) ==
  /\ conn[c] = "left"
  /\ conn' = [conn EXCEPT ![c] = "away"]
  /\ UNCHANGED <<clients, queued, readers, left, at, panic>>

HoldersAtStart(b) == readers
Holders(b) == readers \cup {b}

\* Broadcast; a waiting writer keeps new readers out.
Broadcast(b) ==
  /\ at[b] = "idle"
  /\ \A c \in Dashboards : conn[c] # "leaving"
  /\ at' = [at EXCEPT ![b] = "sending"]
  /\ readers' = Holders(b)
  /\ left' = [left EXCEPT ![b] = clients]
  /\ UNCHANGED <<conn, clients, queued, panic>>

ReadyWithRoom(c) == queued[c] < Room
Ready(c) == TRUE

\* Send: a full channel drops the message.
Send(b) ==
  /\ \E c \in left[b] :
       /\ Ready(c)
       /\ left' = [left EXCEPT ![b] = @ \ {c}]
       /\ queued' = IF queued[c] < Room THEN [queued EXCEPT ![c] = @ + 1] ELSE queued
       /\ panic' = (panic \/ conn[c] = "left")
  /\ UNCHANGED <<conn, clients, readers, at>>

Release(b) ==
  /\ at[b] = "sending" /\ left[b] = {}
  /\ at' = [at EXCEPT ![b] = "idle"]
  /\ readers' = readers \ {b}
  /\ UNCHANGED <<conn, clients, queued, left, panic>>

HubNext ==
  \/ \E c \in Dashboards :
       \/ Register(c)
       \/ Disconnect(c)
       \/ Unregister(c)
       \/ Take(c)
       \/ ComesBack(c)
  \/ \E b \in Broadcasters :
       \/ Broadcast(b)
       \/ Send(b)
       \/ Release(b)

\* Goroutines run and the lock is granted; no dashboard has to read.
HubFair ==
  /\ \A b \in Broadcasters : WF_hubVars(Send(b)) /\ WF_hubVars(Release(b))
  /\ \A c \in Dashboards : WF_hubVars(Unregister(c))

-----------------------------------------------------------------------------
\* Nothing is sent to a channel that unregister has closed, however broadcasts,
\* registrations and disconnects interleave (Broadcast, unregister).
NoSendOnClosed == ~panic

\* Dashboards that do not read hold nobody up: every broadcast ends and every
\* dashboard that leaves is let go (Send, "a slow consumer never blocks").
NobodyWaits ==
  /\ \A b \in Broadcasters : at[b] = "sending" ~> at[b] = "idle"
  /\ \A c \in Dashboards : conn[c] = "leaving" ~> conn[c] # "leaving"
=============================================================================
