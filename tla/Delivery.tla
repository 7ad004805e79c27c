------------------------------- MODULE Delivery ------------------------------
(***************************************************************************)
(* What store-and-forward promises, without a network: a message stays in  *)
(* the queue of the gateway until it is stored or refused by the server,   *)
(* and it does not stay there for ever.                                    *)
(***************************************************************************)
CONSTANT Messages

VARIABLES
  issued,   \* messages the gateway has accepted from its source
  queued,   \* messages in its queue
  stored,   \* messages in the historian
  refused   \* messages an answer of the server has rejected

vars == <<issued, queued, stored, refused>>

Init == issued = {} /\ queued = {} /\ stored = {} /\ refused = {}

Issue(m) ==
  /\ m \notin issued
  /\ issued' = issued \cup {m}
  /\ queued' = queued \cup {m}
  /\ UNCHANGED <<stored, refused>>

\* Also possible after the message has left the queue: an abandoned request.
Store(m) ==
  /\ m \in issued \ stored
  /\ stored' = stored \cup {m}
  /\ UNCHANGED <<issued, queued, refused>>

Refuse(S) ==
  /\ S \subseteq queued
  /\ refused' = refused \cup S
  /\ UNCHANGED <<issued, queued, stored>>

Forget(S) ==
  /\ S \subseteq queued \cap (stored \cup refused)
  /\ queued' = queued \ S
  /\ UNCHANGED <<issued, stored, refused>>

Next ==
  \/ \E m \in Messages : Issue(m) \/ Store(m)
  \/ \E S \in SUBSET Messages : Refuse(S) \/ Forget(S)

Spec == Init /\ [][Next]_vars

\* No message is queued for ever.
Drains == \A m \in Messages : m \in queued ~> m \notin queued
=============================================================================
