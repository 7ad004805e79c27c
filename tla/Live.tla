--------------------------------- MODULE Live --------------------------------
(***************************************************************************)
(* The server between a gateway and its dashboards.  The gateways table    *)
(* outlives a restart of the server, the hub and its clients do not.       *)
(***************************************************************************)
EXTENDS GatewayStatus, Hub

LiveInit == PulseInit /\ HubInit

\* The process ends: every connection breaks, the requests it served are gone.
ServerStops ==
  /\ up
  /\ up' = FALSE
  /\ conn' = [c \in Dashboards |-> "away"]
  /\ clients' = {} /\ readers' = {}
  /\ queued' = [c \in Dashboards |-> 0]
  /\ left' = [b \in Broadcasters |-> {}]
  /\ at' = [b \in Broadcasters |-> "idle"]
  /\ late' = {}
  /\ UNCHANGED <<alive, online, beat, row, wake, mishaps, panic>>

ServerStarts ==
  /\ ~up
  /\ up' = TRUE
  /\ UNCHANGED <<pulseVars, hubVars>>

LiveNext ==
  \/ PulseNext /\ UNCHANGED <<up, hubVars>>
  \/ up /\ HubNext /\ UNCHANGED <<up, pulseVars>>
  \/ ServerStops
  \/ ServerStarts

LiveSpec == LiveInit /\ [][LiveNext]_<<up, pulseVars, hubVars>>
=============================================================================
