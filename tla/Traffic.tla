------------------------------- MODULE Traffic -------------------------------
(***************************************************************************)
(* What passes between a gateway and its server, and on to the dashboards: *)
(* beats and broadcasts (Live), readings from the edge buffer, commands to *)
(* the write bridge.  The four meet in restarts of the server only, which  *)
(* every one of them goes through.  A behaviour therefore shows one while  *)
(* the others have nothing to do, and each has all of its own behaviours.  *)
(***************************************************************************)
EXTENDS Live, EdgeDelivery, WriteBridge

VARIABLE shown   \* the one that is shown, chosen once

liveVars == <<up, pulseVars, hubVars>>

\* A gateway that is not started, dashboards that do not connect, an empty queue and
\* a bridge without commands have nothing to do.
TrafficInit ==
  /\ LiveInit /\ Init /\ BridgeInit
  /\ shown \in {"pulse", "hub", "delivery", "bridge"}
  /\ shown # "pulse" => ~alive /\ up = (shown = "hub")
  /\ shown # "delivery" => limit = CHOOSE l \in Limits : TRUE

TrafficNext ==
  /\ \/ shown = "pulse" /\ UNCHANGED <<hubVars, vars, bridgeVars>> /\ LiveNext
     \/ shown = "hub" /\ UNCHANGED <<pulseVars, vars, bridgeVars>> /\ LiveNext
     \/ shown = "delivery" /\ UNCHANGED <<liveVars, bridgeVars>> /\ Next
     \/ shown = "bridge" /\ UNCHANGED <<liveVars, vars>> /\ BridgeNext
  /\ UNCHANGED shown

TrafficSpec == TrafficInit /\ [][TrafficNext]_<<liveVars, vars, bridgeVars, shown>>

FairTraffic == TrafficSpec /\ PulseFair /\ HubFair /\ EdgeFair /\ BridgeFair
=============================================================================
