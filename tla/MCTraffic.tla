------------------------------ MODULE MCTraffic ------------------------------
(* One gateway, two dashboards with room for one message; four messages,    *)
(* batches of two, two overlapping requests; two actuators, two values, two *)
(* commands each.                                                           *)
EXTENDS Traffic
=============================================================================
