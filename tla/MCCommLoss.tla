----------------------------- MODULE MCCommLoss ------------------------------
(* Two assets; the loss is noticed after two units of time.                 *)
EXTENDS CommLoss
=============================================================================
