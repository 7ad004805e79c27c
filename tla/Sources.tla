------------------------------- MODULE Sources -------------------------------
(***************************************************************************)
(* A gateway with the driver its configuration names (NewSource).          *)
(***************************************************************************)
EXTENDS FieldRead, Sparkplug

\* Sparkplug reads no registers, the others have no broker: one state of these
\* stands for all.
SourcesInit ==
  /\ FieldInit /\ SparkInit
  /\ IF driver = "sparkplug" THEN link = "up" /\ reg = All("good")
                             ELSE mqtt = "off" /\ ~subscribed

SourcesNext ==
  \/ driver \in FieldDrivers /\ FieldStep /\ UNCHANGED sparkVars
  \/ driver = "sparkplug" /\ SparkNext /\ UNCHANGED fieldVars

SourcesSpec == SourcesInit /\ [][SourcesNext]_<<fieldVars, sparkVars>>

FairSources == SourcesSpec /\ FieldFair /\ SparkFair
=============================================================================
