------------------------------ MODULE MCSources ------------------------------
(* Field drivers with two tags; a Sparkplug node with two metrics, one of    *)
(* them monitored, whose second layout moves an alias and takes one away.    *)
EXTENDS Sources

CONSTANTS n1, m1, m2

MCNodes == {n1}
MCMetrics == {m1, m2}
MCSparkTags == {<<n1, m1>>}
MCLayouts == {[m \in MCMetrics |-> IF m = m1 THEN 1 ELSE 2],
              [m \in MCMetrics |-> IF m = m1 THEN 2 ELSE 0]}
MCDrivers == FieldDrivers \cup {"sparkplug"}
=============================================================================
