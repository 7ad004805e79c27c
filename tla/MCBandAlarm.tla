----------------------------- MODULE MCBandAlarm -----------------------------
(* A tag with a wide span and hysteresis 1; boundaries on a scale of 0..4.  *)
EXTENDS BandAlarm

\* ti201: notice at hi, critical at hi_hi; the same row shelved.
HighRow == [enabled |-> TRUE, at |-> [b \in {"hi", "hi_hi"} |-> IF b = "hi" THEN 2 ELSE 3],
            sev |-> "critical"]
Shelved == [HighRow EXCEPT !.enabled = FALSE]

HighOrShelved == {HighRow, Shelved}
LowValues     == 0..3
=============================================================================
