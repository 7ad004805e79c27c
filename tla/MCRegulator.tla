------------------------------ MODULE MCRegulator ------------------------------
(* Five parts of the range and factors in halves; a standard loop with     *)
(* negative gains, as lic301, and a pH loop, as phc301.                    *)
EXTENDS Regulator

Level == [type |-> "standard", kp |-> -2, ki |-> -2, kd |-> 0, deadband |-> 0,
          slew |-> 3, adaptive |-> FALSE, selftune |-> FALSE,
          warning |-> 0, critical |-> 0]
PH    == [Level EXCEPT !.type = "ph", !.slew = 2, !.selftune = TRUE,
                       !.warning = 1, !.critical = 2]

BothLoops == {Level, PH}
OneBand   == {<<1, 2>>}

\* Errors -1, 0, 2 and 3: both signs, and the three zones of the pH loop.
Setpoints == {0, 1}
Values    == {-2, 1}
Offsets   == {-4, 1}
=============================================================================
