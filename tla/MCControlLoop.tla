---------------------------- MODULE MCControlLoop ----------------------------
(* Small instances of ControlLoop for TLC.                                  *)
EXTENDS ControlLoop

PH       == <<"ph">>
Standard == <<"standard">>

\* Three output levels are enough to tell the seeded output, the largest one
\* and a value the PID moved to apart; Slew = 1 makes the full range take two
\* ticks.
Low1  == <<0>>
High1 == <<2>>

\* dic401, whose range starts above the output it is seeded with.
Low401  == <<2>>
High401 == <<3>>
=============================================================================
