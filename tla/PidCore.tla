-------------------------------- MODULE PidCore --------------------------------
(***************************************************************************)
(* What the control loops share of the PID core: bounds, and the outputs   *)
(* one step may reach from a previous one.                                 *)
(***************************************************************************)
EXTENDS Integers

Clamp(v, lo, hi) == LET atLeast == IF v > lo THEN v ELSE lo
                    IN  IF atLeast < hi THEN atLeast ELSE hi

\* Outputs control.Step can return: inside the dead-band the previous output,
\* otherwise the PID sum clamped to the range and then to the slew window
\* around the previous output; a slew of 0 disables the window.
Moves(lo, hi, slew, prev) ==
  {prev} \cup { IF slew > 0 THEN Clamp(x, prev - slew, prev + slew) ELSE x : x \in lo..hi }
=============================================================================
