----------------------------- MODULE MCMetallurgy ----------------------------
(* Seven of the fifteen sources; a plant in operation, one whose analysers of *)
(* feed and concentrate are swapped, and one at a standstill.                 *)
EXTENDS Metallurgy

MCOrder == <<"fi101", "wi301", "wi302", "afi301", "afc301", "aft301", "qi301">>

Assay(f, c, t, a, b, th, q) ==
  [s \in Sources |->
     CASE s = "fi101" -> f [] s = "wi301" -> c [] s = "wi302" -> t [] s = "afi301" -> a
       [] s = "afc301" -> b [] s = "aft301" -> th [] s = "qi301" -> q]

MCAssays == {Assay(100, 3, 97, 80, 2200, 15, 180),
             Assay(100, 3, 97, 2200, 80, 15, 180),
             Assay(0, 0, 0, 80, 10, 15, 0)}

AtMostOne == {{}} \cup {{s} : s \in Sources}
=============================================================================
