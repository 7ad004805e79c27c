-------------------------- MODULE CalculationProofs --------------------------
(***************************************************************************)
(* The two modules of the server that compute: Regulator (the PID core)    *)
(* and Metallurgy (the balance), for every range, resolution, design, set  *)
(* of readings, and order of the sources.                                  *)
(*                                                                         *)
(* Regulator is about signs.  Tuning and scheduling keep the sign of the   *)
(* base gains (TunedSign, AdjustedSign), so a step whose error asks for    *)
(* less has a negative P part and an I part that does not grow; the clamp  *)
(* keeps the integral at Full at most (Bounded), and their sum is below    *)
(* Full.                                                                   *)
(*                                                                         *)
(* Metallurgy is about two inequalities.  With flows F, C, T of feed,      *)
(* concentrate and tails, and x, y the grades of feed and concentrate over *)
(* that of the tails, the closure gives C <= 1.02 F and the cross-check    *)
(* 0.95 F x <= C y; the flows cancel and x <= 1.02 / 0.95 y is left.       *)
(***************************************************************************)
EXTENDS Regulator, Metallurgy, TLAPS

-----------------------------------------------------------------------------
(* The PID core.                                                           *)

\* Clamp returns an integer between its bounds if they are in order.
LEMMA ClampType ==
  ASSUME NEW v \in Int, NEW lo \in Int, NEW hi \in Int
  PROVE  /\ Clamp(v, lo, hi) \in Int
         /\ Clamp(v, lo, hi) <= hi
         /\ lo <= hi => lo <= Clamp(v, lo, hi)
BY DEF Clamp

\* The product of integers is an integer.
LEMMA ProductType ==
  ASSUME NEW x \in Int, NEW y \in Int
  PROVE  x * y \in Int
OBVIOUS

\* Scaled gains are integers.
LEMMA ScaleType ==
  ASSUME NEW base \in Int, NEW factor \in Int
  PROVE  Scale(base, factor) \in Int
<1>1. base * factor \in Int  BY ProductType
<1>2. QED  BY <1>1, FactorAssumption DEF Scale

\* A base gain that is a multiple of Unit is scaled exactly, so that a positive
\* factor keeps its sign.
LEMMA ScaleSign ==
  ASSUME NEW base \in Int, base % Unit = 0, NEW factor \in Nat, 1 <= factor
  PROVE  /\ base < 0 => Scale(base, factor) < 0
         /\ base > 0 => Scale(base, factor) > 0
         /\ base = 0 => Scale(base, factor) = 0
<1> USE FactorAssumption
<1> DEFINE q == base \div Unit
<1>1. q \in Int /\ base = q * Unit
  OBVIOUS
<1>2. (q * factor) * Unit = base * factor /\ q * factor \in Int
  BY <1>1
<1>3. Scale(base, factor) = q * factor
  <2> HIDE DEF q
  <2>1. ((q * factor) * Unit) \div Unit = q * factor
    BY <1>2, <1>1
  <2>2. QED  BY <2>1, <1>2 DEF Scale
<1>4. base < 0 => q < 0
  BY <1>1
<1>5. base > 0 => q > 0
  BY <1>1
<1>6. base = 0 => q = 0
  OBVIOUS
<1>7. q < 0 => q * factor < 0
  <2> HIDE DEF q
  <2> QED  BY <1>1
<1>8. q > 0 => q * factor > 0
  <2> HIDE DEF q
  <2> QED  BY <1>1
<1>9. QED  BY <1>3, <1>4, <1>5, <1>6, <1>7, <1>8

\* Scheduled gains are integers and keep the sign of the base gain.
LEMMA AdjustedSign ==
  ASSUME NEW base \in Int, base % Unit = 0, NEW indicator \in Int
  PROVE  /\ Adjust(base, indicator) \in Int
         /\ base < 0 => Adjust(base, indicator) < 0
         /\ base > 0 => Adjust(base, indicator) > 0
         /\ base = 0 => Adjust(base, indicator) = 0
<1> DEFINE f  == GainFactor(indicator)
           v  == Scale(base, f)
           lo == Scale(base, FactorMin)
           hi == Scale(base, FactorMax)
<1>1. f \in Nat /\ 1 <= f
  <2>1. (Unit \div 2) + indicator \in Int  BY FactorAssumption
  <2>2. /\ FactorMin \in Int /\ FactorMax \in Int
        /\ 1 <= FactorMin /\ FactorMin <= FactorMax
    BY FactorAssumption
  <2> HIDE DEF f
  <2>3. f \in Int /\ FactorMin <= f
    BY <2>1, <2>2, ClampType DEF f, GainFactor
  <2>4. QED  BY <2>2, <2>3
<1>2. v \in Int /\ lo \in Int /\ hi \in Int
  <2>1. f \in Int /\ FactorMin \in Int /\ FactorMax \in Int
    <3> HIDE DEF f
    <3> QED  BY <1>1, FactorAssumption
  <2> HIDE DEF f
  <2>2. QED  BY <2>1, ScaleType
<1>3. /\ base < 0 => hi < 0
      /\ base > 0 => lo > 0 /\ hi > 0
      /\ base = 0 => v = 0 /\ lo = 0 /\ hi = 0
  <2>1. 1 <= FactorMin /\ 1 <= FactorMax /\ FactorMin \in Nat /\ FactorMax \in Nat
    BY FactorAssumption
  <2> HIDE DEF f
  <2>2. QED  BY <1>1, <2>1, ScaleSign
<1>4. Adjust(base, indicator) = Clamp(v, lo, hi)  BY DEF Adjust
<1> HIDE DEF v, lo, hi
<1>5. QED  BY <1>2, <1>3, <1>4 DEF Clamp

\* So do the self-tuned gains.
LEMMA TunedSign ==
  ASSUME NEW base \in Int, base % Unit = 0, NEW delta \in Int
  PROVE  /\ SelfTuned(base, delta) \in Int
         /\ base < 0 => SelfTuned(base, delta) < 0
         /\ base > 0 => SelfTuned(base, delta) > 0
         /\ base = 0 => SelfTuned(base, delta) = 0
<1> DEFINE v  == Scale(base, Unit + delta)
           lo == Scale(base, TuneMin)
           hi == Scale(base, TuneMax)
<1>1. v \in Int /\ lo \in Int /\ hi \in Int
  <2>1. Unit + delta \in Int /\ TuneMin \in Int /\ TuneMax \in Int
    BY FactorAssumption
  <2>2. QED  BY <2>1, ScaleType
<1>2. /\ base < 0 => lo < 0 /\ hi < 0
      /\ base > 0 => lo > 0 /\ hi > 0
  <2>1. 1 <= TuneMin /\ 1 <= TuneMax /\ TuneMin \in Nat /\ TuneMax \in Nat
    BY FactorAssumption
  <2>2. QED  BY <2>1, ScaleSign
<1>3. CASE base = 0
  <2>1. base * (Unit + delta) = 0  BY <1>3, FactorAssumption
  <2>2. v = 0  BY <2>1, FactorAssumption DEF Scale
  <2>3. SelfTuned(base, delta) = v  BY <1>3 DEF SelfTuned, ClampSigned
  <2>4. QED  BY <1>3, <2>2, <2>3
<1>4. CASE base > 0
  <2>1. SelfTuned(base, delta) = Clamp(v, lo, hi)
    BY <1>4 DEF SelfTuned, ClampSigned
  <2> HIDE DEF v, lo, hi
  <2>2. QED  BY <1>1, <1>2, <1>4, <2>1 DEF Clamp
<1>5. CASE base < 0
  <2>1. SelfTuned(base, delta) = Clamp(v, hi, lo)
    BY <1>5 DEF SelfTuned, ClampSigned
  <2> HIDE DEF v, lo, hi
  <2>2. QED  BY <1>1, <1>2, <1>5, <2>1 DEF Clamp
<1>6. QED  BY <1>3, <1>4, <1>5

-----------------------------------------------------------------------------
(* The inductive invariant.                                                *)

\* The base gains of the loop can be scaled exactly and push the same way:
\* nobody writes them.
GainsFit ==
  /\ loop.kp % Unit = 0 /\ loop.ki % Unit = 0
  /\ (loop.kp <= 0 /\ loop.ki <= 0) \/ (loop.kp >= 0 /\ loop.ki >= 0)

\* Until the first tick after a switch to auto that knew the position of the
\* valve, the integral, the output and the valve stay where the switch put them.
Seeded ==
  transfer = "known" => ~prev.has /\ mode = "auto" /\ integral = out /\ valve = out

IInv == TypeOK /\ GainsFit /\ Seeded

\* The gains of a tick are integers with the signs of the base gains.
LEMMA GainsSign ==
  ASSUME TypeOK, GainsFit, NEW g \in Gains
  PROVE  /\ g.kp \in Int /\ g.ki \in Int
         /\ loop.kp < 0 => g.kp < 0
         /\ loop.kp > 0 => g.kp > 0
         /\ loop.kp = 0 => g.kp = 0
         /\ loop.ki < 0 => g.ki < 0
         /\ loop.ki > 0 => g.ki > 0
         /\ loop.ki = 0 => g.ki = 0
<1>1. loop.kp \in Int /\ loop.ki \in Int  BY DEF TypeOK, Design
<1>2. CASE g.kp = loop.kp /\ g.ki = loop.ki
  BY <1>1, <1>2
<1>3. CASE \E t \in Temps, f \in Flows :
             g.kp = SelfTuned(loop.kp, t) /\ g.ki = SelfTuned(loop.ki, f)
  <2>1. PICK t \in Temps, f \in Flows :
          g.kp = SelfTuned(loop.kp, t) /\ g.ki = SelfTuned(loop.ki, f)
    BY <1>3
  <2>2. t \in Int /\ f \in Int  BY PlantAssumption
  <2>3. QED  BY <1>1, <2>1, <2>2, TunedSign DEF GainsFit
<1>4. CASE \E i \in Indicators : g.kp = Adjust(loop.kp, i) /\ g.ki = Adjust(loop.ki, i)
  <2>1. PICK i \in Indicators : g.kp = Adjust(loop.kp, i) /\ g.ki = Adjust(loop.ki, i)
    BY <1>4
  <2>2. i \in Int  BY PlantAssumption
  <2>3. QED  BY <1>1, <2>1, <2>2, AdjustedSign DEF GainsFit
<1>5. QED
  <2>1. \/ g = [kp |-> loop.kp, ki |-> loop.ki]
        \/ \E t \in Temps, f \in Flows :
             g = [kp |-> SelfTuned(loop.kp, t), ki |-> SelfTuned(loop.ki, f)]
        \/ \E i \in Indicators : g = [kp |-> Adjust(loop.kp, i), ki |-> Adjust(loop.ki, i)]
    BY DEF Gains
  <2>2. QED  BY <2>1, <1>2, <1>3, <1>4

\* The integral stays in its range, and a push from inside the range cannot
\* turn it around.
LEMMA Bounded ==
  ASSUME NEW i \in Int, NEW push \in Int
  PROVE  /\ Integrated(i, push) \in (-Half)..Full
         /\ i \in (-Half)..Full /\ push >= 0 =>
              Integrated(i, push) >= i /\ Integrated(i, push) <= i + push
         /\ i \in (-Half)..Full /\ push <= 0 =>
              Integrated(i, push) <= i /\ (Integrated(i, push) >= i + push)
BY RangeAssumption DEF Integrated, Clamp

\* The output of a step is inside the range if the previous one is, and is one of
\* those ControlLoop allows.
LEMMA StepOutputInMoves ==
  ASSUME TypeOK, GainsFit, NEW g \in Gains
  PROVE  /\ StepOutput(g, Error) \in 0..Full
         /\ StepOutput(g, Error) \in Moves(0, Full, loop.slew, out)
<1> DEFINE sum == g.kp * Error + Integrated(integral, g.ki * Error) + Derivative(Error)
           raw == Clamp(sum, 0, Full)
<1>1. Error \in Int /\ integral \in Int /\ loop.slew \in Nat /\ loop.kd \in Int
      /\ prev.err \in Int /\ out \in 0..Full
  BY PlantAssumption, RangeAssumption DEF TypeOK, Design, Error
<1>2. sum \in Int
  <2>1. g.kp \in Int /\ g.ki \in Int  BY GainsSign
  <2>2. g.kp * Error \in Int /\ g.ki * Error \in Int  BY <1>1, <2>1, ProductType
  <2>3. Integrated(integral, g.ki * Error) \in Int
    <3>1. Integrated(integral, g.ki * Error) \in (-Half)..Full
      BY <1>1, <2>2, Bounded
    <3>2. QED  BY <3>1, RangeAssumption
  <2>4. Derivative(Error) \in Int
    <3>1. Error - prev.err \in Int  BY <1>1
    <3>2. loop.kd * (Error - prev.err) \in Int  BY <1>1, <3>1, ProductType
    <3>3. QED  BY <3>2 DEF Derivative
  <2> HIDE DEF raw
  <2>5. QED  BY <2>2, <2>3, <2>4
<1>3. StepOutput(g, Error) =
        IF loop.slew > 0 THEN Clamp(raw, out - loop.slew, out + loop.slew) ELSE raw
  BY DEF StepOutput
<1> HIDE DEF sum
<1>4. raw \in 0..Full
  BY <1>2, RangeAssumption, ClampType
<1> HIDE DEF raw
<1>5. StepOutput(g, Error) \in 0..Full
  BY <1>1, <1>3, <1>4, RangeAssumption DEF Clamp
<1>6. QED  BY <1>3, <1>4, <1>5 DEF Moves

-----------------------------------------------------------------------------
(* The invariant holds.                                                    *)

\* A loop as it is seeded.
LEMMA InitInv == Init => IInv
<1> SUFFICES ASSUME Init PROVE IInv
  OBVIOUS
<1>1. TypeOK
  BY RangeAssumption, SeedsAssumption, DesignsAssumption DEF Init, TypeOK, NoError, Nothing
<1>2. GainsFit  BY DesignsAssumption DEF Init, GainsFit
<1>3. Seeded  BY DEF Init, Seeded
<1>4. QED  BY <1>1, <1>2, <1>3 DEF IInv

\* What a step leaves alone: the base gains.
LEMMA GainsKept == IInv /\ [Next]_vars => GainsFit'
<1> SUFFICES ASSUME IInv, [Next]_vars PROVE GainsFit'
  OBVIOUS
<1>1. loop'.kp = loop.kp /\ loop'.ki = loop.ki
  <2>1. loop \in Design  BY DEF IInv, TypeOK
  <2>2. CASE \E on \in BOOLEAN : SetLoopAdaptive(on)
    BY <2>1, <2>2 DEF SetLoopAdaptive, Design
  <2>3. CASE \E on \in BOOLEAN, b \in Bands : SetLoopPHConfig(b, on)
    BY <2>1, <2>3 DEF SetLoopPHConfig, Design
  <2>4. CASE UNCHANGED loop
    BY <2>4
  <2>5. QED
    BY <2>2, <2>3, <2>4 DEF Next, vars, Tick, Hold, ForceManual, Step, Freeze, SwitchToAuto,
       SwitchToManual, SetLoopOutput, SetLoopSetpoint, BridgeWrites, ReportPosition, PVChanges
<1>2. QED  BY <1>1 DEF IInv, GainsFit

\* Steps by the field and by operators that change one variable of the type.
LEMMA TypeKept == IInv /\ [Next]_vars => TypeOK'
<1> SUFFICES ASSUME IInv, [Next]_vars PROVE TypeOK'
  OBVIOUS
<1>1. TypeOK /\ GainsFit  BY DEF IInv
<1>2. Error \in Int  BY <1>1, PlantAssumption DEF TypeOK, Error
<1>3. CASE Hold
  BY <1>1, <1>2, <1>3 DEF Hold, Remember, TypeOK, plant
<1>4. CASE ForceManual
  BY <1>1, <1>2, <1>4 DEF ForceManual, Remember, TypeOK, plant
<1>5. CASE \E g \in Gains : Step(g)
  <2>1. PICK g \in Gains : Step(g)  BY <1>5
  <2>2. out' \in 0..Full  BY <1>1, <2>1, StepOutputInMoves DEF Step
  <2>3. integral' \in (-Half)..Full
    <3>1. g.ki * Error \in Int  BY <1>1, <1>2, GainsSign, ProductType
    <3>2. integral \in Int  BY <1>1, RangeAssumption DEF TypeOK
    <3>3. QED  BY <2>1, <3>1, <3>2, Bounded DEF Step
  <2>4. QED  BY <1>1, <1>2, <2>1, <2>2, <2>3 DEF Step, Remember, TypeOK, plant
<1>6. CASE Freeze
  BY <1>1, <1>6 DEF Freeze, Remember, TypeOK, plant
<1>7. CASE SwitchToAuto
  <2>1. BumplessSeed \in (-Half)..Full
    BY <1>1, RangeAssumption DEF TypeOK, BumplessSeed, Clamp, Nothing
  <2>2. Transfer \in {"known", "apart", "none"}
    BY DEF Transfer
  <2>3. QED  BY <1>1, <1>7, <2>1, <2>2 DEF SwitchToAuto, TypeOK, plant, NoError
<1>8. CASE SwitchToManual
  BY <1>1, <1>8, RangeAssumption DEF SwitchToManual, TypeOK, plant, NoError
<1>9. CASE \E v \in 0..Full : SetLoopOutput(v)
  BY <1>1, <1>9 DEF SetLoopOutput, TypeOK, plant
<1>10. CASE \E s \in SPs : SetLoopSetpoint(s)
  BY <1>1, <1>10 DEF SetLoopSetpoint, TypeOK, memory, plant
<1>11. CASE \E on \in BOOLEAN : SetLoopAdaptive(on)
  <2>1. loop' \in Design  BY <1>1, <1>11 DEF SetLoopAdaptive, TypeOK, Design
  <2>2. QED  BY <1>1, <1>11, <2>1 DEF SetLoopAdaptive, TypeOK, memory, plant
<1>12. CASE \E on \in BOOLEAN, b \in Bands : SetLoopPHConfig(b, on)
  <2>1. loop' \in Design
    <3>1. PICK on \in BOOLEAN, b \in Bands : SetLoopPHConfig(b, on)  BY <1>12
    <3>2. b \in (Nat \ {0}) \X (Nat \ {0})  BY BandsAssumption
    <3>3. b[1] \in Nat /\ b[2] \in Nat  BY <3>2
    <3>4. QED  BY <1>1, <3>1, <3>3 DEF SetLoopPHConfig, TypeOK, Design
  <2>2. QED  BY <1>1, <1>12, <2>1 DEF SetLoopPHConfig, TypeOK, memory, plant
<1>13. CASE BridgeWrites \/ ReportPosition
  BY <1>1, <1>13 DEF BridgeWrites, ReportPosition, TypeOK, memory
<1>14. CASE \E v \in PVs : PVChanges(v)
  BY <1>1, <1>14 DEF PVChanges, TypeOK, memory
<1>15. CASE UNCHANGED vars
  BY <1>1, <1>15 DEF vars, TypeOK, memory, plant
<1>16. QED
  BY <1>3, <1>4, <1>5, <1>6, <1>7, <1>8, <1>9, <1>10, <1>11, <1>12, <1>13, <1>14, <1>15
  DEF Next, Tick

\* Only a switch to auto claims to know the position, and then the memory does.
LEMMA SeededKept == IInv /\ [Next]_vars => Seeded'
<1> SUFFICES ASSUME IInv, [Next]_vars PROVE Seeded'
  OBVIOUS
<1>1. TypeOK /\ Seeded  BY DEF IInv
<1>2. CASE Tick \/ Freeze
  BY <1>2 DEF Tick, Hold, ForceManual, Step, Freeze, Remember, Seeded
<1>3. CASE SwitchToAuto
  <2>1. SUFFICES ASSUME transfer' = "known"
                 PROVE  ~prev'.has /\ mode' = "auto" /\ integral' = out' /\ valve' = out'
    BY DEF Seeded
  <2>2. out = valve /\ reported \in {Nothing, valve}
    BY <1>3, <2>1 DEF SwitchToAuto, Transfer
  <2>3. BumplessSeed = out
    <3>1. out \in Int /\ -Half <= out /\ out <= Full
      BY <1>1, RangeAssumption DEF TypeOK
    <3>2. BumplessSeed = Clamp(out, -Half, Full)
      BY <2>2 DEF BumplessSeed
    <3>3. QED  BY <3>1, <3>2, RangeAssumption DEF Clamp
  <2>4. QED  BY <1>3, <2>2, <2>3 DEF SwitchToAuto, plant, NoError
<1>4. CASE SwitchToManual
  BY <1>4 DEF SwitchToManual, Seeded
<1>5. CASE \E v \in 0..Full : SetLoopOutput(v)
  BY <1>1, <1>5 DEF SetLoopOutput, Seeded, plant
<1>6. CASE BridgeWrites \/ ReportPosition
  BY <1>1, <1>6 DEF BridgeWrites, ReportPosition, Seeded, memory
<1>7. CASE UNCHANGED <<memory, valve, transfer>>
  BY <1>1, <1>7 DEF memory, Seeded
<1>8. QED
  BY <1>2, <1>3, <1>4, <1>5, <1>6, <1>7 DEF Next, vars, memory, plant, SetLoopSetpoint,
     SetLoopAdaptive, SetLoopPHConfig, PVChanges

\* So the invariant holds in every behaviour.
LEMMA Invariance == Spec => []IInv
<1>1. IInv /\ [Next]_vars => IInv'
  BY TypeKept, GainsKept, SeededKept DEF IInv
<1>2. QED  BY InitInv, <1>1, PTL DEF Spec

-----------------------------------------------------------------------------
(* The theorems.                                                           *)

\* The PID memory keeps its bounds: outputs stay inside the actuator range and
\* the integral in -50..100 percent, for every range, resolution and design
\* (loop.go Step, control.go bumplessIntegralSeed).
THEOREM TypeCorrect == Spec => []TypeOK
BY Invariance, PTL DEF IInv

\* The outputs Regulator writes are those ControlLoop lets the manager choose from.
OutputsAreMoves ==
  [][out' = out \/ (\E v \in 0..Full : SetLoopOutput(v)) \/ out' \in Moves(0, Full, loop.slew, out)]_vars

\* Every output that is not an operator's is one of the moves the tick of the control
\* loops may make, for every design, schedule, tuning and reading: what is shown of
\* ControlLoop with an output left open holds with the output computed (loop.go Step).
THEOREM OutputsAreMovesAlways == Spec => OutputsAreMoves
<1>1. ASSUME IInv, NEW g \in Gains, Step(g)
      PROVE  out' \in Moves(0, Full, loop.slew, out)
  BY <1>1, StepOutputInMoves DEF IInv, Step
<1>2. IInv /\ [Next]_vars =>
        [out' = out \/ (\E v \in 0..Full : SetLoopOutput(v))
           \/ out' \in Moves(0, Full, loop.slew, out)]_vars
  BY <1>1 DEF Next, vars, memory, plant, Tick, Hold, ForceManual, Freeze, SwitchToAuto,
     SwitchToManual, SetLoopSetpoint, SetLoopAdaptive, SetLoopPHConfig, BridgeWrites,
     ReportPosition, PVChanges
<1>3. QED  BY Invariance, <1>2, PTL DEF Spec, OutputsAreMoves

\* A product with a nonzero integer of known sign.
LEMMA ProductSign ==
  ASSUME NEW x \in Int, NEW y \in Int, NEW e \in Int,
         x < 0 => y < 0, x > 0 => y > 0, x = 0 => y = 0
  PROVE  /\ x * e < 0 => y * e < 0
         /\ x * e <= 0 => y * e <= 0
         /\ x * e >= 0 => y * e >= 0
<1>1. CASE x = 0
  BY <1>1
<1>2. CASE x > 0
  <2>1. y > 0  BY <1>2
  <2>2. CASE e < 0   BY <1>2, <2>1, <2>2
  <2>3. CASE e >= 0  BY <1>2, <2>1, <2>3
  <2>4. QED  BY <2>2, <2>3
<1>3. CASE x < 0
  <2>1. y < 0  BY <1>3
  <2>2. CASE e <= 0  BY <1>3, <2>1, <2>2
  <2>3. CASE e > 0   BY <1>3, <2>1, <2>3
  <2>4. QED  BY <2>2, <2>3
<1>4. QED  BY <1>1, <1>2, <1>3

\* The upper stop is left with the first step whose error asks for less: there
\* is no windup there, whatever tuning does to the gains.
THEOREM UpperStopIsLeftAtOnce == Spec => LeavesUpperStopAtOnce
<1>1. ASSUME IInv, NEW g \in Gains, Step(g), out = Full, loop.kd = 0,
             loop.kp * Error < 0, loop.ki * Error <= 0
      PROVE  out' < Full
  <2>1. TypeOK /\ GainsFit  BY <1>1 DEF IInv
  <2>2. /\ Error \in Int /\ integral \in Int /\ loop.kp \in Int /\ loop.ki \in Int
        /\ loop.slew \in Nat /\ prev.err \in Int
    BY <2>1, PlantAssumption, RangeAssumption DEF TypeOK, Design, Error
  <2>3. g.kp \in Int /\ g.ki \in Int  BY <2>1, GainsSign
  <2>4. g.kp * Error < 0
    BY <1>1, <2>1, <2>2, <2>3, GainsSign, ProductSign
  <2>5. g.kp * Error \in Int /\ g.ki * Error \in Int  BY <2>2, <2>3, ProductType
  <2>6. Integrated(integral, g.ki * Error) \in (-Half)..Full
    BY <2>2, <2>5, Bounded
  <2>7. Derivative(Error) = 0
    <3>1. Error - prev.err \in Int  BY <2>2
    <3>2. 0 * (Error - prev.err) = 0  BY <3>1
    <3>3. QED  BY <1>1, <3>2 DEF Derivative
  <2> DEFINE sum == g.kp * Error + Integrated(integral, g.ki * Error) + Derivative(Error)
             raw == Clamp(sum, 0, Full)
  <2>8. sum \in Int /\ sum < Full
    BY <2>4, <2>5, <2>6, <2>7, RangeAssumption
  <2>9. out' = IF loop.slew > 0 THEN Clamp(raw, Full - loop.slew, Full + loop.slew) ELSE raw
    BY <1>1 DEF Step, StepOutput
  <2> HIDE DEF sum
  <2>10. QED  BY <2>2, <2>8, <2>9, RangeAssumption DEF Clamp
<1>2. IInv /\ [Next]_vars =>
        [(\E g \in Gains : Step(g)) /\ out = Full
           /\ loop.kd = 0 /\ loop.kp * Error < 0 /\ loop.ki * Error <= 0
         => out' < Full]_vars
  BY <1>1
<1>3. QED  BY Invariance, <1>2, PTL DEF Spec, LeavesUpperStopAtOnce

\* A switch to auto that knows the position of the valve is bumpless: the first
\* step moves the actuator on the way to the sum of its P and I parts.
THEOREM KnownPositionIsBumpless == Spec => BumplessInStep
<1>1. ASSUME IInv, NEW g \in Gains, Step(g), transfer = "known"
      PROVE  WithinPush(out' - valve)
  <2> DEFINE p   == g.kp * Error
             i   == g.ki * Error
             raw == Clamp(p + Integrated(out, i), 0, Full)
             sum == (g.kp + g.ki) * Error
  <2>1. TypeOK /\ GainsFit /\ Seeded  BY <1>1 DEF IInv
  <2>2. /\ Error \in Int /\ loop.kp \in Int /\ loop.ki \in Int /\ loop.slew \in Nat
        /\ out \in 0..Full /\ out \in (-Half)..Full /\ out \in Int
    BY <2>1, PlantAssumption, RangeAssumption DEF TypeOK, Design, Error
  <2>3. ~prev.has /\ integral = out /\ valve = out  BY <1>1, <2>1 DEF Seeded
  <2>4. g.kp \in Int /\ g.ki \in Int  BY <2>1, GainsSign
  <2>5. p \in Int /\ i \in Int  BY <2>2, <2>4, ProductType
  <2>6. sum = p + i  BY <2>2, <2>4
  <2>7. (p >= 0 /\ i >= 0) \/ (p <= 0 /\ i <= 0)
    <3>1. (g.kp <= 0 /\ g.ki <= 0) \/ (g.kp >= 0 /\ g.ki >= 0)
      BY <2>1, <2>2, <2>4, GainsSign DEF GainsFit
    <3>2. CASE Error >= 0  BY <2>2, <2>4, <3>1, <3>2
    <3>3. CASE Error < 0   BY <2>2, <2>4, <3>1, <3>3
    <3>4. QED  BY <2>2, <3>2, <3>3
  <2>8. out' = IF loop.slew > 0 THEN Clamp(raw, out - loop.slew, out + loop.slew) ELSE raw
    <3>1. Derivative(Error) = 0  BY <2>3 DEF Derivative
    <3>2. p + Integrated(out, i) + 0 = p + Integrated(out, i)
      <4> HIDE DEF p, i
      <4>1. Integrated(out, i) \in (-Half)..Full  BY <2>2, <2>5, Bounded
      <4>2. QED  BY <2>5, <4>1, RangeAssumption
    <3>3. QED  BY <1>1, <2>3, <3>1, <3>2 DEF Step, StepOutput
  <2>9. /\ Integrated(out, i) \in Int
        /\ i >= 0 => Integrated(out, i) >= out /\ Integrated(out, i) <= out + i
        /\ i <= 0 => Integrated(out, i) <= out /\ Integrated(out, i) >= out + i
    <3> HIDE DEF i
    <3>1. Integrated(out, i) \in (-Half)..Full  BY <2>2, <2>5, Bounded
    <3>2. Integrated(out, i) \in Int  BY <3>1, RangeAssumption
    <3>3. QED  BY <2>2, <2>5, <3>2, Bounded
  <2> HIDE DEF p, i, sum
  <2>10. (0 <= out' - valve /\ out' - valve <= sum) \/ (sum <= out' - valve /\ out' - valve <= 0)
    <3>1. raw \in 0..Full
      <4>1. p + Integrated(out, i) \in Int  BY <2>5, <2>9
      <4>2. QED  BY <4>1, RangeAssumption DEF Clamp
    <3>2. CASE p >= 0 /\ i >= 0
      <4>1. out <= raw /\ raw <= out + sum
        BY <2>2, <2>5, <2>6, <2>9, <3>2, RangeAssumption DEF Clamp
      <4> HIDE DEF raw
      <4>2. QED  BY <2>2, <2>3, <2>5, <2>6, <2>8, <3>1, <3>2, <4>1 DEF Clamp
    <3>3. CASE p <= 0 /\ i <= 0
      <4>1. raw <= out /\ out + sum <= raw
        BY <2>2, <2>5, <2>6, <2>9, <3>3, RangeAssumption DEF Clamp
      <4> HIDE DEF raw
      <4>2. QED  BY <2>2, <2>3, <2>5, <2>6, <2>8, <3>1, <3>3, <4>1 DEF Clamp
    <3>4. QED  BY <2>7, <3>2, <3>3
  <2>11. QED  BY <2>10 DEF WithinPush, sum
<1>2. IInv /\ [Next]_vars =>
        [(\E g \in Gains : Step(g)) /\ transfer = "known" => WithinPush(out' - valve)]_vars
  BY <1>1
<1>3. QED  BY Invariance, <1>2, PTL DEF Spec, BumplessInStep

-----------------------------------------------------------------------------
(* The balance.                                                            *)

\* A reading; without substituted ones, what is numeric was measured.
Usable ==
  {r \in [v : Nat, real : BOOLEAN, ok : BOOLEAN] :
     "substituted" \notin Qualities /\ r.ok => r.real}

\* A tick writes only from a complete snapshot that Compute found valid.
Snapshots ==
  /\ view \in Seq(Usable)
  /\ phase = "collect" => Len(view) < Len(SourceOrder)
  /\ todo # {} => phase = "write" /\ Len(view) = Len(SourceOrder) /\ Valid(view)

\* The part of PlausibleAndMeasured about one virtual tag.
Sound(k, r) ==
  /\ k \in {"epsilon", "gamma"} => r.v \in 0..107
  /\ k = "balance_err" => r.v \in -2..2
  /\ "substituted" \notin Qualities /\ r.ok => r.real

CalcInv ==
  /\ latest \in [Sources -> Usable]
  /\ Snapshots
  /\ DOMAIN calc = Kpis
  /\ \A k \in Kpis : Sound(k, calc[k])

-----------------------------------------------------------------------------
(* Arithmetic.                                                             *)

\* A product grows with its factors.
LEMMA ProductGrows ==
  ASSUME NEW a \in Nat, NEW b \in Nat, NEW c \in Nat, a <= b
  PROVE  a * c \in Nat /\ b * c \in Nat /\ a * c <= b * c
<1>1. PICK d \in Nat : b = a + d
  BY b - a \in Nat, b = a + (b - a)
<1>2. b * c = a * c + d * c
  BY <1>1
<1>3. a * c \in Nat /\ d * c \in Nat
  BY <1>1
<1> QED
  BY <1>2, <1>3

\* A common positive factor can be taken out.
LEMMA FactorCancels ==
  ASSUME NEW a \in Nat, NEW b \in Nat, NEW c \in Nat \ {0}, a * c <= b * c
  PROVE  a <= b
<1> SUFFICES ASSUME b + 1 <= a PROVE FALSE
  OBVIOUS
<1>1. (b + 1) * c <= a * c
  BY ProductGrows
<1>2. (b + 1) * c = b * c + c /\ b * c \in Nat /\ a * c \in Nat
  OBVIOUS
<1> QED
  BY <1>1, <1>2

\* Division of integers (Euclid).
LEMMA Quotient ==
  ASSUME NEW a \in Int, NEW b \in Nat \ {0}
  PROVE  /\ a \div b \in Int
         /\ (a \div b) * b <= a /\ a < (a \div b) * b + b
  OBVIOUS

\* A quotient is at most k if the dividend is less than k + 1 divisors.
LEMMA QuotientAtMost ==
  ASSUME NEW a \in Nat, NEW b \in Nat \ {0}, NEW k \in Nat, a < (k + 1) * b
  PROVE  a \div b \in 0..k
<1> DEFINE q == a \div b
<1>1. q \in Int /\ q * b <= a /\ a < q * b + b
  BY Quotient
<1> HIDE DEF q
<1>2. q >= 0
  <2> SUFFICES ASSUME q + 1 <= 0 PROVE FALSE
    BY <1>1
  <2>1. -(q + 1) \in Nat
    BY <1>1
  <2>2. (-(q + 1)) * b \in Nat
    BY <2>1
  <2>3. (-(q + 1)) * b = -(q * b + b)
    BY <1>1
  <2> QED
    BY <1>1, <2>2, <2>3
<1>3. q <= k
  <2> SUFFICES ASSUME k + 1 <= q PROVE FALSE
    BY <1>1
  <2>1. (k + 1) * b <= q * b
    BY <1>1, <1>2, ProductGrows
  <2> QED
    BY <1>1, <2>1
<1> QED
  BY <1>1, <1>2, <1>3 DEF q

\* A quotient is in -2..2 if the dividend is at most two divisors away from 0.
LEMMA QuotientNearZero ==
  ASSUME NEW a \in Int, NEW b \in Nat \ {0}, -(2 * b) <= a, a <= 2 * b
  PROVE  a \div b \in -2..2
<1> DEFINE q == a \div b
<1>1. q \in Int /\ q * b <= a /\ a < q * b + b
  BY Quotient
<1> HIDE DEF q
<1>2. q <= 2
  <2> SUFFICES ASSUME q >= 3 PROVE FALSE
    BY <1>1
  <2>1. 3 * b <= q * b
    BY <1>1, ProductGrows
  <2> QED
    BY <1>1, <2>1
<1>3. q >= -2
  <2> SUFFICES ASSUME q <= -3 PROVE FALSE
    BY <1>1
  <2>1. 3 * b <= (-q) * b
    BY <1>1, ProductGrows
  <2>2. (-q) * b = -(q * b)
    BY <1>1
  <2> QED
    BY <1>1, <2>1, <2>2
<1> QED
  BY <1>1, <1>2, <1>3 DEF q

\* The closure (100 C <= 102 F) and the cross-check (95 F x <= 100 C y) leave no
\* feed, with x and y the grades of feed and concentrate over the tails.
LEMMA MassesCancel ==
  ASSUME NEW F \in Nat \ {0}, NEW C \in Nat, NEW x \in Nat, NEW y \in Nat,
         100 * C <= 102 * F, 95 * (F * x) <= 100 * (C * y)
  PROVE  95 * x <= 102 * y
<1>1. (100 * C) * y <= (102 * F) * y
  BY ProductGrows
<1>2. (100 * C) * y = 100 * (C * y) /\ (102 * F) * y = (102 * y) * F
  OBVIOUS
<1>3. 95 * (F * x) = (95 * x) * F
  OBVIOUS
<1>4. /\ (95 * x) * F \in Nat /\ (102 * y) * F \in Nat /\ 100 * (C * y) \in Nat
      /\ 95 * x \in Nat /\ 102 * y \in Nat
  OBVIOUS
<1>5. (95 * x) * F <= (102 * y) * F
  BY <1>1, <1>2, <1>3, <1>4
<1> QED
  BY <1>4, <1>5, FactorCancels

\* Recovery is below 108 percent: with the grades over the tails it is
\* (y + t) x / (x + t) y.
LEMMA RecoveryBound ==
  ASSUME NEW x \in Nat \ {0}, NEW y \in Nat \ {0}, NEW t \in Nat, 95 * x <= 102 * y
  PROVE  /\ (100 * (y + t)) * x \in Nat
         /\ (x + t) * y \in Nat \ {0}
         /\ (100 * (y + t)) * x < 108 * ((x + t) * y)
<1>1. 100 * x <= 108 * y
  OBVIOUS
<1>2. (100 * x) * t <= (108 * y) * t
  BY <1>1, ProductGrows
<1>3. x * y \in Nat \ {0}
  <2>1. 1 * y <= x * y /\ x * y \in Nat
    BY ProductGrows
  <2> QED
    BY <2>1
<1>4. t * x \in Nat /\ t * y \in Nat
  OBVIOUS
<1>5. (100 * (y + t)) * x = 100 * (x * y) + 100 * (t * x)
  OBVIOUS
<1>6. (x + t) * y = x * y + t * y
  OBVIOUS
<1>7. (100 * x) * t = 100 * (t * x) /\ (108 * y) * t = 108 * (t * y)
  OBVIOUS
<1> QED
  BY <1>2, <1>3, <1>4, <1>5, <1>6, <1>7

-----------------------------------------------------------------------------
(* One snapshot.                                                           *)

\* What a snapshot says of a source: a reading, or nothing.
LEMMA OfType ==
  ASSUME NEW vs \in Seq(Usable), Len(vs) = Len(SourceOrder), NEW s
  PROVE  Of(vs, s) \in Usable
<1>1. CASE s \in Sources
  <2> DEFINE i == CHOOSE i \in DOMAIN SourceOrder : SourceOrder[i] = s
  <2>1. \E k \in DOMAIN SourceOrder : SourceOrder[k] = s
    BY <1>1 DEF Sources, Range
  <2>2. i \in DOMAIN SourceOrder
    BY <2>1
  <2> HIDE DEF i
  <2>3. i \in 1..Len(vs)
    BY <2>2, OrderAssumption
  <2>4. vs[i] \in Usable
    BY <2>3
  <2> QED
    BY <1>1, <2>4 DEF Of, i
<1>2. CASE s \notin Sources
  BY <1>2 DEF Of, None, Usable
<1> QED
  BY <1>1, <1>2

\* Flows and grades of a snapshot are natural numbers.
LEMMA ValType ==
  ASSUME NEW vs \in Seq(Usable), Len(vs) = Len(SourceOrder), NEW s
  PROVE  Val(vs, s) \in Nat
  BY OfType DEF Val, Usable

\* In a valid snapshot with a separation there is feed, and the grades over the tails
\* cannot be more than 1.02 / 0.95 apart (Compute).
LEMMA GradesApart ==
  ASSUME NEW vs \in Seq(Usable), Len(vs) = Len(SourceOrder), Valid(vs), Separates(vs)
  PROVE  /\ Alpha(vs) - Theta(vs) \in Nat \ {0}
         /\ Beta(vs) - Theta(vs) \in Nat \ {0}
         /\ Alpha(vs) \in Nat /\ Beta(vs) \in Nat /\ Theta(vs) \in Nat
         /\ 95 * (Alpha(vs) - Theta(vs)) <= 102 * (Beta(vs) - Theta(vs))
<1> DEFINE F == Feed(vs)
           C == Val(vs, "wi301")
           T == Val(vs, "wi302")
           x == Alpha(vs) - Theta(vs)
           y == Beta(vs) - Theta(vs)
<1>1. /\ Alpha(vs) \in Nat /\ Beta(vs) \in Nat /\ Theta(vs) \in Nat
      /\ F \in Nat /\ C \in Nat /\ T \in Nat
  BY ValType DEF Alpha, Beta, Theta, Feed
<1>2. x \in Nat \ {0} /\ y \in Nat \ {0} /\ Beta(vs) > 0
  BY <1>1 DEF Separates
<1>3. F * x > 0 /\ 100 * Magnitude(F * x - C * y) <= 5 * (F * x)
  BY <1>2 DEF Valid, CheckOK
<1>4. F > 0 => 100 * Magnitude(F - C - T) <= 2 * F
  BY DEF Valid, GradeOK, Closes
<1> HIDE DEF F, C, T, x, y
<1>5. F \in Nat \ {0}
  <2>1. F = 0 => F * x = 0
    BY <1>2
  <2> QED
    BY <1>1, <1>3, <2>1
<1>6. 100 * C <= 102 * F
  BY <1>1, <1>4, <1>5 DEF Magnitude
<1>7. 95 * (F * x) <= 100 * (C * y)
  <2>1. F * x \in Nat /\ C * y \in Nat
    BY <1>1, <1>2
  <2> QED
    BY <1>3, <2>1 DEF Magnitude
<1>8. 95 * x <= 102 * y
  BY <1>1, <1>2, <1>5, <1>6, <1>7, MassesCancel
<1> QED
  BY <1>1, <1>2, <1>8 DEF x, y

\* What Compute makes of a valid snapshot is plausible, and measured if its inputs
\* are (Compute, calcTags).
LEMMA ResultIsSound ==
  ASSUME NEW vs \in Seq(Usable), Len(vs) = Len(SourceOrder), Valid(vs), NEW k \in Kpis
  PROVE  Sound(k, Result(k, vs))
<1> DEFINE a == Alpha(vs)
           b == Beta(vs)
           t == Theta(vs)
           F == Feed(vs)
<1>1. F \in Nat
  BY ValType DEF Feed
<1>2. "substituted" \notin Qualities => Result(k, vs).real
  <2> SUFFICES ASSUME "substituted" \notin Qualities, NEW s, OK(vs, s)
               PROVE  Of(vs, s).real
    BY DEF Result
  <2> QED
    BY OfType DEF Usable, OK
<1>3. CASE k = "epsilon" /\ Separates(vs)
  <2>1. /\ a - t \in Nat \ {0} /\ b - t \in Nat \ {0} /\ a \in Nat /\ b \in Nat /\ t \in Nat
        /\ 95 * (a - t) <= 102 * (b - t)
    BY <1>3, GradesApart
  <2>2. Formula(k, vs) = ((100 * b) * (a - t)) \div (a * (b - t))
    BY <1>3 DEF Formula
  <2> HIDE DEF a, b, t
  <2>3. (b - t) + t = b /\ (a - t) + t = a
    BY <2>1
  <2>4. /\ (100 * b) * (a - t) \in Nat /\ a * (b - t) \in Nat \ {0}
        /\ (100 * b) * (a - t) < 108 * (a * (b - t))
    BY <2>1, <2>3, RecoveryBound
  <2>5. ((100 * b) * (a - t)) \div (a * (b - t)) \in 0..107
    <3> DEFINE n == (100 * b) * (a - t)
               d == a * (b - t)
    <3> HIDE DEF n, d
    <3>1. n \in Nat /\ d \in Nat \ {0} /\ n < (107 + 1) * d
      BY <2>4 DEF n, d
    <3>2. n \div d \in 0..107
      BY <3>1, QuotientAtMost
    <3> QED
      BY <3>2 DEF n, d
  <2> QED
    BY <1>2, <1>3, <2>2, <2>5 DEF Sound, Result
<1>4. CASE k = "gamma" /\ Separates(vs)
  <2>1. /\ a - t \in Nat \ {0} /\ b - t \in Nat \ {0}
        /\ 95 * (a - t) <= 102 * (b - t)
    BY <1>4, GradesApart
  <2>2. Formula(k, vs) = (100 * (a - t)) \div (b - t)
    BY <1>4 DEF Formula
  <2> HIDE DEF a, b, t
  <2>3. (100 * (a - t)) \div (b - t) \in 0..107
    <3> DEFINE n == 100 * (a - t)
               d == b - t
    <3>1. n \in Nat /\ d \in Nat \ {0} /\ n < (107 + 1) * d
      BY <2>1
    <3> HIDE DEF n, d
    <3>2. n \div d \in 0..107
      BY <3>1, QuotientAtMost
    <3> QED
      BY <3>2 DEF n, d
  <2> QED
    BY <1>2, <1>4, <2>2, <2>3 DEF Sound, Result
<1>5. CASE k = "balance_err" /\ F > 0
  <2> DEFINE d == F - Val(vs, "wi301") - Val(vs, "wi302")
  <2>1. d \in Int
    BY <1>1, ValType
  <2>2. 100 * Magnitude(d) <= 2 * F
    BY <1>5 DEF Valid, GradeOK, Closes
  <2>3. Formula(k, vs) = (100 * d) \div F
    BY <1>5 DEF Formula
  <2> HIDE DEF d, F
  <2>4. -(2 * F) <= 100 * d /\ 100 * d <= 2 * F
    BY <1>1, <2>1, <2>2 DEF Magnitude
  <2>5. (100 * d) \div F \in -2..2
    BY <1>1, <1>5, <2>1, <2>4, QuotientNearZero
  <2> QED
    BY <1>2, <1>5, <2>3, <2>5 DEF Sound, Result
<1>6. CASE /\ k \in {"epsilon", "gamma", "balance_err"}
           /\ k \in {"epsilon", "gamma"} => ~Separates(vs)
           /\ k = "balance_err" => ~(F > 0)
  <2>1. Formula(k, vs) = 0
    BY <1>6 DEF Formula
  <2> QED
    BY <1>2, <2>1 DEF Sound, Result
<1> QED
  BY <1>2, <1>3, <1>4, <1>5, <1>6 DEF Sound

-----------------------------------------------------------------------------
(* The service.                                                            *)

\* What ingest stores can be used (ingestOne, LatestGoodNumericReading).
LEMMA IngestedIsUsable ==
  ASSUME NEW q \in Qualities, Seen(q), NEW n \in Nat
  PROVE  Normalized(q, n) \in Usable
  BY DEF Seen, Normalized, IsGap, Placeholder, Number, Usable

\* The first values are measured ones or none, nothing is computed (New).
LEMMA CalcInitEstablishes == CalcInit => CalcInv
<1> SUFFICES ASSUME CalcInit PROVE CalcInv
  OBVIOUS
<1> USE DEF CalcInit
<1>1. latest \in [Sources -> Usable]
  <2>1. PICK x \in Assays, quiet \in Unheard :
          latest = [s \in Sources |-> IF s \in quiet THEN None ELSE Number(x[s])]
    OBVIOUS
  <2>2. ASSUME NEW s \in Sources PROVE latest[s] \in Usable
    <3>1. x[s] \in Nat
      BY AssaysAssumption
    <3> QED
      BY <2>1, <3>1 DEF None, Number, Usable
  <2> QED
    BY <2>1, <2>2
<1>2. Snapshots
  BY DEF Snapshots
<1>3. DOMAIN calc = Kpis /\ \A k \in Kpis : Sound(k, calc[k])
  BY DEF None, Sound
<1> QED
  BY <1>1, <1>2, <1>3 DEF CalcInv

\* The next source of a Collect can be read and completes the snapshot at the end.
LEMMA CollectPreserves ==
  ASSUME CalcInv, Collect
  PROVE  Snapshots'
<1> USE DEF Collect, CalcInv
<1>1. /\ view \in Seq(Usable) /\ Len(view) \in Nat /\ Len(view) < Len(SourceOrder)
      /\ Len(SourceOrder) \in Nat
  BY OrderAssumption DEF Snapshots
<1>2. SourceOrder[Len(view) + 1] \in Sources
  BY <1>1, OrderAssumption
<1>3. view' \in Seq(Usable) /\ Len(view') = Len(view) + 1
  BY <1>1, <1>2
<1>4. todo = {}
  BY DEF Snapshots
<1>5. CASE Len(view') < Len(SourceOrder)
  BY <1>3, <1>4, <1>5 DEF Snapshots
<1>6. CASE ~(Len(view') < Len(SourceOrder))
  <2>1. Len(view') = Len(SourceOrder)
    BY <1>1, <1>3, <1>6
  <2>2. /\ todo' # {} => Valid(view')
        /\ phase' = IF todo' = {} THEN "idle" ELSE "write"
    BY <1>6
  <2> QED
    BY <1>3, <2>1, <2>2 DEF Snapshots
<1> QED
  BY <1>5, <1>6

\* Every step of field, ingest and service keeps the invariant (Run, tick).
LEMMA CalcStepPreserves == CalcInv /\ [CalcNext]_calcVars => CalcInv'
<1> SUFFICES ASSUME CalcInv, [CalcNext]_calcVars PROVE CalcInv'
  OBVIOUS
<1> USE DEF CalcInv
<1>1. ASSUME NEW s \in Sources, Ingest(s) PROVE CalcInv'
  <2>1. latest' \in [Sources -> Usable]
    <3>1. PICK q \in Qualities, x \in Assays, backlog \in BOOLEAN :
            latest' = IF Seen(q) /\ (backlog => ~latest[s].ok)
                        THEN [latest EXCEPT ![s] = Normalized(q, x[s])] ELSE latest
      BY <1>1 DEF Ingest
    <3>2. x[s] \in Nat
      BY AssaysAssumption
    <3>3. Seen(q) => Normalized(q, x[s]) \in Usable
      BY <3>2, IngestedIsUsable
    <3> QED
      BY <3>1, <3>3
  <2> QED
    BY <1>1, <2>1 DEF Ingest, Snapshots
<1>2. CASE BeginTick
  <2>1. Len(SourceOrder) \in Nat \ {0}
    BY OrderAssumption
  <2>2. todo = {}
    BY <1>2 DEF BeginTick, Snapshots
  <2> QED
    BY <1>2, <2>1, <2>2 DEF BeginTick, Snapshots
<1>3. CASE Collect
  BY <1>3, CollectPreserves DEF Collect
<1>4. ASSUME NEW k \in Kpis, Write(k) PROVE CalcInv'
  <2>1. view \in Seq(Usable) /\ Len(view) = Len(SourceOrder) /\ Valid(view) /\ phase = "write"
    BY <1>4 DEF Write, Written, Snapshots
  <2>2. Snapshots'
    BY <1>4, <2>1 DEF Write, Written, Snapshots
  <2>3. Sound(k, Result(k, view))
    BY <2>1, ResultIsSound
  <2>4. DOMAIN calc' = Kpis /\ \A j \in Kpis : Sound(j, calc'[j])
    BY <1>4, <2>3 DEF Write
  <2> QED
    BY <1>4, <2>2, <2>4 DEF Write, Written
<1>5. ASSUME NEW k \in Kpis, WriteFails(k) PROVE CalcInv'
  BY <1>5 DEF WriteFails, Written, Snapshots
<1>6. CASE CalcRestart
  BY <1>6 DEF CalcRestart, Snapshots
<1>7. CASE NextBucket
  BY <1>7 DEF NextBucket, Snapshots
<1>8. CASE UNCHANGED calcVars
  BY <1>8 DEF calcVars, Snapshots
<1> QED
  BY <1>1, <1>2, <1>3, <1>4, <1>5, <1>6, <1>7, <1>8 DEF CalcNext

\* Whatever qualities gateways send: what is written is plausible (Compute).
THEOREM PlausibleAlways == CalcSpec => []Plausible
<1>1. CalcInv => Plausible
  BY DEF CalcInv, Sound, Plausible, Kpis
<1> QED
  BY <1>1, CalcInitEstablishes, CalcStepPreserves, PTL DEF CalcSpec

\* Whatever the analysers deliver and however torn the snapshot is, a recovery or a
\* yield that is written is at most 107 percent and the closure error at most 2; if no
\* gateway substitutes values, none of it is computed from the zero of a gap
\* (Compute, tick; ingestOne, LatestGoodNumericReading).
THEOREM PlausibleAndMeasuredAlways ==
  "substituted" \notin Qualities => (CalcSpec => []PlausibleAndMeasured)
<1> SUFFICES ASSUME "substituted" \notin Qualities PROVE CalcSpec => []PlausibleAndMeasured
  OBVIOUS
<1>1. CalcInv => PlausibleAndMeasured
  BY DEF CalcInv, Sound, PlausibleAndMeasured, Plausible, Measured, Kpis
<1> QED
  BY <1>1, CalcInitEstablishes, CalcStepPreserves, PTL DEF CalcSpec
=============================================================================
