------------------------------- MODULE Regulator -------------------------------
(***************************************************************************)
(* The numbers behind one control loop: the PID memory the manager keeps   *)
(* in the loop's row, the gains it works with, and the position of the     *)
(* valve behind the edge bridge.  ControlLoop models the interleaving of   *)
(* ticks and requests and leaves the output open; here a tick is one step  *)
(* and its output is computed.                                             *)
(*                                                                         *)
(* Numbers are integers: outputs and integrals count parts of the actuator *)
(* range (0..Full for 0..100 percent; percentOf and engineeringOf convert  *)
(* to and from engineering units and cancel out), factors count parts of   *)
(* one (Unit for 1.0), errors count units of the PV.                       *)
(*                                                                         *)
(* An operator directly before another one with the same parameters is a   *)
(* mutated form of it, used by mutation runs only.                         *)
(***************************************************************************)
EXTENDS PidCore

CONSTANTS
  Full, Half,            \* 100 and 50 percent
  Unit,                  \* the factor 1.0
  FactorMin, FactorMax,  \* 0.25 and 4.0: bounds of the scheduled gains
  TuneMin, TuneMax,      \* 0.1 and 5.0: bounds of the self-tuned gains
  Designs,               \* configurations a loop may start with
  Bands,                 \* pairs <<warning, critical>> an engineer may set
  Seeds,                 \* outputs a loop may be seeded with
  SPs, PVs,              \* setpoints inside SPMin..SPMax, process values
  Indicators,            \* (indicator - low) / (high - low), in parts of one
  Temps, Flows           \* KpTempFactor * (temp - 25) and the like for the flow

Design == [type : {"standard", "ph"}, kp : Int, ki : Int, kd : Int,
           deadband : Nat, slew : Nat, adaptive : BOOLEAN, selftune : BOOLEAN,
           warning : Nat, critical : Nat]

ASSUME RangeAssumption == Half \in Nat /\ Full \in Nat \ {0}
ASSUME FactorAssumption ==
  /\ Unit \in Nat \ {0}
  /\ FactorMin \in 1..Unit /\ FactorMax \in Nat /\ Unit <= FactorMax
  /\ TuneMin \in 1..Unit /\ TuneMax \in Nat /\ Unit <= TuneMax
\* Scaled gains stay integers; the P and the I part push the same way.
ASSUME DesignsAssumption ==
  /\ Designs \subseteq Design
  /\ \A d \in Designs :
       /\ d.kp % Unit = 0 /\ d.ki % Unit = 0
       /\ (d.kp <= 0 /\ d.ki <= 0) \/ (d.kp >= 0 /\ d.ki >= 0)
ASSUME BandsAssumption ==
  Bands \subseteq {b \in (Nat \ {0}) \X (Nat \ {0}) : b[1] < b[2]}
ASSUME SeedsAssumption == Seeds \subseteq 0..Full
ASSUME PlantAssumption ==
  /\ SPs \subseteq Int /\ PVs \subseteq Int
  /\ Indicators \subseteq Int /\ Temps \subseteq Int /\ Flows \subseteq Int

VARIABLES
  loop,      \* the configuration columns of the row
  mode,      \* "auto" or "manual"
  out,       \* the output column
  integral,
  prev,      \* prev_error, and whether it is not NULL
  sp, pv,
  valve,     \* position of the actuator
  reported,  \* latest good reading of the MV tag, or Nothing
  transfer   \* history: what a switch to auto found, until the next tick

memory == <<mode, out, integral, prev>>
plant  == <<pv, valve, reported>>
vars   == <<loop, memory, sp, plant, transfer>>

Nothing == -1
NoError == [has |-> FALSE, err |-> 0]
Error == sp - pv
Abs(x) == IF x < 0 THEN -x ELSE x

-----------------------------------------------------------------------------
(* Gains. *)

Scale(base, factor) == (base * factor) \div Unit

\* DefaultGainFactor: a straight line through 0.5 at low and 1.5 at high.
GainFactor(indicator) == Clamp((Unit \div 2) + indicator, FactorMin, FactorMax)

\* BuildScheduler and Adjust: bounds are multiples of the base gain, also when
\* that is negative.
Adjust(base, indicator) ==
  Clamp(Scale(base, GainFactor(indicator)), Scale(base, FactorMin), Scale(base, FactorMax))

ClampUnsigned(v, base) == Clamp(v, Scale(Abs(base), TuneMin), Scale(Abs(base), TuneMax))
\* clampSigned keeps the sign of the base gain.
ClampSigned(v, base) ==
  CASE base = 0 -> v
    [] base > 0 -> Clamp(v, Scale(base, TuneMin), Scale(base, TuneMax))
    [] OTHER    -> Clamp(v, Scale(base, TuneMax), Scale(base, TuneMin))

\* PHSelfTune.
SelfTuned(base, delta) == ClampSigned(Scale(base, Unit + delta), base)

\* The gains a tick may work with; without a reading of its indicator a
\* standard loop uses its base gains.
Gains ==
  LET base == [kp |-> loop.kp, ki |-> loop.ki] IN
  IF loop.type = "ph"
  THEN IF loop.selftune
       THEN { [kp |-> SelfTuned(loop.kp, t), ki |-> SelfTuned(loop.ki, f)] :
                t \in Temps, f \in Flows }
       ELSE {base}
  ELSE {base} \cup
       IF loop.adaptive
       THEN { [kp |-> Adjust(loop.kp, i), ki |-> Adjust(loop.ki, i)] : i \in Indicators }
       ELSE {}

(* One step of the PID. *)

IntegratedToHalf(i, push) == Clamp(i + push, -Half, Half)
\* The integral is clamped against windup.
Integrated(i, push) == Clamp(i + push, -Half, Full)

Derivative(e) == IF prev.has THEN loop.kd * (e - prev.err) ELSE 0

\* Step outside the dead-band.
StepOutput(g, e) ==
  LET raw == Clamp(g.kp * e + Integrated(integral, g.ki * e) + Derivative(e), 0, Full)
  IN  IF loop.slew > 0 THEN Clamp(raw, out - loop.slew, out + loop.slew) ELSE raw

\* The error is large enough for the PID to act on it.
Active(e) ==
  /\ Abs(e) > loop.deadband
  /\ loop.type = "ph" => Abs(e) > loop.warning

-----------------------------------------------------------------------------
Init ==
  /\ loop \in Designs
  /\ mode = "manual"
  /\ out \in Seeds
  /\ integral = 0
  /\ prev = NoError
  /\ sp \in SPs
  /\ pv \in PVs
  /\ valve \in 0..Full
  /\ reported = Nothing
  /\ transfer = "none"

(* The manager. *)

Remember(e) == prev' = [has |-> TRUE, err |-> e] /\ transfer' = "none"

\* The pH is too far off for automatic control.
Critical(e) == loop.type = "ph" /\ Abs(e) > loop.critical

\* A tick inside the dead-band, or inside the warning band of the pH.
Hold ==
  /\ mode = "auto"
  /\ ~Active(Error) /\ ~Critical(Error)
  /\ Remember(Error)
  /\ UNCHANGED <<loop, mode, out, integral, sp, plant>>

\* A critical pH takes the loop out of automatic control.
ForceManual ==
  /\ mode = "auto"
  /\ Critical(Error)
  /\ mode' = "manual"
  /\ Remember(Error)
  /\ UNCHANGED <<loop, out, integral, sp, plant>>

\* tickStandard, and tickPHLoop in the warning zone.
Step(g) ==
  /\ mode = "auto"
  /\ Active(Error) /\ ~Critical(Error)
  /\ out' = StepOutput(g, Error)
  /\ integral' = Integrated(integral, g.ki * Error)
  /\ Remember(Error)
  /\ UNCHANGED <<loop, mode, sp, plant>>

\* watchdog: the PV is stale.  The saved error is 0 if there was none.
Freeze ==
  /\ mode = "auto"
  /\ mode' = "manual"
  /\ Remember(prev.err)
  /\ UNCHANGED <<loop, out, integral, sp, plant>>

(* The operators. *)

SeedFromNothing == 0
\* bumplessIntegralSeed: the reported position, or else the stored output.
BumplessSeed == Clamp(IF reported = Nothing THEN out ELSE reported, -Half, Full)

\* History: the manager knows the position of the valve ("known"), has been told
\* a position that its stored output disagrees with ("apart"), or errs.
Transfer ==
  CASE out = valve /\ reported \in {Nothing, valve} -> "known"
    [] out # valve /\ reported = valve -> "apart"
    [] OTHER -> "none"

SwitchToAuto ==
  /\ mode = "manual"
  /\ mode' = "auto"
  /\ integral' = BumplessSeed
  /\ prev' = NoError
  /\ transfer' = Transfer
  /\ UNCHANGED <<loop, out, sp, plant>>

SwitchToManual ==
  /\ mode = "auto"
  /\ mode' = "manual"
  /\ integral' = 0
  /\ prev' = NoError
  /\ transfer' = "none"
  /\ UNCHANGED <<loop, out, sp, plant>>

SetLoopOutput(v) ==
  /\ mode = "manual"
  /\ out' = v
  /\ UNCHANGED <<loop, mode, integral, prev, sp, plant, transfer>>

SetLoopSetpoint(s) ==
  /\ sp' = s
  /\ UNCHANGED <<loop, memory, plant, transfer>>

SetLoopAdaptive(on) ==
  /\ loop' = [loop EXCEPT !.adaptive = on]
  /\ UNCHANGED <<memory, sp, plant, transfer>>

SetLoopPHConfig(b, on) ==
  /\ loop.type = "ph"
  /\ loop' = [loop EXCEPT !.warning = b[1], !.critical = b[2], !.selftune = on]
  /\ UNCHANGED <<memory, sp, plant, transfer>>

(* The field. *)

\* The edge bridge writes the outputs of automatic loops.
BridgeWrites ==
  /\ mode = "auto"
  /\ valve' = out
  /\ UNCHANGED <<loop, memory, sp, pv, reported, transfer>>

\* The gateway delivers the position of the valve.
ReportPosition ==
  /\ reported' = valve
  /\ UNCHANGED <<loop, memory, sp, pv, valve, transfer>>

PVChanges(v) ==
  /\ pv' = v
  /\ UNCHANGED <<loop, memory, sp, valve, reported, transfer>>

Tick == Hold \/ ForceManual \/ \E g \in Gains : Step(g)

Next ==
  \/ Tick
  \/ Freeze
  \/ SwitchToAuto \/ SwitchToManual
  \/ \E v \in 0..Full : SetLoopOutput(v)
  \/ \E s \in SPs : SetLoopSetpoint(s)
  \/ \E on \in BOOLEAN : SetLoopAdaptive(on) \/ \E b \in Bands : SetLoopPHConfig(b, on)
  \/ BridgeWrites \/ ReportPosition
  \/ \E v \in PVs : PVChanges(v)

Spec == Init /\ [][Next]_vars

\* The manager ticks on a ticker.
FairSpec == Spec /\ WF_vars(Tick)

-----------------------------------------------------------------------------
\* The PID memory keeps its bounds, whoever wrote it last: the integral is
\* written by the step (clamp) and by the switch to auto (bumplessIntegralSeed).
TypeOK ==
  /\ loop \in Design
  /\ mode \in {"auto", "manual"}
  /\ out \in 0..Full
  /\ integral \in (-Half)..Full
  /\ prev \in [has : BOOLEAN, err : Int]
  /\ sp \in SPs /\ pv \in PVs
  /\ valve \in 0..Full
  /\ reported \in {Nothing} \cup 0..Full
  /\ transfer \in {"known", "apart", "none"}

\* No windup at the upper stop: an output that has reached it comes down with
\* the first step whose error asks for less, however long it stood there and
\* whatever tuning does to the gains (loop.go Step, ph.go PHSelfTune).
LeavesUpperStopAtOnce ==
  [][(\E g \in Gains : Step(g)) /\ out = Full
       /\ loop.kd = 0 /\ loop.kp * Error < 0 /\ loop.ki * Error <= 0
     => out' < Full]_vars

\* The P and the I part of the loop push up (dir = 1) or down (dir = -1).
Pushes(dir) ==
  /\ mode = "auto" /\ Active(Error) /\ loop.kd = 0
  /\ dir * loop.kp * Error > 0 /\ dir * loop.ki * Error > 0

\* An error that persists drives the actuator to the stop that counteracts it:
\* the clamp on the integral leaves it enough authority in both directions.
PersistentErrorSaturates ==
  /\ <>[]Pushes(1)  => <>[](out = Full)
  /\ <>[]Pushes(-1) => <>[](out = 0)

\* The change d of the actuator is on the way from nothing to the sum of one
\* tick's P and I parts.
WithinPush(d) ==
  \E g \in Gains :
    LET push == (g.kp + g.ki) * Error
    IN  (0 <= d /\ d <= push) \/ (push <= d /\ d <= 0)

\* The first step after a switch to auto moves the actuator by no more than one
\* tick's P and I parts and not against them, if the manager knew its position
\* (UpdateLoopMode: "the PID resumes from the current output instead of stepping
\* the actuator").
BumplessInStep ==
  [][(\E g \in Gains : Step(g)) /\ transfer = "known" => WithinPush(out' - valve)]_vars
=============================================================================
