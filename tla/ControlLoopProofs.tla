-------------------------- MODULE ControlLoopProofs --------------------------
(***************************************************************************)
(* Proofs about ControlLoop, alone and with the bridge of FieldControl,    *)
(* for any number and kind of loops, any ranges, any operators and any     *)
(* number of faults.                                                       *)
(*                                                                         *)
(* None of the safety properties is inductive: what a save does to a row   *)
(* depends on the copy of the row the tick started from, which operators   *)
(* may have overtaken.  The invariant therefore says which stage of which  *)
(* plan the manager can be in for its copy of the row (Staged), and that   *)
(* an abnormal state in the table is one the manager has already seen      *)
(* (Provenance), because nobody else writes one.                           *)
(***************************************************************************)
EXTENDS FieldControl, TLAPS

USE NAssumption, KindAssumption, RangeAssumption, SeedAssumption,
    SlewAssumption, FaultsAssumption

-----------------------------------------------------------------------------
(* The inductive invariant.                                                *)

\* The plans a tick can start with, by what the copy l of the row says.
Plan(i, l, x) ==
  \/ x = <<>>
  \/ /\ l.state = "ok"
     /\ \E sev \in Severities : x = <<Save("manual", "watchdog", l.out), Raise(sev)>>
  \/ /\ l.state = "ok" /\ l.mode = "auto"
     /\ \E o \in StepOutputs(i, l.out) :
          \/ x = <<Save("auto", "ok", o)>>
          \/ x = <<Raise("high"), Save("auto", "ok", o)>>
          \/ x = <<Clear, Save("auto", "ok", o)>>
  \/ l.state = "interlock" /\ x = <<Clear, Save("manual", "ok", l.out)>>
  \/ l.state = "interlock" /\ Kind[i] = "temp" /\ x = HoldInterlock(i)
  \/ Kind[i] = "temp" /\ x = <<Raise("critical"), Save("auto", "interlock", OutMax[i])>>
  \/ l.state = "watchdog" /\ Kind[i] = "temp" /\ x = <<Save("manual", "ok", l.out), Clear>>

\* What can be left of such a plan.
Stage(i, l, x) ==
  \/ Plan(i, l, x)
  \/ l.state = "ok" /\ \E sev \in Severities : x = <<Raise(sev)>>
  \/ l.state = "interlock" /\ x = <<Save("manual", "ok", l.out)>>
  \/ Kind[i] = "temp" /\ x = HoldInterlock(i)
  \/ l.state = "watchdog" /\ x = <<Clear>>

Staged == cursor # 0 => Stage(cursor, snap[cursor], plan)

SnapFits == \A i \in Loops : Coherent(i, snap[i].mode, snap[i].state, snap[i].out)

\* Only the manager makes a row abnormal, so it knows the abnormal row it overwrites.
Provenance ==
  \A i \in Loops : Ahead(i) /\ row[i].state # "ok" => row[i] = snap[i]

\* The manager decides with the alarm of an abnormal loop still active.
SnapAnnounced ==
  \A i \in Loops \ cut :
    /\ cursor # 0 /\ cursor <= i /\ (cursor = i => plan = <<>>)
    /\ snap[i].state # "ok"
    => IsActive(alarm[i])

\* What the first statement of a plan left for the second.
Halfway ==
  cursor # 0 /\ cursor \notin cut =>
    /\ plan = HoldInterlock(cursor) => IsActive(alarm[cursor])
    /\ plan = <<Save("manual", "ok", snap[cursor].out)>> => ~IsActive(alarm[cursor])
    /\ plan = <<Clear>> => row[cursor].state = "ok"

IInv ==
  /\ TypeOK
  /\ StateFitsMode
  /\ SnapFits
  /\ Staged
  /\ Provenance
  /\ SnapAnnounced
  /\ Halfway
  /\ AbnormalAnnounced

-----------------------------------------------------------------------------
(* Sequences of at most two effects.                                       *)

\* Sequences of at most two elements.
LEMMA ShortSeqs ==
  ASSUME NEW S
  PROVE  /\ <<>> \in Seq(S)
         /\ \A e \in S : /\ <<e>> \in Seq(S) /\ <<e>> # <<>>
                         /\ Head(<<e>>) = e /\ Tail(<<e>>) = <<>>
         /\ \A e, f \in S : /\ <<e, f>> \in Seq(S) /\ <<e, f>> # <<>>
                           /\ Head(<<e, f>>) = e /\ Tail(<<e, f>>) = <<f>>
  OBVIOUS

\* Such sequences are told apart by their length and their elements.
LEMMA Shapes ==
  /\ \A e, f : <<e>> = <<f>> => e = f
  /\ \A e, f, g, h : <<e, f>> = <<g, h>> => e = g /\ f = h
  /\ \A e, f, g : <<e>> # <<f, g>>
  /\ \A e, f : <<e>> # <<>> /\ <<e, f>> # <<>>
  OBVIOUS

-----------------------------------------------------------------------------
(* The operators the steps are built from.                                 *)

\* A clamped number is a number.
LEMMA ClampType ==
  ASSUME NEW v \in Int, NEW lo \in Int, NEW hi \in Int
  PROVE  Clamp(v, lo, hi) \in Int
  BY DEF Clamp

\* The PID returns numbers.
LEMMA StepOutputsType ==
  ASSUME NEW i \in Loops, NEW prev \in Int
  PROVE  StepOutputs(i, prev) \subseteq Int
<1>1. /\ OutMin[i] \in Int /\ OutMax[i] \in Int /\ Slew \in Int
  BY RangeAssumption, SlewAssumption
<1>2. \A x \in OutMin[i]..OutMax[i] : Clamp(x, prev - Slew, prev + Slew) \in Int
  BY <1>1, ClampType
<1> QED BY <1>1, <1>2 DEF StepOutputs, Moves

\* The PID keeps an output between bounds that contain the range of the actuator: it
\* is clamped into the slew window around an output that is there already.
LEMMA StepOutputsBetween ==
  ASSUME NEW i \in Loops, NEW lo \in Int, NEW hi \in Int,
         lo <= OutMin[i], OutMax[i] <= hi, NEW prev \in lo..hi
  PROVE  StepOutputs(i, prev) \subseteq lo..hi
<1>1. /\ OutMin[i] \in Int /\ OutMax[i] \in Int /\ Slew \in Nat /\ prev \in Int
  BY RangeAssumption, SlewAssumption
<1>2. \A x \in OutMin[i]..OutMax[i] :
        Slew > 0 => Clamp(x, prev - Slew, prev + Slew) \in lo..hi
  BY <1>1 DEF Clamp
<1>3. \A x \in OutMin[i]..OutMax[i] : x \in lo..hi
  BY <1>1
<1> QED BY <1>1, <1>2, <1>3 DEF StepOutputs, Moves

\* The statements of a tick are effects, and their fields are what they were built from.
LEMMA EffectTypes ==
  /\ \A sev \in Severities : Raise(sev) \in Effect /\ Raise(sev).op = "raise"
  /\ Clear \in Effect /\ Clear.op = "clear"
  /\ \A m \in Modes, s \in States, o \in Int :
       /\ Save(m, s, o) \in Effect
       /\ Save(m, s, o).op = "save" /\ Save(m, s, o).mode = m
       /\ Save(m, s, o).state = s /\ Save(m, s, o).out = o
  BY DEF Effect, Raise, Clear, Save

\* The fields of a save, whatever it was built from.
LEMMA SaveFields ==
  /\ \A m, s, o : /\ Save(m, s, o).op = "save" /\ Save(m, s, o).mode = m
                  /\ Save(m, s, o).state = s /\ Save(m, s, o).out = o
  /\ Clear.op = "clear"
  BY DEF Save, Clear

\* A tick that starts from a coherent copy of the row starts with one of the
\* listed plans.
LEMMA TickPlansArePlans ==
  ASSUME NEW i \in Loops, NEW l \in Row,
         Coherent(i, l.mode, l.state, l.out),
         NEW p, NEW x \in TickPlans(i, l, p)
  PROVE  Plan(i, l, x)
<1>1. /\ l.mode \in Modes /\ l.state \in States
      /\ l.mode = "auto" => l.state # "watchdog"
      /\ Kind[i] # "temp" => l.state # "interlock"
      /\ Kind[i] \in {"standard", "temp", "ph"}
  BY DEF Row, Coherent, Loops
<1>2. l.state # "watchdog" => \A e : AfterWatchdog(l, e) = e
  BY DEF AfterWatchdog
<1>3. l.out \in StepOutputs(i, l.out)
  BY DEF StepOutputs, Moves
<1>4. ASSUME x \in WatchdogPlans(l), l.state # "interlock"  PROVE Plan(i, l, x)
  BY <1>1, <1>4 DEF WatchdogPlans, Plan, States, Severities
<1>5. ASSUME x \in StandardPlans(i, l), l.mode = "auto", l.state = "ok"  PROVE Plan(i, l, x)
  <2>1. PICK o \in StepOutputs(i, l.out) : x = <<Save("auto", "ok", o)>>
    BY <1>2, <1>5 DEF StandardPlans
  <2> QED BY <1>5, <2>1 DEF Plan
<1>6. ASSUME Kind[i] = "temp", x \in TempPlans(i, l, p)  PROVE Plan(i, l, x)
  <2>1. CASE p = "stale"
    <3>1. x \in StaleTempPlans(l)
      BY <1>6, <2>1 DEF TempPlans, Trips
    <3> QED BY <1>4, <3>1 DEF StaleTempPlans, Plan
  <2>2. CASE p = "cool" /\ l.state = "interlock"
    BY <1>6, <2>2 DEF TempPlans, Release, Plan
  <2>3. CASE p \notin {"stale", "cool"} /\ l.state = "interlock"
    BY <1>6, <2>3 DEF TempPlans, Plan
  <2>4. CASE l.state # "interlock" /\ Trips(l, p)
    <3>1. x = <<Raise("critical"), Save("auto", "interlock", OutMax[i])>>
      BY <1>6, <2>4 DEF TempPlans, Trips, HoldInterlock
    <3> QED BY <1>6, <3>1 DEF Plan
  <2>5. CASE l.state # "interlock" /\ p # "stale" /\ ~Trips(l, p) /\ l.mode = "manual"
    BY <1>1, <1>6, <2>5 DEF TempPlans, ManualTempPlans, Plan, States
  <2>6. CASE l.state # "interlock" /\ p # "stale" /\ ~Trips(l, p) /\ l.mode = "auto"
    BY <1>1, <1>5, <1>6, <2>6 DEF TempPlans, States
  <2> QED BY <1>1, <2>1, <2>2, <2>3, <2>4, <2>5, <2>6 DEF Modes
<1>7. ASSUME x \in PHPlans(i, l, p), l.mode = "auto", l.state = "ok"  PROVE Plan(i, l, x)
  <2>1. CASE p = "critical"
    BY <1>2, <1>7, <2>1 DEF PHPlans, Plan, Severities
  <2>2. CASE p = "warning"
    <3>1. PICK o \in StepOutputs(i, l.out) : x = <<Raise("high"), Save("auto", "ok", o)>>
      BY <1>2, <1>7, <2>2 DEF PHPlans
    <3> QED BY <1>7, <3>1 DEF Plan
  <2>3. CASE p # "critical" /\ p # "warning"
    <3>1. x = <<Clear, Save("auto", "ok", l.out)>>
      BY <1>2, <1>7, <2>3 DEF PHPlans, PHSettled
    <3> QED BY <1>3, <1>7, <3>1 DEF Plan
  <2> QED BY <2>1, <2>2, <2>3
<1>8. CASE Kind[i] = "temp"
  <2>1. x \in TempPlans(i, l, p)
    BY <1>8 DEF TickPlans, Skips
  <2> QED BY <1>6, <1>8, <2>1
<1>9. CASE Kind[i] # "temp" /\ l.mode = "manual"
  BY <1>9 DEF TickPlans, Skips, Plan
<1>10. CASE Kind[i] # "temp" /\ l.mode = "auto"
  <2>1. l.state = "ok"
    BY <1>1, <1>10 DEF States
  <2> QED BY <1>1, <1>4, <1>5, <1>7, <1>10, <2>1 DEF TickPlans, Skips
<1> QED BY <1>1, <1>8, <1>9, <1>10 DEF Modes

\* The stages whose next statement is a save, a raise or a clear.
SaveStage(i, l, x) ==
  \/ /\ l.state = "ok"
     /\ Head(x) = Save("manual", "watchdog", l.out)
     /\ \E sev \in Severities : Tail(x) = <<Raise(sev)>>
  \/ /\ l.state = "ok" /\ l.mode = "auto" /\ Tail(x) = <<>>
     /\ \E o \in StepOutputs(i, l.out) : Head(x) = Save("auto", "ok", o)
  \/ /\ l.state = "interlock" /\ Tail(x) = <<>>
     /\ Head(x) = Save("manual", "ok", l.out) /\ x = <<Save("manual", "ok", l.out)>>
  \/ /\ Kind[i] = "temp" /\ Tail(x) = <<>>
     /\ Head(x) = Save("auto", "interlock", OutMax[i]) /\ x = HoldInterlock(i)
  \/ /\ l.state = "watchdog" /\ Kind[i] = "temp" /\ Tail(x) = <<Clear>>
     /\ Head(x) = Save("manual", "ok", l.out)

RaiseStage(i, l, x) ==
  \/ l.state = "ok" /\ Tail(x) = <<>>
  \/ Tail(x) = HoldInterlock(i)
  \/ \E o \in StepOutputs(i, l.out) : Tail(x) = <<Save("auto", "ok", o)>>

ClearStage(i, l, x) ==
  \/ l.state = "watchdog" /\ x = <<Clear>> /\ Tail(x) = <<>>
  \/ l.state = "interlock" /\ Tail(x) = <<Save("manual", "ok", l.out)>>
  \/ l.state = "ok" /\ \E o \in StepOutputs(i, l.out) : Tail(x) = <<Save("auto", "ok", o)>>

\* Dealing with the head of a plan leads to the next stage.
LEMMA StageOfEffects ==
  ASSUME NEW i \in Loops, NEW l \in Row, NEW x, Stage(i, l, x), x # <<>>
  PROVE  /\ x \in Seq(Effect) /\ Head(x) \in Effect /\ Tail(x) \in Seq(Effect)
         /\ Stage(i, l, Tail(x))
         /\ Head(x).op = "save"  => SaveStage(i, l, x)
         /\ Head(x).op = "raise" => RaiseStage(i, l, x)
         /\ Head(x).op = "clear" => ClearStage(i, l, x)
<1> USE DEF SaveStage, RaiseStage, ClearStage
<1>1. l.out \in Int /\ OutMax[i] \in Int /\ StepOutputs(i, l.out) \subseteq Int
  BY StepOutputsType DEF Row
<1>2. /\ \A o \in Int : /\ Save("manual", "watchdog", o) \in Effect
                       /\ Save("manual", "watchdog", o).op = "save"
                       /\ Save("manual", "ok", o) \in Effect
                       /\ Save("manual", "ok", o).op = "save"
                       /\ Save("auto", "ok", o) \in Effect
                       /\ Save("auto", "ok", o).op = "save"
                       /\ Save("auto", "interlock", o) \in Effect
                       /\ Save("auto", "interlock", o).op = "save"
      /\ \A sev \in Severities : Raise(sev) \in Effect /\ Raise(sev).op = "raise"
      /\ Raise("high") \in Effect /\ Raise("high").op = "raise"
      /\ Raise("critical") \in Effect /\ Raise("critical").op = "raise"
      /\ Clear \in Effect /\ Clear.op = "clear"
  BY EffectTypes DEF Modes, States, Severities
<1>3. CASE \E sev \in Severities :
             l.state = "ok" /\ x = <<Save("manual", "watchdog", l.out), Raise(sev)>>
  <2>1. PICK sev \in Severities :
             l.state = "ok" /\ x = <<Save("manual", "watchdog", l.out), Raise(sev)>>
    BY <1>3
  <2>2. Head(x) = Save("manual", "watchdog", l.out) /\ Tail(x) = <<Raise(sev)>>
    BY <1>1, <1>2, <2>1, ShortSeqs
  <2>3. Stage(i, l, Tail(x)) /\ x \in Seq(Effect) /\ Tail(x) \in Seq(Effect)
    BY <1>1, <1>2, <2>1, <2>2, ShortSeqs DEF Stage
  <2> QED BY <1>1, <1>2, <2>1, <2>2, <2>3
<1>4. CASE \E o \in StepOutputs(i, l.out) :
             l.state = "ok" /\ l.mode = "auto" /\ x = <<Save("auto", "ok", o)>>
  <2>1. PICK o \in StepOutputs(i, l.out) :
             l.state = "ok" /\ l.mode = "auto" /\ x = <<Save("auto", "ok", o)>>
    BY <1>4
  <2>2. Head(x) = Save("auto", "ok", o) /\ Tail(x) = <<>>
    BY <1>1, <1>2, <2>1, ShortSeqs
  <2>3. Stage(i, l, Tail(x)) /\ x \in Seq(Effect) /\ Tail(x) \in Seq(Effect)
    BY <1>1, <1>2, <2>1, <2>2, ShortSeqs DEF Stage, Plan
  <2> QED BY <1>1, <1>2, <2>1, <2>2, <2>3
<1>5. CASE \E o \in StepOutputs(i, l.out) : \E e \in {Raise("high"), Clear} :
             l.state = "ok" /\ l.mode = "auto" /\ x = <<e, Save("auto", "ok", o)>>
  <2>1. PICK o \in StepOutputs(i, l.out), e \in {Raise("high"), Clear} :
             l.state = "ok" /\ l.mode = "auto" /\ x = <<e, Save("auto", "ok", o)>>
    BY <1>5
  <2>2. Head(x) = e /\ Tail(x) = <<Save("auto", "ok", o)>>
    BY <1>1, <1>2, <2>1, ShortSeqs
  <2>3. Stage(i, l, Tail(x)) /\ x \in Seq(Effect) /\ Tail(x) \in Seq(Effect)
    BY <1>1, <1>2, <2>1, <2>2, ShortSeqs DEF Stage, Plan
  <2> QED BY <1>1, <1>2, <2>1, <2>2, <2>3
<1>6. CASE l.state = "interlock" /\ x = <<Clear, Save("manual", "ok", l.out)>>
  <2>2. Head(x) = Clear /\ Tail(x) = <<Save("manual", "ok", l.out)>>
    BY <1>1, <1>2, <1>6, ShortSeqs
  <2>3. Stage(i, l, Tail(x)) /\ x \in Seq(Effect) /\ Tail(x) \in Seq(Effect)
    BY <1>1, <1>2, <1>6, <2>2, ShortSeqs DEF Stage
  <2> QED BY <1>1, <1>2, <1>6, <2>2, <2>3
<1>7. CASE Kind[i] = "temp" /\ x = HoldInterlock(i)
  <2>2. Head(x) = Save("auto", "interlock", OutMax[i]) /\ Tail(x) = <<>>
    BY <1>1, <1>2, <1>7, ShortSeqs DEF HoldInterlock
  <2>3. Stage(i, l, Tail(x)) /\ x \in Seq(Effect) /\ Tail(x) \in Seq(Effect)
    BY <1>1, <1>2, <1>7, <2>2, ShortSeqs DEF Stage, Plan, HoldInterlock
  <2> QED BY <1>1, <1>2, <1>7, <2>2, <2>3
<1>8. CASE Kind[i] = "temp" /\ x = <<Raise("critical"), Save("auto", "interlock", OutMax[i])>>
  <2>2. Head(x) = Raise("critical") /\ Tail(x) = HoldInterlock(i)
    BY <1>1, <1>2, <1>8, ShortSeqs DEF HoldInterlock
  <2>3. Stage(i, l, Tail(x)) /\ x \in Seq(Effect) /\ Tail(x) \in Seq(Effect)
    BY <1>1, <1>2, <1>8, <2>2, ShortSeqs DEF Stage, HoldInterlock
  <2> QED BY <1>1, <1>2, <1>8, <2>2, <2>3
<1>9. CASE /\ l.state = "watchdog" /\ Kind[i] = "temp"
           /\ x = <<Save("manual", "ok", l.out), Clear>>
  <2>2. Head(x) = Save("manual", "ok", l.out) /\ Tail(x) = <<Clear>>
    BY <1>1, <1>2, <1>9, ShortSeqs
  <2>3. Stage(i, l, Tail(x)) /\ x \in Seq(Effect) /\ Tail(x) \in Seq(Effect)
    BY <1>1, <1>2, <1>9, <2>2, ShortSeqs DEF Stage
  <2> QED BY <1>1, <1>2, <1>9, <2>2, <2>3
<1>10. CASE \E sev \in Severities : l.state = "ok" /\ x = <<Raise(sev)>>
  <2>1. PICK sev \in Severities : l.state = "ok" /\ x = <<Raise(sev)>>
    BY <1>10
  <2>2. Head(x) = Raise(sev) /\ Tail(x) = <<>>
    BY <1>1, <1>2, <2>1, ShortSeqs
  <2>3. Stage(i, l, Tail(x)) /\ x \in Seq(Effect) /\ Tail(x) \in Seq(Effect)
    BY <1>1, <1>2, <2>1, <2>2, ShortSeqs DEF Stage, Plan
  <2> QED BY <1>1, <1>2, <2>1, <2>2, <2>3
<1>11. CASE l.state = "interlock" /\ x = <<Save("manual", "ok", l.out)>>
  <2>2. Head(x) = Save("manual", "ok", l.out) /\ Tail(x) = <<>>
    BY <1>1, <1>2, <1>11, ShortSeqs
  <2>3. Stage(i, l, Tail(x)) /\ x \in Seq(Effect) /\ Tail(x) \in Seq(Effect)
    BY <1>1, <1>2, <1>11, <2>2, ShortSeqs DEF Stage, Plan
  <2> QED BY <1>1, <1>2, <1>11, <2>2, <2>3
<1>12. CASE l.state = "watchdog" /\ x = <<Clear>>
  <2>2. Head(x) = Clear /\ Tail(x) = <<>>
    BY <1>1, <1>2, <1>12, ShortSeqs
  <2>3. Stage(i, l, Tail(x)) /\ x \in Seq(Effect) /\ Tail(x) \in Seq(Effect)
    BY <1>1, <1>2, <1>12, <2>2, ShortSeqs DEF Stage, Plan
  <2> QED BY <1>1, <1>2, <1>12, <2>2, <2>3
<1> QED
  BY <1>3, <1>4, <1>5, <1>6, <1>7, <1>8, <1>9, <1>10, <1>11, <1>12 DEF Stage, Plan

-----------------------------------------------------------------------------
(* The invariant holds initially and every step keeps it.                  *)

\* The manager moves on to a later loop or rests.
LEMMA NextLoopType ==
  ASSUME cursor \in 1..N
  PROVE  NextLoop \in 0..N /\ (NextLoop # 0 => NextLoop > cursor)
  BY NAssumption DEF NextLoop

\* RaiseOperational leaves an active alarm.
LEMMA RaisedType ==
  ASSUME NEW a \in Alarm, NEW sev \in Severities
  PROVE  Raised(a, sev) \in Alarm /\ IsActive(Raised(a, sev))
  BY DEF Raised, IsActive, Alarm, AlarmStates

\* ClearOperational leaves an inactive alarm.
LEMMA ClearedType ==
  ASSUME NEW a \in Alarm
  PROVE  Cleared(a) \in Alarm /\ ~IsActive(Cleared(a))
  BY DEF Cleared, IsActive, Alarm, AlarmStates

\* The seeded rows, before the first tick.
LEMMA InitIInv == Init => IInv
<1> SUFFICES ASSUME Init PROVE IInv
  OBVIOUS
<1>1. row \in [Loops -> Row] /\ snap \in [Loops -> Row]
  BY SeedAssumption DEF Init, Row, Modes, States
<1>2. req \in [Operators -> Request]
  BY NAssumption DEF Init, NoRequest, Request, Modes, Loops
<1>3. alarm \in [Loops -> Alarm]
  BY DEF Init, NoAlarm, Alarm, AlarmStates, Severities
<1>4. /\ cursor = 0 /\ cursor \in 0..N /\ faults \in 0..MaxFaults /\ cut \subseteq Loops
      /\ plan \in Seq(Effect) /\ plan = <<>>
  BY NAssumption, FaultsAssumption DEF Init
<1>5. TypeOK
  BY <1>1, <1>2, <1>3, <1>4 DEF TypeOK, Init
<1>6. \A i \in Loops : row[i].state = "ok" /\ snap[i].state = "ok"
  BY DEF Init
<1>7. StateFitsMode /\ SnapFits
  BY <1>6 DEF StateFitsMode, SnapFits, Coherent
<1>8. Staged /\ Provenance /\ SnapAnnounced /\ Halfway
  BY <1>4 DEF Staged, Provenance, Ahead, SnapAnnounced, Halfway
<1>9. AbnormalAnnounced
  BY <1>6 DEF AbnormalAnnounced
<1> QED BY <1>5, <1>7, <1>8, <1>9 DEF IInv

\* Facts about a state in which the manager is in the middle of a plan.
LEMMA InTheMiddle ==
  ASSUME IInv, plan # <<>>
  PROVE  /\ cursor \in Loops /\ cursor # 0 /\ cursor \in 1..N
         /\ snap[cursor] \in Row /\ row[cursor] \in Row /\ alarm[cursor] \in Alarm
         /\ Stage(cursor, snap[cursor], plan)
  BY NAssumption DEF IInv, TypeOK, Staged, Loops

\* The manager's position after the head of the plan is dealt with.
LEMMA AdvanceFits ==
  ASSUME IInv, plan # <<>>, Advance, UNCHANGED snap
  PROVE  /\ plan' \in Seq(Effect)
         /\ cursor' \in 0..N
         /\ cursor' = 0 => plan' = <<>>
         /\ Staged'
         /\ plan' = Tail(plan)
         /\ IF Tail(plan) = <<>> THEN cursor' = NextLoop ELSE cursor' = cursor
<1>1. Stage(cursor, snap[cursor], plan) /\ cursor \in Loops /\ snap[cursor] \in Row
      /\ cursor \in 1..N /\ cursor # 0
  BY InTheMiddle
<1>2. Tail(plan) \in Seq(Effect) /\ Stage(cursor, snap[cursor], Tail(plan))
  BY <1>1, StageOfEffects
<1>3. NextLoop \in 0..N
  BY <1>1, NextLoopType
<1>4. CASE Tail(plan) = <<>>
  BY <1>2, <1>3, <1>4 DEF Advance, Staged, Stage, Plan
<1>5. CASE Tail(plan) # <<>>
  <2>1. cursor' = cursor /\ plan' = Tail(plan) /\ snap' = snap
    BY <1>5 DEF Advance
  <2>2. Stage(cursor', snap'[cursor'], plan')
    BY <1>2, <2>1
  <2> QED BY <1>1, <1>2, <1>5, <2>1, <2>2 DEF Staged
<1> QED BY <1>4, <1>5

\* A step of somebody else than the manager that makes no row abnormal, no
\* alarm active or inactive.
LEMMA OthersKeepIInv ==
  ASSUME IInv, UNCHANGED <<snap, cursor, plan, cut>>, TypeOK',
         \A i \in Loops : row'[i] = row[i] \/ row'[i].state = "ok",
         \A i \in Loops : IsActive(alarm'[i]) <=> IsActive(alarm[i])
  PROVE  IInv'
<1>1. StateFitsMode' /\ SnapFits'
  BY DEF IInv, StateFitsMode, SnapFits, Coherent
<1>2. Staged'
  BY DEF IInv, Staged
<1>3. Saved' <=> Saved
  BY DEF Saved
<1>4. Provenance'
  BY <1>3 DEF IInv, Provenance, Ahead
<1>5. SnapAnnounced'
  BY DEF IInv, SnapAnnounced
<1>6. Halfway'
  BY DEF IInv, TypeOK, Halfway, Loops
<1>7. AbnormalAnnounced'
  BY DEF IInv, AbnormalAnnounced, Pending
<1> QED BY <1>1, <1>2, <1>4, <1>5, <1>6, <1>7 DEF IInv

\* The manager starts a tick.
LEMMA BeginTickIInv == IInv /\ BeginTick => IInv'
<1> SUFFICES ASSUME IInv, BeginTick PROVE IInv'
  OBVIOUS
<1>1. TypeOK'
  BY NAssumption DEF IInv, BeginTick, TypeOK
<1>2. plan = <<>> /\ plan' = <<>> /\ snap' = row /\ cursor = 0 /\ cursor' = 1
  BY DEF IInv, TypeOK, BeginTick
<1>3. StateFitsMode' /\ SnapFits'
  BY DEF IInv, BeginTick, StateFitsMode, SnapFits
<1>4. Staged' /\ Provenance' /\ Halfway'
  BY <1>2 DEF BeginTick, Staged, Stage, Plan, Provenance, Halfway, HoldInterlock
<1>5. AbnormalAnnounced'
  BY <1>2 DEF IInv, BeginTick, AbnormalAnnounced, Pending
<1>6. SnapAnnounced'
  BY <1>2 DEF IInv, BeginTick, SnapAnnounced, AbnormalAnnounced, Pending
<1> QED BY <1>1, <1>3, <1>4, <1>5, <1>6 DEF IInv

\* Decide: the plan of the loop is fixed by the manager's copy of its row.
LEMMA DecideIInv ==
  ASSUME IInv, NEW readable \in BOOLEAN, Decide(readable)
  PROVE  IInv'
<1> DEFINE l == snap[cursor]
           p == IF readable THEN pv[cursor] ELSE "stale"
<1>1. PICK x \in TickPlans(cursor, l, p) :
        /\ plan' = x
        /\ cursor' = IF x = <<>> THEN NextLoop ELSE cursor
  BY DEF Decide
<1>2. cursor \in Loops /\ l \in Row /\ cursor # 0 /\ cursor \in 1..N /\ plan = <<>>
  BY NAssumption DEF IInv, Decide, TypeOK, Loops
<1>3. Plan(cursor, l, x)
  BY <1>2, TickPlansArePlans DEF IInv, SnapFits
<1>4. UNCHANGED <<row, alarm, snap, cut, req, pv>>
  BY DEF Decide
<1>5. faults' \in 0..MaxFaults
  BY FaultsAssumption DEF IInv, Decide, TypeOK
<1>6. StateFitsMode' /\ SnapFits'
  BY <1>4 DEF IInv, StateFitsMode, SnapFits
<1>7. AbnormalAnnounced'
  BY <1>2, <1>4 DEF IInv, AbnormalAnnounced, Pending
<1>8. CASE x = <<>>
  <2>1. plan' = <<>> /\ cursor' = NextLoop /\ cursor' \in 0..N /\ (cursor' # 0 => cursor' > cursor)
    BY <1>1, <1>2, <1>8, NextLoopType
  <2>2. TypeOK'
    BY <1>4, <1>5, <2>1, ShortSeqs DEF IInv, TypeOK
  <2>3. Staged' /\ Halfway'
    BY <2>1 DEF Staged, Stage, Plan, Halfway, HoldInterlock
  <2>a. \A i \in Loops : cursor' # 0 /\ cursor' <= i => cursor <= i /\ cursor # i
    BY <1>2, <2>1 DEF Loops
  <2>4. Provenance'
    BY <1>2, <1>4, <2>a DEF IInv, Provenance, Ahead
  <2>5. SnapAnnounced'
    BY <1>2, <1>4, <2>a DEF IInv, SnapAnnounced
  <2> QED BY <1>6, <1>7, <2>2, <2>3, <2>4, <2>5 DEF IInv
<1>9. CASE x # <<>>
  <2>1. plan' = x /\ cursor' = cursor
    BY <1>1, <1>9
  <2>2. Stage(cursor, l, x)
    BY <1>3 DEF Stage
  <2>3. TypeOK'
    BY <1>2, <1>4, <1>5, <1>9, <2>1, <2>2, StageOfEffects DEF IInv, TypeOK
  <2>4. Staged'
    BY <1>4, <2>1, <2>2 DEF Staged
  <2>5. Provenance'
    BY <1>2, <1>4, <2>1 DEF IInv, Provenance, Ahead, Saved, Loops
  <2>6. SnapAnnounced'
    BY <1>2, <1>4, <1>9, <2>1 DEF IInv, SnapAnnounced, Loops
  <2>7. Halfway'
    <3>1. x # <<Save("manual", "ok", l.out)>> /\ x # <<Clear>>
      <4>1. ASSUME NEW e, x = <<e>>  PROVE e.op = "save" /\ e.mode = "auto"
        BY <1>3, <4>1, Shapes, SaveFields DEF Plan, HoldInterlock
      <4> QED BY <4>1, SaveFields
    <3>2. x = HoldInterlock(cursor) => l.state = "interlock"
      BY <1>3, <1>9, Shapes, SaveFields DEF Plan, HoldInterlock
    <3>3. cursor \notin cut /\ l.state = "interlock" => IsActive(alarm[cursor])
      BY <1>2 DEF IInv, SnapAnnounced, Loops
    <3> QED BY <1>4, <2>1, <3>1, <3>2, <3>3 DEF Halfway, HoldInterlock
  <2> QED BY <1>6, <1>7, <2>3, <2>4, <2>5, <2>6, <2>7 DEF IInv
<1> QED BY <1>8, <1>9

\* When the manager moves on, the loops ahead of it were ahead of it before.
LEMMA StillAhead ==
  ASSUME IInv, plan # <<>>, Advance, UNCHANGED snap, NEW i \in Loops
  PROVE  /\ cursor' # 0 /\ cursor' <= i /\ (cursor' = i => plan' = <<>>)
              => cursor <= i /\ cursor # i
         /\ Ahead(i)' => cursor <= i /\ (cursor = i => Tail(plan) # <<>>)
<1>1. cursor \in 1..N /\ cursor # 0
  BY InTheMiddle
<1>2. NextLoop # 0 => NextLoop > cursor /\ NextLoop \in 0..N
  BY <1>1, NextLoopType
<1>3. CASE Tail(plan) = <<>>
  BY <1>1, <1>2, <1>3 DEF Advance, Ahead, Loops
<1>4. CASE Tail(plan) # <<>>
  BY <1>1, <1>4 DEF Advance, Ahead, Loops
<1> QED BY <1>3, <1>4

\* SaveLoopRuntime.
LEMMA DoSaveIInv == IInv /\ DoSave => IInv'
<1> SUFFICES ASSUME IInv, DoSave PROVE IInv'
  OBVIOUS
<1> DEFINE l == snap[cursor]
           e == Head(plan)
<1>1. /\ cursor \in Loops /\ cursor # 0 /\ l \in Row /\ e \in Effect /\ e.op = "save"
      /\ plan # <<>> /\ Stage(cursor, l, plan) /\ l.out \in Int /\ OutMax[cursor] \in Int
  BY InTheMiddle, StageOfEffects DEF DoSave, Row
<1>2. e.mode \in Modes /\ e.state \in States /\ e.out \in Int
  BY <1>1 DEF Effect
<1>3. row' = [row EXCEPT ![cursor] = [mode |-> e.mode, state |-> e.state, out |-> e.out]]
  BY DEF DoSave
<1>4. /\ row' \in [Loops -> Row]
      /\ row'[cursor] = [mode |-> e.mode, state |-> e.state, out |-> e.out]
      /\ row'[cursor].mode = e.mode /\ row'[cursor].state = e.state /\ row'[cursor].out = e.out
      /\ \A i \in Loops \ {cursor} : row'[i] = row[i]
  BY <1>1, <1>2, <1>3 DEF IInv, TypeOK, Row
<1>5. UNCHANGED <<alarm, pv, snap, req, faults, cut>>
  BY DEF DoSave
<1>6. /\ plan' \in Seq(Effect) /\ cursor' \in 0..N /\ (cursor' = 0 => plan' = <<>>)
      /\ Staged' /\ plan' = Tail(plan)
      /\ IF Tail(plan) = <<>> THEN cursor' = NextLoop ELSE cursor' = cursor
  BY <1>1, <1>5, AdvanceFits DEF DoSave
<1>7. TypeOK'
  BY <1>4, <1>5, <1>6 DEF IInv, TypeOK
<1>8. SnapFits'
  BY <1>5 DEF IInv, SnapFits
\* What the save is, by the stage.
<1>9. \/ /\ e.mode = "manual" /\ e.state = "watchdog"
         /\ \E sev \in Severities : Tail(plan) = <<Raise(sev)>>
      \/ e.state = "ok" /\ Tail(plan) = <<>>
      \/ /\ e.mode = "auto" /\ e.state = "interlock" /\ e.out = OutMax[cursor]
         /\ Kind[cursor] = "temp" /\ plan = HoldInterlock(cursor) /\ Tail(plan) = <<>>
      \/ e.mode = "manual" /\ e.state = "ok" /\ Tail(plan) = <<Clear>>
  <2>1. SaveStage(cursor, l, plan)
    BY <1>1, StageOfEffects
  <2>2. \A m, st, o : Head(plan) = Save(m, st, o) => e.mode = m /\ e.state = st /\ e.out = o
    BY SaveFields
  <2> QED BY <2>1, <2>2 DEF SaveStage
<1>a. Tail(plan) = <<>> \/ cursor' = cursor
  BY <1>6
<1>10. StateFitsMode'
  BY <1>4, <1>9 DEF IInv, StateFitsMode, Coherent
<1>11. Provenance'
  <2>1. Saved' \/ Tail(plan) = <<>>
    <3>1. \A sev \in Severities : /\ <<Raise(sev)>> # <<>> /\ Tail(<<Raise(sev)>>) = <<>>
                                 /\ Head(<<Raise(sev)>>).op = "raise"
      BY EffectTypes, ShortSeqs
    <3>2. /\ <<Clear>> # <<>> /\ Tail(<<Clear>>) = <<>> /\ Head(<<Clear>>).op = "clear"
      BY EffectTypes, ShortSeqs
    <3>3. CASE \E sev \in Severities : Tail(plan) = <<Raise(sev)>>
      BY <1>6, <3>1, <3>3 DEF Saved
    <3>4. CASE Tail(plan) = <<Clear>>
      BY <1>6, <3>2, <3>4 DEF Saved
    <3> QED BY <1>9, <3>3, <3>4
  <2>2. \A i \in Loops : Ahead(i)' => i # cursor /\ Ahead(i)
    <3>1. \A i \in Loops : Ahead(i)' => cursor <= i /\ (cursor = i => Tail(plan) # <<>>)
      BY <1>1, <1>5, StillAhead DEF DoSave
    <3>2. \A i \in Loops : Ahead(i)' /\ cursor = i => FALSE
      BY <1>6, <2>1, <3>1 DEF Ahead
    <3> QED BY <1>1, <3>1, <3>2 DEF Ahead
  <2> QED BY <1>4, <1>5, <2>2 DEF IInv, Provenance
<1>12. SnapAnnounced'
  BY <1>1, <1>5, StillAhead DEF IInv, SnapAnnounced, DoSave
<1>13. Halfway'
  <2>1. CASE Tail(plan) = <<>>
    BY <1>6, <2>1, Shapes DEF Halfway, HoldInterlock
  <2>2. CASE \E sev \in Severities : Tail(plan) = <<Raise(sev)>>
    <3>1. PICK sev \in Severities : plan' = <<Raise(sev)>>
      BY <1>6, <2>2
    <3>2. \A m, st, o : Raise(sev) # Save(m, st, o) /\ Raise(sev) # Clear
      BY EffectTypes, SaveFields
    <3> QED BY <3>1, <3>2, Shapes DEF Halfway, HoldInterlock
  <2>3. CASE Tail(plan) = <<Clear>> /\ e.state = "ok"
    <3>1. plan' = <<Clear>> /\ cursor' = cursor /\ row'[cursor'].state = "ok"
      BY <1>4, <1>6, <2>3, Shapes
    <3> QED BY <3>1, Shapes, SaveFields DEF Halfway, HoldInterlock
  <2> QED BY <1>9, <2>1, <2>2, <2>3
<1>14. AbnormalAnnounced'
  <2> SUFFICES ASSUME NEW i \in Loops \ cut, row'[i].state # "ok"
               PROVE  \/ IsActive(alarm[i])
                      \/ row'[i].state = "watchdog"  /\ Pending(i, "raise")'
                      \/ row'[i].state = "interlock" /\ Pending(i, "save")'
    BY <1>5 DEF AbnormalAnnounced
  <2>1. CASE i # cursor
    BY <1>4, <2>1 DEF IInv, AbnormalAnnounced, Pending
  <2>2. CASE i = cursor /\ e.state = "watchdog" /\ \E sev \in Severities : Tail(plan) = <<Raise(sev)>>
    <3>1. PICK sev \in Severities : plan' = <<Raise(sev)>> /\ cursor' = cursor
      BY <1>6, <2>2, Shapes
    <3>2. plan' # <<>> /\ Head(plan').op = "raise"
      BY <3>1, EffectTypes, ShortSeqs
    <3> QED BY <1>4, <2>2, <3>1, <3>2 DEF Pending
  <2>3. CASE i = cursor /\ plan = HoldInterlock(cursor)
    BY <1>1, <2>3 DEF IInv, Halfway
  <2> QED BY <1>4, <1>9, <2>1, <2>2, <2>3
<1> QED BY <1>6, <1>7, <1>8, <1>10, <1>11, <1>12, <1>13, <1>14 DEF IInv

\* RaiseOperational.
LEMMA DoRaiseIInv == IInv /\ DoRaise => IInv'
<1> SUFFICES ASSUME IInv, DoRaise PROVE IInv'
  OBVIOUS
<1> DEFINE l == snap[cursor]
           e == Head(plan)
<1>1. /\ cursor \in Loops /\ cursor # 0 /\ l \in Row /\ e \in Effect /\ e.op = "raise"
      /\ plan # <<>> /\ Stage(cursor, l, plan) /\ alarm[cursor] \in Alarm
  BY InTheMiddle, StageOfEffects DEF DoRaise
<1>2. e.sev \in Severities
  BY <1>1 DEF Effect
<1>3. /\ alarm' \in [Loops -> Alarm]
      /\ IsActive(alarm'[cursor])
      /\ \A i \in Loops \ {cursor} : alarm'[i] = alarm[i]
  BY <1>1, <1>2, RaisedType DEF IInv, TypeOK, DoRaise
<1>4. UNCHANGED <<row, pv, snap, req, faults, cut>>
  BY DEF DoRaise
<1>5. /\ plan' \in Seq(Effect) /\ cursor' \in 0..N /\ (cursor' = 0 => plan' = <<>>)
      /\ Staged' /\ plan' = Tail(plan)
      /\ IF Tail(plan) = <<>> THEN cursor' = NextLoop ELSE cursor' = cursor
  BY <1>1, <1>4, AdvanceFits DEF DoRaise
<1>6. TypeOK'
  BY <1>3, <1>4, <1>5 DEF IInv, TypeOK
<1>7. SnapFits' /\ StateFitsMode'
  BY <1>4 DEF IInv, SnapFits, StateFitsMode
<1>8. RaiseStage(cursor, l, plan)
  BY <1>1, StageOfEffects
<1>9. Provenance'
  <2>1. \A i \in Loops : Ahead(i)' => cursor <= i /\ (cursor = i => Tail(plan) # <<>>)
    BY <1>1, <1>4, StillAhead DEF DoRaise
  <2>2. Saved => Tail(plan) = <<>>
    BY DEF Saved
  <2>3. \A i \in Loops : Ahead(i)' => Ahead(i)
    BY <1>1, <2>1, <2>2 DEF Ahead
  <2> QED BY <1>4, <2>3 DEF IInv, Provenance
<1>10. SnapAnnounced'
  <2>1. \A i \in Loops : cursor' # 0 /\ cursor' <= i /\ (cursor' = i => plan' = <<>>)
                           => cursor <= i /\ cursor # i
    BY <1>1, <1>4, StillAhead DEF DoRaise
  <2> QED BY <1>1, <1>3, <1>4, <2>1 DEF IInv, SnapAnnounced
<1>11. Halfway'
  <2>1. CASE Tail(plan) = <<>>
    BY <1>5, <2>1, Shapes DEF Halfway, HoldInterlock
  <2>2. CASE Tail(plan) = HoldInterlock(cursor)
    <3>1. cursor' = cursor /\ plan' = HoldInterlock(cursor) /\ IsActive(alarm'[cursor])
      BY <1>3, <1>5, <2>2, Shapes DEF HoldInterlock
    <3> QED BY <3>1, Shapes, SaveFields DEF Halfway, HoldInterlock
  <2>3. CASE \E o \in StepOutputs(cursor, l.out) : Tail(plan) = <<Save("auto", "ok", o)>>
    <3>1. PICK o : plan' = <<Save("auto", "ok", o)>>
      BY <1>5, <2>3
    <3>2. /\ \A m, st, v : Save("auto", "ok", o) = Save(m, st, v) => m = "auto" /\ st = "ok"
          /\ Save("auto", "ok", o) # Clear
      BY SaveFields
    <3> QED BY <3>1, <3>2, Shapes DEF Halfway, HoldInterlock
  <2> QED BY <1>8, <2>1, <2>2, <2>3 DEF RaiseStage
<1>12. AbnormalAnnounced'
  BY <1>1, <1>3, <1>4 DEF IInv, AbnormalAnnounced, Pending
<1> QED BY <1>5, <1>6, <1>7, <1>9, <1>10, <1>11, <1>12 DEF IInv

\* ClearOperational.
LEMMA DoClearIInv == IInv /\ DoClear => IInv'
<1> SUFFICES ASSUME IInv, DoClear PROVE IInv'
  OBVIOUS
<1> DEFINE l == snap[cursor]
           e == Head(plan)
<1>1. /\ cursor \in Loops /\ cursor # 0 /\ l \in Row /\ e \in Effect /\ e.op = "clear"
      /\ plan # <<>> /\ Stage(cursor, l, plan) /\ alarm[cursor] \in Alarm
  BY InTheMiddle, StageOfEffects DEF DoClear
<1>3. /\ alarm' \in [Loops -> Alarm]
      /\ ~IsActive(alarm'[cursor])
      /\ \A i \in Loops \ {cursor} : alarm'[i] = alarm[i]
  BY <1>1, ClearedType DEF IInv, TypeOK, DoClear
<1>4. UNCHANGED <<row, pv, snap, req, faults, cut>>
  BY DEF DoClear
<1>5. /\ plan' \in Seq(Effect) /\ cursor' \in 0..N /\ (cursor' = 0 => plan' = <<>>)
      /\ Staged' /\ plan' = Tail(plan)
      /\ IF Tail(plan) = <<>> THEN cursor' = NextLoop ELSE cursor' = cursor
  BY <1>1, <1>4, AdvanceFits DEF DoClear
<1>6. TypeOK'
  BY <1>3, <1>4, <1>5 DEF IInv, TypeOK
<1>7. SnapFits' /\ StateFitsMode'
  BY <1>4 DEF IInv, SnapFits, StateFitsMode
<1>8. ClearStage(cursor, l, plan)
  BY <1>1, StageOfEffects
<1>9. Provenance'
  <2>1. \A i \in Loops : Ahead(i)' => cursor <= i /\ (cursor = i => Tail(plan) # <<>>)
    BY <1>1, <1>4, StillAhead DEF DoClear
  <2>2. Saved => Tail(plan) = <<>>
    BY DEF Saved
  <2>3. \A i \in Loops : Ahead(i)' => Ahead(i)
    BY <1>1, <2>1, <2>2 DEF Ahead
  <2> QED BY <1>4, <2>3 DEF IInv, Provenance
<1>10. SnapAnnounced'
  <2>1. \A i \in Loops : cursor' # 0 /\ cursor' <= i /\ (cursor' = i => plan' = <<>>)
                           => cursor <= i /\ cursor # i
    BY <1>1, <1>4, StillAhead DEF DoClear
  <2> QED BY <1>1, <1>3, <1>4, <2>1 DEF IInv, SnapAnnounced
\* Which of the three clears it is.
<1>11. \/ l.state = "watchdog" /\ plan = <<Clear>> /\ Tail(plan) = <<>>
       \/ /\ l.state # "watchdog" /\ cursor' = cursor
          /\ \E m \in Modes, o \in Int :
               plan' = <<Save(m, "ok", o)>> /\ (m = "auto" => l.state = "ok")
  BY <1>1, <1>5, <1>8, Shapes, StepOutputsType DEF ClearStage, Modes, Row
<1>12. Halfway'
  <2>1. CASE Tail(plan) = <<>>
    BY <1>5, <2>1, Shapes DEF Halfway, HoldInterlock
  <2>2. CASE Tail(plan) # <<>>
    <3>0. cursor' = cursor
      BY <1>5, <2>2
    <3>1. PICK m \in Modes, o \in Int : plan' = <<Save(m, "ok", o)>>
      BY <1>11, <2>2
    <3>2. /\ \A k, st, v : Save(m, "ok", o) = Save(k, st, v) => st = "ok"
          /\ Save(m, "ok", o) # Clear
      BY SaveFields
    <3> QED BY <1>3, <3>0, <3>1, <3>2, Shapes DEF Halfway, HoldInterlock
  <2> QED BY <2>1, <2>2
<1>13. AbnormalAnnounced'
  <2> SUFFICES ASSUME NEW i \in Loops \ cut, row[i].state # "ok"
               PROVE  \/ IsActive(alarm'[i])
                      \/ row[i].state = "watchdog"  /\ Pending(i, "raise")'
                      \/ row[i].state = "interlock" /\ Pending(i, "save")'
    BY <1>4 DEF AbnormalAnnounced
  <2>1. CASE i # cursor
    BY <1>3, <2>1 DEF IInv, AbnormalAnnounced, Pending
  <2>2. CASE i = cursor /\ Tail(plan) = <<>>
    <3>1. plan = <<Clear>>
      BY <1>5, <1>11, <2>2, Shapes
    <3> QED BY <1>1, <2>2, <3>1 DEF IInv, Halfway
  <2>3. CASE i = cursor /\ Tail(plan) # <<>>
    <3>0. cursor' = cursor
      BY <1>5, <2>3
    <3>1. PICK m \in Modes, o \in Int : plan' = <<Save(m, "ok", o)>>
      BY <1>11, <2>3
    <3>2. Pending(i, "save")'
      BY <2>3, <3>0, <3>1, SaveFields, EffectTypes, ShortSeqs DEF Pending, States
    <3>3. Ahead(cursor)
      BY <1>1, <2>3 DEF Ahead, Saved, Loops
    <3>4. row[i].state = l.state
      BY <1>1, <2>3, <3>3 DEF IInv, Provenance
    <3> QED BY <1>1, <1>11, <2>3, <3>2, <3>4 DEF Row, States
  <2> QED BY <2>1, <2>2, <2>3
<1> QED BY <1>5, <1>6, <1>7, <1>9, <1>10, <1>12, <1>13 DEF IInv

\* A statement fails: what it would have done is excused by cut.
LEMMA EffectFailsIInv == IInv /\ EffectFails => IInv'
<1> SUFFICES ASSUME IInv, EffectFails PROVE IInv'
  OBVIOUS
<1> DEFINE l == snap[cursor]
<1>1. /\ cursor \in Loops /\ cursor # 0 /\ l \in Row /\ plan # <<>>
      /\ Stage(cursor, l, plan) /\ Head(plan) \in Effect
  BY InTheMiddle, StageOfEffects DEF EffectFails
<1>2. UNCHANGED <<row, alarm, pv, snap, req>> /\ cut' = cut \cup {cursor}
  BY DEF EffectFails
<1>3. /\ plan' \in Seq(Effect) /\ cursor' \in 0..N /\ (cursor' = 0 => plan' = <<>>)
      /\ Staged' /\ plan' = Tail(plan)
      /\ IF Tail(plan) = <<>> THEN cursor' = NextLoop ELSE cursor' = cursor
  BY <1>1, <1>2, AdvanceFits DEF EffectFails
<1>4. TypeOK'
  BY <1>1, <1>2, <1>3, FaultsAssumption DEF IInv, TypeOK, EffectFails
<1>5. SnapFits' /\ StateFitsMode'
  BY <1>2 DEF IInv, SnapFits, StateFitsMode
<1>6. Provenance'
  <2>1. \A i \in Loops : Ahead(i)' => cursor <= i /\ (cursor = i => Tail(plan) # <<>>)
    BY <1>1, <1>2, StillAhead DEF EffectFails
  <2>2. Saved => Tail(plan) = <<>>
    BY DEF Saved
  <2>3. \A i \in Loops : Ahead(i)' => Ahead(i)
    BY <1>1, <2>1, <2>2 DEF Ahead
  <2> QED BY <1>2, <2>3 DEF IInv, Provenance
<1>7. SnapAnnounced'
  <2>1. \A i \in Loops : cursor' # 0 /\ cursor' <= i /\ (cursor' = i => plan' = <<>>)
                           => cursor <= i /\ cursor # i
    BY <1>1, <1>2, StillAhead DEF EffectFails
  <2>2. \A i \in Loops \ cut' : i \in Loops \ cut
    BY <1>2
  <2>3. snap' = snap /\ alarm' = alarm
    BY <1>2
  <2> SUFFICES ASSUME NEW i \in Loops \ cut',
                      cursor' # 0 /\ cursor' <= i /\ (cursor' = i => plan' = <<>>),
                      snap[i].state # "ok"
               PROVE  IsActive(alarm[i])
    BY <2>3 DEF SnapAnnounced
  <2>4. cursor # 0 /\ cursor <= i /\ cursor # i
    BY <1>1, <2>1
  <2> QED BY <2>2, <2>4 DEF IInv, SnapAnnounced
<1>8. Halfway'
  <2>1. CASE Tail(plan) = <<>>
    BY <1>3, <2>1, Shapes DEF Halfway, HoldInterlock
  <2>2. CASE Tail(plan) # <<>>
    BY <1>2, <1>3, <2>2 DEF Halfway
  <2> QED BY <2>1, <2>2
<1>9. AbnormalAnnounced'
  BY <1>2 DEF IInv, AbnormalAnnounced, Pending
<1> QED BY <1>3, <1>4, <1>5, <1>6, <1>7, <1>8, <1>9 DEF IInv

\* capd dies: the loop it was working on is excused.
LEMMA RestartIInv == IInv /\ Restart => IInv'
<1> SUFFICES ASSUME IInv, Restart PROVE IInv'
  OBVIOUS
<1>1. plan # <<>> => cursor \in Loops
  BY InTheMiddle
<1>2. req' \in [Operators -> Request]
  BY NAssumption DEF Restart, NoRequest, Request, Modes, Loops
<1>3. TypeOK'
  BY <1>1, <1>2, NAssumption, FaultsAssumption DEF IInv, Restart, TypeOK
<1>4. /\ cursor' = 0 /\ plan' = <<>>
      /\ UNCHANGED <<row, alarm, snap>>
      /\ cut' = IF plan = <<>> THEN cut ELSE cut \cup {cursor}
  BY DEF Restart
<1>5. SnapFits' /\ StateFitsMode'
  BY <1>4 DEF IInv, SnapFits, StateFitsMode
<1>6. Staged' /\ Provenance' /\ SnapAnnounced' /\ Halfway'
  BY <1>4 DEF Staged, Provenance, Ahead, SnapAnnounced, Halfway
<1>7. AbnormalAnnounced'
  BY <1>4 DEF IInv, AbnormalAnnounced, Pending
<1> QED BY <1>3, <1>5, <1>6, <1>7 DEF IInv

\* The operators' handlers, the acknowledgement and the plant.
LEMMA OthersIInv ==
  ASSUME IInv,
         \/ \E o \in Operators : Operator(o)
         \/ \E i \in Loops : AckAlarm(i)
         \/ \E i \in Loops : \E p \in PVLevels(Kind[i]) : PVChanges(i, p)
         \/ UNCHANGED vars
  PROVE  IInv'
<1> USE DEF IInv
<1>1. ASSUME NEW o \in Operators, NEW i \in Loops, ReadLoop(o, i) PROVE IInv'
  <2>1. row[i].mode \in Modes
    BY DEF TypeOK, Row
  <2>2. req' \in [Operators -> Request]
    BY <1>1, <2>1 DEF ReadLoop, TypeOK, Request
  <2>3. TypeOK'
    BY <1>1, <2>2 DEF ReadLoop, TypeOK
  <2> QED BY <1>1, <2>3, OthersKeepIInv DEF ReadLoop
<1>2. ASSUME NEW o \in Operators, Answer(o) PROVE req' \in [Operators -> Request]
  BY <1>2, NAssumption DEF Answer, TypeOK, NoRequest, Request, Modes, Loops
<1>3. ASSUME NEW o \in Operators, NEW m \in Modes, SetLoopMode(o, m) PROVE IInv'
  <2> DEFINE i == req[o].loop
  <2>1. i \in Loops
    BY DEF TypeOK, Request
  <2>2. row' \in [Loops -> Row] /\ \A j \in Loops : row'[j] = row[j] \/ row'[j].state = "ok"
    <3>1. CASE m = req[o].seen
      BY <1>3, <3>1 DEF SetLoopMode, TypeOK
    <3>2. CASE m # req[o].seen
      <4>1. row' = [row EXCEPT ![i] = [row[i] EXCEPT !.mode = m, !.state = "ok"]]
        BY <1>3, <3>2 DEF SetLoopMode, WithMode
      <4>2. row[i] \in Row /\ "ok" \in States
        BY <2>1 DEF TypeOK, States
      <4>3. [row[i] EXCEPT !.mode = m, !.state = "ok"] \in Row
        BY <4>2 DEF Row
      <4>4. row' \in [Loops -> Row] /\ row'[i].state = "ok"
        BY <2>1, <4>1, <4>2, <4>3 DEF TypeOK, Row
      <4> QED BY <2>1, <4>1, <4>4 DEF TypeOK
    <3> QED BY <3>1, <3>2
  <2>3. TypeOK'
    BY <1>2, <1>3, <2>2 DEF SetLoopMode, TypeOK
  <2> QED BY <1>3, <2>2, <2>3, OthersKeepIInv DEF SetLoopMode
<1>4. ASSUME NEW o \in Operators, NEW v \in Int, SetLoopOutput(o, v) PROVE IInv'
  <2> DEFINE i == req[o].loop
  <2>1. i \in Loops
    BY DEF TypeOK, Request
  <2>2. row' \in [Loops -> Row] /\ \A j \in Loops : row'[j] = row[j] \/ row'[j].state = "ok"
    <3>1. CASE row' = row
      BY <3>1 DEF TypeOK
    <3>2. CASE row' # row
      <4>1. row' = [row EXCEPT ![i] = [row[i] EXCEPT !.out = v, !.state = "ok"]]
        BY <1>4, <3>2 DEF SetLoopOutput, WithOutput
      <4>2. row[i] \in Row /\ "ok" \in States
        BY <2>1 DEF TypeOK, States
      <4>3. [row[i] EXCEPT !.out = v, !.state = "ok"] \in Row
        BY <4>2 DEF Row
      <4>4. row' \in [Loops -> Row] /\ row'[i].state = "ok"
        BY <2>1, <4>1, <4>2, <4>3 DEF TypeOK, Row
      <4> QED BY <2>1, <4>1, <4>4 DEF TypeOK
    <3> QED BY <3>1, <3>2
  <2>3. TypeOK'
    BY <1>2, <1>4, <2>2 DEF SetLoopOutput, TypeOK
  <2> QED BY <1>4, <2>2, <2>3, OthersKeepIInv DEF SetLoopOutput
<1>5. ASSUME NEW o \in Operators, Operator(o) PROVE IInv'
  <2>1. req[o].loop \in Loops
    BY DEF TypeOK, Request
  <2>2. (OutMin[req[o].loop] - 1)..(OutMax[req[o].loop] + 1) \subseteq Int
    BY <2>1, RangeAssumption
  <2> QED BY <1>1, <1>3, <1>4, <1>5, <2>2 DEF Operator
<1>6. ASSUME NEW i \in Loops, AckAlarm(i) PROVE IInv'
  <2>1. /\ alarm' \in [Loops -> Alarm]
        /\ \A j \in Loops : IsActive(alarm'[j]) <=> IsActive(alarm[j])
    BY <1>6 DEF AckAlarm, Acked, TypeOK, Alarm, AlarmStates, IsActive
  <2>2. TypeOK'
    BY <1>6, <2>1 DEF AckAlarm, TypeOK
  <2> QED BY <1>6, <2>1, <2>2, OthersKeepIInv DEF AckAlarm
<1>7. ASSUME NEW i \in Loops, NEW p \in PVLevels(Kind[i]), PVChanges(i, p) PROVE IInv'
  <2>1. p \in {"stale", "good", "cool", "band", "hot", "ok", "warning", "critical"}
    BY DEF PVLevels
  <2>2. TypeOK'
    BY <1>7, <2>1 DEF PVChanges, TypeOK
  <2> QED BY <1>7, <2>2, OthersKeepIInv DEF PVChanges
<1>8. CASE UNCHANGED vars
  <2>1. TypeOK'
    BY <1>8 DEF vars, TypeOK
  <2> QED BY <1>8, <2>1, OthersKeepIInv DEF vars
<1> QED BY <1>5, <1>6, <1>7, <1>8

\* Every step of manager, operators, plant and faults keeps the invariant.
LEMMA NextIInv == IInv /\ [Next]_vars => IInv'
<1> SUFFICES ASSUME IInv, [Next]_vars PROVE IInv'
  OBVIOUS
<1>1. CASE Manager
  BY <1>1, BeginTickIInv, DecideIInv, DoSaveIInv, DoRaiseIInv, DoClearIInv DEF Manager
<1>2. CASE Faulty
  BY <1>2, DecideIInv, EffectFailsIInv, RestartIInv DEF Faulty
<1> QED BY <1>1, <1>2, OthersIInv DEF Next

-----------------------------------------------------------------------------
(* The theorems.                                                           *)

\* The strengthened invariant holds in every reachable state.
THEOREM InductiveInvariant == Spec => []IInv
  BY InitIInv, NextIInv, PTL DEF Spec

\* Type correctness, and no effect of another loop in the manager's hands.
THEOREM TypeCorrect == Spec => []TypeOK
<1>1. IInv => TypeOK
  BY DEF IInv
<1> QED BY <1>1, InductiveInvariant, PTL

\* Interlock implies auto and full oil on a temperature loop, watchdog implies
\* manual, under every interleaving of ticks, operators, faults and restarts.
THEOREM StateFitsModeAlways == Spec => []StateFitsMode
<1>1. IInv => StateFitsMode
  BY DEF IInv
<1> QED BY <1>1, InductiveInvariant, PTL

\* A frozen or tripped loop whose tick lost no statement has its alarm active.
THEOREM AbnormalAnnouncedAlways == Spec => []AbnormalAnnounced
<1>1. IInv => AbnormalAnnounced
  BY DEF IInv
<1> QED BY <1>1, InductiveInvariant, PTL

\* Only a save of the manager or an answer to an operator changes a row.
LEMMA WhoWritesRows ==
  ASSUME IInv, [Next]_vars, NEW i \in Loops, row'[i] # row[i]
  PROVE  OperatorActs(i) \/ (ManagerSaves(i) /\ DoSave /\ cursor = i)
<1>1. CASE BeginTick \/ DoRaise \/ DoClear \/ EffectFails \/ Restart \/ UNCHANGED vars
  BY <1>1 DEF BeginTick, DoRaise, DoClear, EffectFails, Restart, vars
<1>2. CASE \E readable \in BOOLEAN : Decide(readable)
  BY <1>2 DEF Decide
<1>3. CASE DoSave
  <2>1. /\ plan # <<>> /\ Head(plan).op = "save" /\ UNCHANGED faults /\ cursor = i
    BY <1>3 DEF DoSave, IInv, TypeOK
  <2>2. Tail(plan) # plan
    <3>1. plan \in Seq(Effect)
      BY DEF IInv, TypeOK
    <3> QED BY <2>1, <3>1
  <2> QED BY <1>3, <2>1, <2>2 DEF DoSave, Advance, ManagerSaves, Pending
<1>4. CASE \E o \in Operators : Operator(o)
  <2>1. PICK o \in Operators : Operator(o)
    BY <1>4
  <2>2. row' # row
    OBVIOUS
  <2>3. CASE \E m \in Modes : SetLoopMode(o, m)
    <3>1. PICK m \in Modes : SetLoopMode(o, m)
      BY <2>3
    <3>2. req[o].busy /\ req[o].loop = i
      BY <2>2, <3>1 DEF SetLoopMode, IInv, TypeOK
    <3>3. ~req'[o].busy
      BY <3>1 DEF SetLoopMode, Answer, NoRequest, IInv, TypeOK
    <3> QED BY <3>2, <3>3 DEF OperatorActs
  <2>4. CASE \E v : SetLoopOutput(o, v)
    <3>1. PICK v : SetLoopOutput(o, v)
      BY <2>4
    <3>2. req[o].busy /\ req[o].loop = i
      BY <2>2, <3>1 DEF SetLoopOutput, IInv, TypeOK
    <3>3. ~req'[o].busy
      BY <3>1 DEF SetLoopOutput, Answer, NoRequest, IInv, TypeOK
    <3> QED BY <3>2, <3>3 DEF OperatorActs
  <2>5. CASE \E j \in Loops : ReadLoop(o, j)
    BY <2>2, <2>5 DEF ReadLoop
  <2> QED BY <2>1, <2>3, <2>4, <2>5 DEF Operator
<1>5. CASE \/ \E j \in Loops : AckAlarm(j)
           \/ \E j \in Loops : \E p \in PVLevels(Kind[j]) : PVChanges(j, p)
  BY <1>5 DEF AckAlarm, PVChanges
<1> QED BY <1>1, <1>2, <1>3, <1>4, <1>5 DEF Next, Manager, Faulty

\* What a save writes, relative to the manager's copy of the row.
LEMMA WhatASaveWrites ==
  ASSUME IInv, DoSave
  PROVE  LET l == snap[cursor]
             r == row'[cursor]
         IN  \/ /\ l.state = "ok" /\ r = [mode |-> "manual", state |-> "watchdog", out |-> l.out]
             \/ /\ l.state = "ok" /\ l.mode = "auto"
                /\ \E o \in StepOutputs(cursor, l.out) : r = [mode |-> "auto", state |-> "ok", out |-> o]
             \/ /\ l.state = "interlock" /\ plan = <<Save("manual", "ok", l.out)>>
                /\ r = [mode |-> "manual", state |-> "ok", out |-> l.out]
             \/ r = [mode |-> "auto", state |-> "interlock", out |-> OutMax[cursor]]
             \/ /\ l.state = "watchdog" /\ Kind[cursor] = "temp"
                /\ r = [mode |-> "manual", state |-> "ok", out |-> l.out]
<1> DEFINE l == snap[cursor]
<1>1. /\ cursor \in Loops /\ l \in Row /\ plan # <<>> /\ Head(plan).op = "save"
      /\ Stage(cursor, l, plan)
  BY InTheMiddle DEF DoSave
<1>2. SaveStage(cursor, l, plan)
  BY <1>1, StageOfEffects
<1>3. row'[cursor] = [mode |-> Head(plan).mode, state |-> Head(plan).state, out |-> Head(plan).out]
  BY <1>1 DEF DoSave, IInv, TypeOK
<1>4. \A m, st, o : Head(plan) = Save(m, st, o)
        => row'[cursor] = [mode |-> m, state |-> st, out |-> o]
  BY <1>3, SaveFields
<1> QED BY <1>2, <1>4 DEF SaveStage

\* A step that ends an interlock without an operator's command is the orderly release.
LEMMA InterlockLeft ==
  ASSUME IInv, [Next]_vars, NEW i \in Loops,
         row[i].state = "interlock", row'[i].state # "interlock", ~OperatorActs(i)
  PROVE  /\ ManagerSaves(i)
         /\ row'[i] = [mode |-> "manual", state |-> "ok", out |-> OutMax[i]]
         /\ i \in cut \/ ~IsActive(alarm[i])
<1> DEFINE l == snap[i]
<1>1. ManagerSaves(i) /\ DoSave /\ cursor = i
  BY WhoWritesRows
<1>2. cursor # 0 /\ ~Saved /\ i \in Int
  BY <1>1, NAssumption DEF DoSave, Saved, IInv, TypeOK, Loops
<1>3. l.state = "interlock"
  BY <1>1, <1>2 DEF IInv, Provenance, Ahead
<1>4. l.out = OutMax[i]
  BY <1>3 DEF IInv, SnapFits, Coherent
<1>5. /\ plan = <<Save("manual", "ok", l.out)>>
      /\ row'[i] = [mode |-> "manual", state |-> "ok", out |-> l.out]
  BY <1>1, <1>3, WhatASaveWrites
<1>6. i \in cut \/ ~IsActive(alarm[i])
  BY <1>1, <1>2, <1>5 DEF IInv, Halfway
<1> QED BY <1>1, <1>4, <1>5, <1>6

\* An interlock ends by an operator's command or by the orderly release, under
\* every interleaving with the tick, faults and restarts.
THEOREM InterlockExitAlways == Spec => InterlockExit
<1>1. IInv /\ [Next]_vars =>
        [\A i \in Loops :
           row[i].state = "interlock" /\ row'[i].state # "interlock" =>
             \/ OperatorActs(i)
             \/ /\ ManagerSaves(i)
                /\ row'[i] = [mode |-> "manual", state |-> "ok", out |-> OutMax[i]]
                /\ i \in cut \/ ~IsActive(alarm[i])]_vars
  BY InterlockLeft
<1> QED BY <1>1, InductiveInvariant, PTL DEF Spec, InterlockExit

\* A step that changes a frozen row without an operator's command is a temperature
\* loop's: its tick hands the loop back in manual where it was frozen, or trips.
LEMMA FreezeLeft ==
  ASSUME IInv, [Next]_vars, NEW i \in Loops,
         row[i].state = "watchdog", row'[i] # row[i], ~OperatorActs(i)
  PROVE  /\ Kind[i] = "temp"
         /\ \/ row'[i] = [row[i] EXCEPT !.state = "ok"]
            \/ row'[i].state = "interlock"
<1>1. DoSave /\ cursor = i
  BY WhoWritesRows
<1>2. cursor # 0 /\ ~Saved /\ i \in Int
  BY <1>1, NAssumption DEF DoSave, Saved, IInv, TypeOK, Loops
<1>3. snap[i] = row[i]
  BY <1>1, <1>2 DEF IInv, Provenance, Ahead
<1>4. row[i] \in Row /\ row'[i] \in Row /\ row[i].mode = "manual"
  <2>1. TypeOK'
    BY NextIInv DEF IInv
  <2> QED
    BY <2>1 DEF IInv, TypeOK, StateFitsMode, Coherent
<1>5. CASE row'[i] = [mode |-> "manual", state |-> "ok", out |-> row[i].out] /\ Kind[i] = "temp"
  BY <1>4, <1>5 DEF Row
<1>6. CASE row'[i] = [mode |-> "auto", state |-> "interlock", out |-> OutMax[i]]
  <2>1. Coherent(i, row'[i].mode, row'[i].state, row'[i].out)
    BY NextIInv DEF IInv, StateFitsMode
  <2> QED
    BY <1>6, <2>1 DEF Coherent
<1> QED
  BY <1>1, <1>3, <1>5, <1>6, WhatASaveWrites

\* "Manual mode, output held": what the watchdog froze returns to automatic control
\* by an operator's command only.  The rows the tick changes by itself are those of
\* a temperature loop: handed back in manual at the frozen output, or tripped
\* (manager.go watchdog, tickTempLoop).
FrozenStaysFrozen ==
  [][\A i \in Loops :
       row[i].state = "watchdog" /\ row'[i] # row[i] =>
         \/ OperatorActs(i)
         \/ /\ Kind[i] = "temp"
            /\ \/ row'[i] = [row[i] EXCEPT !.state = "ok"]
               \/ row'[i].state = "interlock"]_vars

\* A frozen loop stays where it was frozen until an operator acts, under every
\* interleaving of ticks, requests, faults and restarts.
THEOREM FrozenStaysFrozenAlways == Spec => FrozenStaysFrozen
<1>1. IInv /\ [Next]_vars =>
        [\A i \in Loops :
           row[i].state = "watchdog" /\ row'[i] # row[i] =>
             \/ OperatorActs(i)
             \/ /\ Kind[i] = "temp"
                /\ \/ row'[i] = [row[i] EXCEPT !.state = "ok"]
                   \/ row'[i].state = "interlock"]_vars
  BY FreezeLeft
<1> QED BY <1>1, InductiveInvariant, PTL DEF Spec, FrozenStaysFrozen

\* The tick has the interlock of loop i still to write.
Tripping(i) ==
  cursor = i /\ plan \in {HoldInterlock(i), <<Raise("critical"), Save("auto", "interlock", OutMax[i])>>}

\* The safety behind HotTrips: a tick that reads an overheated bearing plans the
\* interlock, whatever its copy of the row says, and what it has planned it writes,
\* whatever operators do meanwhile, unless a fault hits the tick (tickTempLoop).
TripIsCarriedOut ==
  [][\A i \in Loops :
       /\ /\ Kind[i] = "temp" /\ pv[i] = "hot" /\ cursor = i /\ plan = <<>>
          /\ cursor' # i \/ plan' # <<>>
          => faults' # faults \/ Tripping(i)'
       /\ Tripping(i) /\ ~Tripping(i)'
          => \/ faults' # faults
             \/ row'[i] = [mode |-> "auto", state |-> "interlock", out |-> OutMax[i]]]_vars

\* With a hot reading every copy of the row leads to the interlock.
LEMMA HotIsPlanned ==
  ASSUME NEW i \in Loops, Kind[i] = "temp", NEW l \in Row, NEW x \in TickPlans(i, l, "hot")
  PROVE  x \in {HoldInterlock(i), <<Raise("critical"), Save("auto", "interlock", OutMax[i])>>}
<1>1. x \in TempPlans(i, l, "hot")
  BY DEF TickPlans, Skips
<1>2. CASE l.state = "interlock"
  BY <1>1, <1>2 DEF TempPlans
<1>3. CASE l.state # "interlock"
  BY <1>1, <1>3 DEF TempPlans, Trips, HoldInterlock
<1> QED
  BY <1>2, <1>3

\* The first half: the decision.
LEMMA TripIsPlanned ==
  ASSUME IInv, [Next]_vars, NEW i \in Loops, Kind[i] = "temp", pv[i] = "hot",
         cursor = i, plan = <<>>, cursor' # i \/ plan' # <<>>
  PROVE  faults' # faults \/ Tripping(i)'
<1>1. cursor # 0 /\ snap[i] \in Row /\ faults \in Nat
  BY NAssumption, FaultsAssumption DEF IInv, TypeOK, Loops
<1>2. CASE Decide(TRUE)
  <2>1. plan' \in TickPlans(i, snap[i], "hot") /\ (plan' # <<>> => cursor' = cursor)
    BY <1>2 DEF Decide
  <2>2. plan' \in {HoldInterlock(i), <<Raise("critical"), Save("auto", "interlock", OutMax[i])>>}
    BY <1>1, <2>1, HotIsPlanned
  <2>3. plan' # <<>>
    <3>1. plan' = <<Save("auto", "interlock", OutMax[i])>> => plan' # <<>>
      BY Shapes
    <3>2. plan' = <<Raise("critical"), Save("auto", "interlock", OutMax[i])>> => plan' # <<>>
      BY Shapes
    <3> QED
      BY <2>2, <3>1, <3>2 DEF HoldInterlock
  <2> QED
    BY <2>1, <2>2, <2>3 DEF Tripping
<1>3. CASE Decide(FALSE) \/ Restart
  BY <1>1, <1>3 DEF Decide, Restart
<1>4. ~BeginTick /\ ~DoSave /\ ~DoRaise /\ ~DoClear /\ ~EffectFails
  BY <1>1 DEF BeginTick, DoSave, DoRaise, DoClear, EffectFails
<1>5. UNCHANGED <<cursor, plan>> => FALSE
  OBVIOUS
<1> QED
  BY <1>2, <1>3, <1>4, <1>5
  DEF Next, vars, Manager, Faulty, Operator, ReadLoop, SetLoopMode, SetLoopOutput, AckAlarm, PVChanges

\* The second half: its execution.
LEMMA TripIsWritten ==
  ASSUME IInv, [Next]_vars, NEW i \in Loops, Tripping(i), ~Tripping(i)'
  PROVE  \/ faults' # faults
         \/ row'[i] = [mode |-> "auto", state |-> "interlock", out |-> OutMax[i]]
<1> DEFINE hold == Save("auto", "interlock", OutMax[i])
<1>a. /\ hold \in Effect /\ hold.op = "save"
      /\ Raise("critical") \in Effect /\ Raise("critical").op = "raise"
  BY EffectTypes DEF Modes, States, Severities
<1>b. /\ hold.mode = "auto" /\ hold.state = "interlock" /\ hold.out = OutMax[i]
  BY SaveFields
<1>1. /\ cursor = i /\ cursor # 0 /\ faults \in Nat /\ row \in [Loops -> Row]
      /\ plan \in {<<hold>>, <<Raise("critical"), hold>>}
  BY NAssumption, FaultsAssumption DEF Tripping, HoldInterlock, IInv, TypeOK, Loops
<1> HIDE DEF hold
<1>c. /\ plan # <<>>
      /\ \/ Head(plan) = hold
         \/ Head(plan) = Raise("critical") /\ Tail(plan) = <<hold>>
  <2>1. CASE plan = <<hold>>
    BY <1>a, <2>1, ShortSeqs
  <2>2. CASE plan = <<Raise("critical"), hold>>
    BY <1>a, <2>2, ShortSeqs
  <2> QED
    BY <1>1, <2>1, <2>2
<1>2. CASE DoSave
  <2>1. Head(plan) = hold
    BY <1>2, <1>a, <1>c DEF DoSave
  <2> QED
    BY <1>1, <1>2, <1>b, <2>1 DEF DoSave
<1>3. CASE DoRaise
  <2>1. Tail(plan) = HoldInterlock(i)
    BY <1>3, <1>a, <1>c DEF DoRaise, HoldInterlock, hold
  <2>2. Tail(plan) # <<>>
    BY <2>1, Shapes DEF HoldInterlock
  <2> QED
    BY <1>1, <1>3, <2>1, <2>2 DEF DoRaise, Advance, Tripping
<1>4. ~DoClear
  BY <1>a, <1>c DEF DoClear
<1>5. CASE Decide(FALSE) \/ EffectFails \/ Restart
  BY <1>1, <1>5 DEF Decide, EffectFails, Restart
<1>6. ~BeginTick /\ ~Decide(TRUE)
  BY <1>1, <1>c DEF BeginTick, Decide
<1>7. UNCHANGED <<cursor, plan>> => FALSE
  BY DEF Tripping
<1> QED
  BY <1>2, <1>3, <1>4, <1>5, <1>6, <1>7
  DEF Next, vars, Manager, Faulty, Operator, ReadLoop, SetLoopMode, SetLoopOutput, AckAlarm, PVChanges

\* A tick that meets an overheated bearing ends with the interlock in the table,
\* under every interleaving with the operators, unless a fault hits it.
THEOREM TripIsCarriedOutAlways == Spec => TripIsCarriedOut
<1>1. IInv /\ [Next]_vars =>
        [\A i \in Loops :
           /\ /\ Kind[i] = "temp" /\ pv[i] = "hot" /\ cursor = i /\ plan = <<>>
              /\ cursor' # i \/ plan' # <<>>
              => faults' # faults \/ Tripping(i)'
           /\ Tripping(i) /\ ~Tripping(i)'
              => \/ faults' # faults
                 \/ row'[i] = [mode |-> "auto", state |-> "interlock", out |-> OutMax[i]]]_vars
  BY TripIsPlanned, TripIsWritten
<1> QED BY <1>1, InductiveInvariant, PTL DEF Spec, TripIsCarriedOut

\* The tick has the freeze of loop i still to write.
Freezing(i) ==
  /\ cursor = i
  /\ \E sev \in Severities : plan = <<Save("manual", "watchdog", snap[i].out), Raise(sev)>>

\* The safety behind BadPVFreezes: a tick that finds the PV of an automatic loop
\* stale, or its pH critically off, plans to freeze the loop, and what it has planned
\* it writes, whatever operators do meanwhile, unless a fault hits the tick
\* (watchdog, tickPHLoop).
FreezeIsCarriedOut ==
  [][\A i \in Loops :
       /\ /\ pv[i] = "stale" \/ (Kind[i] = "ph" /\ pv[i] = "critical")
          /\ cursor = i /\ plan = <<>> /\ snap[i].mode = "auto" /\ snap[i].state = "ok"
          /\ cursor' # i \/ plan' # <<>>
          => faults' # faults \/ Freezing(i)'
       /\ Freezing(i) /\ ~Freezing(i)'
          => \/ faults' # faults
             \/ row'[i] = [mode |-> "manual", state |-> "watchdog", out |-> snap[i].out]]_vars

\* Without a usable PV an automatic loop has one plan.
LEMMA BadPVIsPlanned ==
  ASSUME NEW i \in Loops, NEW l \in Row, l.mode = "auto", l.state = "ok", NEW p,
         p = "stale" \/ (Kind[i] = "ph" /\ p = "critical"),
         NEW x \in TickPlans(i, l, p)
  PROVE  \E sev \in Severities : x = <<Save("manual", "watchdog", l.out), Raise(sev)>>
<1>1. x \in WatchdogPlans(l) => x = <<Save("manual", "watchdog", l.out), Raise("high")>>
  BY DEF WatchdogPlans
<1>2. CASE Kind[i] = "temp" /\ p = "stale"
  <2>1. x \in TempPlans(i, l, p)
    BY <1>2 DEF TickPlans, Skips
  <2>2. x \in WatchdogPlans(l)
    BY <1>2, <2>1 DEF TempPlans, StaleTempPlans, Trips
  <2> QED
    BY <1>1, <2>2 DEF Severities
<1>3. CASE Kind[i] # "temp" /\ p = "stale"
  <2>1. x \in WatchdogPlans(l)
    BY <1>3 DEF TickPlans, Skips
  <2> QED
    BY <1>1, <2>1 DEF Severities
<1>4. CASE Kind[i] = "ph" /\ p = "critical"
  <2>1. x \in PHPlans(i, l, p)
    BY <1>4 DEF TickPlans, Skips
  <2>2. x = <<Save("manual", "watchdog", l.out), Raise("critical")>>
    BY <1>4, <2>1 DEF PHPlans, AfterWatchdog
  <2> QED
    BY <2>2 DEF Severities
<1> QED
  BY <1>2, <1>3, <1>4

\* The first half: the decision.
LEMMA FreezeIsPlanned ==
  ASSUME IInv, [Next]_vars, NEW i \in Loops,
         pv[i] = "stale" \/ (Kind[i] = "ph" /\ pv[i] = "critical"),
         cursor = i, plan = <<>>, snap[i].mode = "auto", snap[i].state = "ok",
         cursor' # i \/ plan' # <<>>
  PROVE  faults' # faults \/ Freezing(i)'
<1>1. cursor # 0 /\ snap[i] \in Row /\ faults \in Nat
  BY NAssumption, FaultsAssumption DEF IInv, TypeOK, Loops
<1>2. CASE Decide(TRUE)
  <2>1. plan' \in TickPlans(i, snap[i], pv[i]) /\ (plan' # <<>> => cursor' = cursor) /\ snap' = snap
    BY <1>2 DEF Decide
  <2>2. PICK sev \in Severities :
          plan' = <<Save("manual", "watchdog", snap[i].out), Raise(sev)>>
    BY <1>1, <2>1, BadPVIsPlanned
  <2>3. plan' # <<>>
    BY <2>2, Shapes
  <2> QED
    BY <2>1, <2>2, <2>3 DEF Freezing
<1>3. CASE Decide(FALSE) \/ Restart
  BY <1>1, <1>3 DEF Decide, Restart
<1>4. ~BeginTick /\ ~DoSave /\ ~DoRaise /\ ~DoClear /\ ~EffectFails
  BY <1>1 DEF BeginTick, DoSave, DoRaise, DoClear, EffectFails
<1>5. UNCHANGED <<cursor, plan>> => FALSE
  OBVIOUS
<1> QED
  BY <1>2, <1>3, <1>4, <1>5
  DEF Next, vars, Manager, Faulty, Operator, ReadLoop, SetLoopMode, SetLoopOutput, AckAlarm, PVChanges

\* The second half: its execution.
LEMMA FreezeIsWritten ==
  ASSUME IInv, [Next]_vars, NEW i \in Loops, Freezing(i), ~Freezing(i)'
  PROVE  \/ faults' # faults
         \/ row'[i] = [mode |-> "manual", state |-> "watchdog", out |-> snap[i].out]
<1> DEFINE save == Save("manual", "watchdog", snap[i].out)
<1>1. /\ cursor = i /\ cursor # 0 /\ faults \in Nat /\ row \in [Loops -> Row]
      /\ snap[i].out \in Int
  BY NAssumption, FaultsAssumption DEF Freezing, IInv, TypeOK, Loops, Row
<1>2. PICK sev \in Severities : plan = <<save, Raise(sev)>>
  BY DEF Freezing
<1>3. save \in Effect /\ save.op = "save" /\ Raise(sev) \in Effect
  BY <1>1, EffectTypes DEF Modes, States
<1>4. save.mode = "manual" /\ save.state = "watchdog" /\ save.out = snap[i].out
  BY SaveFields
<1> HIDE DEF save
<1>5. Head(plan) = save /\ plan # <<>>
  BY <1>2, <1>3, ShortSeqs
<1>6. CASE DoSave
  BY <1>1, <1>4, <1>5, <1>6 DEF DoSave
<1>7. CASE Decide(FALSE) \/ EffectFails \/ Restart
  BY <1>1, <1>7 DEF Decide, EffectFails, Restart
<1>8. ~BeginTick /\ ~Decide(TRUE) /\ ~DoRaise /\ ~DoClear
  BY <1>1, <1>3, <1>5 DEF BeginTick, Decide, DoRaise, DoClear
<1>9. UNCHANGED <<cursor, plan, snap>> => FALSE
  BY DEF Freezing
<1> QED
  BY <1>6, <1>7, <1>8, <1>9
  DEF Next, vars, Manager, Faulty, Operator, ReadLoop, SetLoopMode, SetLoopOutput, AckAlarm, PVChanges

\* A tick that meets a loop without a usable PV ends with the loop frozen at the
\* output the tick read, under every interleaving, unless a fault hits it.
THEOREM FreezeIsCarriedOutAlways == Spec => FreezeIsCarriedOut
<1>1. IInv /\ [Next]_vars =>
        [\A i \in Loops :
           /\ /\ pv[i] = "stale" \/ (Kind[i] = "ph" /\ pv[i] = "critical")
              /\ cursor = i /\ plan = <<>> /\ snap[i].mode = "auto" /\ snap[i].state = "ok"
              /\ cursor' # i \/ plan' # <<>>
              => faults' # faults \/ Freezing(i)'
           /\ Freezing(i) /\ ~Freezing(i)'
              => \/ faults' # faults
                 \/ row'[i] = [mode |-> "manual", state |-> "watchdog", out |-> snap[i].out]]_vars
  BY FreezeIsPlanned, FreezeIsWritten
<1> QED BY <1>1, InductiveInvariant, PTL DEF Spec, FreezeIsCarriedOut

\* The tick has the release of loop i still to write.
Releasing(i) ==
  /\ cursor = i
  /\ plan \in {<<Clear, Save("manual", "ok", snap[i].out)>>, <<Save("manual", "ok", snap[i].out)>>}

\* The safety behind CoolReleases: a tick that reads a cooled bearing under an interlock
\* plans to hand the loop back at its output, and what it has planned it writes,
\* whatever operators do meanwhile, unless a fault hits the tick (tickTempLoop).
ReleaseIsCarriedOut ==
  [][\A i \in Loops :
       /\ /\ Kind[i] = "temp" /\ pv[i] = "cool" /\ cursor = i /\ plan = <<>>
          /\ snap[i].state = "interlock"
          /\ cursor' # i \/ plan' # <<>>
          => faults' # faults \/ Releasing(i)'
       /\ Releasing(i) /\ ~Releasing(i)'
          => \/ faults' # faults
             \/ row'[i] = [mode |-> "manual", state |-> "ok", out |-> snap[i].out]]_vars

\* The first half: the decision.
LEMMA ReleaseIsPlanned ==
  ASSUME IInv, [Next]_vars, NEW i \in Loops, Kind[i] = "temp", pv[i] = "cool",
         cursor = i, plan = <<>>, snap[i].state = "interlock", cursor' # i \/ plan' # <<>>
  PROVE  faults' # faults \/ Releasing(i)'
<1>1. cursor # 0 /\ snap[i] \in Row /\ faults \in Nat
  BY NAssumption, FaultsAssumption DEF IInv, TypeOK, Loops
<1>2. CASE Decide(TRUE)
  <2>1. plan' \in TickPlans(i, snap[i], "cool") /\ (plan' # <<>> => cursor' = cursor) /\ snap' = snap
    BY <1>2 DEF Decide
  <2>2. plan' \in TempPlans(i, snap[i], "cool")
    BY <2>1 DEF TickPlans, Skips
  <2>3. plan' = <<Clear, Save("manual", "ok", snap[i].out)>>
    BY <2>2 DEF TempPlans, Release
  <2>4. plan' # <<>>
    BY <2>3, Shapes
  <2> QED
    BY <2>1, <2>3, <2>4 DEF Releasing
<1>3. CASE Decide(FALSE) \/ Restart
  BY <1>1, <1>3 DEF Decide, Restart
<1>4. ~BeginTick /\ ~DoSave /\ ~DoRaise /\ ~DoClear /\ ~EffectFails
  BY <1>1 DEF BeginTick, DoSave, DoRaise, DoClear, EffectFails
<1>5. UNCHANGED <<cursor, plan>> => FALSE
  OBVIOUS
<1> QED
  BY <1>2, <1>3, <1>4, <1>5
  DEF Next, vars, Manager, Faulty, Operator, ReadLoop, SetLoopMode, SetLoopOutput, AckAlarm, PVChanges

\* The second half: its execution.
LEMMA ReleaseIsWritten ==
  ASSUME IInv, [Next]_vars, NEW i \in Loops, Releasing(i), ~Releasing(i)'
  PROVE  \/ faults' # faults
         \/ row'[i] = [mode |-> "manual", state |-> "ok", out |-> snap[i].out]
<1> DEFINE save == Save("manual", "ok", snap[i].out)
<1>1. /\ cursor = i /\ cursor # 0 /\ faults \in Nat /\ row \in [Loops -> Row]
      /\ snap[i].out \in Int
  <2>1. cursor = i
    BY DEF Releasing
  <2>2. faults \in Nat /\ row \in [Loops -> Row] /\ snap[i] \in Row /\ i # 0
    BY NAssumption, FaultsAssumption DEF IInv, TypeOK, Loops
  <2> QED
    BY <2>1, <2>2 DEF Row
<1>a. plan = <<save>> \/ plan = <<Clear, save>>
  BY Zenon DEF Releasing
<1>2. /\ save \in Effect /\ save.op = "save"
      /\ Clear \in Effect /\ Clear.op = "clear"
  BY <1>1, EffectTypes DEF Modes, States
<1>3. save.mode = "manual" /\ save.state = "ok" /\ save.out = snap[i].out
  BY SaveFields
<1>4. snap' = snap => save = Save("manual", "ok", snap'[i].out)
  OBVIOUS
<1> HIDE DEF save
<1>5. /\ plan # <<>>
      /\ \/ Head(plan) = save
         \/ Head(plan) = Clear /\ Tail(plan) = <<save>>
  <2>1. CASE plan = <<save>>
    BY <1>2, <2>1, ShortSeqs
  <2>2. CASE plan = <<Clear, save>>
    BY <1>2, <2>2, ShortSeqs
  <2> QED
    BY <1>a, <2>1, <2>2
<1>6. CASE DoSave
  <2>1. Head(plan) = save
    BY <1>6, <1>2, <1>5 DEF DoSave
  <2> QED
    BY <1>1, <1>3, <1>6, <2>1 DEF DoSave
<1>7. CASE DoClear
  <2>1. Tail(plan) = <<save>>
    BY <1>7, <1>2, <1>5 DEF DoClear
  <2>2. Tail(plan) # <<>> /\ snap' = snap
    BY <1>7, <2>1, Shapes DEF DoClear
  <2>3. cursor' = i /\ plan' = <<save>>
    BY <1>1, <1>7, <2>1, <2>2 DEF DoClear, Advance
  <2> QED
    BY <1>4, <2>2, <2>3 DEF Releasing
<1>8. CASE Decide(FALSE) \/ EffectFails \/ Restart
  BY <1>1, <1>8 DEF Decide, EffectFails, Restart
<1>9. ~BeginTick /\ ~Decide(TRUE) /\ ~DoRaise
  BY <1>1, <1>2, <1>5 DEF BeginTick, Decide, DoRaise
<1>10. UNCHANGED <<cursor, plan, snap>> => FALSE
  BY DEF Releasing
<1> QED
  BY <1>6, <1>7, <1>8, <1>9, <1>10
  DEF Next, vars, Manager, Faulty, Operator, ReadLoop, SetLoopMode, SetLoopOutput, AckAlarm, PVChanges

\* A tick that meets a cooled bearing under an interlock ends with the loop in the hands
\* of the operator, under every interleaving, unless a fault hits it.
THEOREM ReleaseIsCarriedOutAlways == Spec => ReleaseIsCarriedOut
<1>1. IInv /\ [Next]_vars =>
        [\A i \in Loops :
           /\ /\ Kind[i] = "temp" /\ pv[i] = "cool" /\ cursor = i /\ plan = <<>>
              /\ snap[i].state = "interlock"
              /\ cursor' # i \/ plan' # <<>>
              => faults' # faults \/ Releasing(i)'
           /\ Releasing(i) /\ ~Releasing(i)'
              => \/ faults' # faults
                 \/ row'[i] = [mode |-> "manual", state |-> "ok", out |-> snap[i].out]]_vars
  BY ReleaseIsPlanned, ReleaseIsWritten
<1> QED BY <1>1, InductiveInvariant, PTL DEF Spec, ReleaseIsCarriedOut

\* A save of the manager is the step DoSave.
LEMMA SavesAreDoSave ==
  ASSUME IInv, [Next]_vars, NEW i \in Loops, ManagerSaves(i)
  PROVE  DoSave /\ cursor = i
<1>1. cursor = i /\ plan # <<>> /\ Head(plan).op = "save" /\ plan' # plan /\ UNCHANGED faults
  BY DEF ManagerSaves, Pending
<1>2. ~Faulty
  BY <1>1, FaultsAssumption DEF Faulty, Decide, EffectFails, Restart, IInv, TypeOK
<1>3. ~BeginTick /\ ~DoRaise /\ ~DoClear /\ ~Decide(TRUE)
  BY <1>1 DEF BeginTick, DoRaise, DoClear, Decide
<1>4. ~\E o \in Operators : Operator(o)
  BY <1>1 DEF Operator, ReadLoop, SetLoopMode, SetLoopOutput
<1>5. /\ ~\E j \in Loops : AckAlarm(j)
      /\ ~\E j \in Loops : \E p \in PVLevels(Kind[j]) : PVChanges(j, p)
      /\ ~UNCHANGED vars
  BY <1>1 DEF AckAlarm, PVChanges, vars
<1> QED BY <1>1, <1>2, <1>3, <1>4, <1>5 DEF Next, Manager

\* Within a tick the manager only moves on: a loop it may still write it could write
\* before, from the same copy.
LEMMA AheadBefore ==
  ASSUME IInv, [Next]_vars, NEW i \in Loops, Ahead(i)'
  PROVE  BeginTick \/ (Ahead(i) /\ snap' = snap)
<1>1. CASE plan # <<>> /\ Advance /\ snap' = snap
  <2>1. cursor <= i /\ (cursor = i => Tail(plan) # <<>>)
    BY <1>1, StillAhead
  <2>2. cursor # 0
    BY <1>1, InTheMiddle
  <2> QED BY <1>1, <2>1, <2>2 DEF Ahead, Saved
<1>2. CASE DoSave \/ DoRaise \/ DoClear \/ EffectFails
  BY <1>1, <1>2 DEF DoSave, DoRaise, DoClear, EffectFails
<1>3. CASE \E readable \in BOOLEAN : Decide(readable)
  <2>1. /\ cursor \in 1..N /\ plan = <<>> /\ snap' = snap
        /\ cursor' = NextLoop \/ cursor' = cursor
    BY <1>3, NAssumption DEF Decide, IInv, TypeOK
  <2>2. NextLoop # 0 => NextLoop > cursor /\ NextLoop \in 0..N
    BY <2>1, NextLoopType
  <2> QED BY <2>1, <2>2 DEF Ahead, Saved, Loops
<1>4. CASE Restart
  BY <1>4 DEF Restart, Ahead
<1>5. CASE UNCHANGED <<cursor, plan, snap>>
  BY <1>5 DEF Ahead, Saved
<1> QED
  BY <1>2, <1>3, <1>4, <1>5
  DEF Next, vars, Manager, Faulty, Operator, ReadLoop, SetLoopMode, SetLoopOutput, AckAlarm, PVChanges

\* A step of anybody but an operator of the loop or the interlock leaves a manual loop,
\* as the row and the tick under way have it.
LEMMA ManualIsLeft ==
  ASSUME IInv, [Next]_vars, NEW i \in Loops, ManualForAll(i),
         ~OperatorActs(i), row'[i].state # "interlock"
  PROVE  ManualForAll(i)' /\ row'[i].out = row[i].out
<1>1. row'[i].mode = "manual" /\ row'[i].out = row[i].out
  <2>1. CASE row'[i] = row[i]
    BY <2>1 DEF ManualForAll
  <2>2. CASE row'[i] # row[i]
    <3>1. ManagerSaves(i) /\ DoSave /\ cursor = i
      BY <2>2, WhoWritesRows
    <3>2. Ahead(i)
      BY <3>1, NAssumption DEF DoSave, Ahead, Saved, Loops
    <3>3. snap[i].mode = "manual" /\ snap[i].out = row[i].out
      BY <3>2 DEF ManualForAll
    <3> QED BY <3>1, <3>3, WhatASaveWrites
  <2> QED BY <2>1, <2>2
<1>2. ASSUME Ahead(i)'
      PROVE  snap'[i].mode = "manual" /\ snap'[i].out = row'[i].out
  <2>1. CASE BeginTick
    BY <1>1, <2>1 DEF BeginTick
  <2>2. CASE Ahead(i) /\ snap' = snap
    BY <1>1, <2>2 DEF ManualForAll
  <2> QED BY <1>2, <2>1, <2>2, AheadBefore
<1> QED BY <1>1, <1>2 DEF ManualForAll

\* A manual loop that the tick under way knows of stays where the operator or the freeze
\* put it, under every interleaving with ticks, requests, faults and restarts.
THEOREM ManualStaysAlways == Spec => ManualStays
<1>1. IInv /\ [Next]_vars =>
        [\A i \in Loops :
           ManualForAll(i) =>
             \/ OperatorActs(i)
             \/ row'[i].state = "interlock"
             \/ ManualForAll(i)' /\ row'[i].out = row[i].out]_vars
  BY ManualIsLeft
<1> QED BY <1>1, InductiveInvariant, PTL DEF Spec, ManualStays

\* The stored output and what the tick under way still builds on lie between lo and hi.
Between(i, lo, hi) ==
  /\ row[i].out \in lo..hi
  /\ Ahead(i) => snap[i].out \in lo..hi

\* Bounds that contain the range of the actuator are never left once an output is
\* between them: the slew window around such an output meets the range (Step), and the
\* handler checks the range (SetLoopOutput).
LEMMA BetweenIsKept ==
  ASSUME IInv, [Next]_vars, NEW i \in Loops, NEW lo \in Int, NEW hi \in Int,
         lo <= OutMin[i], OutMax[i] <= hi, Between(i, lo, hi)
  PROVE  Between(i, lo, hi)'
<1>1. /\ OutMin[i] \in Int /\ OutMax[i] \in Int /\ OutMin[i] < OutMax[i]
      /\ row \in [Loops -> Row] /\ row[i].out \in lo..hi
  BY RangeAssumption DEF IInv, TypeOK, Between
<1>2. CASE DoSave
  <2>1. CASE cursor = i
    <3>1. snap[i].out \in lo..hi
      BY <1>2, <2>1, NAssumption DEF DoSave, Between, Ahead, Saved, Loops
    <3>2. StepOutputs(i, snap[i].out) \subseteq lo..hi
      BY <3>1, StepOutputsBetween
    <3>3. OutMax[i] \in lo..hi
      BY <1>1
    <3>4. (\E o \in StepOutputs(i, snap[i].out) : row'[i].out = o)
          \/ row'[i].out \in {snap[i].out, OutMax[i]}
      <4>1. CASE \E o \in StepOutputs(i, snap[i].out) :
                   row'[i] = [mode |-> "auto", state |-> "ok", out |-> o]
        BY <4>1
      <4>2. CASE \/ row'[i] = [mode |-> "manual", state |-> "watchdog", out |-> snap[i].out]
                 \/ row'[i] = [mode |-> "manual", state |-> "ok", out |-> snap[i].out]
                 \/ row'[i] = [mode |-> "auto", state |-> "interlock", out |-> OutMax[i]]
        BY <4>2
      <4> QED BY <1>2, <2>1, <4>1, <4>2, WhatASaveWrites
    <3>5. row'[i].out \in lo..hi
      BY <3>1, <3>2, <3>3, <3>4
    <3> QED BY <1>2, <3>1, <3>5 DEF DoSave, Between
  <2>2. CASE cursor # i
    <3>1. row'[i] = row[i] /\ ~BeginTick
      BY <1>1, <1>2, <2>2 DEF DoSave, BeginTick, IInv, TypeOK
    <3> QED BY <1>1, <3>1, AheadBefore DEF Between
  <2> QED BY <2>1, <2>2
<1>3. CASE \E o \in Operators : Operator(o)
  <2>1. PICK o \in Operators : Operator(o)
    BY <1>3
  <2>2. row'[i].out \in lo..hi
    <3>1. CASE \E j \in Loops : ReadLoop(o, j)
      BY <1>1, <3>1 DEF ReadLoop
    <3>2. CASE \E m \in Modes : SetLoopMode(o, m)
      BY <1>1, <3>2 DEF SetLoopMode, WithMode, Row
    <3>3. CASE \E v : SetLoopOutput(o, v)
      <4>1. PICK v : SetLoopOutput(o, v)
        BY <3>3
      <4>2. \/ row' = row
            \/ /\ v \in OutMin[req[o].loop]..OutMax[req[o].loop]
               /\ row' = [row EXCEPT ![req[o].loop] = WithOutput(@, v)]
        BY <4>1 DEF SetLoopOutput
      <4>3. \/ row'[i] = row[i]
            \/ v \in OutMin[i]..OutMax[i] /\ row'[i] = WithOutput(row[i], v)
        BY <1>1, <4>2
      <4>4. row[i] \in Row /\ WithOutput(row[i], v).out = v
        BY <1>1 DEF WithOutput, Row
      <4> QED BY <1>1, <4>3, <4>4
    <3> QED BY <2>1, <3>1, <3>2, <3>3 DEF Operator
  <2>3. snap' = snap /\ cursor' = cursor /\ plan' = plan
    BY <2>1 DEF Operator, ReadLoop, SetLoopMode, SetLoopOutput
  <2> QED BY <2>2, <2>3 DEF Between, Ahead, Saved
<1>4. CASE BeginTick
  BY <1>1, <1>4 DEF BeginTick, Between
<1>5. CASE row' = row /\ ~BeginTick
  BY <1>1, <1>5, AheadBefore DEF Between
<1>6. ~DoSave /\ (~\E o \in Operators : Operator(o)) => row' = row
  BY DEF Next, vars, Manager, Faulty, BeginTick, Decide, DoRaise, DoClear, EffectFails,
         Restart, AckAlarm, PVChanges
<1> QED BY <1>2, <1>3, <1>4, <1>5, <1>6

\* The bounds between the seed and the range of the actuator, whichever side the seed
\* of the loop is on (SeedControlLoops).
Lowest(i)  == IF Seed[i] < OutMin[i] THEN Seed[i] ELSE OutMin[i]
Highest(i) == IF Seed[i] > OutMax[i] THEN Seed[i] ELSE OutMax[i]

OutputNearRange == \A i \in Loops : row[i].out \in Lowest(i)..Highest(i)

\* These bounds contain the range and the seed.
LEMMA Bounds ==
  ASSUME NEW i \in Loops
  PROVE  /\ Lowest(i) \in Int /\ Highest(i) \in Int
         /\ Lowest(i) <= OutMin[i] /\ OutMax[i] <= Highest(i)
         /\ Seed[i] \in Lowest(i)..Highest(i)
         /\ OutMin[i] \in Int /\ OutMax[i] \in Int
  BY RangeAssumption, SeedAssumption DEF Lowest, Highest

\* Whatever the seeds are: no output lies further outside the range of its actuator than
\* the seed did, whatever the ticks compute and the operators ask for, so one seeded
\* inside never leaves it (Step, SetLoopOutput, SeedControlLoops).
THEOREM OutputNearRangeAlways == Spec => []OutputNearRange
<1> DEFINE Inv == \A i \in Loops : Between(i, Lowest(i), Highest(i))
<1>1. Init => Inv
  BY Bounds DEF Init, Between
<1>2. IInv /\ Inv /\ [Next]_vars => Inv'
  <2> SUFFICES ASSUME IInv, Inv, [Next]_vars, NEW i \in Loops
               PROVE  Between(i, Lowest(i), Highest(i))'
    BY DEF Lowest, Highest
  <2> QED BY Bounds, BetweenIsKept DEF Lowest, Highest
<1>3. Inv => OutputNearRange
  BY DEF Between, OutputNearRange
<1> QED BY <1>1, <1>2, <1>3, InductiveInvariant, PTL DEF Spec

\* And an output that has come into the range, with no tick under way that still builds
\* on one outside, stays in the range for ever.
RangeIsKept ==
  [][\A i \in Loops :
       Between(i, OutMin[i], OutMax[i]) => Between(i, OutMin[i], OutMax[i])']_vars

\* A loop leaves the range of its actuator never, it only may not have come there yet,
\* under every interleaving of ticks, requests, faults and restarts.
THEOREM RangeIsKeptAlways == Spec => RangeIsKept
<1>1. IInv /\ [Next]_vars =>
        [\A i \in Loops :
           Between(i, OutMin[i], OutMax[i]) => Between(i, OutMin[i], OutMax[i])']_vars
  <2> SUFFICES ASSUME IInv, [Next]_vars, NEW i \in Loops, Between(i, OutMin[i], OutMax[i])
               PROVE  Between(i, OutMin[i], OutMax[i])'
    OBVIOUS
  <2> QED BY Bounds, BetweenIsKept
<1> QED BY <1>1, InductiveInvariant, PTL DEF Spec, RangeIsKept

-----------------------------------------------------------------------------
(* The loops together with the bridge.                                     *)

\* The bridge reads rows and writes none (ControlWriteBridge.tick).
LEMMA FieldNextIInv == IInv /\ [FieldNext]_allVars => IInv'
<1> SUFFICES ASSUME IInv, [FieldNext]_allVars PROVE IInv'
  OBVIOUS
<1>1. CASE [Next]_vars
  BY <1>1, NextIInv
<1>2. CASE WriteItemFails
  <2>1. /\ faults \in 0..MaxFaults /\ faults < MaxFaults /\ faults' = faults + 1
        /\ UNCHANGED <<row, alarm, pv, snap, cursor, plan, req, cut>>
    BY <1>2 DEF WriteItemFails, IInv, TypeOK
  <2>2. TypeOK'
    BY <2>1 DEF IInv, TypeOK
  <2> QED BY <2>1, <2>2, OthersKeepIInv
<1> QED
  BY <1>1, <1>2 DEF FieldNext, Bridge, PollOutput, WriteItem, allVars

\* So it holds with the bridge beside it.
LEMMA FieldInvariant == FieldSpec => []IInv
<1>1. FieldInit => IInv
  BY InitIInv DEF FieldInit
<1> QED BY <1>1, FieldNextIInv, PTL DEF FieldSpec

\* Mode, state and output fit together while a bridge polls them and moves the valves
\* (ControlOutput, ControlWriteBridge.tick).
THEOREM FieldStateFitsMode == FieldSpec => []StateFitsMode
<1>1. IInv => StateFitsMode
  BY DEF IInv
<1> QED BY <1>1, FieldInvariant, PTL

\* So do state and alarm: the faults of the bridge excuse no missing alarm.
THEOREM FieldAbnormalAnnounced == FieldSpec => []AbnormalAnnounced
<1>1. IInv => AbnormalAnnounced
  BY DEF IInv
<1> QED BY <1>1, FieldInvariant, PTL

\* A step of loops and bridge is a step of the loops, or a failed write of the bridge,
\* which touches no row and no tick (ControlWriteBridge.write).
LEMMA FieldSteps ==
  ASSUME IInv, [FieldNext]_allVars
  PROVE  \/ [Next]_vars
         \/ UNCHANGED <<row, alarm, pv, snap, cursor, plan, req, cut>> /\ faults' # faults
<1>1. CASE WriteItemFails
  BY <1>1, FaultsAssumption DEF WriteItemFails, IInv, TypeOK
<1> QED
  BY <1>1 DEF FieldNext, Bridge, PollOutput, WriteItem, allVars

\* With the bridge and its faults beside it an interlock still ends only by a command or
\* by the orderly release (tickTempLoop, ControlWriteBridge.tick).
THEOREM FieldInterlockExit == FieldSpec => InterlockExit
<1>1. IInv /\ [FieldNext]_allVars =>
        [\A i \in Loops :
           row[i].state = "interlock" /\ row'[i].state # "interlock" =>
             \/ OperatorActs(i)
             \/ /\ ManagerSaves(i)
                /\ row'[i] = [mode |-> "manual", state |-> "ok", out |-> OutMax[i]]
                /\ i \in cut \/ ~IsActive(alarm[i])]_vars
  BY FieldSteps, InterlockLeft
<1> QED BY <1>1, FieldInvariant, PTL DEF FieldSpec, InterlockExit

\* A manual loop keeps its output then, too: a failed write of the bridge is no reason to
\* change it (tickLoop, ControlWriteBridge.write).
THEOREM FieldManualStays == FieldSpec => ManualStays
<1>1. IInv /\ [FieldNext]_allVars =>
        [\A i \in Loops :
           ManualForAll(i) =>
             \/ OperatorActs(i)
             \/ row'[i].state = "interlock"
             \/ ManualForAll(i)' /\ row'[i].out = row[i].out]_vars
  <2> SUFFICES ASSUME IInv, [FieldNext]_allVars, NEW i \in Loops, ManualForAll(i)
               PROVE  \/ OperatorActs(i)
                      \/ row'[i].state = "interlock"
                      \/ ManualForAll(i)' /\ row'[i].out = row[i].out
    OBVIOUS
  <2>1. CASE [Next]_vars
    BY <2>1, ManualIsLeft
  <2>2. CASE UNCHANGED <<row, snap, cursor, plan>>
    BY <2>2 DEF ManualForAll, Ahead, Saved
  <2> QED BY <2>1, <2>2, FieldSteps
<1> QED BY <1>1, FieldInvariant, PTL DEF FieldSpec, ManualStays

\* Nor is a trip lost then (tickTempLoop).
THEOREM FieldTripIsCarriedOut == FieldSpec => TripIsCarriedOut
<1>1. IInv /\ [FieldNext]_allVars =>
        [\A i \in Loops :
           /\ /\ Kind[i] = "temp" /\ pv[i] = "hot" /\ cursor = i /\ plan = <<>>
              /\ cursor' # i \/ plan' # <<>>
              => faults' # faults \/ Tripping(i)'
           /\ Tripping(i) /\ ~Tripping(i)'
              => \/ faults' # faults
                 \/ row'[i] = [mode |-> "auto", state |-> "interlock", out |-> OutMax[i]]]_vars
  BY FieldSteps, TripIsPlanned, TripIsWritten
<1> QED BY <1>1, FieldInvariant, PTL DEF FieldSpec, TripIsCarriedOut

\* Nor is a release lost then (tickTempLoop).
THEOREM FieldReleaseIsCarriedOut == FieldSpec => ReleaseIsCarriedOut
<1>1. IInv /\ [FieldNext]_allVars =>
        [\A i \in Loops :
           /\ /\ Kind[i] = "temp" /\ pv[i] = "cool" /\ cursor = i /\ plan = <<>>
              /\ snap[i].state = "interlock"
              /\ cursor' # i \/ plan' # <<>>
              => faults' # faults \/ Releasing(i)'
           /\ Releasing(i) /\ ~Releasing(i)'
              => \/ faults' # faults
                 \/ row'[i] = [mode |-> "manual", state |-> "ok", out |-> snap[i].out]]_vars
  BY FieldSteps, ReleaseIsPlanned, ReleaseIsWritten
<1> QED BY <1>1, FieldInvariant, PTL DEF FieldSpec, ReleaseIsCarriedOut

\* Nor does a frozen loop start by itself then (watchdog).
THEOREM FieldFrozenStaysFrozen == FieldSpec => FrozenStaysFrozen
<1>1. IInv /\ [FieldNext]_allVars =>
        [\A i \in Loops :
           row[i].state = "watchdog" /\ row'[i] # row[i] =>
             \/ OperatorActs(i)
             \/ /\ Kind[i] = "temp"
                /\ \/ row'[i] = [row[i] EXCEPT !.state = "ok"]
                   \/ row'[i].state = "interlock"]_vars
  BY FieldSteps, FreezeLeft
<1> QED BY <1>1, FieldInvariant, PTL DEF FieldSpec, FrozenStaysFrozen

\* So do the position of the valve of loop i and the values on their way to it.
FieldBetween(i, lo, hi) ==
  /\ Between(i, lo, hi)
  /\ \A item \in feed : item.loop = i => item.value \in lo..hi
  /\ valve[i] \in lo..hi

\* The feed and the valve take over what the row held (ControlOutput,
\* ControlWriteBridge.tick).
LEMMA FieldBetweenIsKept ==
  ASSUME IInv, DOMAIN valve = Loops, [FieldNext]_allVars, NEW i \in Loops,
         NEW lo \in Int, NEW hi \in Int,
         lo <= OutMin[i], OutMax[i] <= hi, FieldBetween(i, lo, hi)
  PROVE  FieldBetween(i, lo, hi)'
<1>1. Between(i, lo, hi)'
  <2>1. CASE [Next]_vars
    BY <2>1, BetweenIsKept DEF FieldBetween
  <2>2. CASE UNCHANGED <<row, snap, cursor, plan>>
    BY <2>2 DEF FieldBetween, Between, Ahead, Saved
  <2> QED BY <2>1, <2>2, FieldSteps
<1>2. CASE PollOutput
  BY <1>1, <1>2 DEF PollOutput, AutoItems, FieldBetween, Between
<1>3. CASE WriteItem
  BY <1>1, <1>3 DEF WriteItem, FieldBetween
<1>4. CASE WriteItemFails
  BY <1>1, <1>4 DEF WriteItemFails, FieldBetween
<1>5. CASE UNCHANGED fieldVars
  BY <1>1, <1>5 DEF fieldVars, FieldBetween
<1> QED
  BY <1>2, <1>3, <1>4, <1>5 DEF FieldNext, Bridge, allVars, fieldVars

\* The valves are those of the loops.
LEMMA ValvesOfLoops == FieldSpec => [](DOMAIN valve = Loops)
<1>1. FieldInit => DOMAIN valve = Loops
  BY SeedAssumption DEF FieldInit
<1>2. DOMAIN valve = Loops /\ [FieldNext]_allVars => (DOMAIN valve = Loops)'
  BY DEF FieldNext, fieldVars, allVars, Bridge, PollOutput, WriteItem, WriteItemFails
<1> QED BY <1>1, <1>2, PTL DEF FieldSpec

\* Whatever the seeds are: no valve is ever asked for a position further outside the
\* range of its actuator than the seed of its loop, by a tick, an operator, or an answer
\* the bridge acts on late (Step, SetLoopOutput, ControlOutput, ControlWriteBridge.tick).
ValveNearRange == \A i \in Loops : valve[i] \in Lowest(i)..Highest(i)

\* Seeds inside the ranges keep every valve inside, and one outside limits how far out
\* its valve can be.
THEOREM ValveNearRangeAlways == FieldSpec => [](OutputNearRange /\ ValveNearRange)
<1> DEFINE Inv == \A i \in Loops : FieldBetween(i, Lowest(i), Highest(i))
<1>1. FieldInit => Inv
  BY Bounds DEF FieldInit, Init, FieldBetween, Between
<1>2. IInv /\ DOMAIN valve = Loops /\ Inv /\ [FieldNext]_allVars => Inv'
  <2> SUFFICES ASSUME IInv, DOMAIN valve = Loops, Inv, [FieldNext]_allVars, NEW i \in Loops
               PROVE  FieldBetween(i, Lowest(i), Highest(i))'
    BY DEF Lowest, Highest
  <2> QED BY Bounds, FieldBetweenIsKept DEF Lowest, Highest
<1>3. Inv => OutputNearRange /\ ValveNearRange
  BY DEF FieldBetween, Between, OutputNearRange, ValveNearRange
<1> QED BY <1>1, <1>2, <1>3, FieldInvariant, ValvesOfLoops, PTL DEF FieldSpec

\* A loop whose output, copy, feed and valve have come into the range of the actuator
\* keeps them there for ever, whatever the bridge delivers late or not at all.
FieldRangeIsKept ==
  [][\A i \in Loops : FieldBetween(i, OutMin[i], OutMax[i])
                      => FieldBetween(i, OutMin[i], OutMax[i])']_allVars

\* The range of an actuator is left by nobody (Step, SetLoopOutput, ControlOutput,
\* ControlWriteBridge.tick): only a seed can lie outside.
THEOREM FieldRangeIsKeptAlways == FieldSpec => FieldRangeIsKept
<1>1. IInv /\ DOMAIN valve = Loops /\ [FieldNext]_allVars =>
        [\A i \in Loops : FieldBetween(i, OutMin[i], OutMax[i])
                          => FieldBetween(i, OutMin[i], OutMax[i])']_allVars
  <2> SUFFICES ASSUME IInv, DOMAIN valve = Loops, [FieldNext]_allVars, NEW i \in Loops,
                      FieldBetween(i, OutMin[i], OutMax[i])
               PROVE  FieldBetween(i, OutMin[i], OutMax[i])'
    OBVIOUS
  <2> QED BY Bounds, FieldBetweenIsKept
<1> QED BY <1>1, FieldInvariant, ValvesOfLoops, PTL DEF FieldSpec, FieldRangeIsKept
=============================================================================
