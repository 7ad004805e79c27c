----------------------------- MODULE ControlLoop -----------------------------
(***************************************************************************)
(* Supervisory control of capd: the rows of control_loops, the manager     *)
(* goroutine that ticks them once a second, and the HTTP handlers through  *)
(* which operators switch modes and write manual outputs.                  *)
(*                                                                         *)
(* The manager reads ALL loops in one query and then works through the     *)
(* list, so a loop is evaluated on a snapshot that an operator may have    *)
(* overtaken.  One tick of a loop issues several SQL statements (save the  *)
(* row, raise or clear the alarm "loop:<id>"); each is a step of its own,  *)
(* because a handler can run, the process can die or the statement can     *)
(* fail between two of them.                                               *)
(*                                                                         *)
(* Abstracted data: the PV is reduced to the outcome of the comparisons    *)
(* the tick makes with it; the PID output is any value control.Step can    *)
(* return (module Regulator computes it); the setpoint, the integral and   *)
(* the gains only influence which of these values it is.                   *)
(*                                                                         *)
(* An operator directly before another one with the same parameters is a   *)
(* mutated form of it: the mutation runs put it in the place of the        *)
(* original and expect a property to fail.  No specification uses it.      *)
(***************************************************************************)
EXTENDS Sequences, AlarmTable, PidCore

CONSTANTS
  N,          \* number of loops; a loop is its position in ListLoops (ORDER BY id)
  Kind,       \* Kind[i]: loop_type, "standard", "temp" or "ph"
  OutMin,     \* OutMin[i], OutMax[i]: engineering range of the actuator
  OutMax,
  Seed,       \* Seed[i]: output of the row inserted by SeedControlLoops
  Slew,       \* largest change of the output per tick; 0 disables the limit
  Operators,  \* concurrent HTTP sessions
  MaxFaults   \* bound on failed statements plus process restarts

Loops == 1..N

ASSUME NAssumption == N \in Nat \ {0}
ASSUME KindAssumption == Kind \in [Loops -> {"standard", "temp", "ph"}]
ASSUME RangeAssumption ==
  /\ OutMin \in [Loops -> Int]
  /\ OutMax \in [Loops -> Int]
  /\ \A i \in Loops : OutMin[i] < OutMax[i]
ASSUME SeedAssumption == Seed \in [Loops -> Int]
ASSUME SlewAssumption == Slew \in Nat
ASSUME FaultsAssumption == MaxFaults \in Nat

VARIABLES
  row,     \* row[i]: the control_loops row
  alarm,   \* alarm[i]: the alarms row with tag_id "loop:<id>"
  pv,      \* pv[i]: what LatestGoodNumericReading(PVTag) would give now
  snap,    \* the manager's copy of the rows (result of ListLoops)
  cursor,  \* the loop the manager is working on, 0 between ticks
  plan,    \* SQL effects of the current loop's tick still to be executed
  req,     \* req[o]: the request session o is serving
  faults,  \* failed statements and restarts so far
  cut      \* loops whose tick lost one of its effects to a fault

vars == <<row, alarm, pv, snap, cursor, plan, req, faults, cut>>

-----------------------------------------------------------------------------
Modes  == {"auto", "manual"}
States == {"ok", "watchdog", "interlock"}
Row    == [mode : Modes, state : States, out : Int]

\* The comparisons a tick makes: "cool" is below TempInterlock - 5 degrees,
\* "hot" at or above TempInterlock; "warning" and "critical" are the two pH
\* dead-bands.  "stale" is an age above CONTROL_STALE or no reading at all.
PVLevels(kind) ==
  {"stale"} \cup CASE kind = "temp" -> {"cool", "band", "hot"}
                   [] kind = "ph"   -> {"ok", "warning", "critical"}
                   [] OTHER         -> {"good"}

\* One SQL effect of a tick.  Only a "save" carries a row, only a "raise" a
\* severity that matters.
Save(m, s, o)  == [op |-> "save", mode |-> m, state |-> s, out |-> o]
Raise(sev)     == [op |-> "raise", sev |-> sev]
Clear          == [op |-> "clear"]

NoRequest  == [busy |-> FALSE, loop |-> 1, seen |-> "manual"]
Request    == [busy : BOOLEAN, loop : Loops, seen : Modes]

-----------------------------------------------------------------------------
(* The PID as the tick sees it.                                            *)

\* Outputs control.Step can return for loop i.
StepOutputs(i, prev) == Moves(OutMin[i], OutMax[i], Slew, prev)

-----------------------------------------------------------------------------
(* What one tick does with a loop, as the sequence of its SQL effects: a   *)
(* set of plans, one per output the PID may compute.  l is the snapshot of *)
(* the row, p the PV the tick reads.                                       *)

\* Leaving a watchdog state clears the alarm before anything else.
AfterWatchdog(l, effects) ==
  IF l.state = "watchdog" THEN <<Clear>> \o effects ELSE effects

\* Manager.watchdog: freeze once.
WatchdogQuiet(l)     == { <<Save("manual", "watchdog", l.out)>> }
WatchdogKeepsMode(l) == { <<Save(l.mode, "watchdog", l.out), Raise("high")>> }
WatchdogPlans(l) ==
  IF l.state = "watchdog" THEN { <<>> }
  ELSE { <<Save("manual", "watchdog", l.out), Raise("high")>> }

StandardPlans(i, l) ==
  { AfterWatchdog(l, <<Save("auto", "ok", o)>>) : o \in StepOutputs(i, l.out) }

\* tickTempLoop: an interlock survives a stale PV.
StaleAlwaysFreezes(l) == WatchdogPlans(l)
StaleTempPlans(l) == IF l.state = "interlock" THEN { <<>> } ELSE WatchdogPlans(l)

\* The trip is decided before the mode is looked at.
TripsInAuto(l, p) == l.mode = "auto" /\ p = "hot"
Trips(l, p) == l.state # "interlock" /\ p = "hot"

\* Cooled down: clear, then hand the loop back to the operator.
ReleaseKeepsState(l) == { <<Clear, Save("manual", l.state, l.out)>> }
Release(l) == { <<Clear, Save("manual", "ok", l.out)>> }

HoldInterlock(i) == <<Save("auto", "interlock", OutMax[i])>>

\* A manual temperature loop belongs to the operator; leaving the watchdog
\* state is all the tick does.
ManualTempToAuto(l) == { <<Save("auto", "ok", l.out), Clear>> }
ManualTempPlans(l) ==
  IF l.state = "ok" THEN { <<>> } ELSE { <<Save("manual", "ok", l.out), Clear>> }

TempPlans(i, l, p) ==
  CASE p = "stale"                                -> StaleTempPlans(l)
    [] l.state = "interlock" /\ p = "cool"        -> Release(l)
    [] l.state = "interlock" /\ p \notin {"stale", "cool"} -> { HoldInterlock(i) }
    [] l.state # "interlock" /\ Trips(l, p)       -> { <<Raise("critical")>> \o HoldInterlock(i) }
    [] l.state # "interlock" /\ p # "stale" /\ ~Trips(l, p) /\ l.mode = "manual"
                                                  -> ManualTempPlans(l)
    [] OTHER                                      -> StandardPlans(i, l)

\* PHStep holds the output inside the warning dead-band and clears the alarm.
PHSettledQuietly(l) == { <<Save("auto", "ok", l.out)>> }
PHSettled(l) == { AfterWatchdog(l, <<Clear, Save("auto", "ok", l.out)>>) }

PHPlans(i, l, p) ==
  CASE p = "critical" ->
         { AfterWatchdog(l, <<Save("manual", "watchdog", l.out), Raise("critical")>>) }
    [] p = "warning" ->
         { AfterWatchdog(l, <<Raise("high"), Save("auto", "ok", o)>>) :
             o \in StepOutputs(i, l.out) }
    [] OTHER -> PHSettled(l)

\* tickLoop leaves manual loops alone, temperature loops excepted.
Skips(i, l) == Kind[i] # "temp" /\ l.mode = "manual"

TickPlans(i, l, p) ==
  CASE Kind[i] = "temp"                                    -> TempPlans(i, l, p)
    [] Skips(i, l)                                         -> { <<>> }
    [] Kind[i] # "temp" /\ ~Skips(i, l) /\ p = "stale"      -> WatchdogPlans(l)
    [] Kind[i] = "ph" /\ ~Skips(i, l) /\ p # "stale"        -> PHPlans(i, l, p)
    [] OTHER                                               -> StandardPlans(i, l)

-----------------------------------------------------------------------------
Init ==
  /\ row    = [i \in Loops |-> [mode |-> "manual", state |-> "ok", out |-> Seed[i]]]
  /\ alarm  = [i \in Loops |-> NoAlarm]
  /\ pv     = [i \in Loops |-> "stale"]
  /\ snap   = row
  /\ cursor = 0
  /\ plan   = <<>>
  /\ req    = [o \in Operators |-> NoRequest]
  /\ faults = 0
  /\ cut    = {}

(* The manager goroutine. *)

\* Manager.Tick: one query reads every loop.
BeginTick ==
  /\ cursor = 0
  /\ snap' = row
  /\ cursor' = 1
  /\ UNCHANGED <<row, alarm, pv, plan, req, faults, cut>>

\* The manager turns to the next loop of its list, or waits for the ticker.
NextLoop == IF cursor = N THEN 0 ELSE cursor + 1

\* tickLoop reads the PV and decides; readable is FALSE when the query itself
\* fails, which the code treats as a stale PV.
Decide(readable) ==
  /\ cursor # 0
  /\ plan = <<>>
  /\ readable \/ faults < MaxFaults
  /\ faults' = IF readable THEN faults ELSE faults + 1
  /\ \E effects \in TickPlans(cursor, snap[cursor],
                              IF readable THEN pv[cursor] ELSE "stale") :
       /\ plan' = effects
       /\ cursor' = IF effects = <<>> THEN NextLoop ELSE cursor
  /\ UNCHANGED <<row, alarm, pv, snap, req, cut>>

\* The head of the plan is dealt with, one way or the other.
Advance ==
  /\ plan' = Tail(plan)
  /\ cursor' = IF Tail(plan) = <<>> THEN NextLoop ELSE cursor

\* SaveLoopRuntime: an unconditional UPDATE of output, mode and state.
DoSave ==
  /\ plan # <<>> /\ Head(plan).op = "save"
  /\ LET e == Head(plan) IN
     row' = [row EXCEPT ![cursor] = [mode |-> e.mode, state |-> e.state, out |-> e.out]]
  /\ Advance
  /\ UNCHANGED <<alarm, pv, snap, req, faults, cut>>

\* Engine.RaiseOperational and Engine.ClearOperational.
DoRaise ==
  /\ plan # <<>> /\ Head(plan).op = "raise"
  /\ alarm' = [alarm EXCEPT ![cursor] = Raised(@, Head(plan).sev)]
  /\ Advance
  /\ UNCHANGED <<row, pv, snap, req, faults, cut>>

DoClear ==
  /\ plan # <<>> /\ Head(plan).op = "clear"
  /\ alarm' = [alarm EXCEPT ![cursor] = Cleared(@)]
  /\ Advance
  /\ UNCHANGED <<row, pv, snap, req, faults, cut>>

\* The statement fails: the error is logged or ignored and the tick goes on.
EffectFails ==
  /\ plan # <<>>
  /\ faults < MaxFaults
  /\ faults' = faults + 1
  /\ cut' = cut \cup {cursor}
  /\ Advance
  /\ UNCHANGED <<row, alarm, pv, snap, req>>

\* capd dies and is started again: the tick and the requests in flight are
\* gone, the database is what it was.
Restart ==
  /\ faults < MaxFaults
  /\ faults' = faults + 1
  /\ cut' = IF plan = <<>> THEN cut ELSE cut \cup {cursor}
  /\ cursor' = 0
  /\ plan' = <<>>
  /\ req' = [o \in Operators |-> NoRequest]
  /\ UNCHANGED <<row, alarm, pv, snap>>

(* The operators' handlers: read the loop, check, then write. *)

\* GetLoop at the top of SetLoopMode and SetLoopOutput.
ReadLoop(o, i) ==
  /\ ~req[o].busy
  /\ req' = [req EXCEPT ![o] = [busy |-> TRUE, loop |-> i, seen |-> row[i].mode]]
  /\ UNCHANGED <<row, alarm, pv, snap, cursor, plan, faults, cut>>

Answer(o) == req' = [req EXCEPT ![o] = NoRequest]

\* UpdateLoopMode: the UPDATE resets the state, too.
WithModeOnly(l, m) == [l EXCEPT !.mode = m]
WithMode(l, m) == [l EXCEPT !.mode = m, !.state = "ok"]

\* SetLoopMode: a request for the mode the handler saw changes nothing.
SetLoopMode(o, m) ==
  LET i == req[o].loop IN
  /\ req[o].busy
  /\ row' = IF m = req[o].seen THEN row ELSE [row EXCEPT ![i] = WithMode(@, m)]
  /\ Answer(o)
  /\ UNCHANGED <<alarm, pv, snap, cursor, plan, faults, cut>>

\* UpdateLoopOutput resets the state as well.
WithOutput(l, v) == [l EXCEPT !.out = v, !.state = "ok"]

\* SetLoopOutput: accepted when the handler saw manual mode and the value lies
\* in the actuator range; the UPDATE itself tests neither.
SetLoopOutputUnchecked(o, v) ==
  /\ req[o].busy
  /\ row' = IF req[o].seen = "manual"
            THEN [row EXCEPT ![req[o].loop] = WithOutput(@, v)] ELSE row
  /\ Answer(o)
  /\ UNCHANGED <<alarm, pv, snap, cursor, plan, faults, cut>>
SetLoopOutput(o, v) ==
  LET i == req[o].loop IN
  /\ req[o].busy
  /\ row' = IF req[o].seen = "manual" /\ v \in OutMin[i]..OutMax[i]
            THEN [row EXCEPT ![i] = WithOutput(@, v)] ELSE row
  /\ Answer(o)
  /\ UNCHANGED <<alarm, pv, snap, cursor, plan, faults, cut>>

\* store.AckAlarm: conditional on the state, so one atomic step.
AckAlarm(i) ==
  /\ alarm[i].st = "unack"
  /\ alarm' = [alarm EXCEPT ![i] = Acked(@)]
  /\ UNCHANGED <<row, pv, snap, cursor, plan, req, faults, cut>>

(* The plant and the ingest path: a reading arrives, or none does for too long. *)
PVChanges(i, p) ==
  /\ pv[i] # p
  /\ pv' = [pv EXCEPT ![i] = p]
  /\ UNCHANGED <<row, alarm, snap, cursor, plan, req, faults, cut>>

-----------------------------------------------------------------------------
Manager == BeginTick \/ Decide(TRUE) \/ DoSave \/ DoRaise \/ DoClear

Faulty == Decide(FALSE) \/ EffectFails \/ Restart

Operator(o) ==
  \/ \E i \in Loops : ReadLoop(o, i)
  \/ \E m \in Modes : SetLoopMode(o, m)
  \/ \E v \in (OutMin[req[o].loop] - 1)..(OutMax[req[o].loop] + 1) : SetLoopOutput(o, v)

Next ==
  \/ Manager
  \/ Faulty
  \/ \E o \in Operators : Operator(o)
  \/ \E i \in Loops : AckAlarm(i)
  \/ \E i \in Loops : \E p \in PVLevels(Kind[i]) : PVChanges(i, p)

Spec == Init /\ [][Next]_vars

\* The manager is one goroutine on a ticker that nothing blocks for ever;
\* operators, faults and the plant owe nothing.
FairSpec == Spec /\ WF_vars(Manager)

-----------------------------------------------------------------------------
(* Properties.                                                             *)

Effect == [op : {"save"}, mode : Modes, state : States, out : Int]
          \cup [op : {"raise"}, sev : Severities]
          \cup [op : {"clear"}]

\* The variables keep their types and the manager never holds effects of a
\* loop it is not working on (manager.go, store/control.go).
TypeOK ==
  /\ row \in [Loops -> Row]
  /\ alarm \in [Loops -> Alarm]
  /\ pv \in [Loops -> {"stale", "good", "cool", "band", "hot", "ok", "warning", "critical"}]
  /\ snap \in [Loops -> Row]
  /\ cursor \in 0..N
  /\ plan \in Seq(Effect)
  /\ cursor = 0 => plan = <<>>
  /\ req \in [Operators -> Request]
  /\ faults \in 0..MaxFaults
  /\ cut \subseteq Loops

\* What a mode, state and output stored together must satisfy.
Coherent(i, m, s, o) ==
  /\ s = "interlock" => Kind[i] = "temp" /\ m = "auto" /\ o = OutMax[i]
  /\ s = "watchdog"  => m = "manual"

\* Whatever order the tick's UPDATEs and the operators' UPDATEs arrive in, a row
\* in interlock is a temperature loop in auto with the oil valve fully open,
\* and a row in watchdog is in manual (tickTempLoop, watchdog, UpdateLoopMode,
\* UpdateLoopOutput write these columns independently of each other).
StateFitsMode == \A i \in Loops : Coherent(i, row[i].mode, row[i].state, row[i].out)

\* The statement about to run is op.
Pending(i, op) == cursor = i /\ plan # <<>> /\ Head(plan).op = op

\* A loop the manager froze or tripped has its alarm active: the only windows
\* are between the two statements of the same tick, and after a fault hit one
\* of them (watchdog saves then raises, the interlock raises then saves, the
\* release clears then saves).
AbnormalAnnounced ==
  \A i \in Loops \ cut :
    row[i].state # "ok" =>
      \/ IsActive(alarm[i])
      \/ row[i].state = "watchdog"  /\ Pending(i, "raise")
      \/ row[i].state = "interlock" /\ Pending(i, "save")

\* An operator's request on loop i is answered in this step.
OperatorActs(i) == \E o \in Operators : req[o].busy /\ req[o].loop = i /\ ~req'[o].busy

\* The manager executes a save of loop i in this step.
ManagerSaves(i) == Pending(i, "save") /\ plan' # plan /\ UNCHANGED faults

\* "Output is clamped to [0, 100] percent" (control.Step): what a tick stores for a loop
\* in automatic control lies in the range of its actuator.  The slew window is applied
\* after the clamp, so it does not for dic401, seeded with 0 for a range of 10..90.
StepClamps ==
  [][\A i \in Loops :
       ManagerSaves(i) /\ row'[i].mode = "auto" => row'[i].out \in OutMin[i]..OutMax[i]]_vars

\* An interlock is left in two ways only: by an operator's command, or by the
\* manager handing the loop back in manual, at full oil, the alarm already
\* cleared.  It never turns into a watchdog freeze and no stale tick drops it.
InterlockExit ==
  [][\A i \in Loops :
       row[i].state = "interlock" /\ row'[i].state # "interlock" =>
         \/ OperatorActs(i)
         \/ /\ ManagerSaves(i)
            /\ row'[i] = [mode |-> "manual", state |-> "ok", out |-> OutMax[i]]
            /\ i \in cut \/ ~IsActive(alarm[i])]_vars

\* "Manual: output stays where the operator (or the watchdog freeze) put it"
\* (tickLoop): a manual loop keeps mode and output until an operator or the
\* temperature interlock takes it over.  A tick that read the loop before it was
\* switched to manual, or before the output was written, breaks this.
ManualIsKept ==
  [][\A i \in Loops :
       row[i].mode = "manual" =>
         \/ OperatorActs(i)
         \/ row'[i].state = "interlock"
         \/ row'[i].mode = "manual" /\ row'[i].out = row[i].out]_vars

\* The save of the current plan is done, or failed.
Saved == plan # <<>> /\ Tail(plan) = <<>> /\ Head(plan).op # "save"

\* The manager may still write the row of loop i in this tick.
Ahead(i) == cursor # 0 /\ cursor <= i /\ ~(cursor = i /\ Saved)

\* Loop i is in manual, and so it is for the tick under way, with the same output.
ManualForAll(i) ==
  /\ row[i].mode = "manual"
  /\ Ahead(i) => snap[i].mode = "manual" /\ snap[i].out = row[i].out

\* A tick that is older than the command is all that can take a manual output away:
\* as soon as the tick under way knows of it, it stays where the operator or the
\* freeze put it, tick after tick, through other requests, faults and restarts, until
\* an operator or the interlock takes the loop over (tickLoop, tickTempLoop, watchdog).
ManualStays ==
  [][\A i \in Loops :
       ManualForAll(i) =>
         \/ OperatorActs(i)
         \/ row'[i].state = "interlock"
         \/ ManualForAll(i)' /\ row'[i].out = row[i].out]_vars

\* An overheated bearing gets its oil whatever the operators do: as long as the
\* PV stays at or above the trip point the interlock is re-asserted for ever.
HotTrips ==
  \A i \in Loops : Kind[i] = "temp" =>
    (<>[](pv[i] = "hot") => []<>(row[i].state = "interlock"))

\* Once the bearing stays cool the loop is handed back for good.
CoolReleases ==
  \A i \in Loops :
    <>[](pv[i] = "cool") => <>[](row[i].state # "interlock")

\* A loop without a usable PV (stale, or a pH critically off) does not stay in
\* automatic control, however often the operators switch it back.
BadPVFreezes ==
  \A i \in Loops :
    <>[](pv[i] \in {"stale", "critical"}) =>
      []<>(row[i].mode = "manual" \/ row[i].state = "interlock")

\* Loop i ends without an active alarm once it stays healthy in automatic control.
Recovers(i) ==
  <>[](pv[i] \in {"good", "ok", "cool"} /\ row[i].mode = "auto") => <>[]~IsActive(alarm[i])

\* A pH loop clears its alarm with every settled tick, whoever raised it and
\* whatever mode and state the operators put the row in meanwhile (tickPHLoop).
AlarmClearsInAuto == \A i \in Loops : Kind[i] = "ph" => Recovers(i)
=============================================================================
