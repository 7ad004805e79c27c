----------------------------- MODULE FieldControl ----------------------------
(***************************************************************************)
(* The control loops together with the valves they move.  The edge bridge  *)
(* polls /control/output, which marks a loop "auto" only if its mode is    *)
(* auto AND its state is ok, and writes the items marked "auto" to the     *)
(* actuator registers; everything else leaves the valve where it is.       *)
(***************************************************************************)
EXTENDS ControlLoop  \* mutated forms precede their originals, as there

VARIABLES
  valve,  \* valve[i]: position of the actuator of loop i
  feed    \* outputs of the last poll still to be written, in the order of the loops

fieldVars == <<valve, feed>>
allVars == <<vars, valve, feed>>

FieldInit == Init /\ valve = Seed /\ feed = {}

IsAutoUnlessOk(i) == row[i].mode = "auto" /\ row[i].state # "ok"
\* ControlOutput marks a loop "auto".
IsAuto(i) == row[i].mode = "auto" /\ row[i].state = "ok"

\* The items the bridge is going to write.
AutoItems ==
  {[loop |-> i, value |-> row[i].out] : i \in {j \in Loops : IsAuto(j)}}

\* ControlWriteBridge.tick: fetch, then write item by item, in the order of the answer.
PollOutput ==
  /\ feed = {}
  /\ feed' = AutoItems
  /\ UNCHANGED <<vars, valve>>

FirstItem(item) == item \in feed /\ \A other \in feed : item.loop <= other.loop

WriteItem ==
  /\ \E item \in feed :
       /\ FirstItem(item)
       /\ valve' = [valve EXCEPT ![item.loop] = item.value]
       /\ feed' = feed \ {item}
  /\ UNCHANGED vars

\* The FC6 exchange fails: the valve keeps its position, the next item is tried.
WriteItemFails ==
  /\ faults < MaxFaults
  /\ faults' = faults + 1
  /\ \E item \in feed : FirstItem(item) /\ feed' = feed \ {item}
  /\ UNCHANGED <<row, alarm, pv, snap, cursor, plan, req, cut, valve>>

Bridge == PollOutput \/ WriteItem

FieldNext ==
  \/ Next /\ UNCHANGED fieldVars
  \/ Bridge
  \/ WriteItemFails

FieldSpec == FieldInit /\ [][FieldNext]_allVars

\* Both the manager and the bridge run on tickers of their own process.
FieldFairSpec ==
  FieldSpec /\ WF_allVars(Manager /\ UNCHANGED fieldVars) /\ WF_allVars(Bridge)

-----------------------------------------------------------------------------
\* A loop that settles in automatic control moves its valve to its output.
ValveFollowsAuto ==
  \A i \in Loops : \A v \in OutMin[i]..OutMax[i] :
    <>[](row[i].mode = "auto" /\ row[i].state = "ok" /\ row[i].out = v) =>
      <>[](valve[i] = v)

\* "The interlock forces the oil valve to 100 % in auto mode - even from
\* manual": a lasting interlock opens the valve.
InterlockOpensValve ==
  \A i \in Loops :
    <>[](row[i].state = "interlock") => <>[](valve[i] = OutMax[i])
=============================================================================
