---------------------------- MODULE CommLossProofs ---------------------------
(***************************************************************************)
(* RowMatchesMark of CommLoss for any number of assets, any threshold and  *)
(* any number of faults.  A statement on its way has to agree with the     *)
(* mark it was decided from: readings that arrive in between renew the     *)
(* age, and only a sweep, which waits for the statements, moves the mark.  *)
(***************************************************************************)
EXTENDS CommLoss, TLAPS

\* A pending statement agrees with the mark.
PendingFitsMark ==
  \A a \in Assets :
    /\ todo[a] = "raise" => comm[a].raised
    /\ todo[a] = "clear" => ~comm[a].raised

\* Inductive.
IInv == TypeOK /\ PendingFitsMark /\ RowMatchesMark

Entry == [known : BOOLEAN, age : 0..LossAfter, raised : BOOLEAN]

-----------------------------------------------------------------------------
(* The operators the steps are built from.                                 *)

\* What the entries of the map become (engine.go noteGood, Sweep).
LEMMA UnknownType == Unknown \in Entry /\ Unknown.raised = FALSE
  BY LossAssumption DEF Unknown, Entry

\* What a reading, a sweep and time make of an entry (engine.go noteGood, Sweep).
LEMMA EntryTypes ==
  ASSUME NEW c \in Entry
  PROVE  /\ Heard(c) \in Entry /\ Heard(c).raised = c.raised
         /\ Marked(c) \in Entry /\ Marked(c).raised = TRUE
         /\ [c EXCEPT !.raised = FALSE] \in Entry /\ [c EXCEPT !.raised = FALSE].raised = FALSE
         /\ [c EXCEPT !.age = Older(@)] \in Entry
         /\ [c EXCEPT !.age = Older(@)].raised = c.raised
<1>1. /\ c.known \in BOOLEAN /\ c.age \in 0..LossAfter /\ c.raised \in BOOLEAN
      /\ Older(c.age) \in 0..LossAfter
  BY LossAssumption DEF Entry, Older
<1>2. Heard(c) \in Entry /\ Heard(c).raised = c.raised
  BY <1>1, LossAssumption DEF Entry, Heard
<1>3. Marked(c) \in Entry /\ Marked(c).raised = TRUE
  BY <1>1 DEF Entry, Marked
<1>4. [c EXCEPT !.raised = FALSE] \in Entry /\ [c EXCEPT !.raised = FALSE].raised = FALSE
  BY <1>1 DEF Entry
<1>5. [c EXCEPT !.age = Older(@)] \in Entry /\ [c EXCEPT !.age = Older(@)].raised = c.raised
  BY <1>1 DEF Entry
<1> QED
  BY <1>2, <1>3, <1>4, <1>5

\* Raising activates, clearing deactivates, acknowledging leaves it
\* (store/alarms.go UpsertAlarmActive, ClearAlarm, AckAlarm).
LEMMA AlarmOps ==
  ASSUME NEW r \in Alarm
  PROVE  /\ Raised(r, "medium") \in Alarm /\ IsActive(Raised(r, "medium"))
         /\ Cleared(r) \in Alarm /\ ~IsActive(Cleared(r))
         /\ Acked(r) \in Alarm /\ (IsActive(Acked(r)) <=> IsActive(r))
  BY DEF Alarm, AlarmStates, Severities, Raised, Cleared, Acked, IsActive

\* The row before the first alarm.
LEMMA NoAlarmIsInactive == NoAlarm \in Alarm /\ ~IsActive(NoAlarm)
  BY DEF NoAlarm, Alarm, AlarmStates, Severities, IsActive

-----------------------------------------------------------------------------
\* An engine that has just started marks nobody.
LEMMA InitEstablishes == Init => IInv
<1> SUFFICES ASSUME Init PROVE IInv
  OBVIOUS
<1>1. TypeOK
  BY UnknownType, NoAlarmIsInactive, FaultsAssumption DEF Init, TypeOK, Entry
<1>2. PendingFitsMark
  BY DEF Init, PendingFitsMark
<1>3. RowMatchesMark
  BY NoAlarmIsInactive DEF Init, RowMatchesMark, Unknown
<1> QED
  BY <1>1, <1>2, <1>3 DEF IInv

\* A reading renews the age and keeps the mark (engine.go noteGood).
LEMMA ReadingPreserves ==
  ASSUME IInv, NEW a \in Assets, Reading(a)
  PROVE  IInv'
<1>1. comm \in [Assets -> Entry] /\ comm' = [comm EXCEPT ![a] = Heard(comm[a])]
  BY DEF Reading, IInv, TypeOK, Entry
<1>2. Heard(comm[a]) \in Entry /\ Heard(comm[a]).raised = comm[a].raised
  BY <1>1, EntryTypes
<1>3. TypeOK'
  <2>1. comm' \in [Assets -> Entry]
    BY <1>1, <1>2
  <2> QED
    BY <2>1 DEF Reading, IInv, TypeOK, Entry
<1>4. \A b \in Assets : comm'[b].raised = comm[b].raised
  BY <1>1, <1>2
<1> QED
  BY <1>3, <1>4 DEF Reading, IInv, PendingFitsMark, RowMatchesMark

\* A sweep marks or unmarks an asset together with the statement it queues, and
\* leaves every other asset alone (engine.go Sweep).
LEMMA SweepPreserves ==
  ASSUME IInv, Sweep PROVE IInv'
<1>1. \A b \in Assets :
        \/ comm'[b] = Marked(comm[b]) /\ ~comm[b].raised /\ todo'[b] = "raise"
        \/ comm'[b] = Marked(comm[b]) /\ comm[b].raised /\ todo'[b] = "none"
        \/ comm[b].raised /\ comm'[b] = [comm[b] EXCEPT !.raised = FALSE] /\ todo'[b] = "clear"
        \/ comm'[b] = comm[b] /\ ~comm[b].raised /\ todo'[b] = "none"
  <2> SUFFICES ASSUME NEW b \in Assets
               PROVE  \/ comm'[b] = Marked(comm[b]) /\ ~comm[b].raised /\ todo'[b] = "raise"
                      \/ comm'[b] = Marked(comm[b]) /\ comm[b].raised /\ todo'[b] = "none"
                      \/ /\ comm[b].raised /\ comm'[b] = [comm[b] EXCEPT !.raised = FALSE]
                         /\ todo'[b] = "clear"
                      \/ comm'[b] = comm[b] /\ ~comm[b].raised /\ todo'[b] = "none"
    OBVIOUS
  <2>1. CASE ~Fresh(comm[b])
    BY <2>1 DEF Sweep
  <2>2. CASE Fresh(comm[b]) /\ comm[b].raised
    BY <2>2 DEF Sweep
  <2>3. CASE Fresh(comm[b]) /\ ~comm[b].raised
    BY <2>3 DEF Sweep
  <2> QED
    BY <2>1, <2>2, <2>3
<1>2. \A b \in Assets : todo[b] = "none" /\ comm[b] \in Entry
  BY DEF Sweep, IInv, TypeOK, Entry
<1>3. \A b \in Assets : /\ Marked(comm[b]) \in Entry
                        /\ Marked(comm[b]).raised = TRUE
                        /\ [comm[b] EXCEPT !.raised = FALSE] \in Entry
                        /\ [comm[b] EXCEPT !.raised = FALSE].raised = FALSE
  BY <1>2, EntryTypes
<1>4. TypeOK'
  <2>1. ASSUME NEW b \in Assets
        PROVE  comm'[b] \in Entry /\ todo'[b] \in {"none", "raise", "clear"}
    <3>1. comm'[b] \in {comm[b], Marked(comm[b]), [comm[b] EXCEPT !.raised = FALSE]}
      BY <1>1
    <3>2. comm'[b] \in Entry
      BY <3>1, <1>2, <1>3
    <3> QED
      BY <3>2, <1>1
  <2>2. comm' \in [Assets -> Entry] /\ todo' \in [Assets -> {"none", "raise", "clear"}]
    BY <2>1 DEF Sweep
  <2> QED
    BY <2>2 DEF Sweep, IInv, TypeOK, Entry
<1>5. PendingFitsMark'
  <2> SUFFICES ASSUME NEW b \in Assets
               PROVE  /\ todo'[b] = "raise" => comm'[b].raised
                      /\ todo'[b] = "clear" => ~comm'[b].raised
    BY DEF PendingFitsMark
  <2>1. CASE todo'[b] = "raise"
    BY <1>1, <1>3, <2>1
  <2>2. CASE todo'[b] = "clear"
    BY <1>1, <1>3, <2>2
  <2> QED
    BY <2>1, <2>2
<1>6. RowMatchesMark'
  <2> SUFFICES ASSUME NEW b \in Assets \ parted
               PROVE  IsActive(row[b]) <=> \/ comm'[b].raised /\ todo'[b] # "raise"
                                           \/ todo'[b] = "clear"
    BY DEF RowMatchesMark, Sweep
  <2>1. IsActive(row[b]) <=> comm[b].raised
    BY <1>2 DEF IInv, RowMatchesMark
  <2> QED
    BY <1>1, <1>3, <2>1
<1> QED
  BY <1>4, <1>5, <1>6 DEF IInv

\* A statement makes the row agree with the mark (engine.go Sweep).
LEMMA WritePreserves ==
  ASSUME IInv, NEW a \in Assets, Write(a)
  PROVE  IInv'
<1> DEFINE new == IF todo[a] = "raise" THEN Raised(row[a], "medium") ELSE Cleared(row[a])
<1>1. /\ row' = [row EXCEPT ![a] = new] /\ todo' = [todo EXCEPT ![a] = "none"]
      /\ UNCHANGED <<comm, faults, parted>>
      /\ todo[a] \in {"raise", "clear"}
  BY DEF Write, Turn
<1>2. /\ row \in [Assets -> Alarm] /\ todo \in [Assets -> {"none", "raise", "clear"}]
      /\ row[a] \in Alarm
  BY DEF IInv, TypeOK
<1>3. new \in Alarm /\ (IsActive(new) <=> todo[a] = "raise")
  BY <1>1, <1>2, AlarmOps
<1> HIDE DEF new
<1>4. TypeOK'
  BY <1>1, <1>2, <1>3 DEF IInv, TypeOK
<1>5. PendingFitsMark'
  BY <1>1, <1>2 DEF IInv, PendingFitsMark
<1>6. RowMatchesMark'
  <2>1. comm[a].raised <=> todo[a] = "raise"
    BY <1>1 DEF IInv, PendingFitsMark
  <2> QED
    BY <1>1, <1>2, <1>3, <2>1 DEF IInv, RowMatchesMark
<1> QED
  BY <1>4, <1>5, <1>6 DEF IInv

\* A lost statement parts the asset from its row.
LEMMA WriteFailsPreserves ==
  ASSUME IInv, NEW a \in Assets, WriteFails(a)
  PROVE  IInv'
<1> USE DEF WriteFails
<1>1. TypeOK'
  BY FaultsAssumption DEF IInv, TypeOK
<1>2. PendingFitsMark'
  BY DEF IInv, TypeOK, PendingFitsMark
<1>3. RowMatchesMark'
  BY DEF IInv, TypeOK, RowMatchesMark
<1> QED
  BY <1>1, <1>2, <1>3 DEF IInv

\* A restart parts every asset whose row it leaves active.
LEMMA RestartPreserves ==
  ASSUME IInv, Restart PROVE IInv'
<1> USE DEF Restart
<1>1. TypeOK'
  BY UnknownType, FaultsAssumption DEF IInv, TypeOK, Entry
<1>2. PendingFitsMark'
  BY DEF PendingFitsMark
<1>3. RowMatchesMark'
  BY DEF RowMatchesMark, Unknown
<1> QED
  BY <1>1, <1>2, <1>3 DEF IInv

\* An acknowledged alarm is still active (store/alarms.go AckAlarm).
LEMMA AckPreserves ==
  ASSUME IInv, NEW a \in Assets, Ack(a)
  PROVE  IInv'
<1> USE DEF Ack
<1>1. /\ row \in [Assets -> Alarm] /\ row[a] \in Alarm
  BY DEF IInv, TypeOK
<1>2. Acked(row[a]) \in Alarm /\ (IsActive(Acked(row[a])) <=> IsActive(row[a]))
  BY <1>1, AlarmOps
<1>3. TypeOK'
  BY <1>1, <1>2 DEF IInv, TypeOK
<1>4. PendingFitsMark'
  BY DEF IInv, PendingFitsMark
<1>5. RowMatchesMark'
  BY <1>1, <1>2 DEF IInv, RowMatchesMark
<1> QED
  BY <1>3, <1>4, <1>5 DEF IInv

\* Time does not touch the marks.
LEMMA TickPreserves ==
  ASSUME IInv, Tick PROVE IInv'
<1>1. \A b \in Assets : /\ comm[b] \in Entry
                        /\ comm'[b] = [comm[b] EXCEPT !.age = Older(@)]
  BY DEF Tick, IInv, TypeOK, Entry
<1>2. ASSUME NEW b \in Assets
      PROVE  comm'[b] \in Entry /\ comm'[b].raised = comm[b].raised
  <2>1. /\ [comm[b] EXCEPT !.age = Older(@)] \in Entry
        /\ [comm[b] EXCEPT !.age = Older(@)].raised = comm[b].raised
    BY <1>1, EntryTypes
  <2>2. comm'[b] = [comm[b] EXCEPT !.age = Older(@)]
    BY <1>1
  <2> QED
    BY <2>1, <2>2, Zenon
<1>3. comm' \in [Assets -> Entry]
  BY <1>2 DEF Tick
<1>4. TypeOK'
  BY <1>3 DEF Tick, IInv, TypeOK, Entry
<1> QED
  BY <1>2, <1>4 DEF Tick, IInv, PendingFitsMark, RowMatchesMark

\* Every step of engine, table and time keeps the invariant.
LEMMA StepPreserves == IInv /\ [Next]_vars => IInv'
<1> SUFFICES ASSUME IInv, [Next]_vars PROVE IInv'
  OBVIOUS
<1>1. CASE Sweep
  BY <1>1, SweepPreserves
<1>2. CASE Restart
  BY <1>2, RestartPreserves
<1>3. CASE Tick
  BY <1>3, TickPreserves
<1>4. ASSUME NEW a \in Assets, Reading(a) PROVE IInv'
  BY <1>4, ReadingPreserves
<1>5. ASSUME NEW a \in Assets, Write(a) PROVE IInv'
  BY <1>5, WritePreserves
<1>6. ASSUME NEW a \in Assets, WriteFails(a) PROVE IInv'
  BY <1>6, WriteFailsPreserves
<1>7. ASSUME NEW a \in Assets, Ack(a) PROVE IInv'
  BY <1>7, AckPreserves
<1>8. CASE UNCHANGED vars
  BY <1>8 DEF vars, IInv, TypeOK, PendingFitsMark, RowMatchesMark
<1> QED
  BY <1>1, <1>2, <1>3, <1>4, <1>5, <1>6, <1>7, <1>8 DEF Next

\* The watchdog's variables keep their types (engine.go assetComm).
THEOREM WatchdogTypes == Spec => []TypeOK
<1>1. IInv => TypeOK
  BY DEF IInv
<1> QED
  BY <1>1, InitEstablishes, StepPreserves, PTL DEF Spec

\* Unless a statement was lost or the process restarted, the row "comm:<asset>" is
\* active exactly when the asset is marked, the statement on its way excepted,
\* whatever readings and acknowledgements arrive in between (engine.go Sweep).
THEOREM RowMatchesMarkAlways == Spec => []RowMatchesMark
<1>1. IInv => RowMatchesMark
  BY DEF IInv
<1> QED
  BY <1>1, InitEstablishes, StepPreserves, PTL DEF Spec
=============================================================================
