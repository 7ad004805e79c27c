--------------------------- MODULE BandAlarmProofs ---------------------------
(***************************************************************************)
(* The delays of the band alarm and the agreement of its row with the      *)
(* engine's belief, for any limits, hysteresis, delays, cache lifetime,    *)
(* values and number of faults.  The delays hold because a condition is    *)
(* never older than the last reading that speaks against it (Dated).       *)
(***************************************************************************)
EXTENDS BandAlarm, TLAPS

Conditions == Bands \cup {"none", "clear"}

Statement == [op : {"raise", "clear"}, sev : Severities]

Types ==
  /\ limits \in Limits
  /\ cache \in [row : Limits \cup {NoLimits}, age : 0..Lifetime]
  /\ st \in [active : BOOLEAN, cond : Conditions, age : 0..Horizon]
  /\ todo = Nothing \/ todo \in Statement
  /\ row \in Alarm
  /\ since \in [calm : 0..Horizon, off : 0..Horizon]

\* A pending statement agrees with the belief.
PendingFits ==
  /\ todo.op = "raise" => st.active
  /\ todo.op = "clear" => ~st.active

\* How old a condition can be.
Dated ==
  /\ st.cond \in Bands => st.age <= since.calm
  /\ st.cond = "clear" => st.active /\ st.age <= since.off
  /\ st.cond = "none" => st.age = 0

\* Inductive.
IInv == Types /\ PendingFits /\ Dated /\ RowMatchesBelief

-----------------------------------------------------------------------------
(* Constants and operators.                                                *)

\* The largest delay is a number.
LEMMA HorizonIsNat == Horizon \in Nat
  BY DelayAssumption DEF Horizon, Larger

\* Ageing keeps an age in its range and never lowers it.
LEMMA OlderType ==
  ASSUME NEW last \in Nat, NEW a \in 0..last
  PROVE  Older(a, last) \in 0..last /\ a <= Older(a, last)
  BY DEF Older

\* Two ages that grow together keep their order.
LEMMA OlderKeepsOrder ==
  ASSUME NEW last \in Nat, NEW a \in 0..last, NEW b \in 0..last, a <= b
  PROVE  Older(a, last) <= Older(b, last)
  BY DEF Older

\* classify returns a band or normal.
LEMMA BandIsOne ==
  ASSUME NEW l, NEW v PROVE Band(l, v) \in Bands \cup {"normal"}
  BY DEF Band, Classify, Bands

\* The on-delay of a band is a number.
LEMMA OnDelayType ==
  ASSUME NEW b PROVE OnDelay(b) \in Nat
  BY DelayAssumption DEF OnDelay

\* A raised alarm has a severity.
LEMMA SeverityType ==
  ASSUME NEW l \in Limits \cup {NoLimits}, NEW b
  PROVE  SeverityOf(l, b) \in Severities
<1>1. CASE l = NoLimits
  BY <1>1 DEF SeverityOf, NoLimits, Severities
<1>2. CASE l \in Limits
  <2>1. PICK S \in SUBSET Bands :
          l \in [enabled : BOOLEAN, at : [S -> Int], sev : Severities \ {"none"}]
    BY <1>2, LimitsAssumption DEF IsLimitRow
  <2> QED
    BY <2>1 DEF SeverityOf, Severities
<1> QED
  BY <1>1, <1>2

\* What the statements on the row do to its being active (store/alarms.go).
LEMMA AlarmOps ==
  ASSUME NEW r \in Alarm, NEW s \in Severities
  PROVE  /\ Raised(r, s) \in Alarm /\ IsActive(Raised(r, s))
         /\ Cleared(r) \in Alarm /\ ~IsActive(Cleared(r))
         /\ Acked(r) \in Alarm /\ (IsActive(Acked(r)) <=> IsActive(r))
  BY DEF Alarm, AlarmStates, Severities, Raised, Cleared, Acked, IsActive

\* The memories evaluateBand can leave.
LEMMA Memories ==
  ASSUME NEW a \in BOOLEAN, NEW c \in Conditions
  PROVE  /\ At(a, c) \in [active : BOOLEAN, cond : Conditions, age : 0..Horizon]
         /\ At(a, c).active = a /\ At(a, c).cond = c /\ At(a, c).age = 0
  BY HorizonIsNat DEF At

-----------------------------------------------------------------------------
\* An engine that has just started.
LEMMA InitEstablishes == Init => IInv
<1> SUFFICES ASSUME Init PROVE IInv
  OBVIOUS
<1>1. Types
  <2>1. st \in [active : BOOLEAN, cond : Conditions, age : 0..Horizon]
    BY Memories DEF Init, Conditions
  <2>2. /\ cache \in [row : Limits \cup {NoLimits}, age : 0..Lifetime]
        /\ since \in [calm : 0..Horizon, off : 0..Horizon]
    BY HorizonIsNat, DelayAssumption DEF Init
  <2>3. todo = Nothing /\ row \in Alarm
    BY DEF Init, NoAlarm, Alarm, AlarmStates, Severities
  <2> QED
    BY <2>1, <2>2, <2>3 DEF Init, Types
<1>2. PendingFits /\ Dated
  BY DEF Init, PendingFits, Dated, Nothing, At, Bands
<1>3. RowMatchesBelief
  BY DEF Init, RowMatchesBelief, IsActive, NoAlarm, Nothing, At
<1> QED
  BY <1>1, <1>2, <1>3 DEF IInv

\* The outcomes of a good reading, all of them with the belief the statement
\* announces, and with the age that the delay is measured by.
Outcome(l) ==
  \/ Band(l, value) = "normal" /\ ~st.active /\ st' = At(FALSE, "none") /\ todo' = Nothing
  \/ st.active /\ st' = At(TRUE, "none") /\ todo' = Nothing
  \/ /\ Band(l, value) = "normal" /\ WellInside(l, value) /\ st.active
     /\ \/ st.cond # "clear" /\ st' = At(TRUE, "clear") /\ todo' = Nothing
        \/ st.cond = "clear" /\ st' = st /\ todo' = Nothing
        \/ /\ st.cond = "clear" /\ st.age >= ClearDelay
           /\ st' = At(FALSE, "none") /\ todo' = [op |-> "clear", sev |-> "none"]
  \/ /\ Band(l, value) # "normal" /\ ~st.active
     /\ \/ st.cond # Band(l, value) /\ st' = At(FALSE, Band(l, value)) /\ todo' = Nothing
        \/ st.cond = Band(l, value) /\ st' = st /\ todo' = Nothing
        \/ /\ st.cond = Band(l, value) /\ st.age >= OnDelay(Band(l, value))
           /\ st' = At(TRUE, "none")
           /\ \E sev \in Severities : todo' = [op |-> "raise", sev |-> sev]

\* A good reading has one of the listed outcomes, and works on limits that were stored once.
LEMMA ReadingOutcome ==
  ASSUME IInv, NEW readable \in BOOLEAN, GoodReading(readable)
  PROVE  /\ Outcome(cache'.row)
         /\ cache' \in [row : Limits \cup {NoLimits}, age : 0..Lifetime]
         /\ todo.op = "none"
<1>1. cache' \in [row : Limits \cup {NoLimits}, age : 0..Lifetime]
  <2>1. cache' = Lookup(readable) /\ cache \in [row : Limits \cup {NoLimits}, age : 0..Lifetime]
    BY DEF GoodReading, IInv, Types
  <2>2. limits \in Limits
    BY DEF IInv, Types
  <2>3. [row |-> limits, age |-> 0] \in [row : Limits \cup {NoLimits}, age : 0..Lifetime]
    BY <2>2, DelayAssumption
  <2> QED
    BY <2>1, <2>3 DEF Lookup
<1>2. CalmReading(cache'.row) \/ OffReading(cache'.row)
  BY DEF GoodReading
<1>3. SeverityOf(cache'.row, Band(cache'.row, value)) \in Severities
  BY <1>1, SeverityType
<1> DEFINE l == cache'.row
<1> HIDE DEF l
<1>4. ASSUME CalmReading(l) PROVE Outcome(l)
  BY <1>4 DEF CalmReading, Believe, Settled, Disturbed, Outcome
<1>5. ASSUME OffReading(l) PROVE Outcome(l)
  BY <1>3, <1>5 DEF OffReading, Believe, Disturbed, Announced, Outcome, l
<1>6. todo.op = "none"
  BY DEF GoodReading, Nothing
<1> QED
  BY <1>1, <1>2, <1>4, <1>5, <1>6 DEF l

\* What the history says after a good reading: an off-normal one keeps the time of
\* the last calm one, one that is well inside the time of the last that was not.
LEMMA ReadingSince ==
  ASSUME IInv, NEW readable \in BOOLEAN, GoodReading(readable)
  PROVE  /\ since' \in [calm : 0..Horizon, off : 0..Horizon]
         /\ Band(cache'.row, value) # "normal" => since'.calm = since.calm
         /\ Band(cache'.row, value) = "normal" /\ WellInside(cache'.row, value)
              => since'.off = since.off
<1>1. since \in [calm : 0..Horizon, off : 0..Horizon]
  BY DEF IInv, Types
<1>2. \E c \in {0, since.calm}, o \in {0, since.off} :
        /\ since' = [since EXCEPT !.calm = c, !.off = o]
        /\ Band(cache'.row, value) # "normal" => c = since.calm
        /\ Band(cache'.row, value) = "normal" /\ WellInside(cache'.row, value) => o = since.off
  <2> DEFINE c == IF Band(cache'.row, value) = "normal" THEN 0 ELSE since.calm
             o == IF Band(cache'.row, value) = "normal" /\ WellInside(cache'.row, value)
                  THEN since.off ELSE 0
  <2>1. since' = [since EXCEPT !.calm = c, !.off = o]
    BY DEF GoodReading
  <2> QED
    BY <2>1
<1>3. PICK c \in {0, since.calm}, o \in {0, since.off} :
        /\ since' = [calm |-> c, off |-> o]
        /\ Band(cache'.row, value) # "normal" => c = since.calm
        /\ Band(cache'.row, value) = "normal" /\ WellInside(cache'.row, value) => o = since.off
  BY <1>1, <1>2
<1> QED
  BY <1>1, <1>3, HorizonIsNat

\* A good reading keeps belief, row and ages together (evaluateBand).
LEMMA ReadingPreserves ==
  ASSUME IInv, NEW readable \in BOOLEAN, GoodReading(readable)
  PROVE  IInv'
<1> DEFINE l == cache'.row
<1>1. /\ Outcome(l) /\ todo.op = "none"
      /\ cache' \in [row : Limits \cup {NoLimits}, age : 0..Lifetime]
  BY ReadingOutcome
<1>2. /\ since' \in [calm : 0..Horizon, off : 0..Horizon]
      /\ Band(l, value) # "normal" => since'.calm = since.calm
      /\ Band(l, value) = "normal" /\ WellInside(l, value) => since'.off = since.off
  BY ReadingSince
<1>3. /\ row' = row /\ limits' = limits /\ parted' = parted
      /\ row \in Alarm /\ limits \in Limits
      /\ st \in [active : BOOLEAN, cond : Conditions, age : 0..Horizon]
      /\ since'.calm \in 0..Horizon /\ since'.off \in 0..Horizon
  BY <1>2 DEF GoodReading, IInv, Types
<1>4. Band(l, value) # "normal" => Band(l, value) \in Bands
  BY BandIsOne
<1> HIDE DEF l
<1> DEFINE Kept == /\ st' \in [active : BOOLEAN, cond : Conditions, age : 0..Horizon]
                   /\ todo' = Nothing \/ todo' \in Statement
                   /\ PendingFits' /\ Dated' /\ RowMatchesBelief'
<1> USE HorizonIsNat DEF Nothing, At, Conditions, Bands, PendingFits, Dated, RowMatchesBelief, IInv
<1>5. ASSUME ~st.active /\ st' = At(FALSE, "none") /\ todo' = Nothing
      PROVE  Kept
  BY <1>1, <1>3, <1>5
<1>6. ASSUME st.active /\ st' = At(TRUE, "none") /\ todo' = Nothing
      PROVE  Kept
  BY <1>1, <1>3, <1>6
<1>7. ASSUME /\ Band(l, value) = "normal" /\ WellInside(l, value) /\ st.active
             /\ st' = At(TRUE, "clear") /\ todo' = Nothing
      PROVE  Kept
  BY <1>1, <1>2, <1>3, <1>7
<1>8. ASSUME /\ Band(l, value) = "normal" /\ WellInside(l, value) /\ st.active
             /\ st.cond = "clear" /\ st' = st /\ todo' = Nothing
      PROVE  Kept
  BY <1>1, <1>2, <1>3, <1>8
<1>9. ASSUME /\ st.active /\ st' = At(FALSE, "none") /\ todo' = [op |-> "clear", sev |-> "none"]
      PROVE  Kept
  BY <1>1, <1>3, <1>9 DEF Statement, Severities
<1>10. ASSUME /\ Band(l, value) # "normal" /\ ~st.active
              /\ st' = At(FALSE, Band(l, value)) /\ todo' = Nothing
      PROVE  Kept
  BY <1>1, <1>2, <1>3, <1>4, <1>10
<1>11. ASSUME /\ Band(l, value) # "normal" /\ ~st.active
              /\ st.cond = Band(l, value) /\ st' = st /\ todo' = Nothing
      PROVE  Kept
  BY <1>1, <1>2, <1>3, <1>4, <1>11
<1>12. ASSUME /\ ~st.active /\ st' = At(TRUE, "none")
              /\ \E sev \in Severities : todo' = [op |-> "raise", sev |-> sev]
      PROVE  Kept
  BY <1>1, <1>3, <1>12 DEF Statement
<1>13. Kept
  BY <1>1, <1>5, <1>6, <1>7, <1>8, <1>9, <1>10, <1>11, <1>12 DEF Outcome
<1> QED
  BY <1>1, <1>2, <1>3, <1>13 DEF Types

\* A statement makes the row agree with the belief (raise, clear).
LEMMA WritePreserves ==
  ASSUME IInv, Write PROVE IInv'
<1> DEFINE new == IF todo.op = "raise" THEN Raised(row, todo.sev) ELSE Cleared(row)
<1>1. /\ row' = new /\ todo' = Nothing
      /\ UNCHANGED <<value, limits, cache, st, faults, parted, since>>
  BY DEF Write
<1>2. todo.op \in {"raise", "clear"} /\ todo.sev \in Severities
  BY DEF Write, IInv, Types, Statement
<1>3. new \in Alarm /\ (IsActive(new) <=> todo.op = "raise")
  BY <1>2, AlarmOps DEF IInv, Types
<1> HIDE DEF new
<1>4. Types'
  BY <1>1, <1>3 DEF IInv, Types
<1>5. PendingFits' /\ Dated'
  BY <1>1 DEF IInv, PendingFits, Dated, Nothing
<1>6. RowMatchesBelief'
  BY <1>1, <1>2, <1>3 DEF IInv, PendingFits, RowMatchesBelief, Nothing
<1> QED
  BY <1>4, <1>5, <1>6 DEF IInv

\* A lost statement parts belief and row, and the history says so (engine.go raise,
\* clear: the error is logged only).
LEMMA WriteFailsPreserves ==
  ASSUME IInv, WriteFails PROVE IInv'
<1>1. /\ todo' = Nothing /\ parted' = TRUE
      /\ UNCHANGED <<value, limits, cache, st, row, since>>
  BY DEF WriteFails
<1> QED
  BY <1>1 DEF IInv, Types, PendingFits, Dated, RowMatchesBelief, Nothing

\* A new process believes in no alarm; the history says so if there is one (New).
LEMMA RestartPreserves ==
  ASSUME IInv, Restart PROVE IInv'
<1>1. /\ cache' = [row |-> NoLimits, age |-> Lifetime]
      /\ st' = At(FALSE, "none") /\ todo' = Nothing
      /\ parted' = (parted \/ IsActive(row))
      /\ UNCHANGED <<value, limits, row, since>>
  BY DEF Restart
<1>2. Types'
  <2>1. st' \in [active : BOOLEAN, cond : Conditions, age : 0..Horizon]
    BY <1>1, Memories DEF Conditions
  <2>2. cache' \in [row : Limits \cup {NoLimits}, age : 0..Lifetime]
    BY <1>1, DelayAssumption
  <2> QED
    BY <1>1, <2>1, <2>2 DEF IInv, Types
<1>3. PendingFits' /\ Dated'
  BY <1>1 DEF PendingFits, Dated, Nothing, At, Bands
<1>4. IsActive(row)' <=> IsActive(row)
  BY <1>1 DEF IsActive
<1>5. RowMatchesBelief'
  BY <1>1, <1>4 DEF RowMatchesBelief, Nothing, At
<1> QED
  BY <1>2, <1>3, <1>5 DEF IInv

\* An acknowledged alarm is as active as before (AckAlarm).
LEMMA AckPreserves ==
  ASSUME IInv, Ack PROVE IInv'
<1>1. row' = Acked(row) /\ UNCHANGED <<value, limits, cache, st, todo, faults, parted, since>>
  BY DEF Ack
<1>2. Acked(row) \in Alarm /\ (IsActive(Acked(row)) <=> IsActive(row))
  BY AlarmOps DEF IInv, Types, Severities
<1> QED
  BY <1>1, <1>2 DEF IInv, Types, PendingFits, Dated, RowMatchesBelief

\* Time ages the condition and the history alike.
LEMMA TickPreserves ==
  ASSUME IInv, Tick PROVE IInv'
<1> DEFINE age == IF st.cond = "none" THEN 0 ELSE Older(st.age, Horizon)
           calm == Older(since.calm, Horizon)
           off == Older(since.off, Horizon)
<1>1. /\ cache' = [cache EXCEPT !.age = Older(cache.age, Lifetime)]
      /\ st' = [st EXCEPT !.age = age]
      /\ since' = [calm |-> calm, off |-> off]
      /\ UNCHANGED <<value, limits, todo, row, faults, parted>>
  BY DEF Tick
<1>2. /\ st \in [active : BOOLEAN, cond : Conditions, age : 0..Horizon]
      /\ since.calm \in 0..Horizon /\ since.off \in 0..Horizon
      /\ cache \in [row : Limits \cup {NoLimits}, age : 0..Lifetime]
  BY DEF IInv, Types
<1>3. /\ age \in 0..Horizon /\ calm \in 0..Horizon /\ off \in 0..Horizon
      /\ Older(cache.age, Lifetime) \in 0..Lifetime
  BY <1>2, HorizonIsNat, DelayAssumption, OlderType
<1>4. /\ st.cond \in Bands => age <= calm
      /\ st.cond = "clear" => age <= off
      /\ st.cond = "none" => age = 0
  BY <1>2, HorizonIsNat, OlderKeepsOrder DEF IInv, Dated, Bands
<1> HIDE DEF age, calm, off
<1>5. st'.active = st.active /\ st'.cond = st.cond /\ st'.age = age
  BY <1>1, <1>2
<1>6. Types'
  BY <1>1, <1>2, <1>3 DEF IInv, Types
<1>7. Dated'
  BY <1>1, <1>4, <1>5 DEF IInv, Dated
<1>8. PendingFits' /\ RowMatchesBelief'
  BY <1>1, <1>5 DEF IInv, PendingFits, RowMatchesBelief, IsActive
<1> QED
  BY <1>6, <1>7, <1>8 DEF IInv

\* Every step of engine, table and plant keeps the invariant.
LEMMA StepPreserves ==
  IInv /\ [Next]_vars => IInv'
<1> SUFFICES ASSUME IInv, [Next]_vars PROVE IInv'
  OBVIOUS
<1>1. ASSUME \E readable \in BOOLEAN : GoodReading(readable) PROVE IInv'
  BY <1>1, ReadingPreserves
<1>2. ASSUME UNCHANGED vars PROVE IInv'
  BY <1>2 DEF vars, IInv, Types, PendingFits, Dated, RowMatchesBelief, IsActive
<1>3. CASE Write
  BY <1>3, WritePreserves
<1>4. CASE WriteFails
  BY <1>4, WriteFailsPreserves
<1>5. CASE Restart
  BY <1>5, RestartPreserves
<1>6. CASE Ack
  BY <1>6, AckPreserves
<1>7. ASSUME NEW l \in Limits, SetLimits(l) PROVE IInv'
  BY <1>7 DEF SetLimits, IInv, Types, PendingFits, Dated, RowMatchesBelief, IsActive
<1>8. ASSUME NEW v \in Values, PlantMoves(v) PROVE IInv'
  BY <1>8 DEF PlantMoves, IInv, Types, PendingFits, Dated, RowMatchesBelief, IsActive
<1>9. CASE Tick
  BY <1>9, TickPreserves
<1> QED
  BY <1>1, <1>2, <1>3, <1>4, <1>5, <1>6, <1>7, <1>8, <1>9 DEF Next, GapReading

\* Only a good reading prepares a statement (evaluateBand is what calls raise and clear).
LEMMA OnlyReadingsSpeak ==
  ASSUME IInv, [Next]_vars, todo'.op # "none", todo'.op # todo.op
  PROVE  \E readable \in BOOLEAN : GoodReading(readable)
<1>1. CASE todo' = todo \/ todo' = Nothing
  BY <1>1 DEF Nothing
<1>2. CASE ~(todo' = todo \/ todo' = Nothing)
  BY <1>2 DEF Next, vars, GapReading, Write, WriteFails, Restart, Ack, SetLimits, PlantMoves, Tick
<1> QED
  BY <1>1, <1>2

\* A raise follows a full on-delay without a calm reading, a clear a full clear
\* delay without any other (evaluateBand).
LEMMA DelaysKept ==
  ASSUME IInv, [Next]_vars
  PROVE  /\ todo.op # "raise" /\ todo'.op = "raise"
              => since.calm >= OnDelay(Band(cache'.row, value))
         /\ todo.op # "clear" /\ todo'.op = "clear" => since.off >= ClearDelay
<1> SUFFICES ASSUME todo'.op \in {"raise", "clear"}, todo'.op # todo.op
             PROVE  /\ todo'.op = "raise" => since.calm >= OnDelay(Band(cache'.row, value))
                    /\ todo'.op = "clear" => since.off >= ClearDelay
  OBVIOUS
<1> DEFINE band == Band(cache'.row, value)
<1>1. PICK readable \in BOOLEAN : GoodReading(readable)
  BY OnlyReadingsSpeak
<1>2. Outcome(cache'.row)
  BY <1>1, ReadingOutcome
<1>3. band \in Bands \cup {"normal"} /\ OnDelay(band) \in Nat
  BY BandIsOne, OnDelayType
<1>4. /\ st.age \in 0..Horizon /\ since.calm \in 0..Horizon /\ since.off \in 0..Horizon
      /\ Horizon \in Nat /\ ClearDelay \in Nat
  BY HorizonIsNat, DelayAssumption DEF IInv, Types
<1>5. /\ todo'.op = "raise" => band # "normal" /\ st.cond = band /\ st.age >= OnDelay(band)
      /\ todo'.op = "clear" => st.cond = "clear" /\ st.age >= ClearDelay
  <2> DEFINE l == cache'.row
  <2>1. Outcome(l) /\ band = Band(l, value)
    BY <1>2
  <2> HIDE DEF l, band
  <2>2. ASSUME todo'.op = "raise"
        PROVE  band # "normal" /\ st.cond = band /\ st.age >= OnDelay(band)
    <3>1. todo' # Nothing /\ todo' # [op |-> "clear", sev |-> "none"]
      BY <2>2 DEF Nothing
    <3> QED
      BY <2>1, <3>1 DEF Outcome
  <2>3. ASSUME todo'.op = "clear"
        PROVE  st.cond = "clear" /\ st.age >= ClearDelay
    <3>1. todo' # Nothing /\ \A sev \in Severities : todo' # [op |-> "raise", sev |-> sev]
      BY <2>3 DEF Nothing
    <3> QED
      BY <2>1, <3>1 DEF Outcome
  <2> QED
    BY <2>2, <2>3
<1>6. /\ st.cond \in Bands => st.age <= since.calm
      /\ st.cond = "clear" => st.age <= since.off
  BY DEF IInv, Dated
<1> HIDE DEF band
<1>7. /\ todo'.op = "raise" => since.calm >= OnDelay(band)
      /\ todo'.op = "clear" => since.off >= ClearDelay
  BY <1>3, <1>4, <1>5, <1>6
<1> QED
  BY <1>7 DEF band

-----------------------------------------------------------------------------
\* So it holds in every behaviour.
LEMMA IInvAlways == Spec => []IInv
  BY InitEstablishes, StepPreserves, PTL DEF Spec

\* While no statement was lost and no process restarted under a raised alarm, the
\* row is active exactly when the engine believes so (evaluateBand, raise, clear).
THEOREM RowMatchesBeliefAlways == Spec => []RowMatchesBelief
<1>1. IInv => RowMatchesBelief
  BY DEF IInv
<1> QED
  BY <1>1, IInvAlways, PTL

\* No alarm is raised before its on-delay has passed without a calm reading, however
\* limits, cache, value, faults and restarts interleave (evaluateBand).
THEOREM NoEarlyRaiseAlways == Spec => NoEarlyRaise
<1>1. IInv /\ [Next]_vars =>
        [todo.op # "raise" /\ todo'.op = "raise" =>
           since.calm >= OnDelay(Band(cache'.row, value))]_vars
  BY DelaysKept
<1> QED
  BY <1>1, IInvAlways, PTL DEF Spec, NoEarlyRaise

\* No alarm is cleared before the clear delay has passed with every good reading well
\* inside the limits (evaluateBand).
THEOREM NoEarlyClearAlways == Spec => NoEarlyClear
<1>1. IInv /\ [Next]_vars =>
        [todo.op # "clear" /\ todo'.op = "clear" => since.off >= ClearDelay]_vars
  BY DelaysKept
<1> QED
  BY <1>1, IInvAlways, PTL DEF Spec, NoEarlyClear
=============================================================================
