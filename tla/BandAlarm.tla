------------------------------ MODULE BandAlarm ------------------------------
(***************************************************************************)
(* The band alarm of one tag: the alarm engine classifies every good       *)
(* reading against the rationalised limits, delays raising and clearing,   *)
(* and writes the outcome to the alarms row.                               *)
(*                                                                         *)
(* The engine remembers what it believes (st) in process memory and        *)
(* changes it BEFORE the statement on the alarms table, so the belief and  *)
(* the row part when that statement fails or the process restarts.  The    *)
(* limits come from a cache with a lifetime, not from the table.           *)
(*                                                                         *)
(* Time passes in units; ages stop counting at the largest value anything  *)
(* is compared with.  Readings of one tag are evaluated one after the      *)
(* other, as the gateway's single sender delivers them.  Both limit        *)
(* lookups of one evaluation are taken as one.                             *)
(*                                                                         *)
(* An operator directly before another one with the same parameters is a   *)
(* mutated form of it, used by mutation runs only.                         *)
(***************************************************************************)
EXTENDS Integers, AlarmTable

CONSTANTS
  Values,      \* values the tag can take
  Limits,      \* rows engineers may store in alarm_limits
  Span,        \* engineering span of the tag, 0 when it has none
  Percent,     \* the hysteresis is one Percent-th of the span (100 in the code)
  OnCritical,  \* onDelayCritical, onDelayDefault, clearDelay and the lifetime
  OnDefault,   \* of the limits cache, in units of time
  ClearDelay,
  Lifetime,
  MaxFaults    \* bound on failed statements plus restarts

Bands == {"hi_hi", "lo_lo", "hi", "lo"}

\* A row: "at" is defined on the boundaries that are not NULL.  A deleted row
\* is a disabled one without boundaries.
IsLimitRow(l) ==
  \E S \in SUBSET Bands :
    l \in [enabled : BOOLEAN, at : [S -> Int], sev : Severities \ {"none"}]

ASSUME ValuesAssumption == Values \subseteq Int /\ Values # {}
ASSUME LimitsAssumption == Limits # {} /\ \A l \in Limits : IsLimitRow(l)
ASSUME SpanAssumption == Span \in Nat /\ Percent \in Nat \ {0}
ASSUME DelayAssumption ==
  /\ OnCritical \in Nat /\ OnDefault \in Nat
  /\ ClearDelay \in Nat /\ Lifetime \in Nat \ {0}
ASSUME FaultsAssumption == MaxFaults \in Nat

VARIABLES
  value,   \* the process value behind the readings
  limits,  \* the alarm_limits row of the tag
  cache,   \* the engine's copy of it, and how old the copy is
  st,      \* bandState: [active, cond, age]; age is the time since condSince
  todo,    \* the statement the engine is about to execute
  row,     \* the alarms row of the tag
  faults,
  parted,  \* history: belief and row may have parted
  since    \* history: time since a calm reading, and since an
           \* off-normal or nearly off-normal one

vars == <<value, limits, cache, st, todo, row, faults, parted, since>>

-----------------------------------------------------------------------------
(* Pure parts. *)

\* The value lies on the wrong side of boundary b, or within "by" of it.
Hits(at, b, v, by) ==
  /\ b \in DOMAIN at
  /\ IF b \in {"hi_hi", "hi"} THEN v >= at[b] - by ELSE v <= at[b] + by

\* classify: worst first.
Classify(at, v) ==
  IF Hits(at, "hi_hi", v, 0) THEN "hi_hi"
  ELSE IF Hits(at, "lo_lo", v, 0) THEN "lo_lo"
  ELSE IF Hits(at, "hi", v, 0) THEN "hi"
  ELSE IF Hits(at, "lo", v, 0) THEN "lo" ELSE "normal"

\* worstThreshold: the first boundary present, in this order.
WorstThreshold(at) ==
  IF "hi_hi" \in DOMAIN at THEN at["hi_hi"]
  ELSE IF "hi" \in DOMAIN at THEN at["hi"]
  ELSE IF "lo" \in DOMAIN at THEN at["lo"]
  ELSE IF "lo_lo" \in DOMAIN at THEN at["lo_lo"] ELSE 0

Hysteresis(at) ==
  LET w == WorstThreshold(at)
  IN  (IF Span > 0 THEN Span ELSE IF w < 0 THEN -w ELSE w) \div Percent

\* The band a good reading falls in; a disabled row has none.
Band(l, v) == IF l.enabled THEN Classify(l.at, v) ELSE "normal"

\* Far enough inside the limits to return to normal.
WellInside(l, v) == \A b \in Bands : ~Hits(l.at, b, v, Hysteresis(l.at))

OnDelay(band) == IF band \in {"hi_hi", "lo_lo"} THEN OnCritical ELSE OnDefault

\* raise: the row's severity is kept for the critical bands only.
SeverityOf(l, band) == IF band \in {"hi", "lo"} THEN "medium" ELSE l.sev

Larger(a, b) == IF a > b THEN a ELSE b
Horizon == Larger(Larger(OnCritical, OnDefault), Larger(ClearDelay, Lifetime))
Older(age, last) == IF age < last THEN age + 1 ELSE last

\* An engine that never read the table knows no limits.
NoLimits == [enabled |-> FALSE, at |-> [b \in {} |-> 0], sev |-> "medium"]

Nothing == [op |-> "none", sev |-> "none"]
At(a, c) == [active |-> a, cond |-> c, age |-> 0]

(* What evaluateBand remembers. *)

\* An alarm that is not raised meets a value inside the limits.
SettledKeepsTimer == st
Settled == At(FALSE, "none")

\* A raised alarm meets a value outside or nearly outside the limits.
DisturbedKeepsTimer == st
Disturbed == At(TRUE, "none")

\* The on-delay is over.
AnnouncedForgets == At(FALSE, "none")
Announced == At(TRUE, "none")

-----------------------------------------------------------------------------
Init ==
  /\ value \in Values
  /\ limits \in Limits
  /\ cache = [row |-> NoLimits, age |-> Lifetime]
  /\ st = At(FALSE, "none")
  /\ todo = Nothing
  /\ row = NoAlarm
  /\ faults = 0
  /\ parted = FALSE
  /\ since = [calm |-> 0, off |-> 0]

SlidingLookup(readable) ==
  IF cache.age < Lifetime THEN [cache EXCEPT !.age = 0]
  ELSE IF readable THEN [row |-> limits, age |-> 0] ELSE cache
\* limitsFor: a failed query leaves the expired copy in use.
Lookup(readable) ==
  IF cache.age < Lifetime THEN cache
  ELSE IF readable THEN [row |-> limits, age |-> 0] ELSE cache

Believe(s, statement) == st' = s /\ todo' = statement

\* A good reading inside the limits.
CalmReading(l) ==
  /\ Band(l, value) = "normal"
  /\ \/ ~st.active /\ Believe(Settled, Nothing)
     \/ st.active /\ ~WellInside(l, value) /\ Believe(Disturbed, Nothing)
     \/ /\ st.active /\ WellInside(l, value)
        /\ \/ st.cond # "clear" /\ Believe(At(TRUE, "clear"), Nothing)
           \/ st.cond = "clear" /\ st.age < ClearDelay /\ Believe(st, Nothing)
           \/ /\ st.cond = "clear" /\ st.age >= ClearDelay
              /\ Believe(At(FALSE, "none"), [op |-> "clear", sev |-> "none"])

\* A good reading in an off-normal band.
OffReading(l) ==
  LET band == Band(l, value) IN
  /\ band # "normal"
  /\ \/ st.active /\ Believe(Disturbed, Nothing)
     \/ ~st.active /\ st.cond # band /\ Believe(At(FALSE, band), Nothing)
     \/ /\ ~st.active /\ st.cond = band /\ st.age < OnDelay(band)
        /\ Believe(st, Nothing)
     \/ /\ ~st.active /\ st.cond = band /\ st.age >= OnDelay(band)
        /\ Believe(Announced, [op |-> "raise", sev |-> SeverityOf(l, band)])

\* Evaluate for a reading of good quality.
GoodReading(readable) ==
  LET copy == Lookup(readable) IN
  /\ todo = Nothing
  /\ readable \/ (cache.age = Lifetime /\ faults < MaxFaults)
  /\ faults' = IF readable THEN faults ELSE faults + 1
  /\ cache' = copy
  /\ CalmReading(copy.row) \/ OffReading(copy.row)
  /\ since' = [since EXCEPT
                 !.calm = IF Band(copy.row, value) = "normal" THEN 0 ELSE @,
                 !.off  = IF Band(copy.row, value) = "normal" /\ WellInside(copy.row, value)
                          THEN @ ELSE 0]
  /\ UNCHANGED <<value, limits, row, parted>>

\* Any other quality freezes the band state.
GapReading ==
  /\ todo = Nothing
  /\ UNCHANGED vars

\* raise and clear: the statement on the alarms row.
Write ==
  /\ todo # Nothing
  /\ row' = IF todo.op = "raise" THEN Raised(row, todo.sev) ELSE Cleared(row)
  /\ todo' = Nothing
  /\ UNCHANGED <<value, limits, cache, st, faults, parted, since>>

\* It fails: the error is logged, the belief stays.
WriteFails ==
  /\ todo # Nothing
  /\ faults < MaxFaults
  /\ faults' = faults + 1
  /\ todo' = Nothing
  /\ parted' = TRUE
  /\ UNCHANGED <<value, limits, cache, st, row, since>>

\* capd starts again: New has an empty memory and no limits.
Restart ==
  /\ faults < MaxFaults
  /\ faults' = faults + 1
  /\ cache' = [row |-> NoLimits, age |-> Lifetime]
  /\ st' = At(FALSE, "none")
  /\ todo' = Nothing
  /\ parted' = (parted \/ IsActive(row))
  /\ UNCHANGED <<value, limits, row, since>>

\* The operator acknowledges; AckAlarm refuses every other state.
Ack ==
  /\ row.st = "unack"
  /\ row' = Acked(row)
  /\ UNCHANGED <<value, limits, cache, st, todo, faults, parted, since>>

\* RationaliseAlarmLimit and DeleteAlarmLimit.
SetLimits(l) ==
  /\ limits' = l
  /\ UNCHANGED <<value, cache, st, todo, row, faults, parted, since>>

PlantMoves(v) ==
  /\ value' = v
  /\ UNCHANGED <<limits, cache, st, todo, row, faults, parted, since>>

Tick ==
  /\ cache' = [cache EXCEPT !.age = Older(@, Lifetime)]
  /\ st' = [st EXCEPT !.age = IF st.cond = "none" THEN 0 ELSE Older(@, Horizon)]
  /\ since' = [calm |-> Older(since.calm, Horizon), off |-> Older(since.off, Horizon)]
  /\ UNCHANGED <<value, limits, todo, row, faults, parted>>

Next ==
  \/ GoodReading(TRUE)
  \/ GoodReading(FALSE)
  \/ GapReading
  \/ Write
  \/ WriteFails
  \/ Restart
  \/ Ack
  \/ \E l \in Limits : SetLimits(l)
  \/ \E v \in Values : PlantMoves(v)
  \/ Tick

Spec == Init /\ [][Next]_vars

\* Time passes, good readings keep coming (the gateway samples on a ticker) and
\* a statement is answered.
FairSpec ==
  Spec /\ WF_vars(Tick) /\ WF_vars(GoodReading(TRUE)) /\ WF_vars(Write)

-----------------------------------------------------------------------------
\* Unless a statement was lost or the process restarted under a raised alarm,
\* the row is active exactly when the engine believes so, the statement on its
\* way excepted (evaluateBand sets st.active before raise and clear run).
RowMatchesBelief ==
  parted \/ (IsActive(row) <=> (st.active /\ todo.op # "raise") \/ todo.op = "clear")

\* The alarm is raised only after every good reading of the whole on-delay was
\* off-normal ("a hi_hi excursion shorter than the 3 s critical on-delay raises
\* nothing", engine_test.go TestCriticalBandDelay).
NoEarlyRaise ==
  [][todo.op # "raise" /\ todo'.op = "raise" =>
       since.calm >= OnDelay(Band(cache'.row, value))]_vars

\* It is cleared only after every good reading of the clear delay was inside
\* the limits by more than the hysteresis (TestClearRequiresHysteresisAndDelay).
NoEarlyClear ==
  [][todo.op # "clear" /\ todo'.op = "clear" => since.off >= ClearDelay]_vars

\* A value that stays in one band is announced, unless the announcement was lost.
HeldRaises ==
  \A l \in Limits : \A v \in Values :
    Band(l, v) # "normal" =>
      (<>[](value = v /\ limits = l) => []<>(parted \/ IsActive(row)))

\* A value that stays well inside the limits ends the alarm for good, unless
\* engine and row have parted.
CalmClears ==
  \A l \in Limits : \A v \in Values :
    Band(l, v) = "normal" /\ WellInside(l, v) =>
      (<>[](value = v /\ limits = l) => <>[](parted \/ ~IsActive(row)))
=============================================================================
