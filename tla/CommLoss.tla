------------------------------- MODULE CommLoss ------------------------------
(***************************************************************************)
(* The communication-loss watchdog of the alarm engine: readings note when *)
(* an asset was last heard of, a sweep every two seconds raises and clears *)
(* the alarm "comm:<asset>".  As in BandAlarm the engine changes its       *)
(* memory first and executes the statements afterwards, outside the mutex. *)
(*                                                                         *)
(* An operator directly before another one with the same parameters is a   *)
(* mutated form of it, used by mutation runs only.                         *)
(***************************************************************************)
EXTENDS Integers, FiniteSets, AlarmTable

CONSTANTS
  Assets,     \* what ListAssets returns
  LossAfter,  \* commLossAfter in units of time
  MaxFaults   \* bound on failed statements plus restarts

ASSUME AssetsAssumption == IsFiniteSet(Assets)
ASSUME LossAssumption == LossAfter \in Nat \ {0}
ASSUME FaultsAssumption == MaxFaults \in Nat

VARIABLES
  comm,    \* comm[a]: assetComm, age is the time since lastGood
  todo,    \* todo[a]: statement of the running sweep still to be executed
  row,     \* row[a]: the alarms row "comm:<a>"
  faults,
  parted   \* history: assets whose belief and row may have parted

vars == <<comm, todo, row, faults, parted>>

Older(age) == IF age < LossAfter THEN age + 1 ELSE LossAfter

\* No entry in the map; an entry made by the sweep has the zero time.
Unknown == [known |-> FALSE, age |-> LossAfter, raised |-> FALSE]

Init ==
  /\ comm = [a \in Assets |-> Unknown]
  /\ todo = [a \in Assets |-> "none"]
  /\ row = [a \in Assets |-> NoAlarm]
  /\ faults = 0
  /\ parted = {}

HeardAnew(c) == [known |-> TRUE, age |-> 0, raised |-> FALSE]
\* noteGood: an existing entry keeps its mark.
Heard(c) == [known |-> TRUE, age |-> 0, raised |-> c.raised]

\* Evaluate: every numeric reading counts, the stand-in number of a gap too.
Reading(a) ==
  /\ comm' = [comm EXCEPT ![a] = Heard(@)]
  /\ UNCHANGED <<todo, row, faults, parted>>

FreshOrUnknown(c) == ~c.known \/ c.age < LossAfter
Fresh(c) == c.known /\ c.age < LossAfter

MarkedNever(c) == [c EXCEPT !.known = TRUE]
Marked(c) == [c EXCEPT !.known = TRUE, !.raised = TRUE]

\* Sweep, under the mutex: decide for every asset; the ticker does not start
\* the next sweep before this one is done.
Sweep ==
  /\ \A a \in Assets : todo[a] = "none"
  /\ comm' = [a \in Assets |->
                CASE ~Fresh(comm[a])                     -> Marked(comm[a])
                  [] Fresh(comm[a]) /\ comm[a].raised    -> [comm[a] EXCEPT !.raised = FALSE]
                  [] OTHER                               -> comm[a]]
  /\ todo' = [a \in Assets |->
                CASE ~Fresh(comm[a]) /\ ~comm[a].raised  -> "raise"
                  [] Fresh(comm[a]) /\ comm[a].raised    -> "clear"
                  [] OTHER                               -> "none"]
  /\ UNCHANGED <<row, faults, parted>>

\* The statements follow, all raises before the clears.
Turn(a) ==
  \/ todo[a] = "raise"
  \/ todo[a] = "clear" /\ \A b \in Assets : todo[b] # "raise"

Write(a) ==
  /\ Turn(a)
  /\ row' = [row EXCEPT ![a] = IF todo[a] = "raise" THEN Raised(@, "medium") ELSE Cleared(@)]
  /\ todo' = [todo EXCEPT ![a] = "none"]
  /\ UNCHANGED <<comm, faults, parted>>

WriteFails(a) ==
  /\ Turn(a)
  /\ faults < MaxFaults
  /\ faults' = faults + 1
  /\ todo' = [todo EXCEPT ![a] = "none"]
  /\ parted' = parted \cup {a}
  /\ UNCHANGED <<comm, row>>

Restart ==
  /\ faults < MaxFaults
  /\ faults' = faults + 1
  /\ comm' = [a \in Assets |-> Unknown]
  /\ todo' = [a \in Assets |-> "none"]
  /\ parted' = parted \cup {a \in Assets : IsActive(row[a])}
  /\ UNCHANGED <<row>>

Ack(a) ==
  /\ row[a].st = "unack"
  /\ row' = [row EXCEPT ![a] = Acked(@)]
  /\ UNCHANGED <<comm, todo, faults, parted>>

Tick ==
  /\ comm' = [a \in Assets |-> [comm[a] EXCEPT !.age = Older(@)]]
  /\ UNCHANGED <<todo, row, faults, parted>>

Next ==
  \/ Sweep
  \/ Restart
  \/ Tick
  \/ \E a \in Assets :
       \/ Reading(a)
       \/ Write(a)
       \/ WriteFails(a)
       \/ Ack(a)

Spec == Init /\ [][Next]_vars

\* Time passes, the ticker keeps sweeping, a statement is answered.  Nobody owes
\* a reading.
FairSpec ==
  Spec /\ WF_vars(Tick) /\ WF_vars(Sweep) /\ \A a \in Assets : WF_vars(Write(a))

-----------------------------------------------------------------------------
\* Types; an asset without an entry carries no mark (engine.go assetComm).
TypeOK ==
  /\ comm \in [Assets -> [known : BOOLEAN, age : 0..LossAfter, raised : BOOLEAN]]
  /\ todo \in [Assets -> {"none", "raise", "clear"}]
  /\ row \in [Assets -> Alarm]
  /\ faults \in 0..MaxFaults
  /\ parted \subseteq Assets

\* The row is active exactly when the asset is marked, the statement on its way
\* excepted, unless a statement was lost or the process restarted meanwhile
\* (Sweep marks first and writes later).
RowMatchesMark ==
  \A a \in Assets \ parted :
    IsActive(row[a]) <=> (comm[a].raised /\ todo[a] # "raise") \/ todo[a] = "clear"

\* An asset nothing is heard of any more is announced, one that never said
\* anything included (Sweep; TestCommLossWatchdog).
SilenceAnnounced ==
  \A a \in Assets :
    <>[](comm[a].age = LossAfter) => <>[](a \in parted \/ IsActive(row[a]))

\* An asset that keeps delivering is relieved of its alarm for good.
RecoveryClears ==
  \A a \in Assets :
    <>[](comm[a].age < LossAfter) => <>[](a \in parted \/ ~IsActive(row[a]))
=============================================================================
