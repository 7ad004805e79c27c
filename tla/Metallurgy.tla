------------------------------ MODULE Metallurgy -----------------------------
(***************************************************************************)
(* Ingested readings, the value the server takes for the present one       *)
(* (LatestGoodNumericReading), and the metallurgical balance computed from *)
(* it every five seconds and written back as virtual tags.  Numbers are    *)
(* integers: flows in t/h, grades in hundredths of a percent.              *)
(*                                                                         *)
(* An operator directly before another one with the same parameters is a   *)
(* mutated form of it, used by mutation runs only.                         *)
(***************************************************************************)
EXTENDS Integers, Sequences, SequencesExt

CONSTANTS
  SourceOrder,   \* the sequence of source tags, as Collect reads them
  Assays,        \* what the field may measure: functions from sources to numbers
  Unheard,       \* the sets of sources that may have no reading at the start (bound)
  Qualities,     \* qualities the gateways send
  VirtualTags,   \* the virtual tags the registry knows; ingest rejects the others
  MaxReadings,   \* bound on readings
  MaxFailures    \* bound on failed writes plus restarts

Sources == Range(SourceOrder)

Kpis == {"epsilon", "gamma", "upgrade", "balance_err", "bond", "cl", "q_collector"}

ASSUME OrderAssumption == SourceOrder \in Seq(Sources) \ {<<>>}
\* Flows and grades are not negative.
ASSUME AssaysAssumption == \A x \in Assays : x \in [Sources -> Nat]
ASSUME UnheardAssumption == \A quiet \in Unheard : quiet \subseteq Sources
ASSUME QualitiesAssumption ==
  Qualities \subseteq {"good", "uncertain", "bad", "offline", "stale", "substituted"}
ASSUME TagsAssumption == VirtualTags \subseteq Kpis

VARIABLES
  latest,    \* latest[s]: what LatestGoodNumericReading returns for s
  view,      \* values Collect has read in this tick, in the order of SourceOrder
  phase,     \* "idle", "collect" or "write"
  todo,      \* virtual tags this tick still has to write
  done,      \* virtual tags whose message id of the current bucket is taken
  calc,      \* calc[k]: the newest reading of virtual tag k
  readings, failures

calcVars == <<latest, view, phase, todo, done, calc, readings, failures>>

None == [v |-> 0, real |-> FALSE, ok |-> FALSE]
Number(n) == [v |-> n, real |-> TRUE, ok |-> TRUE]
Placeholder == [v |-> 0, real |-> FALSE, ok |-> TRUE]

-----------------------------------------------------------------------------
(* Ingest.                                                                 *)

IsGap(q) == q \in {"offline", "stale", "substituted"}
\* A gap is stored as a zero.
Normalized(q, n) == IF IsGap(q) THEN Placeholder ELSE Number(n)

SeenAll(q) == TRUE
\* The query of LatestGoodNumericReading.
Seen(q) == q \notin {"offline", "stale"}

\* A reading observed before the present one is history, however late it comes.
Ingest(s) ==
  /\ readings < MaxReadings
  /\ readings' = readings + 1
  /\ \E q \in Qualities, x \in Assays, backlog \in BOOLEAN :
       latest' = IF Seen(q) /\ (backlog => ~latest[s].ok)
                   THEN [latest EXCEPT ![s] = Normalized(q, x[s])] ELSE latest
  /\ UNCHANGED <<view, phase, todo, done, calc, failures>>

-----------------------------------------------------------------------------
(* Compute, on the values of one Collect.                                  *)

\* A source without a reading, or one that is not there, counts as 0.
Of(vs, s) == IF s \in Sources THEN vs[CHOOSE i \in DOMAIN SourceOrder : SourceOrder[i] = s] ELSE None
Val(vs, s) == Of(vs, s).v
OK(vs, s) == Of(vs, s).ok

Feed(vs) == Val(vs, "fi101")
Alpha(vs) == Val(vs, "afi301")
Beta(vs) == Val(vs, "afc301")
Theta(vs) == Val(vs, "aft301")

Magnitude(n) == IF n < 0 THEN -n ELSE n

CoreOK(vs) == \A s \in {"fi101", "afi301", "afc301", "aft301"} : OK(vs, s)

\* TwoProduct answers with zeros outside its domain.
Separates(vs) == Alpha(vs) > 0 /\ Beta(vs) > Theta(vs) /\ Alpha(vs) > Theta(vs)

\* |balanceErr| <= 2 %; without feed the error counts as 0.
Closes(vs) ==
  Feed(vs) > 0 =>
    100 * Magnitude(Feed(vs) - Val(vs, "wi301") - Val(vs, "wi302")) <= 2 * Feed(vs)

GradeOK(vs) == Closes(vs) /\ Beta(vs) > 0 /\ Beta(vs) < 4000 /\ Theta(vs) < Alpha(vs)

CheckOKAlways(vs) == TRUE
\* |delta| <= 5 %: recovery by mass against recovery by grades, multiplied out;
\* without metal in the feed delta is 100 %.
CheckOK(vs) ==
  Separates(vs) /\ Beta(vs) > 0 =>
    LET byGrade == Feed(vs) * (Alpha(vs) - Theta(vs))
        byMass == Val(vs, "wi301") * (Beta(vs) - Theta(vs)) IN
    byGrade > 0 /\ 100 * Magnitude(byGrade - byMass) <= 5 * byGrade

Valid(vs) == CoreOK(vs) /\ GradeOK(vs) /\ CheckOK(vs)

\* The sources of a virtual tag besides the core; cl and q_collector divide by
\* the feed.
Inputs(k) ==
  CASE k \in {"epsilon", "gamma"} -> {"afi301", "afc301", "aft301"}
    [] k = "upgrade" -> {"afi301", "afc301"}
    [] k = "balance_err" -> {"fi101", "wi301", "wi302"}
    [] k = "bond" -> {"xi201"}
    [] k = "cl" -> {"fi202", "di202", "fi101"}
    [] k = "q_collector" -> {"qi301", "fi101"}

Computed(vs) ==
  {"epsilon", "gamma", "upgrade", "balance_err"}
    \cup {k \in {"bond"} : OK(vs, "xi201") /\ OK(vs, "fi101")}
    \cup {k \in {"cl"} : OK(vs, "fi202") /\ OK(vs, "di202") /\ Feed(vs) > 0}
    \cup {k \in {"q_collector"} : OK(vs, "qi301") /\ Feed(vs) > 0}

\* The formulas, rounded down; Bond energy and circulating load are uninterpreted.
Formula(k, vs) ==
  CASE k = "epsilon" /\ Separates(vs) ->
         (100 * Beta(vs) * (Alpha(vs) - Theta(vs))) \div (Alpha(vs) * (Beta(vs) - Theta(vs)))
    [] k = "gamma" /\ Separates(vs) ->
         (100 * (Alpha(vs) - Theta(vs))) \div (Beta(vs) - Theta(vs))
    [] k = "upgrade" /\ Separates(vs) -> Beta(vs) \div Alpha(vs)
    [] k = "balance_err" /\ Feed(vs) > 0 ->
         (100 * (Feed(vs) - Val(vs, "wi301") - Val(vs, "wi302"))) \div Feed(vs)
    [] k = "q_collector" -> (60 * Val(vs, "qi301")) \div Feed(vs)
    [] OTHER -> 0

\* A result with the provenance of its inputs.
Result(k, vs) ==
  [v |-> Formula(k, vs), ok |-> TRUE,
   real |-> \A s \in Inputs(k) : OK(vs, s) => Of(vs, s).real]

-----------------------------------------------------------------------------
(* The service.                                                            *)

CalcInit ==
  /\ \E x \in Assays, quiet \in Unheard :
       latest = [s \in Sources |-> IF s \in quiet THEN None ELSE Number(x[s])]
  /\ view = <<>> /\ phase = "idle" /\ todo = {} /\ done = {}
  /\ calc = [k \in Kpis |-> None]
  /\ readings = 0 /\ failures = 0

BeginTick ==
  /\ phase = "idle"
  /\ phase' = "collect"
  /\ view' = <<>>
  /\ UNCHANGED <<latest, todo, done, calc, readings, failures>>

\* Every source is a query of its own; an invalid snapshot writes nothing.
Collect ==
  /\ phase = "collect"
  /\ view' = Append(view, latest[SourceOrder[Len(view) + 1]])
  /\ IF Len(view') < Len(SourceOrder) THEN UNCHANGED <<phase, todo>>
     ELSE /\ todo' = IF Valid(view') THEN Computed(view') \cap VirtualTags ELSE {}
          /\ phase' = IF todo' = {} THEN "idle" ELSE "write"
  /\ UNCHANGED <<latest, done, calc, readings, failures>>

Written(k) ==
  /\ k \in todo
  /\ todo' = todo \ {k}
  /\ phase' = IF todo' = {} THEN "idle" ELSE "write"
  /\ view' = IF todo' = {} THEN <<>> ELSE view
  /\ UNCHANGED <<latest, readings>>

\* The message id names the tag and the bucket: the second one is a duplicate.
Write(k) ==
  /\ Written(k)
  /\ calc' = IF k \in done THEN calc ELSE [calc EXCEPT ![k] = Result(k, view)]
  /\ done' = done \cup {k}
  /\ UNCHANGED failures

Fails ==
  /\ failures < MaxFailures
  /\ failures' = failures + 1

WriteFails(k) == Fails /\ Written(k) /\ UNCHANGED <<calc, done>>

CalcRestart ==
  /\ Fails
  /\ view' = <<>> /\ phase' = "idle" /\ todo' = {}
  /\ UNCHANGED <<latest, done, calc, readings>>

IdsForever(ids) == ids
\* The ids of the next bucket are free.
IdsTaken(ids) == {}

NextBucket ==
  /\ done # {}
  /\ done' = IdsTaken(done)
  /\ UNCHANGED <<latest, view, phase, todo, calc, readings, failures>>

CalcNext ==
  \/ \E s \in Sources : Ingest(s)
  \/ BeginTick
  \/ Collect
  \/ \E k \in Kpis : Write(k) \/ WriteFails(k)
  \/ CalcRestart
  \/ NextBucket

CalcSpec == CalcInit /\ [][CalcNext]_calcVars

\* The ticker ticks, a tick runs to its end, time passes.
FairCalc ==
  /\ CalcSpec
  /\ WF_calcVars(BeginTick) /\ WF_calcVars(Collect) /\ WF_calcVars(NextBucket)
  /\ \A k \in Kpis : WF_calcVars(Write(k))

-----------------------------------------------------------------------------
Plausible ==
  /\ calc["epsilon"].v \in 0..107 /\ calc["gamma"].v \in 0..107
  /\ calc["balance_err"].v \in -2..2

Measured == \A k \in Kpis : calc[k].ok => calc[k].real

\* A recovery that is written is a recovery, a yield is a yield: the mass closure and
\* the cross-check together keep both below 1.02 / 0.95, whatever the analysers say
\* and although the tags are read one after the other; and nothing is computed from
\* the zero that stands for a gap (Compute, tick; ingestOne, LatestGoodNumericReading).
PlausibleAndMeasured == Plausible /\ Measured

Snapshot(x) == [i \in DOMAIN SourceOrder |-> Number(x[SourceOrder[i]])]

\* When the field measures the same consistent balance for good, the virtual tags
\* show it in the end, however torn, late or incomplete the data was before (tick).
BalanceReturns ==
  \A x \in Assays :
    Valid(Snapshot(x)) /\ <>[](\A s \in Sources : latest[s] = Number(x[s]))
      => <>[](\A k \in Computed(Snapshot(x)) \cap VirtualTags : calc[k] = Result(k, Snapshot(x)))
=============================================================================
