------------------------------ MODULE Sparkplug ------------------------------
(***************************************************************************)
(* The Sparkplug B driver of a gateway.  Edge nodes publish births, which  *)
(* tie metrics to aliases, and data that names a metric by its alias only. *)
(* The broker keeps a persistent session and delivers at least once and in *)
(* order; the client runs one callback per message, several at a time.  A  *)
(* callback locks the mutex once for the alias map and once for the        *)
(* deltas.  The poll loop drains the deltas into the local queue.          *)
(*                                                                         *)
(* The driver connects once when it is built; only a connection that was   *)
(* made is made again.  It subscribes whenever it has connected, and an    *)
(* answer that refuses that is logged and no more.                         *)
(*                                                                         *)
(* An operator directly before another one with the same parameters is a   *)
(* mutated form of it, used by mutation runs only.                         *)
(***************************************************************************)
EXTENDS Integers, FiniteSets, Sequences, SequencesExt

CONSTANTS
  Nodes,        \* node keys "group/edge[/device]"
  Metrics,
  SparkTags,    \* <<node, metric>> pairs with a tag: buildTagIndex
  Layouts,      \* the ties a birth may announce: functions from Metrics to aliases
  Cap,          \* maxBuffered
  MaxSent,      \* bound on published messages
  MaxRunning,   \* bound on callbacks at work at one time
  MaxBreaks     \* bound on reconnects plus restarts

ASSUME MetricsAssumption == IsFiniteSet(Metrics)
ASSUME TagsAssumption == SparkTags \subseteq Nodes \X Metrics
ASSUME LayoutsAssumption ==
  \A ties \in Layouts :
    /\ ties \in [Metrics -> Nat]
    /\ \A m, k \in Metrics : ties[m] = ties[k] /\ ties[m] # 0 => m = k
ASSUME CapAssumption == Cap \in Nat \ {0}

VARIABLES
  mqtt,      \* "connected", or "off" after a first connect that failed
  subscribed,\* the broker holds the subscription in the session of the client
  sent,      \* history: everything published, a message is known by its index
  wire,      \* messages the broker still has to deliver, the oldest first
  calls,     \* callbacks at work: message, step and session of the client
  aliases,   \* aliases[n]: alias -> metric, from the birth handled last
  deltas,    \* readings since the last Poll
  out,       \* history: readings handed to the local queue
  dropped,   \* history: readings the cap has pushed out
  mixed,     \* history: nodes whose births met on their way to the alias map
  crossed,   \* history: data that met a birth on its way there, or what such births left
  again,     \* history: messages the broker has delivered twice
  breaks,
  unheard,   \* history: what had been published before the subscription
  started    \* history: what had been published when the driver last began to listen

session == <<mqtt, subscribed>>
disorder == <<mixed, crossed, again>>
sparkVars ==
  <<session, sent, wire, calls, aliases, deltas, out, dropped, disorder, breaks, unheard, started>>

NoAliases == [a \in {} |-> CHOOSE m \in Metrics : TRUE]

\* newSparkplugSource: the session the broker keeps may be one from before.
SparkInit ==
  /\ mqtt \in {"connected", "off"} /\ subscribed \in BOOLEAN
  /\ sent = <<>> /\ wire = {} /\ calls = {}
  /\ aliases = [n \in Nodes |-> NoAliases]
  /\ deltas = <<>> /\ out = {} /\ dropped = {}
  /\ mixed = {} /\ crossed = {} /\ again = {}
  /\ breaks = 0 /\ unheard = 0 /\ started = 0

-----------------------------------------------------------------------------
(* The edge nodes and the broker.                                          *)

\* The broker keeps it for the sessions that have subscribed.
Published(msg) ==
  /\ Len(sent) < MaxSent
  /\ sent' = Append(sent, msg)
  /\ IF subscribed
     THEN wire' = wire \cup {Len(sent')} /\ UNCHANGED <<unheard, started>>
     ELSE unheard' = Len(sent') /\ started' = Len(sent') /\ UNCHANGED wire
  /\ UNCHANGED <<session, calls, aliases, deltas, out, dropped, disorder, breaks>>

BirthsOf(n) == {i \in DOMAIN sent : sent[i].node = n /\ sent[i].kind = "birth"}

NodeBirths(n) == \E ties \in Layouts : Published([kind |-> "birth", node |-> n, ties |-> ties])

\* A node sends data after its birth; a metric without alias goes by name.
NodeReports(n) ==
  \E m \in Metrics, i \in BirthsOf(n) :
    /\ \A k \in BirthsOf(n) : k <= i
    /\ Published([kind |-> "data", node |-> n, metric |-> m, alias |-> sent[i].ties[m], birth |-> i])

Underway == {c.msg : c \in calls}

\* A birth of n waits for the alias map.
TieWaits(n) == \E c \in calls : c.at = "tie" /\ sent[c.msg].node = n

\* A later birth of the node was handed out before.
Overtaken(i) == \E k \in BirthsOf(sent[i].node) : i < k /\ k \notin wire

\* The client starts a callback and does not wait for the others.
StartCallback ==
  /\ mqtt = "connected"
  /\ Cardinality(calls) < MaxRunning
  /\ \E i \in wire :
       LET n == sent[i].node
           step(at) == calls' = calls \cup {[msg |-> i, at |-> at, session |-> breaks]} IN
       /\ \A k \in wire : i <= k
       /\ \/ /\ sent[i].kind = "birth" /\ step("tie")
             /\ mixed' = IF TieWaits(n) \/ Overtaken(i) THEN mixed \cup {n} ELSE mixed \ {n}
             /\ crossed' = crossed \cup {k \in Underway : sent[k].node = n /\ sent[k].kind = "data"}
          \/ /\ sent[i].kind = "data" /\ step("emit")
             /\ crossed' = IF TieWaits(n) \/ n \in mixed THEN crossed \cup {i} ELSE crossed
             /\ UNCHANGED mixed
       /\ wire' = wire \ {i}
  /\ UNCHANGED <<session, sent, aliases, deltas, out, dropped, again, breaks, unheard, started>>

Delivered == {i \in DOMAIN sent \ wire : i > unheard}

\* Acknowledged is what has ended, the last ones excepted; the rest comes again,
\* before anything newer.
Redelivered ==
  /\ breaks < MaxBreaks
  /\ breaks' = breaks + 1
  /\ \E last \in 0..MaxSent :
       LET rest == Underway \cup {i \in Delivered : i > last} IN
       /\ wire' = wire \cup rest
       /\ again' = again \cup rest

\* OnConnect: Subscribe may be refused; what the broker holds it keeps.
Subscribes == subscribed' \in {subscribed, TRUE}

\* SetAutoReconnect.
Reconnect ==
  /\ mqtt = "connected"
  /\ Redelivered
  /\ Subscribes
  /\ UNCHANGED <<mqtt, sent, calls, aliases, deltas, out, dropped, mixed, crossed, unheard, started>>

\* The process starts anew: aliases and deltas are in memory only.
SparkRestart ==
  /\ Redelivered
  /\ mqtt' \in {"connected", "off"}
  /\ IF mqtt' = "connected" THEN Subscribes ELSE UNCHANGED subscribed
  /\ calls' = {}
  /\ aliases' = [n \in Nodes |-> NoAliases]
  /\ deltas' = <<>>
  /\ mixed' = {}
  /\ started' = Len(sent)
  /\ UNCHANGED <<sent, out, dropped, crossed, unheard>>

-----------------------------------------------------------------------------
(* The callbacks: handleBirth, handleData, handlePayload.                  *)

TiedFirst(n, ties) ==
  IF aliases[n] # NoAliases THEN aliases[n]
  ELSE [a \in {ties[m] : m \in Metrics} \ {0} |-> CHOOSE m \in Metrics : ties[m] = a]
\* The alias map of a birth; an alias 0 counts as none.
Tied(n, ties) == [a \in {ties[m] : m \in Metrics} \ {0} |-> CHOOSE m \in Metrics : ties[m] = a]

TieAliases(c) ==
  /\ c.at = "tie"
  /\ aliases' = [aliases EXCEPT ![sent[c.msg].node] = Tied(sent[c.msg].node, sent[c.msg].ties)]
  /\ calls' = (calls \ {c}) \cup {[c EXCEPT !.at = "emit"]}
  /\ UNCHANGED <<session, sent, wire, deltas, out, dropped, disorder, breaks, unheard, started>>

Reading(i, from, to) == [msg |-> i, node |-> sent[i].node, from |-> from, to |-> to]

\* The metrics a message names, directly or by an alias its node has tied; an
\* unknown alias is skipped.
Resolved(i) ==
  LET x == sent[i] IN
  CASE x.kind = "birth" -> {Reading(i, m, m) : m \in Metrics}
    [] x.kind = "data" /\ x.alias = 0 -> {Reading(i, x.metric, x.metric)}
    [] x.kind = "data" /\ x.alias \in DOMAIN aliases[x.node] \ {0} ->
         {Reading(i, x.metric, aliases[x.node][x.alias])}
    [] OTHER -> {}

MonitoredOrNone(rs) == IF \A r \in rs : <<r.node, r.to>> \in SparkTags THEN rs ELSE {}
\* Metrics without a tag are passed over.
Monitored(rs) == {r \in rs : <<r.node, r.to>> \in SparkTags}

\* Beyond the cap the oldest deltas go.
Newest(ds) == IF Len(ds) > Cap THEN SubSeq(ds, Len(ds) - Cap + 1, Len(ds)) ELSE ds

EmitDeltas(c) ==
  /\ c.at = "emit"
  /\ LET ds == deltas \o SetToSeq(Monitored(Resolved(c.msg))) IN
     /\ deltas' = Newest(ds)
     /\ dropped' = dropped \cup {ds[k] : k \in 1..(Len(ds) - Cap)}
  /\ calls' = calls \ {c}
  /\ UNCHANGED <<session, sent, wire, aliases, out, disorder, breaks, unheard, started>>

\* Poll and Enqueue.
DrainDeltas ==
  /\ deltas # <<>>
  /\ out' = out \cup Range(deltas)
  /\ deltas' = <<>>
  /\ UNCHANGED <<session, sent, wire, calls, aliases, dropped, disorder, breaks, unheard, started>>

Callback == \E c \in calls : TieAliases(c) \/ EmitDeltas(c)

SparkNext ==
  \/ \E n \in Nodes : NodeBirths(n) \/ NodeReports(n)
  \/ StartCallback
  \/ Reconnect
  \/ SparkRestart
  \/ Callback
  \/ DrainDeltas

\* The broker delivers, callbacks run to their end, the poll loop ticks.
SparkFair == WF_sparkVars(StartCallback) /\ WF_sparkVars(Callback) /\ WF_sparkVars(DrainDeltas)

-----------------------------------------------------------------------------
Readings == out \cup dropped \cup Range(deltas)

\* A value is stored under another metric only if an alias of its node has moved
\* since, and then only if the broker repeated the message, or its callback met a
\* birth that had not tied its aliases yet, or the births before it had met each
\* other: otherwise data is resolved by the birth it belongs to (handleBirth,
\* handlePayload).
WrongTagNeedsDisorder ==
  \A r \in Readings :
    r.to # r.from =>
      /\ r.msg \in crossed \cup again
      /\ \E i \in BirthsOf(r.node) : sent[i].ties[r.to] = sent[r.msg].alias

Carried(x) == IF x.kind = "birth" THEN Metrics ELSE {x.metric}

\* Without a birth since the driver listens an alias means nothing to it.
Excused(i) ==
  \/ i <= started
  \/ /\ sent[i].kind = "data" /\ sent[i].alias # 0
     /\ sent[i].birth <= started \/ i \in crossed \cup again

InPlace(i, rs) ==
  \A m \in Carried(sent[i]) :
    <<sent[i].node, m>> \in SparkTags => \E r \in rs : r.msg = i /\ r.from = m

\* What is published waits at the broker or in a callback until its monitored values
\* are in the deltas, the queue or among those the cap pushed out: no order of births
\* and data, no repetition and no reconnect loses one silently (handlePayload, Poll).
NothingVanishes ==
  \A i \in DOMAIN sent :
    i \in wire \/ (\E c \in calls : c.msg = i) \/ Excused(i) \/ InPlace(i, Readings)

\* Every monitored value published while the driver listens reaches the queue or
\* falls to the cap, data by alias from the next birth on (handlePayload, Poll),
\* unless the driver never connects again: a first connect that failed is not tried
\* a second time, and a refused Subscribe not before the next connection.
ValuesArrive ==
  \A i \in 1..MaxSent :
    i <= Len(sent) ~>
      \/ i <= Len(sent) /\ (Excused(i) \/ InPlace(i, out \cup dropped))
      \/ [](mqtt = "off")
=============================================================================
