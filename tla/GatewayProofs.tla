---------------------------- MODULE GatewayProofs ----------------------------
(***************************************************************************)
(* The two halves of a gateway that face the plant: its drivers            *)
(* (WrongTagNeedsDisorder and NothingVanishes of Sparkplug, and what the   *)
(* polled drivers of FieldRead say of an outage) and the write bridge      *)
(* (SeqOrder of WriteBridge), for any nodes, metrics, layouts of aliases,  *)
(* tags, actuators, commands, faults and reconnects.                       *)
(*                                                                         *)
(* Neither Sparkplug property is inductive.  A callback resolves its data  *)
(* by the aliases it finds, so the proof follows which birth tied them:    *)
(* where births did not meet, the later ones are still at the broker, and  *)
(* data that met none of them finds the aliases of its own birth.          *)
(***************************************************************************)
EXTENDS Sources, WriteBridge,
        FiniteSetTheorems, FunctionTheorems, SequenceTheorems, TLAPS

-----------------------------------------------------------------------------
(* Sparkplug: what is on its way, and which birth the aliases come from.   *)

Message ==
  [kind : {"birth"}, node : Nodes, ties : Layouts]
    \cup [kind : {"data"}, node : Nodes, metric : Metrics, alias : Nat, birth : Nat]

Value == [msg : DOMAIN sent, node : Nodes, from : Metrics, to : Metrics]

\* An alias map is empty or the one of some layout.
AliasMaps == {NoAliases} \cup {Tied(n, ties) : n \in Nodes, ties \in Layouts}

SparkTypes ==
  /\ subscribed \in BOOLEAN
  /\ sent \in Seq(Message)
  /\ wire \subseteq DOMAIN sent
  /\ calls \subseteq [msg : DOMAIN sent, at : {"tie", "emit"}, session : Nat]
  /\ aliases \in [Nodes -> AliasMaps]
  /\ deltas \in Seq(Value)
  /\ out \subseteq Value /\ dropped \subseteq Value
  /\ mixed \subseteq Nodes
  /\ crossed \subseteq DOMAIN sent /\ again \subseteq DOMAIN sent
  /\ breaks \in Nat
  /\ started \in 0..Len(sent)

\* Before the subscription nothing reaches the driver.
NothingHeard ==
  ~subscribed =>
    /\ wire = {} /\ calls = {}
    /\ \A n \in Nodes : aliases[n] = NoAliases
    /\ unheard = Len(sent) /\ started = Len(sent)

\* Data carries the alias its metric got with the last birth before it.
Follows(d, b) ==
  /\ b \in DOMAIN sent /\ b < d
  /\ sent[b].kind = "birth" /\ sent[b].node = sent[d].node
  /\ sent[d].alias = sent[b].ties[sent[d].metric]
  /\ \A k \in DOMAIN sent :
       k < d /\ sent[k].kind = "birth" /\ sent[k].node = sent[d].node => k <= b

DataFollowsBirth == \A d \in DOMAIN sent : sent[d].kind = "data" => Follows(d, sent[d].birth)

\* What the broker has not yet delivered at all is newer than the rest.
Fresh == wire \ again

FreshIsNewest ==
  /\ \A i \in Fresh : \A k \in DOMAIN sent : i <= k => k \in Fresh
  /\ \A c \in calls : c.msg \notin Fresh

\* Only births tie aliases.
TieIsBirth == \A c \in calls : c.at = "tie" => sent[c.msg].kind = "birth"

Waiting(n) == {c \in calls : c.at = "tie" /\ sent[c.msg].node = n}

\* One birth at most waits for the alias map of n, and later ones are at the broker.
LatestWaits(n) ==
  /\ \A c, d \in Waiting(n) : c = d
  /\ \A c \in Waiting(n) : \A k \in BirthsOf(n) : c.msg < k => k \in wire

\* The aliases of n are those of its birth b, or none if b is 0, and the births after
\* b are at the broker.
TiedBy(n, b) ==
  /\ IF b = 0 THEN aliases[n] = NoAliases
              ELSE b \in BirthsOf(n) \ Fresh /\ aliases[n] = Tied(n, sent[b].ties)
  /\ \A k \in BirthsOf(n) : b < k => k \in wire \/ (b = 0 /\ k <= started)

AliasesInOrder ==
  \A n \in Nodes \ mixed :
    /\ LatestWaits(n)
    /\ Waiting(n) = {} => \E b \in {0} \cup BirthsOf(n) : TiedBy(n, b)

\* Whatever its callbacks did, the aliases of a node come from one of its births.
AliasesAreTies ==
  \A n \in Nodes :
    aliases[n] = NoAliases \/ \E b \in BirthsOf(n) : aliases[n] = Tied(n, sent[b].ties)

\* The aliases the data x finds are those of its own birth, or none if the driver
\* has not heard that birth.
FindsItsOwn(x) ==
  \/ aliases[x.node] = Tied(x.node, sent[x.birth].ties)
  \/ aliases[x.node] = NoAliases /\ x.birth <= started

DataUndisturbed ==
  \A c \in calls :
    sent[c.msg].kind = "data" /\ c.msg \notin crossed \cup again =>
      Waiting(sent[c.msg].node) = {} /\ FindsItsOwn(sent[c.msg])

SparkInv ==
  /\ SparkTypes /\ DataFollowsBirth /\ FreshIsNewest /\ TieIsBirth /\ NothingHeard
  /\ AliasesInOrder /\ AliasesAreTies /\ DataUndisturbed
  /\ WrongTagNeedsDisorder /\ NothingVanishes

USE DEF session, disorder, Subscribes

-----------------------------------------------------------------------------
(* Sequences made of sets, and the cap.                                    *)

\* SetToSeq lists a finite set (Poll hands over a slice).
LEMMA ListsSet ==
  ASSUME NEW S, IsFiniteSet(S)
  PROVE  SetToSeq(S) \in Seq(S) /\ Range(SetToSeq(S)) = S
<1> DEFINE D == 1..Cardinality(S)
<1>1. Cardinality(S) \in Nat /\ ExistsBijection(D, S)
  BY FS_CardinalityType
<1>2. PICK g \in Bijection(D, S) : TRUE
  BY <1>1 DEF ExistsBijection
<1>3. g \in [D -> S] /\ IsInjective(g)
  BY <1>2 DEF Bijection, Injection
<1>4. SetToSeq(S) \in [D -> S] /\ IsInjective(SetToSeq(S))
  BY <1>3 DEF SetToSeq
<1>5. SetToSeq(S) \in Injection(D, S)
  BY <1>4 DEF Injection
<1>6. IsFiniteSet(D) /\ Cardinality(D) = Cardinality(S)
  BY <1>1, FS_Interval
<1>7. SetToSeq(S) \in Surjection(D, S)
  BY <1>5, <1>6, FS_Injection
<1>8. Range(SetToSeq(S)) = S
  BY <1>7, Fun_SurjectionProperties
<1>9. SetToSeq(S) \in Seq(S)
  BY <1>1, <1>4, IsASeq
<1> QED
  BY <1>8, <1>9

\* The newest deltas and the dropped ones are together all there were (appendDelta).
LEMMA CapSplits ==
  ASSUME NEW T, NEW ds \in Seq(T)
  PROVE  /\ Newest(ds) \in Seq(T)
         /\ Range(Newest(ds)) \cup {ds[k] : k \in 1..(Len(ds) - Cap)} = Range(ds)
<1>1. Len(ds) \in Nat /\ Cap \in Nat /\ Cap > 0
  BY CapAssumption
<1>2. Range(ds) = {ds[k] : k \in 1..Len(ds)}
  BY RangeEquality
<1>3. CASE Len(ds) <= Cap
  <2>1. Newest(ds) = ds
    BY <1>1, <1>3 DEF Newest
  <2>2. 1..(Len(ds) - Cap) = {}
    BY <1>1, <1>3
  <2> QED
    BY <2>1, <2>2
<1>4. CASE Len(ds) > Cap
  <2> DEFINE s == SubSeq(ds, Len(ds) - Cap + 1, Len(ds))
  <2>1. Newest(ds) = s
    BY <1>4 DEF Newest
  <2>2. \A i \in (Len(ds) - Cap + 1)..Len(ds) : ds[i] \in T
    BY <1>1, <1>4
  <2>3. /\ s \in Seq(T) /\ Len(s) = Cap
        /\ \A i \in 1..Cap : s[i] = ds[Len(ds) - Cap + i]
    <3>1. /\ s \in Seq(T)
          /\ Len(s) = IF Len(ds) - Cap + 1 <= Len(ds)
                      THEN Len(ds) - (Len(ds) - Cap + 1) + 1 ELSE 0
          /\ \A i \in 1..(Len(ds) - (Len(ds) - Cap + 1) + 1) :
               s[i] = ds[(Len(ds) - Cap + 1) + i - 1]
      <4> HIDE DEF s
      <4>1. Len(ds) - Cap + 1 \in Int /\ Len(ds) \in Int
        BY <1>1
      <4> QED
        BY <2>2, <4>1, SubSeqProperties DEF s
    <3> HIDE DEF s
    <3> QED
      BY <1>1, <3>1
  <2> HIDE DEF s
  <2>4. Range(s) = {s[i] : i \in 1..Cap}
    BY <2>3, RangeEquality
  <2>5. ASSUME NEW x \in Range(ds), x \notin {ds[k] : k \in 1..(Len(ds) - Cap)}
        PROVE  x \in Range(s)
    <3>1. PICK k \in 1..Len(ds) : x = ds[k]
      BY <1>2
    <3>2. k > Len(ds) - Cap
      BY <1>1, <2>5, <3>1
    <3>3. k - (Len(ds) - Cap) \in 1..Cap
      BY <1>1, <3>2
    <3>4. s[k - (Len(ds) - Cap)] = ds[k]
      BY <1>1, <2>3, <3>3
    <3> QED
      BY <2>4, <3>1, <3>3, <3>4
  <2>6. ASSUME NEW x \in Range(s) PROVE x \in Range(ds)
    <3>1. PICK i \in 1..Cap : x = s[i]
      BY <2>4
    <3>2. Len(ds) - Cap + i \in 1..Len(ds)
      BY <1>1, <1>4
    <3> QED
      BY <1>2, <2>3, <3>1, <3>2
  <2>7. {ds[k] : k \in 1..(Len(ds) - Cap)} \subseteq Range(ds)
    BY <1>1, <1>2
  <2> QED
    BY <2>1, <2>3, <2>5, <2>6, <2>7
<1> QED
  BY <1>1, <1>3, <1>4

-----------------------------------------------------------------------------
(* Aliases.                                                                *)

\* The map of a birth leads from an alias to a metric that has it, and from the
\* alias of a metric back to the metric (handleBirth).
LEMMA TiedInverts ==
  ASSUME NEW n, NEW ties \in Layouts
  PROVE  /\ \A a \in DOMAIN Tied(n, ties) :
              Tied(n, ties)[a] \in Metrics /\ ties[Tied(n, ties)[a]] = a
         /\ \A m \in Metrics :
              ties[m] # 0 => ties[m] \in DOMAIN Tied(n, ties) /\ Tied(n, ties)[ties[m]] = m
<1> DEFINE A == {ties[m] : m \in Metrics} \ {0}
           back(a) == CHOOSE m \in Metrics : ties[m] = a
<1>1. /\ ties \in [Metrics -> Nat]
      /\ \A m, k \in Metrics : ties[m] = ties[k] /\ ties[m] # 0 => m = k
  BY LayoutsAssumption
<1>2. \A a \in A : back(a) \in Metrics /\ ties[back(a)] = a
  OBVIOUS
<1>3. DOMAIN Tied(n, ties) = A /\ \A a \in A : Tied(n, ties)[a] = back(a)
  BY DEF Tied
<1>4. \A m \in Metrics : ties[m] # 0 => ties[m] \in A /\ back(ties[m]) = m
  <2> SUFFICES ASSUME NEW m \in Metrics, ties[m] # 0 PROVE ties[m] \in A /\ back(ties[m]) = m
    OBVIOUS
  <2>1. ties[m] \in A
    OBVIOUS
  <2>2. back(ties[m]) \in Metrics /\ ties[back(ties[m])] = ties[m]
    BY <1>2, <2>1
  <2> HIDE DEF back
  <2> QED
    BY <1>1, <2>1, <2>2
<1> HIDE DEF A, back
<1> QED
  BY <1>2, <1>3, <1>4

\* Data the broker hands out for the first time, in a node whose births did not meet
\* and none of which is waiting, finds its own aliases (handleData, handlePayload).
LEMMA FreshDataFindsItsOwn ==
  ASSUME SparkInv, NEW d \in Fresh, sent[d].kind = "data", \A k \in wire : d <= k,
         sent[d].node \notin mixed, Waiting(sent[d].node) = {}
  PROVE  FindsItsOwn(sent[d])
<1> DEFINE n == sent[d].node
           own == sent[d].birth
<1>1. d \in DOMAIN sent /\ DOMAIN sent = 1..Len(sent) /\ n \in Nodes
  BY DEF SparkInv, SparkTypes, Message, Fresh
<1>2. Follows(d, own)
  BY <1>1 DEF SparkInv, DataFollowsBirth
<1>3. own \in BirthsOf(n) /\ own < d /\ own \in 1..Len(sent)
  BY <1>1, <1>2 DEF Follows, BirthsOf
<1>4. PICK b \in {0} \cup BirthsOf(n) : TiedBy(n, b)
  BY <1>1 DEF SparkInv, AliasesInOrder
<1>5. own \notin wire
  BY <1>1, <1>3
<1>6. CASE b = 0
  BY <1>3, <1>4, <1>5, <1>6 DEF TiedBy, FindsItsOwn
<1>7. CASE b # 0
  <2>1. b \in BirthsOf(n) \ Fresh /\ aliases[n] = Tied(n, sent[b].ties)
    BY <1>4, <1>7 DEF TiedBy
  <2>2. b \in 1..Len(sent) /\ sent[b].kind = "birth" /\ sent[b].node = n
    BY <1>1, <2>1 DEF BirthsOf
  <2>3. b < d
    BY <1>1, <2>1, <2>2 DEF SparkInv, FreshIsNewest
  <2>4. b <= own
    BY <1>1, <1>2, <2>2, <2>3 DEF Follows
  <2>5. ~(b < own)
    BY <1>3, <1>4, <1>5, <1>7 DEF TiedBy
  <2>6. b = own
    BY <1>3, <2>2, <2>4, <2>5
  <2> QED
    BY <2>1, <2>6 DEF FindsItsOwn
<1> QED
  BY <1>6, <1>7

\* The right tag of a reading, or an excuse (the conjunct of WrongTagNeedsDisorder).
RightTag(r) ==
  r.to # r.from =>
    /\ r.msg \in crossed \cup again
    /\ \E i \in BirthsOf(r.node) : sent[i].ties[r.to] = sent[r.msg].alias

\* What a callback resolves is a value of its message, under the right tag (handlePayload).
LEMMA ResolvedRight ==
  ASSUME SparkInv, NEW c \in calls, NEW r \in Resolved(c.msg)
  PROVE  r \in Value /\ r.msg = c.msg /\ RightTag(r)
<1> DEFINE i == c.msg
           x == sent[i]
<1>1. i \in DOMAIN sent /\ x \in Message /\ x.node \in Nodes
  BY DEF SparkInv, SparkTypes, Message
<1>2. CASE x.kind = "birth"
  <2>1. PICK m \in Metrics : r = Reading(i, m, m)
    BY <1>2 DEF Resolved
  <2> QED
    BY <1>1, <2>1 DEF Reading, Value, RightTag
<1>3. CASE x.kind = "data" /\ x.alias = 0
  <2>1. x.metric \in Metrics
    BY <1>1, <1>3 DEF Message
  <2>2. r = Reading(i, x.metric, x.metric)
    BY <1>3 DEF Resolved
  <2> QED
    BY <1>1, <2>1, <2>2 DEF Reading, Value, RightTag
<1>4. CASE x.kind = "data" /\ x.alias # 0
  <2>1. x.alias \in DOMAIN aliases[x.node] /\ r = Reading(i, x.metric, aliases[x.node][x.alias])
    BY <1>4 DEF Resolved
  <2>2. x.metric \in Metrics
    BY <1>1, <1>4 DEF Message
  <2>3. aliases[x.node] # NoAliases
    BY <2>1 DEF NoAliases
  <2>4. PICK b \in BirthsOf(x.node) : aliases[x.node] = Tied(x.node, sent[b].ties)
    BY <1>1, <2>3 DEF SparkInv, AliasesAreTies
  <2>5. sent[b] \in Message /\ sent[b].ties \in Layouts
    BY DEF BirthsOf, SparkInv, SparkTypes, Message
  <2>6. aliases[x.node][x.alias] \in Metrics /\ sent[b].ties[aliases[x.node][x.alias]] = x.alias
    BY <2>1, <2>4, <2>5, TiedInverts
  <2>7. /\ r.msg = i /\ r.node = x.node /\ r.from = x.metric /\ r.to = aliases[x.node][x.alias]
        /\ r \in Value
    BY <1>1, <2>1, <2>2, <2>6 DEF Reading, Value
  <2>8. ASSUME i \notin crossed \cup again PROVE r.to = r.from
    <3>1. aliases[x.node] = Tied(x.node, sent[x.birth].ties)
      BY <1>4, <2>3, <2>8 DEF SparkInv, DataUndisturbed, FindsItsOwn
    <3>2. Follows(i, x.birth)
      BY <1>1, <1>4 DEF SparkInv, DataFollowsBirth
    <3>3. sent[x.birth] \in Message /\ sent[x.birth].ties \in Layouts
      BY <3>2 DEF Follows, SparkInv, SparkTypes, Message
    <3>4. x.alias = sent[x.birth].ties[x.metric]
      BY <3>2 DEF Follows
    <3>5. \A k \in Metrics :
            sent[x.birth].ties[k] # 0 => Tied(x.node, sent[x.birth].ties)[sent[x.birth].ties[k]] = k
      BY <3>3, TiedInverts
    <3>6. aliases[x.node][x.alias] = x.metric
      BY <1>4, <2>2, <3>1, <3>4, <3>5
    <3> QED
      BY <2>7, <3>6
  <2> QED
    BY <2>4, <2>6, <2>7, <2>8 DEF RightTag
<1>5. x.kind \in {"birth", "data"}
  BY <1>1 DEF Message
<1> QED
  BY <1>2, <1>3, <1>4, <1>5

\* Unless the message is excused, each of its monitored metrics is resolved.
LEMMA ResolvedComplete ==
  ASSUME SparkInv, NEW c \in calls, ~Excused(c.msg)
  PROVE  InPlace(c.msg, Monitored(Resolved(c.msg)))
<1> DEFINE i == c.msg
           x == sent[i]
<1>1. i \in DOMAIN sent /\ x \in Message /\ x.node \in Nodes
  BY DEF SparkInv, SparkTypes, Message
<1> SUFFICES ASSUME NEW m \in Carried(x), <<x.node, m>> \in SparkTags
             PROVE  \E r \in Monitored(Resolved(i)) : r.msg = i /\ r.from = m
  BY DEF InPlace
<1>2. ASSUME Reading(i, m, m) \in Resolved(i)
      PROVE  \E r \in Monitored(Resolved(i)) : r.msg = i /\ r.from = m
  BY <1>2 DEF Monitored, Reading
<1>3. CASE x.kind = "birth"
  <2>1. m \in Metrics
    BY <1>3 DEF Carried
  <2> QED
    BY <1>2, <1>3, <2>1 DEF Resolved
<1>4. CASE x.kind = "data" /\ x.alias = 0
  BY <1>2, <1>4 DEF Carried, Resolved
<1>5. CASE x.kind = "data" /\ x.alias # 0
  <2>1. m = x.metric /\ m \in Metrics
    BY <1>1, <1>5 DEF Carried, Message
  <2>2. ~(x.birth <= started) /\ i \notin crossed \cup again
    BY <1>5 DEF Excused
  <2>3. Follows(i, x.birth)
    BY <1>1, <1>5 DEF SparkInv, DataFollowsBirth
  <2>4. sent[x.birth] \in Message /\ sent[x.birth].ties \in Layouts /\ x.alias = sent[x.birth].ties[m]
    BY <2>1, <2>3 DEF Follows, SparkInv, SparkTypes, Message
  <2>5. aliases[x.node] = Tied(x.node, sent[x.birth].ties)
    BY <1>5, <2>2 DEF SparkInv, DataUndisturbed, FindsItsOwn
  <2>6. x.alias \in DOMAIN aliases[x.node] /\ aliases[x.node][x.alias] = m
    <3>1. \A k \in Metrics :
            sent[x.birth].ties[k] # 0 =>
              /\ sent[x.birth].ties[k] \in DOMAIN Tied(x.node, sent[x.birth].ties)
              /\ Tied(x.node, sent[x.birth].ties)[sent[x.birth].ties[k]] = k
      BY <2>4, TiedInverts
    <3> QED
      BY <1>5, <2>1, <2>4, <2>5, <3>1
  <2> QED
    BY <1>2, <1>5, <2>1, <2>6 DEF Resolved
<1>6. x.kind \in {"birth", "data"}
  BY <1>1 DEF Message
<1> QED
  BY <1>3, <1>4, <1>5, <1>6

\* A message carries finitely many values.
LEMMA FinitelyMany ==
  ASSUME NEW i
  PROVE  IsFiniteSet(Monitored(Resolved(i)))
<1> DEFINE R == Resolved(i)
           all == [m \in Metrics |-> Reading(i, m, m)]
<1>1. IsFiniteSet(Range(all))
  <2>1. all \in [Metrics -> Range(all)]
    BY DEF Range
  <2>2. all \in Surjection(Metrics, Range(all))
    BY <2>1 DEF Range, Surjection
  <2> HIDE DEF all
  <2> QED
    BY <2>2, MetricsAssumption, FS_Surjection
<1>2. Range(all) = {Reading(i, m, m) : m \in Metrics}
  BY DEF Range
<1>3. \A v : IsFiniteSet({v})
  BY FS_Singleton
<1>4. IsFiniteSet({})
  BY FS_EmptySet
<1>5. R = Range(all) \/ R = {} \/ \E v : R = {v}
  <2> HIDE DEF all
  <2> QED
    BY <1>2 DEF Resolved
<1>6. IsFiniteSet(R)
  <2> HIDE DEF all, R
  <2> QED
    BY <1>1, <1>3, <1>4, <1>5
<1>7. Monitored(R) \subseteq R
  BY DEF Monitored
<1> QED
  BY <1>6, <1>7, FS_Subset

-----------------------------------------------------------------------------
(* Every step keeps the invariant.                                         *)

\* A new gateway and a broker with nothing to deliver (newSparkplugSource).
LEMMA SparkInitEstablishes == SparkInit => SparkInv
<1> SUFFICES ASSUME SparkInit PROVE SparkInv
  OBVIOUS
<1> USE DEF SparkInit
<1>1. DOMAIN sent = {} /\ Len(sent) = 0 /\ Range(deltas) = {}
  BY DEF Range
<1>2. SparkTypes
  BY <1>1 DEF SparkTypes, AliasMaps
<1>3. DataFollowsBirth /\ FreshIsNewest /\ TieIsBirth /\ NothingHeard /\ DataUndisturbed
  BY <1>1 DEF DataFollowsBirth, FreshIsNewest, Fresh, TieIsBirth, NothingHeard, DataUndisturbed
<1>4. AliasesInOrder
  BY <1>1 DEF AliasesInOrder, LatestWaits, Waiting, TiedBy, BirthsOf
<1>5. AliasesAreTies
  BY DEF AliasesAreTies
<1>6. WrongTagNeedsDisorder
  BY <1>1 DEF WrongTagNeedsDisorder, Readings
<1>7. NothingVanishes
  BY <1>1 DEF NothingVanishes
<1> QED
  BY <1>2, <1>3, <1>4, <1>5, <1>6, <1>7 DEF SparkInv

\* A new message is the newest, for the broker, too (births and data of a node).
LEMMA PublishedPreserves ==
  ASSUME SparkInv, NEW x \in Message, Published(x),
         x.kind = "data" =>
           /\ x.birth \in BirthsOf(x.node) /\ x.alias = sent[x.birth].ties[x.metric]
           /\ \A k \in BirthsOf(x.node) : k <= x.birth
  PROVE  SparkInv'
<1>1. /\ SparkTypes /\ DataFollowsBirth /\ FreshIsNewest /\ TieIsBirth /\ NothingHeard
      /\ AliasesInOrder /\ AliasesAreTies /\ DataUndisturbed
      /\ WrongTagNeedsDisorder /\ NothingVanishes
  BY DEF SparkInv
<1>20. PICK new : new = Len(sent) + 1
  OBVIOUS
<1>2. /\ sent' = Append(sent, x)
      /\ UNCHANGED <<subscribed, calls, aliases, deltas, out, dropped, mixed, crossed, again, breaks>>
  BY DEF Published
<1>3. sent \in Seq(Message) /\ Len(sent) \in Nat /\ DOMAIN sent = 1..Len(sent)
  BY <1>1 DEF SparkTypes
<1>4. /\ sent' \in Seq(Message) /\ Len(sent') = new /\ DOMAIN sent' = 1..new
      /\ sent'[new] = x /\ \A i \in DOMAIN sent : sent'[i] = sent[i]
  BY <1>2, <1>3, <1>20
<1>21. subscribed => wire' = wire \cup {new} /\ UNCHANGED <<unheard, started>>
  BY <1>4 DEF Published
<1>22. ~subscribed => wire = {} /\ wire' = {} /\ calls = {} /\ unheard' = new /\ started' = new
  BY <1>1, <1>4 DEF Published, NothingHeard
<1>23. wire \subseteq wire' /\ wire' \subseteq wire \cup {new} /\ subscribed \in BOOLEAN
  BY <1>1, <1>21, <1>22 DEF SparkTypes
<1>5. new \in Nat /\ DOMAIN sent' = DOMAIN sent \cup {new} /\ new \notin DOMAIN sent
      /\ \A i \in DOMAIN sent : i \in Nat /\ i < new
  BY <1>3, <1>4, <1>20
<1>6. wire \subseteq DOMAIN sent /\ again \subseteq DOMAIN sent
      /\ \A c \in calls : c.msg \in DOMAIN sent
  BY <1>1 DEF SparkTypes
<1>7. \A n : BirthsOf(n)' = BirthsOf(n) \cup {i \in {new} : x.kind = "birth" /\ x.node = n}
  BY <1>4, <1>5 DEF BirthsOf
<1>8. SparkTypes'
  <2>1. deltas \in Seq(Value')
    <3>1. Value \subseteq Value'
      BY <1>5 DEF Value
    <3> QED
      BY <1>1, <3>1, SeqMonotonic DEF SparkTypes
  <2>2. Value \subseteq Value'
    BY <1>5 DEF Value
  <2>3. calls \subseteq [msg : DOMAIN sent', at : {"tie", "emit"}, session : Nat]
    BY <1>1, <1>5 DEF SparkTypes
  <2>4. started' \in 0..Len(sent')
    BY <1>1, <1>3, <1>4, <1>20, <1>21, <1>22, <1>23 DEF SparkTypes
  <2>5. AliasMaps' = AliasMaps
    BY DEF AliasMaps
  <2> QED
    BY <1>1, <1>2, <1>4, <1>5, <1>23, <2>1, <2>2, <2>3, <2>4, <2>5 DEF SparkTypes
<1>9. DataFollowsBirth'
  <2> SUFFICES ASSUME NEW d \in DOMAIN sent', sent'[d].kind = "data",
                      NEW own, own = sent'[d].birth
               PROVE  Follows(d, own)'
    BY DEF DataFollowsBirth
  <2>1. CASE d \in DOMAIN sent
    <3>1. Follows(d, own)
      BY <1>1, <1>4, <2>1 DEF DataFollowsBirth
    <3>2. own \in DOMAIN sent /\ sent'[own] = sent[own] /\ sent'[d] = sent[d]
      BY <1>4, <2>1, <3>1 DEF Follows
    <3>3. \A k \in DOMAIN sent' : k < d => k \in DOMAIN sent /\ sent'[k] = sent[k]
      BY <1>4, <1>5, <2>1
    <3> QED
      BY <1>5, <3>1, <3>2, <3>3 DEF Follows
  <2>2. CASE d = new
    BY <1>4, <1>5, <2>2 DEF Follows, BirthsOf
  <2> QED
    BY <1>5, <2>1, <2>2
<1>10. FreshIsNewest'
  <2>1. CASE subscribed
    <3>1. Fresh' = Fresh \cup {new}
      BY <1>2, <1>5, <1>6, <1>21, <2>1 DEF Fresh
    <3>2. \A i \in Fresh : i \in DOMAIN sent
      BY <1>6 DEF Fresh
    <3> QED
      BY <1>1, <1>2, <1>5, <1>6, <3>1, <3>2 DEF FreshIsNewest
  <2>2. CASE ~subscribed
    BY <1>2, <1>22, <2>2 DEF FreshIsNewest, Fresh
  <2> QED
    BY <2>1, <2>2
<1>11. TieIsBirth'
  BY <1>1, <1>2, <1>4, <1>6 DEF TieIsBirth
<1>12. NothingHeard'
  BY <1>1, <1>2, <1>4, <1>22 DEF NothingHeard
<1>24. \A n : Waiting(n)' = Waiting(n)
  BY <1>2, <1>4, <1>6 DEF Waiting
<1>13. AliasesInOrder'
  <2> SUFFICES ASSUME NEW n \in Nodes \ mixed
               PROVE  /\ LatestWaits(n)'
                      /\ Waiting(n) = {} => \E b \in {0} \cup BirthsOf(n)' : TiedBy(n, b)'
    BY <1>2, <1>24 DEF AliasesInOrder
  <2>1. CASE ~subscribed
    <3>1. Waiting(n)' = {}
      BY <1>22, <1>24, <2>1 DEF Waiting
    <3>2. \A k \in BirthsOf(n)' : k <= started'
      BY <1>3, <1>4, <1>20, <1>22, <2>1 DEF BirthsOf
    <3>3. aliases'[n] = NoAliases
      BY <1>1, <1>2, <2>1 DEF NothingHeard
    <3> QED
      BY <3>1, <3>2, <3>3 DEF LatestWaits, TiedBy
  <2>2. CASE subscribed
    <3>1. LatestWaits(n)'
      BY <1>1, <1>7, <1>21, <1>24, <2>2 DEF AliasesInOrder, LatestWaits
    <3>2. ASSUME Waiting(n) = {} PROVE \E b \in {0} \cup BirthsOf(n)' : TiedBy(n, b)'
      <4>1. PICK b \in {0} \cup BirthsOf(n) : TiedBy(n, b)
        BY <1>1, <3>2 DEF AliasesInOrder
      <4>2. b # 0 => b \in BirthsOf(n)' \ Fresh' /\ sent'[b] = sent[b]
        BY <1>2, <1>4, <1>5, <1>7, <1>21, <2>2, <4>1 DEF TiedBy, Fresh, BirthsOf
      <4>3. \A k \in BirthsOf(n)' : b < k => k \in wire' \/ (b = 0 /\ k <= started')
        BY <1>7, <1>21, <2>2, <4>1 DEF TiedBy
      <4>4. TiedBy(n, b)'
        BY <1>2, <4>1, <4>2, <4>3 DEF TiedBy
      <4> QED
        BY <1>7, <4>1, <4>4
    <3> QED
      BY <3>1, <3>2
  <2> QED
    BY <1>23, <2>1, <2>2
<1>14. AliasesAreTies'
  BY <1>1, <1>2, <1>4, <1>7 DEF AliasesAreTies, BirthsOf
<1>25. started \in Nat /\ started' \in Nat /\ started <= started'
  BY <1>1, <1>3, <1>4, <1>20, <1>21, <1>22, <1>23 DEF SparkTypes
<1>26. ASSUME NEW i \in DOMAIN sent, sent[i].kind = "data"
       PROVE  /\ sent[i].birth \in DOMAIN sent /\ sent'[sent[i].birth] = sent[sent[i].birth]
              /\ sent[i].birth \in Nat
  BY <1>1, <1>4, <1>5, <1>26 DEF DataFollowsBirth, Follows
<1>15. DataUndisturbed'
  <2> SUFFICES ASSUME NEW c \in calls, sent[c.msg].kind = "data", c.msg \notin crossed \cup again
               PROVE  Waiting(sent[c.msg].node) = {} /\ FindsItsOwn(sent[c.msg])'
    BY <1>2, <1>4, <1>6, <1>24 DEF DataUndisturbed
  <2>1. Waiting(sent[c.msg].node) = {} /\ FindsItsOwn(sent[c.msg])
    BY <1>1 DEF DataUndisturbed
  <2>2. c.msg \in DOMAIN sent /\ sent'[c.msg] = sent[c.msg]
    BY <1>4, <1>6
  <2> QED
    BY <1>2, <1>25, <1>26, <2>1, <2>2 DEF FindsItsOwn
<1>16. WrongTagNeedsDisorder'
  <2>1. Readings' = Readings /\ \A r \in Readings : r.msg \in DOMAIN sent
    <3>1. Range(deltas) \subseteq Value
      BY <1>1, RangeOfSeq DEF SparkTypes
    <3> QED
      BY <1>1, <1>2, <3>1 DEF Readings, SparkTypes, Value
  <2> QED
    BY <1>1, <1>2, <1>4, <1>7, <2>1 DEF WrongTagNeedsDisorder, BirthsOf
<1>17. NothingVanishes'
  <2> SUFFICES ASSUME NEW i \in DOMAIN sent'
               PROVE  \/ i \in wire' \/ \E c \in calls : c.msg = i
                      \/ Excused(i)' \/ InPlace(i, Readings)'
    BY <1>2 DEF NothingVanishes
  <2>1. CASE i = new
    BY <1>4, <1>5, <1>21, <1>22, <1>23, <2>1 DEF Excused
  <2>2. CASE i \in DOMAIN sent
    <3>1. Excused(i) => Excused(i)'
      BY <1>2, <1>4, <1>5, <1>25, <1>26, <2>2 DEF Excused
    <3>2. InPlace(i, Readings) => InPlace(i, Readings)'
      BY <1>2, <1>4, <2>2 DEF InPlace, Readings, Carried
    <3> QED
      BY <1>1, <1>23, <2>2, <3>1, <3>2 DEF NothingVanishes
  <2> QED
    BY <1>5, <2>1, <2>2
<1> QED
  BY <1>8, <1>9, <1>10, <1>11, <1>12, <1>13, <1>14, <1>15, <1>16, <1>17 DEF SparkInv

\* What only depends on the messages and the broker, when these stay as they are.
LEMMA SameMessages ==
  ASSUME UNCHANGED sent
  PROVE  /\ Value' = Value /\ AliasMaps' = AliasMaps
         /\ \A n : BirthsOf(n)' = BirthsOf(n)
         /\ \A d, b : Follows(d, b)' <=> Follows(d, b)
         /\ DataFollowsBirth' <=> DataFollowsBirth
<1>1. Value' = Value /\ AliasMaps' = AliasMaps /\ \A n : BirthsOf(n)' = BirthsOf(n)
  BY DEF Value, AliasMaps, BirthsOf
<1>2. \A d, b : Follows(d, b)' <=> Follows(d, b)
  BY DEF Follows
<1> QED
  BY <1>1, <1>2 DEF DataFollowsBirth

\* The oldest message leaves the broker, the callback takes it over (onMessage).
LEMMA StartCallbackPreserves ==
  ASSUME SparkInv, StartCallback
  PROVE  SparkInv'
<1>1. /\ SparkTypes /\ DataFollowsBirth /\ FreshIsNewest /\ TieIsBirth /\ NothingHeard
      /\ AliasesInOrder /\ AliasesAreTies /\ DataUndisturbed
      /\ WrongTagNeedsDisorder /\ NothingVanishes
  BY DEF SparkInv
<1>2. UNCHANGED <<session, sent, aliases, deltas, out, dropped, again, breaks, unheard, started>>
  BY DEF StartCallback
<1>a. PICK i \in wire, go \in {"tie", "emit"} :
        /\ \A k \in wire : i <= k
        /\ calls' = calls \cup {[msg |-> i, at |-> go, session |-> breaks]}
        /\ go = "tie" =>
             /\ sent[i].kind = "birth"
             /\ mixed' = IF TieWaits(sent[i].node) \/ Overtaken(i)
                         THEN mixed \cup {sent[i].node} ELSE mixed \ {sent[i].node}
             /\ crossed' = crossed \cup
                  {k \in Underway : sent[k].node = sent[i].node /\ sent[k].kind = "data"}
        /\ go = "emit" =>
             /\ sent[i].kind = "data" /\ mixed' = mixed
             /\ crossed' = IF TieWaits(sent[i].node) \/ sent[i].node \in mixed
                           THEN crossed \cup {i} ELSE crossed
        /\ wire' = wire \ {i}
  BY DEF StartCallback
<1> DEFINE own == sent[i].node
<1>3. PICK call : call = [msg |-> i, at |-> go, session |-> breaks] /\ calls' = calls \cup {call}
  BY <1>a
<1>4. call.msg = i /\ call.at = go
  BY <1>3
<1>5. /\ wire \subseteq DOMAIN sent /\ i \in DOMAIN sent /\ DOMAIN sent = 1..Len(sent)
      /\ Len(sent) \in Nat /\ \A c \in calls : c.msg \in DOMAIN sent
      /\ own \in Nodes
  BY <1>1 DEF SparkTypes, Message
<1>6. crossed \subseteq crossed' /\ crossed' \subseteq DOMAIN sent
  BY <1>1, <1>a, <1>5 DEF SparkTypes, Underway
<1>7. \A n : TieWaits(n) <=> Waiting(n) # {}
  BY DEF TieWaits, Waiting
<1>8. SparkTypes'
  <2>1. call \in [msg : DOMAIN sent, at : {"tie", "emit"}, session : Nat]
    BY <1>1, <1>3, <1>5 DEF SparkTypes
  <2>2. mixed' \subseteq Nodes
    BY <1>1, <1>a, <1>5 DEF SparkTypes
  <2> QED
    BY <1>1, <1>2, <1>a, <1>3, <1>6, <2>1, <2>2, SameMessages DEF SparkTypes
<1>9. DataFollowsBirth'
  BY <1>1, <1>2, SameMessages
<1>10. FreshIsNewest'
  <2>1. Fresh' = Fresh \ {i}
    BY <1>2, <1>a DEF Fresh
  <2>2. \A k \in Fresh' : i < k
    BY <1>a, <1>5, <2>1 DEF Fresh
  <2>3. \A j \in Fresh' : \A k \in DOMAIN sent' : j <= k => k \in Fresh'
    <3> SUFFICES ASSUME NEW j \in Fresh', NEW k \in DOMAIN sent, j <= k PROVE k \in Fresh'
      BY <1>2
    <3>1. j \in DOMAIN sent /\ k \in Fresh
      BY <1>1, <1>5, <2>1 DEF FreshIsNewest, Fresh
    <3>2. i < k
      BY <1>5, <2>2, <3>1
    <3> QED
      BY <1>5, <2>1, <3>1, <3>2
  <2>4. \A c \in calls' : c.msg \notin Fresh'
    BY <1>1, <1>3, <1>4, <2>1 DEF FreshIsNewest
  <2> QED
    BY <2>3, <2>4 DEF FreshIsNewest
<1>11. TieIsBirth' /\ NothingHeard'
  BY <1>1, <1>2, <1>a, <1>3, <1>4 DEF TieIsBirth, NothingHeard
<1>12. \A n : go = "emit" \/ n # own => Waiting(n)' = Waiting(n)
  BY <1>2, <1>3, <1>4 DEF Waiting
<1>13. AliasesInOrder'
  <2> SUFFICES ASSUME NEW n \in Nodes \ mixed'
               PROVE  /\ LatestWaits(n)'
                      /\ Waiting(n)' = {} => \E b \in {0} \cup BirthsOf(n)' : TiedBy(n, b)'
    BY DEF AliasesInOrder
  <2>1. BirthsOf(n)' = BirthsOf(n)
    BY <1>2, SameMessages
  <2>2. CASE go = "tie" /\ n = own
    <3>1. Waiting(n) = {} /\ ~Overtaken(i)
      BY <1>a, <1>7, <2>2
    <3>2. Waiting(n)' = {call}
      BY <1>2, <1>3, <1>4, <2>2, <3>1 DEF Waiting
    <3>3. \A k \in BirthsOf(n) : i < k => k \in wire'
      BY <1>a, <1>5, <2>2, <3>1 DEF Overtaken, BirthsOf
    <3> QED
      BY <1>4, <2>1, <3>2, <3>3 DEF LatestWaits
  <2>3. CASE go = "emit" \/ n # own
    <3>1. n \notin mixed
      BY <1>a, <2>3
    <3>2. Waiting(n)' = Waiting(n)
      BY <1>12, <2>3
    <3>3. \A k \in BirthsOf(n) : k \in wire => k \in wire'
      BY <1>a, <2>3 DEF BirthsOf
    <3>4. LatestWaits(n)'
      BY <1>1, <2>1, <3>1, <3>2, <3>3 DEF AliasesInOrder, LatestWaits
    <3>5. ASSUME Waiting(n) = {} PROVE \E b \in {0} \cup BirthsOf(n) : TiedBy(n, b)'
      <4>1. PICK b \in {0} \cup BirthsOf(n) : TiedBy(n, b)
        BY <1>1, <3>1, <3>5 DEF AliasesInOrder
      <4>2. Fresh' \subseteq Fresh
        BY <1>2, <1>a DEF Fresh
      <4>3. TiedBy(n, b)'
        BY <1>2, <2>1, <3>3, <4>1, <4>2 DEF TiedBy
      <4> QED
        BY <4>1, <4>3
    <3> QED
      BY <2>1, <3>2, <3>4, <3>5
  <2> QED
    BY <2>2, <2>3
<1>14. AliasesAreTies'
  BY <1>1, <1>2, SameMessages DEF AliasesAreTies
<1>15. DataUndisturbed'
  <2> SUFFICES ASSUME NEW c \in calls', sent[c.msg].kind = "data",
                      c.msg \notin crossed' \cup again
               PROVE  Waiting(sent[c.msg].node)' = {} /\ FindsItsOwn(sent[c.msg])
    BY <1>2 DEF DataUndisturbed, FindsItsOwn
  <2>1. CASE c \in calls
    <3>1. Waiting(sent[c.msg].node) = {} /\ FindsItsOwn(sent[c.msg])
      BY <1>1, <1>6, <2>1 DEF DataUndisturbed
    <3>2. go = "emit" \/ sent[c.msg].node # own
      BY <1>a, <2>1 DEF Underway
    <3> QED
      BY <1>2, <1>12, <3>1, <3>2
  <2>2. CASE c = call
    <3>1. go = "emit" /\ i \in Fresh
      BY <1>2, <1>a, <1>4, <2>2 DEF Fresh
    <3>2. Waiting(own) = {} /\ own \notin mixed
      BY <1>a, <1>4, <1>7, <2>2, <3>1
    <3>3. FindsItsOwn(sent[i])
      BY <1>a, <1>4, <2>2, <3>1, <3>2, FreshDataFindsItsOwn
    <3> QED
      BY <1>2, <1>4, <1>12, <2>2, <3>1, <3>2, <3>3
  <2> QED
    BY <1>3, <2>1, <2>2
<1>16. WrongTagNeedsDisorder'
  BY <1>1, <1>2, <1>6, SameMessages DEF WrongTagNeedsDisorder, Readings
<1>17. NothingVanishes'
  <2> SUFFICES ASSUME NEW k \in DOMAIN sent
               PROVE  \/ k \in wire' \/ \E c \in calls' : c.msg = k
                      \/ Excused(k)' \/ InPlace(k, Readings)'
    BY <1>2 DEF NothingVanishes
  <2>1. Excused(k) => Excused(k)'
    BY <1>2, <1>6 DEF Excused
  <2>2. InPlace(k, Readings) => InPlace(k, Readings)'
    BY <1>2 DEF InPlace, Readings, Carried
  <2>3. k \in wire => k \in wire' \/ \E c \in calls' : c.msg = k
    BY <1>a, <1>3, <1>4
  <2> QED
    BY <1>1, <1>3, <2>1, <2>2, <2>3 DEF NothingVanishes
<1> QED
  BY <1>8, <1>9, <1>10, <1>11, <1>13, <1>14, <1>15, <1>16, <1>17 DEF SparkInv

\* What comes again was handed out before and holds everything still in a callback;
\* a broker without the subscription keeps nothing (CleanSession false).
LEMMA WhatComesAgain ==
  ASSUME SparkInv, Redelivered
  PROVE  /\ breaks' = breaks + 1
         /\ \E rest \in SUBSET (DOMAIN sent) :
              /\ wire' = wire \cup rest /\ again' = again \cup rest
              /\ rest \cap Fresh = {}
              /\ \A c \in calls : c.msg \in rest
              /\ ~subscribed => rest = {}
<1>1. SparkTypes /\ FreshIsNewest /\ NothingHeard
  BY DEF SparkInv
<1>2. PICK last \in 0..MaxSent :
        LET rest == Underway \cup {i \in Delivered : i > last} IN
        wire' = wire \cup rest /\ again' = again \cup rest
  BY DEF Redelivered
<1> DEFINE rest == Underway \cup {i \in Delivered : i > last}
<1>3. wire' = wire \cup rest /\ again' = again \cup rest
  BY <1>2
<1>4. /\ DOMAIN sent = 1..Len(sent) /\ Len(sent) \in Nat
      /\ \A c \in calls : c.msg \in DOMAIN sent
  BY <1>1 DEF SparkTypes
<1>5. rest \in SUBSET (DOMAIN sent)
  BY <1>4 DEF Delivered, Underway
<1>6. rest \cap Fresh = {}
  BY <1>1 DEF FreshIsNewest, Fresh, Delivered, Underway
<1>7. \A c \in calls : c.msg \in rest
  BY DEF Underway
<1>8. ~subscribed => rest = {}
  BY <1>1, <1>4 DEF NothingHeard, Delivered, Underway
<1>9. breaks' = breaks + 1
  BY DEF Redelivered
<1> HIDE DEF rest
<1> QED
  BY <1>3, <1>5, <1>6, <1>7, <1>8, <1>9

\* A reconnect only adds what comes again to what is on its way; the callbacks at work
\* and the aliases stay (newSparkplugSource, SetCleanSession).
LEMMA ReconnectPreserves ==
  ASSUME SparkInv, Reconnect
  PROVE  SparkInv'
<1>1. /\ SparkTypes /\ DataFollowsBirth /\ FreshIsNewest /\ TieIsBirth /\ NothingHeard
      /\ AliasesInOrder /\ AliasesAreTies /\ DataUndisturbed
      /\ WrongTagNeedsDisorder /\ NothingVanishes
  BY DEF SparkInv
<1>2. /\ UNCHANGED <<sent, calls, aliases, deltas, out, dropped, mixed, crossed, unheard, started>>
      /\ subscribed' \in {subscribed, TRUE}
  BY DEF Reconnect
<1>3. breaks' = breaks + 1
  BY WhatComesAgain DEF Reconnect
<1>4. PICK rest \in SUBSET (DOMAIN sent) :
        /\ wire' = wire \cup rest /\ again' = again \cup rest
        /\ rest \cap Fresh = {}
        /\ \A c \in calls : c.msg \in rest
        /\ ~subscribed => rest = {}
  BY WhatComesAgain DEF Reconnect
<1>5. Fresh' = Fresh
  BY <1>4 DEF Fresh
<1>6. SparkTypes'
  <2>1. subscribed \in BOOLEAN /\ breaks \in Nat
    BY <1>1 DEF SparkTypes
  <2>2. subscribed' \in BOOLEAN
    BY <1>2, <2>1
  <2>3. breaks' \in Nat
    BY <1>3, <2>1
  <2>4. wire' \subseteq DOMAIN sent /\ again' \subseteq DOMAIN sent
    BY <1>1, <1>4 DEF SparkTypes
  <2> QED
    BY <1>1, <1>2, <2>2, <2>3, <2>4, SameMessages DEF SparkTypes
<1>7. DataFollowsBirth'
  BY <1>1, <1>2, SameMessages
<1>8. FreshIsNewest' /\ TieIsBirth' /\ NothingHeard'
  <2>1. subscribed \in BOOLEAN
    BY <1>1 DEF SparkTypes
  <2> QED
    BY <1>1, <1>2, <1>4, <1>5, <2>1 DEF FreshIsNewest, TieIsBirth, NothingHeard
<1>9. AliasesInOrder'
  <2> SUFFICES ASSUME NEW n \in Nodes \ mixed
               PROVE  /\ LatestWaits(n)'
                      /\ Waiting(n)' = {} => \E b \in {0} \cup BirthsOf(n)' : TiedBy(n, b)'
    BY <1>2 DEF AliasesInOrder
  <2>1. BirthsOf(n)' = BirthsOf(n) /\ Waiting(n)' = Waiting(n)
    BY <1>2, SameMessages DEF Waiting
  <2>2. LatestWaits(n)'
    BY <1>1, <1>4, <2>1 DEF AliasesInOrder, LatestWaits
  <2>3. ASSUME Waiting(n) = {} PROVE \E b \in {0} \cup BirthsOf(n) : TiedBy(n, b)'
    <3>1. PICK b \in {0} \cup BirthsOf(n) : TiedBy(n, b)
      BY <1>1, <2>3 DEF AliasesInOrder
    <3>2. TiedBy(n, b)'
      BY <1>2, <1>4, <1>5, <2>1, <3>1 DEF TiedBy
    <3> QED
      BY <3>1, <3>2
  <2> QED
    BY <2>1, <2>2, <2>3
<1>10. AliasesAreTies'
  BY <1>1, <1>2, SameMessages DEF AliasesAreTies
<1>11. DataUndisturbed'
  BY <1>2, <1>4 DEF DataUndisturbed
<1>12. WrongTagNeedsDisorder'
  BY <1>1, <1>2, <1>4, SameMessages DEF WrongTagNeedsDisorder, Readings
<1>13. NothingVanishes'
  BY <1>1, <1>2, <1>4 DEF NothingVanishes, Excused, InPlace, Readings, Carried
<1> QED
  BY <1>6, <1>7, <1>8, <1>9, <1>10, <1>11, <1>12, <1>13 DEF SparkInv

\* After a restart nothing runs, no alias is known, and everything is excused (main).
LEMMA SparkRestartPreserves ==
  ASSUME SparkInv, SparkRestart
  PROVE  SparkInv'
<1>1. /\ SparkTypes /\ DataFollowsBirth /\ FreshIsNewest /\ TieIsBirth /\ NothingHeard
      /\ AliasesInOrder /\ AliasesAreTies /\ DataUndisturbed
      /\ WrongTagNeedsDisorder /\ NothingVanishes
  BY DEF SparkInv
<1>2. /\ calls' = {} /\ aliases' = [n \in Nodes |-> NoAliases] /\ deltas' = <<>>
      /\ mixed' = {} /\ started' = Len(sent) /\ UNCHANGED <<sent, out, dropped, crossed, unheard>>
      /\ subscribed' \in {subscribed, TRUE}
  BY DEF SparkRestart
<1>3. breaks' = breaks + 1
  BY WhatComesAgain DEF SparkRestart
<1>4. PICK rest \in SUBSET (DOMAIN sent) :
        /\ wire' = wire \cup rest /\ again' = again \cup rest
        /\ rest \cap Fresh = {}
        /\ ~subscribed => rest = {}
  BY WhatComesAgain DEF SparkRestart
<1>5. Fresh' = Fresh
  BY <1>4 DEF Fresh
<1>6. DOMAIN sent = 1..Len(sent) /\ Len(sent) \in Nat /\ subscribed \in BOOLEAN
  BY <1>1 DEF SparkTypes
<1>7. SparkTypes'
  <2>1. subscribed \in BOOLEAN /\ breaks \in Nat
    BY <1>1 DEF SparkTypes
  <2>2. subscribed' \in BOOLEAN
    BY <1>2, <2>1
  <2>3. breaks' \in Nat
    BY <1>3, <2>1
  <2>4. wire' \subseteq DOMAIN sent /\ again' \subseteq DOMAIN sent
    BY <1>1, <1>4 DEF SparkTypes
  <2>5. aliases' \in [Nodes -> AliasMaps] /\ deltas' \in Seq(Value)
    BY <1>2 DEF AliasMaps
  <2> QED
    BY <1>1, <1>2, <1>6, <2>2, <2>3, <2>4, <2>5, SameMessages DEF SparkTypes
<1>8. DataFollowsBirth'
  BY <1>1, <1>2, SameMessages
<1>9. FreshIsNewest' /\ TieIsBirth' /\ NothingHeard' /\ DataUndisturbed'
  BY <1>1, <1>2, <1>4, <1>5, <1>6 DEF FreshIsNewest, TieIsBirth, NothingHeard, DataUndisturbed
<1>10. AliasesInOrder'
  <2> SUFFICES ASSUME NEW n \in Nodes PROVE Waiting(n)' = {} /\ TiedBy(n, 0)'
    BY DEF AliasesInOrder, LatestWaits
  <2>1. \A k \in BirthsOf(n)' : k <= started'
    BY <1>2, <1>6 DEF BirthsOf
  <2> QED
    BY <1>2, <2>1 DEF TiedBy, Waiting
<1>11. AliasesAreTies'
  BY <1>2 DEF AliasesAreTies
<1>12. WrongTagNeedsDisorder'
  <2>1. Readings' \subseteq Readings
    BY <1>2 DEF Readings, Range
  <2> QED
    BY <1>1, <1>2, <1>4, <2>1, SameMessages DEF WrongTagNeedsDisorder
<1>13. NothingVanishes'
  BY <1>2, <1>6 DEF NothingVanishes, Excused
<1> QED
  BY <1>7, <1>8, <1>9, <1>10, <1>11, <1>12, <1>13 DEF SparkInv

\* Where births did not meet, the one callback that waits ties the newest aliases of its
\* node, and no undisturbed data is there to see it (handleBirth, first critical section).
LEMMA TieAliasesPreserves ==
  ASSUME SparkInv, NEW c \in calls, TieAliases(c)
  PROVE  SparkInv'
<1> DEFINE own == sent[c.msg].node
<1>1. /\ SparkTypes /\ DataFollowsBirth /\ FreshIsNewest /\ TieIsBirth /\ NothingHeard
      /\ AliasesInOrder /\ AliasesAreTies /\ DataUndisturbed
      /\ WrongTagNeedsDisorder /\ NothingVanishes
  BY DEF SparkInv
<1>2. /\ c.at = "tie"
      /\ aliases' = [aliases EXCEPT ![own] = Tied(own, sent[c.msg].ties)]
      /\ UNCHANGED <<session, sent, wire, deltas, out, dropped, disorder, breaks, unheard, started>>
  BY DEF TieAliases
<1>3. PICK e : e = [c EXCEPT !.at = "emit"] /\ calls' = (calls \ {c}) \cup {e}
  BY DEF TieAliases
<1>4. /\ DOMAIN sent = 1..Len(sent) /\ Len(sent) \in Nat
      /\ \A d \in calls : d.msg \in DOMAIN sent
      /\ wire \subseteq DOMAIN sent
  BY <1>1 DEF SparkTypes
<1>5. /\ sent[c.msg] \in Message /\ sent[c.msg].kind = "birth"
      /\ sent[c.msg].ties \in Layouts /\ own \in Nodes /\ c.msg \in BirthsOf(own)
  BY <1>1, <1>2, <1>4 DEF SparkTypes, TieIsBirth, Message, BirthsOf
<1>6. e \in [msg : DOMAIN sent, at : {"tie", "emit"}, session : Nat] /\ e.msg = c.msg /\ e.at = "emit"
  BY <1>1, <1>3 DEF SparkTypes
<1>7. c \in Waiting(own) /\ \A n : Waiting(n)' = Waiting(n) \ {c}
  BY <1>2, <1>3, <1>6 DEF Waiting
<1>8. Fresh' = Fresh
  BY <1>2 DEF Fresh
<1>9. SparkTypes'
  <2>1. Tied(own, sent[c.msg].ties) \in AliasMaps
    BY <1>5 DEF AliasMaps
  <2>2. aliases' \in [Nodes -> AliasMaps]
    BY <1>1, <1>2, <2>1 DEF SparkTypes
  <2>3. calls' \subseteq [msg : DOMAIN sent', at : {"tie", "emit"}, session : Nat]
    BY <1>1, <1>2, <1>3, <1>6 DEF SparkTypes
  <2> QED
    BY <1>1, <1>2, <2>2, <2>3, SameMessages DEF SparkTypes
<1>10. DataFollowsBirth'
  BY <1>1, <1>2, SameMessages
<1>11. FreshIsNewest' /\ TieIsBirth' /\ NothingHeard'
  BY <1>1, <1>2, <1>3, <1>6, <1>8 DEF FreshIsNewest, TieIsBirth, NothingHeard
<1>12. \A n \in Nodes : n # own => aliases'[n] = aliases[n]
  BY <1>1, <1>2 DEF SparkTypes
<1>13. AliasesInOrder'
  <2> SUFFICES ASSUME NEW n \in Nodes \ mixed
               PROVE  /\ LatestWaits(n)'
                      /\ Waiting(n)' = {} => \E b \in {0} \cup BirthsOf(n)' : TiedBy(n, b)'
    BY <1>2 DEF AliasesInOrder
  <2>1. BirthsOf(n)' = BirthsOf(n)
    BY <1>2, SameMessages
  <2>2. LatestWaits(n)'
    BY <1>1, <1>2, <1>7, <2>1 DEF AliasesInOrder, LatestWaits
  <2>3. CASE n # own
    <3>1. Waiting(n)' = Waiting(n)
      BY <1>7, <2>3 DEF Waiting
    <3>2. ASSUME Waiting(n) = {} PROVE \E b \in {0} \cup BirthsOf(n) : TiedBy(n, b)'
      <4>1. PICK b \in {0} \cup BirthsOf(n) : TiedBy(n, b)
        BY <1>1, <3>2 DEF AliasesInOrder
      <4>2. TiedBy(n, b)'
        BY <1>2, <1>8, <1>12, <2>1, <2>3, <4>1 DEF TiedBy
      <4> QED
        BY <4>1, <4>2
    <3> QED
      BY <2>1, <2>2, <3>1, <3>2
  <2>4. CASE n = own
    <3>1. PICK b : b = c.msg
      OBVIOUS
    <3>2. aliases'[n] = Tied(n, sent'[b].ties)
      BY <1>1, <1>2, <1>5, <2>4, <3>1 DEF SparkTypes
    <3>3. \A k \in BirthsOf(n) : b < k => k \in wire
      BY <1>1, <1>7, <2>4, <3>1 DEF AliasesInOrder, LatestWaits
    <3>4. b # 0 /\ b \in BirthsOf(n) \ Fresh
      BY <1>1, <1>4, <1>5, <2>4, <3>1 DEF FreshIsNewest
    <3>5. TiedBy(n, b)'
      BY <1>2, <1>8, <2>1, <3>2, <3>3, <3>4 DEF TiedBy
    <3> QED
      BY <2>1, <2>2, <3>4, <3>5
  <2> QED
    BY <2>3, <2>4
<1>14. AliasesAreTies'
  <2> SUFFICES ASSUME NEW n \in Nodes
               PROVE  aliases'[n] = NoAliases \/ \E b \in BirthsOf(n) : aliases'[n] = Tied(n, sent[b].ties)
    BY <1>2, SameMessages DEF AliasesAreTies
  <2>1. CASE n = own
    BY <1>1, <1>2, <1>5, <2>1 DEF SparkTypes
  <2>2. CASE n # own
    BY <1>1, <1>2, <2>2 DEF SparkTypes, AliasesAreTies
  <2> QED
    BY <2>1, <2>2
<1>15. DataUndisturbed'
  <2> SUFFICES ASSUME NEW d \in calls', sent[d.msg].kind = "data",
                      d.msg \notin crossed \cup again
               PROVE  Waiting(sent[d.msg].node)' = {} /\ FindsItsOwn(sent[d.msg])'
    BY <1>2 DEF DataUndisturbed
  <2>1. d \in calls /\ sent[d.msg].node \in Nodes
    BY <1>1, <1>3, <1>4, <1>5, <1>6 DEF SparkTypes, Message
  <2>2. Waiting(sent[d.msg].node) = {} /\ FindsItsOwn(sent[d.msg])
    BY <1>1, <2>1 DEF DataUndisturbed
  <2>3. sent[d.msg].node # own
    BY <1>7, <2>2
  <2> QED
    BY <1>2, <1>7, <1>12, <2>1, <2>2, <2>3 DEF FindsItsOwn
<1>16. WrongTagNeedsDisorder'
  BY <1>1, <1>2, SameMessages DEF WrongTagNeedsDisorder, Readings
<1>17. NothingVanishes'
  <2>1. \A k : (\E d \in calls : d.msg = k) => \E d \in calls' : d.msg = k
    BY <1>3, <1>6
  <2> QED
    BY <1>1, <1>2, <2>1 DEF NothingVanishes, Excused, InPlace, Readings, Carried
<1> QED
  BY <1>9, <1>10, <1>11, <1>13, <1>14, <1>15, <1>16, <1>17 DEF SparkInv

\* A callback hands over its values and ends (handlePayload, second critical section).
LEMMA EmitDeltasPreserves ==
  ASSUME SparkInv, NEW c \in calls, EmitDeltas(c)
  PROVE  SparkInv'
<1> DEFINE vs == Monitored(Resolved(c.msg))
           ds == deltas \o SetToSeq(vs)
<1>1. /\ SparkTypes /\ DataFollowsBirth /\ FreshIsNewest /\ TieIsBirth /\ NothingHeard
      /\ AliasesInOrder /\ AliasesAreTies /\ DataUndisturbed
      /\ WrongTagNeedsDisorder /\ NothingVanishes
  BY DEF SparkInv
<1>2. /\ c.at = "emit" /\ deltas' = Newest(ds)
      /\ dropped' = dropped \cup {ds[k] : k \in 1..(Len(ds) - Cap)}
      /\ calls' = calls \ {c}
      /\ UNCHANGED <<session, sent, wire, aliases, out, disorder, breaks, unheard, started>>
  BY DEF EmitDeltas
<1>3. \A r \in vs : r \in Value /\ r.msg = c.msg /\ RightTag(r)
  BY ResolvedRight DEF Monitored
<1>4. SetToSeq(vs) \in Seq(vs) /\ Range(SetToSeq(vs)) = vs
  BY FinitelyMany, ListsSet
<1>5. SetToSeq(vs) \in Seq(Value)
  <2>1. vs \subseteq Value
    BY <1>3
  <2> HIDE DEF vs
  <2> QED
    BY <1>4, <2>1, SeqMonotonic
<1>6. ds \in Seq(Value) /\ Range(ds) = Range(deltas) \cup vs
  <2>1. deltas \in Seq(Value)
    BY <1>1 DEF SparkTypes
  <2> HIDE DEF vs
  <2> QED
    BY <1>4, <1>5, <2>1, ConcatProperties, RangeConcatenation
<1> HIDE DEF ds, vs
<1>7. /\ Newest(ds) \in Seq(Value)
      /\ Range(Newest(ds)) \cup {ds[k] : k \in 1..(Len(ds) - Cap)} = Range(deltas) \cup vs
  BY <1>6, CapSplits
<1>8. Readings' = Readings \cup vs
  BY <1>2, <1>7 DEF Readings
<1>9. \A n : Waiting(n)' = Waiting(n)
  BY <1>2 DEF Waiting
<1>10. Fresh' = Fresh
  BY <1>2 DEF Fresh
<1>11. SparkTypes'
  <2>1. Range(deltas) \subseteq Value
    BY <1>1, RangeOfSeq DEF SparkTypes
  <2>2. dropped' \subseteq Value
    BY <1>1, <1>2, <1>3, <1>7, <2>1 DEF SparkTypes
  <2> QED
    BY <1>1, <1>2, <1>7, <2>2, SameMessages DEF SparkTypes
<1>12. DataFollowsBirth'
  BY <1>1, <1>2, SameMessages
<1>13. FreshIsNewest' /\ TieIsBirth' /\ NothingHeard'
  BY <1>1, <1>2, <1>10 DEF FreshIsNewest, TieIsBirth, NothingHeard
<1>14. AliasesInOrder'
  <2>1. \A n : BirthsOf(n)' = BirthsOf(n)
    BY <1>2, SameMessages
  <2>2. \A n : LatestWaits(n)' <=> LatestWaits(n)
    BY <1>2, <1>9, <2>1 DEF LatestWaits
  <2>3. \A n, b : TiedBy(n, b)' <=> TiedBy(n, b)
    BY <1>2, <1>10, <2>1 DEF TiedBy
  <2> QED
    BY <1>1, <1>2, <1>9, <2>1, <2>2, <2>3 DEF AliasesInOrder
<1>15. DataUndisturbed'
  BY <1>1, <1>2, <1>9 DEF DataUndisturbed, FindsItsOwn
<1>16. AliasesAreTies'
  BY <1>1, <1>2, SameMessages DEF AliasesAreTies
<1>17. WrongTagNeedsDisorder'
  <2>1. \A r \in Readings \cup vs : RightTag(r)
    BY <1>1, <1>3 DEF WrongTagNeedsDisorder, RightTag
  <2>2. \A r : RightTag(r)' <=> RightTag(r)
    BY <1>2, SameMessages DEF RightTag
  <2> QED
    BY <1>8, <2>1, <2>2 DEF WrongTagNeedsDisorder, RightTag
<1>18. NothingVanishes'
  <2> SUFFICES ASSUME NEW k \in DOMAIN sent
               PROVE  \/ k \in wire \/ \E d \in calls' : d.msg = k
                      \/ Excused(k) \/ InPlace(k, Readings')
    BY <1>2 DEF NothingVanishes, Excused, InPlace, Carried
  <2>1. InPlace(k, Readings) => InPlace(k, Readings')
    BY <1>8 DEF InPlace
  <2>2. CASE k = c.msg
    <3>1. Excused(k) \/ InPlace(k, vs)
      BY <2>2, ResolvedComplete DEF vs
    <3>2. InPlace(k, vs) => InPlace(k, Readings')
      BY <1>8 DEF InPlace
    <3> QED
      BY <3>1, <3>2
  <2>3. CASE k # c.msg
    BY <1>1, <1>2, <2>1, <2>3 DEF NothingVanishes
  <2> QED
    BY <2>2, <2>3
<1> QED
  BY <1>11, <1>12, <1>13, <1>14, <1>15, <1>16, <1>17, <1>18 DEF SparkInv

\* Poll moves the deltas to the queue.
LEMMA DrainDeltasPreserves ==
  ASSUME SparkInv, DrainDeltas
  PROVE  SparkInv'
<1>1. /\ SparkTypes /\ DataFollowsBirth /\ FreshIsNewest /\ TieIsBirth /\ NothingHeard
      /\ AliasesInOrder /\ AliasesAreTies /\ DataUndisturbed
      /\ WrongTagNeedsDisorder /\ NothingVanishes
  BY DEF SparkInv
<1>2. /\ out' = out \cup Range(deltas) /\ deltas' = <<>>
      /\ UNCHANGED <<session, sent, wire, calls, aliases, dropped, disorder, breaks, unheard, started>>
  BY DEF DrainDeltas
<1>3. Readings' = Readings
  BY <1>2 DEF Readings, Range
<1>4. SparkTypes'
  <2>1. Range(deltas) \subseteq Value
    BY <1>1, RangeOfSeq DEF SparkTypes
  <2> QED
    BY <1>1, <1>2, <2>1, SameMessages DEF SparkTypes
<1>5. DataFollowsBirth'
  BY <1>1, <1>2, SameMessages
<1>6. FreshIsNewest' /\ TieIsBirth' /\ NothingHeard'
  BY <1>1, <1>2 DEF FreshIsNewest, Fresh, TieIsBirth, NothingHeard
<1>7. AliasesInOrder' /\ DataUndisturbed'
  BY <1>1, <1>2
  DEF AliasesInOrder, LatestWaits, Waiting, TiedBy, Fresh, BirthsOf, DataUndisturbed, FindsItsOwn
<1>8. AliasesAreTies'
  BY <1>1, <1>2, SameMessages DEF AliasesAreTies
<1>9. WrongTagNeedsDisorder'
  BY <1>1, <1>2, <1>3, SameMessages DEF WrongTagNeedsDisorder
<1>10. NothingVanishes'
  BY <1>1, <1>2, <1>3 DEF NothingVanishes, Excused, InPlace, Carried
<1> QED
  BY <1>4, <1>5, <1>6, <1>7, <1>8, <1>9, <1>10 DEF SparkInv

\* Every step of nodes, broker, callbacks and poll loop keeps the invariant.
LEMMA SparkStepPreserves == SparkInv /\ [SparkNext]_sparkVars => SparkInv'
<1> SUFFICES ASSUME SparkInv, [SparkNext]_sparkVars PROVE SparkInv'
  OBVIOUS
<1>1. ASSUME NEW n \in Nodes, NodeBirths(n) PROVE SparkInv'
  <2>1. PICK ties \in Layouts : Published([kind |-> "birth", node |-> n, ties |-> ties])
    BY <1>1 DEF NodeBirths
  <2>2. [kind |-> "birth", node |-> n, ties |-> ties] \in Message
    BY DEF Message
  <2> QED
    BY <2>1, <2>2, PublishedPreserves
<1>2. ASSUME NEW n \in Nodes, NodeReports(n) PROVE SparkInv'
  <2>1. PICK m \in Metrics, i \in BirthsOf(n) :
          /\ \A k \in BirthsOf(n) : k <= i
          /\ Published([kind |-> "data", node |-> n, metric |-> m, alias |-> sent[i].ties[m], birth |-> i])
    BY <1>2 DEF NodeReports
  <2>2. i \in Nat /\ sent[i].ties[m] \in Nat
    <3>1. sent[i] \in Message /\ sent[i].kind = "birth" /\ i \in Nat
      BY DEF SparkInv, SparkTypes, BirthsOf
    <3>2. sent[i].ties \in Layouts
      BY <3>1 DEF Message
    <3> QED
      BY <3>1, <3>2, LayoutsAssumption
  <2>3. [kind |-> "data", node |-> n, metric |-> m, alias |-> sent[i].ties[m], birth |-> i] \in Message
    BY <2>2 DEF Message
  <2> QED
    BY <2>1, <2>3, PublishedPreserves
<1>3. CASE UNCHANGED sparkVars
  <2> USE <1>3 DEF sparkVars
  <2>1. SparkTypes' /\ DataFollowsBirth'
    BY SameMessages DEF SparkInv, SparkTypes
  <2>2. FreshIsNewest' /\ TieIsBirth' /\ NothingHeard'
    BY DEF SparkInv, FreshIsNewest, Fresh, TieIsBirth, NothingHeard
  <2>3. AliasesInOrder' /\ DataUndisturbed'
    BY DEF SparkInv, AliasesInOrder, LatestWaits, Waiting, TiedBy, Fresh, BirthsOf,
           DataUndisturbed, FindsItsOwn
  <2>4. AliasesAreTies'
    BY SameMessages DEF SparkInv, AliasesAreTies
  <2>5. WrongTagNeedsDisorder'
    BY SameMessages DEF SparkInv, WrongTagNeedsDisorder, Readings
  <2>6. NothingVanishes'
    BY DEF SparkInv, NothingVanishes, Excused, InPlace, Carried, Readings
  <2> QED
    BY <2>1, <2>2, <2>3, <2>4, <2>5, <2>6 DEF SparkInv
<1> QED
  BY <1>1, <1>2, <1>3, StartCallbackPreserves, ReconnectPreserves, SparkRestartPreserves,
     TieAliasesPreserves, EmitDeltasPreserves, DrainDeltasPreserves DEF SparkNext, Callback

\* The polled drivers beside it leave the Sparkplug driver alone (NewSource).
LEMMA SourcesKeepSparkInv == SourcesSpec => []SparkInv
<1>1. SourcesInit => SparkInv
  BY SparkInitEstablishes DEF SourcesInit
<1>2. SparkInv /\ [SourcesNext]_<<fieldVars, sparkVars>> => SparkInv'
  BY SparkStepPreserves DEF SourcesNext
<1> QED
  BY <1>1, <1>2, PTL DEF SourcesSpec

\* Whatever births, data, repetitions and restarts come: a value gets the tag of another
\* metric only if the broker repeated it, or its callback met a birth on its way to the
\* alias map or what births that met there had left (handleData).
THEOREM WrongTagNeedsDisorderAlways == SourcesSpec => []WrongTagNeedsDisorder
<1>1. SparkInv => WrongTagNeedsDisorder
  BY DEF SparkInv
<1> QED
  BY <1>1, SourcesKeepSparkInv, PTL

\* No published value is lost on the way to the queue, except those a restart, a birth
\* not heard of, a repetition or such a meeting excuse (handlePayload, appendDelta, Poll).
THEOREM NothingVanishesAlways == SourcesSpec => []NothingVanishes
<1>1. SparkInv => NothingVanishes
  BY DEF SparkInv
<1> QED
  BY <1>1, SourcesKeepSparkInv, PTL

-----------------------------------------------------------------------------
(* The polled drivers.  What they say of a tag depends on the connection,   *)
(* which breaks with the link and is made again only while there is one.    *)

Words == {"silent", "good", "bad"}

\* A number that is not finite never leaves a driver (Marshalled).
DriverTypes ==
  /\ driver \in Drivers
  /\ link \in {"up", "down"}
  /\ reg \in [FieldTags -> {"good", "nan", "fails"}]
  /\ conn \in {"none", "alive", "dead"}
  /\ at \in 0..NTags
  /\ got \in [FieldTags -> Words]
  /\ sub \in BOOLEAN
  /\ told \in [FieldTags -> {"never", "good", "nan", "fails"}]
  /\ pending \in [FieldTags -> {"none"} \cup Words]
  /\ seen \in [FieldTags -> {"offline"} \cup Words]

\* The client of a driver, and what only its kind of driver has.
Connected ==
  /\ link = "down" => conn # "alive"
  /\ at # 0 => driver = "modbus" /\ conn # "none"
  /\ sub => driver = "opcua_subscribe"

Polling == driver \in {"modbus", "opcua_poll"}

\* "Offline" is said of a device, of all its tags at once, and by the polling drivers
\* only: a subscription never says it.
OfflineTogether ==
  \A t \in FieldTags : seen[t] = "offline" => Polling /\ seen = All("offline")

\* Inductive.
DriverInv == DriverTypes /\ Connected /\ OfflineTogether

\* What a read gives.
LEMMA QualityIsFinite ==
  ASSUME NEW r \in {"good", "nan", "fails"} PROVE Quality(r) \in Words
  BY DEF Quality, Marshalled, Words

\* Every start is one of a driver that has said nothing.
LEMMA DriverInitEstablishes == FieldInit => DriverInv
  BY NTagsAssumption
  DEF FieldInit, Started, DriverInv, DriverTypes, Connected, OfflineTogether, All, Words, FieldTags

\* A Modbus poll: register by register, up to the first failure.
LEMMA ModbusKeepsDriverInv ==
  ASSUME DriverInv, ModbusBegins \/ ModbusReads \/ ModbusReadFails PROVE DriverInv'
<1>1. NTags \in Nat \ {0} /\ FieldTags = 1..NTags
  BY NTagsAssumption DEF FieldTags
<1>2. CASE ModbusBegins
  BY <1>1, <1>2
  DEF ModbusBegins, DriverInv, DriverTypes, Connected, OfflineTogether, Polling, All, Words
<1>3. CASE ModbusReads
  <2>1. /\ at \in FieldTags /\ got' = [got EXCEPT ![at] = Quality(reg[at])]
        /\ \/ at < NTags /\ at' = at + 1 /\ seen' = seen
           \/ at' = 0 /\ seen' = got'
        /\ UNCHANGED <<driver, link, reg, conn, sub, told, pending>>
    BY <1>3 DEF ModbusReads
  <2>2. Quality(reg[at]) \in Words
    BY <2>1, QualityIsFinite DEF DriverInv, DriverTypes
  <2>3. got' \in [FieldTags -> Words]
    BY <2>1, <2>2 DEF DriverInv, DriverTypes
  <2>4. DriverTypes'
    BY <1>1, <2>1, <2>3 DEF DriverInv, DriverTypes
  <2>5. Connected'
    BY <1>1, <2>1 DEF DriverInv, Connected
  <2>6. OfflineTogether'
    BY <2>1, <2>3 DEF DriverInv, OfflineTogether, Polling, Words
  <2> QED
    BY <2>4, <2>5, <2>6 DEF DriverInv
<1>4. CASE ModbusReadFails
  <2>1. /\ conn' = "none" /\ at' = 0 /\ seen' = ReadSoFar(at)
        /\ UNCHANGED <<driver, link, reg, got, sub, told, pending>>
    BY <1>4 DEF ModbusReadFails, AfterError
  <2>2. seen' \in [FieldTags -> Words]
    BY <2>1 DEF DriverInv, DriverTypes, ReadSoFar, Words
  <2> QED
    BY <1>1, <2>1, <2>2
    DEF DriverInv, DriverTypes, Connected, OfflineTogether, Polling, Words
<1> QED
  BY <1>2, <1>3, <1>4

\* The polls that are one request, and those that only drain what was notified.
LEMMA OtherPollsKeepDriverInv ==
  ASSUME DriverInv, PollRead \/ PollReadFails \/ DrainNotified \/ SensorPoll
  PROVE  DriverInv'
<1>1. CASE PollRead
  <2>1. seen' \in [FieldTags -> Words]
    BY <1>1, QualityIsFinite DEF PollRead, DriverInv, DriverTypes
  <2> QED
    BY <1>1, <2>1
    DEF PollRead, DriverInv, DriverTypes, Connected, OfflineTogether, Polling, Words
<1>2. CASE PollReadFails
  BY <1>2 DEF PollReadFails, AfterError, All, DriverInv, DriverTypes, Connected, OfflineTogether, Polling
<1>3. CASE DrainNotified
  <2>1. /\ driver = "opcua_subscribe" /\ pending' = All("none")
        /\ seen' = [t \in FieldTags |-> IF pending[t] = "none" THEN seen[t] ELSE pending[t]]
        /\ UNCHANGED <<driver, link, reg, conn, at, got, sub, told>>
    BY <1>3 DEF DrainNotified
  <2>2. \A t \in FieldTags : seen[t] # "offline"
    BY <2>1 DEF DriverInv, OfflineTogether, Polling
  <2>3. seen' \in [FieldTags -> Words]
    BY <2>1, <2>2 DEF DriverInv, DriverTypes
  <2> QED
    BY <2>1, <2>3 DEF All, DriverInv, DriverTypes, Connected, OfflineTogether, Words
<1>4. CASE SensorPoll
  BY <1>4 DEF SensorPoll, All, DriverInv, DriverTypes, Connected, OfflineTogether, Polling, Words
<1> QED
  BY <1>1, <1>2, <1>3, <1>4

\* The devices, the notifications and the restarts.
LEMMA FieldKeepsDriverInv ==
  ASSUME DriverInv,
         LinkChanges \/ RegisterChanges \/ DriverRestart \/ \E t \in FieldTags : Notify(t)
  PROVE  DriverInv'
<1>1. CASE LinkChanges
  BY <1>1 DEF LinkChanges, DriverInv, DriverTypes, Connected, OfflineTogether, Polling
<1>2. CASE RegisterChanges
  BY <1>2 DEF RegisterChanges, DriverInv, DriverTypes, Connected, OfflineTogether, Polling
<1>3. CASE DriverRestart
  BY <1>3, NTagsAssumption
  DEF DriverRestart, Started, All, DriverInv, DriverTypes, Connected, OfflineTogether, Polling, Words
<1>4. ASSUME NEW t \in FieldTags, Notify(t) PROVE DriverInv'
  <2>1. Quality(reg[t]) \in Words
    BY QualityIsFinite DEF DriverInv, DriverTypes
  <2> QED
    BY <1>4, <2>1 DEF Notify, DriverInv, DriverTypes, Connected, OfflineTogether, Polling
<1> QED
  BY <1>1, <1>2, <1>3, <1>4

\* Every step of a gateway keeps the invariant of its polled driver.
LEMMA DriverStepPreserves ==
  ASSUME DriverInv, [SourcesNext]_<<fieldVars, sparkVars>> PROVE DriverInv'
<1>1. CASE FieldStep
  BY <1>1, ModbusKeepsDriverInv, OtherPollsKeepDriverInv, FieldKeepsDriverInv
  DEF FieldStep, Polls
<1>2. CASE UNCHANGED fieldVars
  BY <1>2 DEF fieldVars, DriverInv, DriverTypes, Connected, OfflineTogether, Polling
<1> QED
  BY <1>1, <1>2 DEF SourcesNext

\* The invariant of the polled drivers holds.
LEMMA DriverInvAlways == SourcesSpec => []DriverInv
<1>1. SourcesInit => DriverInv
  BY DriverInitEstablishes DEF SourcesInit
<1> QED
  BY <1>1, DriverStepPreserves, PTL DEF SourcesSpec

\* Outages show for all tags of a device together, and in subscription mode never,
\* for any number of tags, outages, failing registers and restarts (offlineAll,
\* drainDeltas).
THEOREM OfflineTogetherAlways == SourcesSpec => []OfflineTogether
<1>1. DriverInv => OfflineTogether
  BY DEF DriverInv
<1> QED
  BY <1>1, DriverInvAlways, PTL

\* With the device away a step of a poll marks every tag offline, or begins a poll with
\* the broken connection, or drops that connection: the safety core of OutageIsMarked,
\* since the last comes after the second and the first after the last.
OutageShowsSoon ==
  [][Polling /\ link = "down" /\ Polls
       => \/ seen' = All("offline")
          \/ conn = "dead" /\ at = 0 /\ at' = 1
          \/ conn = "dead" /\ at # 0 /\ at' = 0 /\ conn' = "none"]_fieldVars

\* No reading is taken from a device that is away, and the outage is marked with the
\* second poll at the latest, whatever broke in the middle of a poll before (Poll,
\* resetConn, pollRead).
THEOREM OutageShowsSoonAlways == SourcesSpec => OutageShowsSoon
<1>1. ASSUME DriverInv, Polling, link = "down", Polls
      PROVE  \/ seen' = All("offline")
             \/ conn = "dead" /\ at = 0 /\ at' = 1
             \/ conn = "dead" /\ at # 0 /\ at' = 0 /\ conn' = "none"
  <2>1. conn \in {"none", "dead"}
    BY <1>1 DEF DriverInv, DriverTypes, Connected
  <2>2. CASE ModbusBegins
    BY <1>1, <2>1, <2>2 DEF ModbusBegins
  <2>3. CASE ModbusReadFails
    BY <1>1, <2>1, <2>3, NTagsAssumption
    DEF ModbusReadFails, AfterError, FieldTags, DriverInv, Connected
  <2>4. CASE PollReadFails
    BY <2>4 DEF PollReadFails
  <2> QED
    BY <1>1, <2>2, <2>3, <2>4 DEF Polls, Polling, ModbusReads, PollRead, DrainNotified, SensorPoll
<1>2. DriverInv /\ [SourcesNext]_<<fieldVars, sparkVars>> =>
        [Polling /\ link = "down" /\ Polls
           => \/ seen' = All("offline")
              \/ conn = "dead" /\ at = 0 /\ at' = 1
              \/ conn = "dead" /\ at # 0 /\ at' = 0 /\ conn' = "none"]_fieldVars
  BY <1>1
<1> QED
  BY <1>2, DriverInvAlways, PTL DEF SourcesSpec, OutageShowsSoon

-----------------------------------------------------------------------------
(* The write bridge.  That a held item is newer than what the bridge       *)
(* remembers, and that only the command in hand and remembered commands    *)
(* have been written more often than something failed, has to be carried   *)
(* along.                                                                  *)

\* A held item is newer than the memory.
HeldIsNew ==
  \A a \in Actuators :
    feed[a] # NoItem => feed[a].seq >= 1 /\ writtenSeq[a] < feed[a].seq

\* A command the memory does not cover, the one in hand included, was written at
\* most once for every fault; every command at most once more.
WritesNeedFaults ==
  \A a \in Actuators : \A k \in 1..MaxSeq :
    /\ writtenSeq[a] < k => writes[a][k] <= failures
    /\ writes[a][k] <= 1 + failures

\* Memory, register and table, and the place of the held item between them.
Ordered ==
  \A a \in Actuators :
    /\ writtenSeq[a] <= register[a].seq
    /\ register[a].seq <= command[a].seq
    /\ feed[a] # NoItem => feed[a].seq \in register[a].seq..command[a].seq

\* The number of a command names it: a register or a held item with the number of
\* the table's command is that command, and a held item with the number of the
\* register's command repeats it.
Named(a) ==
  /\ register[a].seq = command[a].seq => register[a] = command[a]
  /\ feed[a] # NoItem /\ feed[a].seq = command[a].seq => feed[a] = command[a]
  /\ feed[a] # NoItem /\ feed[a].seq = register[a].seq => feed[a] = register[a]

NumberNames == \A a \in Actuators : Named(a)

\* Inductive.
BridgeInv == BridgeTypeOK /\ HeldIsNew /\ WritesNeedFaults /\ Ordered

-----------------------------------------------------------------------------
\* The empty item is a command of number 0 (gateway/control.go writtenSeq).
LEMMA NoItemIsCommand == NoItem \in Command /\ NoItem.seq = 0
  BY RestAssumption, BoundsAssumption DEF NoItem, Command, Seqs

\* Before the first command everything is at 0 (gateway/control.go writtenSeq).
LEMMA BridgeInitEstablishes == BridgeInit => BridgeInv
<1> SUFFICES ASSUME BridgeInit PROVE BridgeInv
  OBVIOUS
<1>1. BridgeTypeOK
  BY NoItemIsCommand, BoundsAssumption DEF BridgeInit, BridgeTypeOK, Seqs
<1>2. HeldIsNew
  BY DEF BridgeInit, HeldIsNew
<1>3. WritesNeedFaults
  BY DEF BridgeInit, WritesNeedFaults
<1>4. Ordered
  BY NoItemIsCommand DEF BridgeInit, Ordered
<1> QED
  BY <1>1, <1>2, <1>3, <1>4 DEF BridgeInv

\* A new command only moves the table ahead (store/control.go UpsertActuatorWrite).
LEMMA WriteActuatorPreserves ==
  ASSUME BridgeInv, NEW a \in Actuators, NEW v \in Values, WriteActuator(a, v)
  PROVE  BridgeInv'
<1> USE DEF BridgeInv, WriteActuator, Bumped
<1>1. BridgeTypeOK'
  <2>1. Bumped(command[a], v) \in Command
    BY BoundsAssumption DEF BridgeTypeOK, Command, Seqs
  <2> QED
    BY <2>1 DEF BridgeTypeOK
<1>2. HeldIsNew'
  BY DEF HeldIsNew
<1>3. WritesNeedFaults'
  BY DEF WritesNeedFaults
<1>4. Ordered'
  <2> SUFFICES ASSUME NEW b \in Actuators
               PROVE  /\ writtenSeq[b] <= register[b].seq
                      /\ register[b].seq <= command'[b].seq
                      /\ feed[b] # NoItem => feed[b].seq \in register[b].seq..command'[b].seq
    BY DEF Ordered
  <2>1. command[b].seq \in Nat /\ register[b].seq \in Nat /\ feed[b].seq \in Nat
    BY BoundsAssumption DEF BridgeTypeOK, Command, Seqs
  <2>2. command'[b].seq \in Nat /\ command[b].seq <= command'[b].seq
    BY <2>1 DEF BridgeTypeOK
  <2> QED
    BY <2>1, <2>2 DEF Ordered
<1> QED
  BY <1>1, <1>2, <1>3, <1>4

\* A poll takes only commands newer than the memory (ControlWriteBridge.tick).
LEMMA PollPreserves ==
  ASSUME BridgeInv, Poll PROVE BridgeInv'
<1> USE DEF BridgeInv, Poll
<1>1. BridgeTypeOK'
  BY NoItemIsCommand DEF BridgeTypeOK
<1>2. HeldIsNew'
  BY BoundsAssumption DEF BridgeTypeOK, HeldIsNew, Command, Seqs
<1>3. WritesNeedFaults'
  BY DEF WritesNeedFaults
<1>4. Ordered'
  BY BoundsAssumption DEF BridgeTypeOK, Ordered, Command, Seqs
<1> QED
  BY <1>1, <1>2, <1>3, <1>4

\* Counting one more keeps a function of counters one.
LEMMA CountOneMore ==
  ASSUME NEW D, NEW f \in [D -> Nat], NEW d \in D
  PROVE  [f EXCEPT ![d] = @ + 1] \in [D -> Nat]
  OBVIOUS

\* The command in hand has a number the device can count.
LEMMA HeldNumber ==
  ASSUME BridgeInv, NEW a \in Actuators, feed[a] # NoItem
  PROVE  /\ feed[a].seq \in 1..MaxSeq
         /\ writes[a][feed[a].seq] <= failures
         /\ failures \in Nat
         /\ [writes[a] EXCEPT ![feed[a].seq] = @ + 1] \in [1..MaxSeq -> Nat]
<1>1. feed[a].seq \in 1..MaxSeq
  BY BoundsAssumption DEF BridgeInv, BridgeTypeOK, HeldIsNew, Command, Seqs
<1>2. failures \in Nat
  BY BoundsAssumption DEF BridgeInv, BridgeTypeOK
<1>3. writes[a] \in [1..MaxSeq -> Nat]
  BY DEF BridgeInv, BridgeTypeOK
<1>4. [writes[a] EXCEPT ![feed[a].seq] = @ + 1] \in [1..MaxSeq -> Nat]
  BY <1>1, <1>3, CountOneMore
<1>5. writes[a][feed[a].seq] <= failures
  BY <1>1 DEF BridgeInv, HeldIsNew, WritesNeedFaults
<1> QED
  BY <1>1, <1>2, <1>4, <1>5

\* A confirmed write brings register and memory to the number of the item, once
\* more than there were faults at most (ControlWriteBridge.write).
LEMMA DeliverPreserves ==
  ASSUME BridgeInv, NEW a \in Actuators, Deliver(a)
  PROVE  BridgeInv'
<1> USE DEF Deliver, FieldWrite, Handled
<1>1. /\ feed[a].seq \in 1..MaxSeq /\ writes[a][feed[a].seq] <= failures /\ failures \in Nat
  BY HeldNumber
<1>2. BridgeTypeOK'
  <2>1. feed[a] \in Command /\ feed[a].seq \in Seqs
    BY <1>1 DEF BridgeInv, BridgeTypeOK, Seqs
  <2>2. writes' \in [Actuators -> [1..MaxSeq -> Nat]]
    BY HeldNumber DEF BridgeInv, BridgeTypeOK
  <2>3. writtenSeq' \in [Actuators -> Seqs]
    BY <2>1 DEF BridgeInv, BridgeTypeOK
  <2>4. register' \in [Actuators -> Command] /\ feed' \in [Actuators -> Command]
    BY <2>1, NoItemIsCommand DEF BridgeInv, BridgeTypeOK
  <2> QED
    BY <2>2, <2>3, <2>4 DEF BridgeInv, BridgeTypeOK
<1>3. HeldIsNew'
  BY DEF BridgeInv, BridgeTypeOK, HeldIsNew
<1>4. WritesNeedFaults'
  <2> SUFFICES ASSUME NEW b \in Actuators, NEW k \in 1..MaxSeq
               PROVE  /\ writtenSeq'[b] < k => writes'[b][k] <= failures
                      /\ writes'[b][k] <= 1 + failures
    BY DEF WritesNeedFaults
  <2>1. writes[b][k] \in Nat /\ writtenSeq[b] \in Nat /\ k \in Nat
    BY BoundsAssumption DEF BridgeInv, BridgeTypeOK, Seqs
  <2>2. CASE b = a /\ k = feed[a].seq
    BY <1>1, <2>1, <2>2 DEF BridgeInv, BridgeTypeOK
  <2>3. CASE b = a /\ k # feed[a].seq
    BY <1>1, <2>1, <2>3 DEF BridgeInv, BridgeTypeOK, WritesNeedFaults, HeldIsNew
  <2>4. CASE b # a
    BY <2>1, <2>4 DEF BridgeInv, BridgeTypeOK, WritesNeedFaults
  <2> QED
    BY <2>2, <2>3, <2>4
<1>5. Ordered'
  <2> SUFFICES ASSUME NEW b \in Actuators
               PROVE  /\ writtenSeq'[b] <= register'[b].seq
                      /\ register'[b].seq <= command[b].seq
                      /\ feed'[b] # NoItem => feed'[b].seq \in register'[b].seq..command[b].seq
    BY DEF Ordered
  <2>1. /\ feed[b].seq \in Nat /\ command[b].seq \in Nat
        /\ register[b].seq \in Nat /\ writtenSeq[b] \in Nat
    BY BoundsAssumption DEF BridgeInv, BridgeTypeOK, Command, Seqs
  <2>2. CASE b = a
    <3>1. register'[b] = feed[b] /\ feed'[b] = NoItem /\ writtenSeq'[b] = feed[b].seq
      BY <2>2 DEF BridgeInv, BridgeTypeOK
    <3>2. feed[b].seq <= command[b].seq
      BY <2>1, <2>2 DEF BridgeInv, Ordered
    <3> QED
      BY <2>1, <2>2, <3>1, <3>2 DEF BridgeInv, HeldIsNew
  <2>3. CASE b # a
    <3>1. register'[b] = register[b] /\ feed'[b] = feed[b] /\ writtenSeq'[b] = writtenSeq[b]
      BY <2>3 DEF BridgeInv, BridgeTypeOK
    <3> QED
      BY <3>1 DEF BridgeInv, Ordered
  <2> QED
    BY <2>2, <2>3
<1> QED
  BY <1>2, <1>3, <1>4, <1>5 DEF BridgeInv

\* A write that did not reach the device changes nothing but the fault count.
LEMMA WriteFailsPreserves ==
  ASSUME BridgeInv, NEW a \in Actuators, WriteFails(a)
  PROVE  BridgeInv'
<1> USE DEF WriteFails, Failure, Handled
<1>1. BridgeTypeOK'
  BY NoItemIsCommand, BoundsAssumption DEF BridgeInv, BridgeTypeOK
<1>2. HeldIsNew'
  BY DEF BridgeInv, BridgeTypeOK, HeldIsNew
<1>3. WritesNeedFaults'
  BY BoundsAssumption DEF BridgeInv, BridgeTypeOK, WritesNeedFaults, Seqs
<1>4. Ordered'
  BY DEF BridgeInv, BridgeTypeOK, Ordered
<1> QED
  BY <1>1, <1>2, <1>3, <1>4 DEF BridgeInv

\* A write whose answer is lost is one more write and one more fault.
LEMMA WriteUnconfirmedPreserves ==
  ASSUME BridgeInv, NEW a \in Actuators, WriteUnconfirmed(a)
  PROVE  BridgeInv'
<1> USE DEF WriteUnconfirmed, Failure, FieldWrite, Handled
<1>1. /\ feed[a].seq \in 1..MaxSeq /\ writes[a][feed[a].seq] <= failures /\ failures \in Nat
  BY HeldNumber
<1>2. BridgeTypeOK'
  BY <1>1, NoItemIsCommand, BoundsAssumption DEF BridgeInv, BridgeTypeOK, Seqs
<1>3. HeldIsNew'
  BY DEF BridgeInv, BridgeTypeOK, HeldIsNew
<1>4. WritesNeedFaults'
  <2> SUFFICES ASSUME NEW b \in Actuators, NEW k \in 1..MaxSeq
               PROVE  /\ writtenSeq[b] < k => writes'[b][k] <= failures + 1
                      /\ writes'[b][k] <= 1 + (failures + 1)
    BY DEF WritesNeedFaults
  <2>1. writes[b][k] \in Nat /\ writtenSeq[b] \in Nat /\ k \in Nat
    BY BoundsAssumption DEF BridgeInv, BridgeTypeOK, Seqs
  <2>2. writes'[b][k] = IF b = a /\ k = feed[a].seq THEN writes[b][k] + 1 ELSE writes[b][k]
    BY DEF BridgeInv, BridgeTypeOK
  <2>3. /\ writtenSeq[b] < k => writes[b][k] <= failures
        /\ writes[b][k] <= 1 + failures
    BY DEF BridgeInv, WritesNeedFaults
  <2> QED
    BY <1>1, <2>1, <2>2, <2>3
<1>5. Ordered'
  <2> SUFFICES ASSUME NEW b \in Actuators
               PROVE  /\ writtenSeq[b] <= register'[b].seq
                      /\ register'[b].seq <= command[b].seq
                      /\ feed'[b] # NoItem => feed'[b].seq \in register'[b].seq..command[b].seq
    BY DEF Ordered
  <2>1. /\ feed[b].seq \in Nat /\ command[b].seq \in Nat
        /\ register[b].seq \in Nat /\ writtenSeq[b] \in Nat
    BY BoundsAssumption DEF BridgeInv, BridgeTypeOK, Command, Seqs
  <2>2. CASE b = a
    <3>1. register'[b] = feed[b] /\ feed'[b] = NoItem
      BY <2>2 DEF BridgeInv, BridgeTypeOK
    <3>2. feed[b].seq <= command[b].seq
      BY <2>1, <2>2 DEF BridgeInv, Ordered
    <3> QED
      BY <2>1, <2>2, <3>1, <3>2 DEF BridgeInv, HeldIsNew
  <2>3. CASE b # a
    <3>1. register'[b] = register[b] /\ feed'[b] = feed[b]
      BY <2>3 DEF BridgeInv, BridgeTypeOK
    <3> QED
      BY <3>1 DEF BridgeInv, Ordered
  <2> QED
    BY <2>2, <2>3
<1> QED
  BY <1>2, <1>3, <1>4, <1>5 DEF BridgeInv

\* A restart forgets what was delivered; the restart itself is the fault that
\* pays for the next write of each command.
LEMMA BridgeRestartPreserves ==
  ASSUME BridgeInv, BridgeRestart PROVE BridgeInv'
<1> USE DEF BridgeRestart, Failure
<1>1. BridgeTypeOK'
  BY NoItemIsCommand, BoundsAssumption DEF BridgeInv, BridgeTypeOK, Seqs
<1>2. HeldIsNew'
  BY DEF HeldIsNew
<1>3. WritesNeedFaults'
  BY BoundsAssumption DEF BridgeInv, BridgeTypeOK, WritesNeedFaults
<1>4. Ordered'
  BY BoundsAssumption DEF BridgeInv, BridgeTypeOK, Ordered, Command, Seqs
<1> QED
  BY <1>1, <1>2, <1>3, <1>4 DEF BridgeInv

\* Every step of operator, bridge and device keeps the invariant (ControlWriteBridge).
LEMMA BridgeStepPreserves == BridgeInv /\ [BridgeNext]_bridgeVars => BridgeInv'
<1> SUFFICES ASSUME BridgeInv, [BridgeNext]_bridgeVars PROVE BridgeInv'
  OBVIOUS
<1>1. CASE Poll
  BY <1>1, PollPreserves
<1>2. CASE BridgeRestart
  BY <1>2, BridgeRestartPreserves
<1>3. ASSUME NEW a \in Actuators, NEW v \in Values, WriteActuator(a, v) PROVE BridgeInv'
  BY <1>3, WriteActuatorPreserves
<1>4. ASSUME NEW a \in Actuators, Deliver(a) PROVE BridgeInv'
  BY <1>4, DeliverPreserves
<1>5. ASSUME NEW a \in Actuators, WriteFails(a) PROVE BridgeInv'
  BY <1>5, WriteFailsPreserves
<1>6. ASSUME NEW a \in Actuators, WriteUnconfirmed(a) PROVE BridgeInv'
  BY <1>6, WriteUnconfirmedPreserves
<1>7. CASE UNCHANGED bridgeVars
  BY <1>7 DEF bridgeVars, BridgeInv, BridgeTypeOK, HeldIsNew, WritesNeedFaults, Ordered
<1> QED
  BY <1>1, <1>2, <1>3, <1>4, <1>5, <1>6, <1>7 DEF BridgeNext

\* No number is remembered, held or in a register that was never handed out
\* (store/control.go UpsertActuatorWrite, gateway/control.go write).
THEOREM BridgeTypes == BridgeSpec => []BridgeTypeOK
<1>1. BridgeInv => BridgeTypeOK
  BY DEF BridgeInv
<1> QED
  BY <1>1, BridgeInitEstablishes, BridgeStepPreserves, PTL DEF BridgeSpec

\* Nothing has a number before the first command, and all are the same then.
LEMMA NumbersStart == BridgeInit => NumberNames
  BY DEF BridgeInit, NumberNames, Named

\* A new command has a number of its own, and a poll or a write only copies one
\* (UpsertActuatorWrite, ControlWriteBridge.tick, write).
LEMMA NumbersStay == BridgeInv /\ NumberNames /\ [BridgeNext]_bridgeVars => NumberNames'
<1> SUFFICES ASSUME BridgeInv, NumberNames, [BridgeNext]_bridgeVars, NEW b \in Actuators
             PROVE  Named(b)'
  BY DEF NumberNames
<1> USE DEF NumberNames, Named
<1>1. /\ feed[b].seq \in Nat /\ command[b].seq \in Nat /\ register[b].seq \in Nat
      /\ register[b].seq <= command[b].seq
      /\ feed[b] # NoItem => feed[b].seq <= command[b].seq
  BY BoundsAssumption DEF BridgeInv, BridgeTypeOK, Ordered, Command, Seqs
<1>2. CASE Poll
  BY <1>2 DEF BridgeInv, BridgeTypeOK, Poll
<1>3. CASE BridgeRestart
  BY <1>3 DEF BridgeInv, BridgeTypeOK, BridgeRestart
<1>4. ASSUME NEW a \in Actuators, NEW v \in Values, WriteActuator(a, v)
      PROVE  Named(b)'
  <2>1. register'[b] = register[b] /\ feed'[b] = feed[b]
    BY <1>4 DEF WriteActuator
  <2>2. CASE b = a
    <3>1. command'[b].seq = command[b].seq + 1
      BY <1>4, <2>2 DEF WriteActuator, Bumped, BridgeInv, BridgeTypeOK
    <3> QED
      BY <1>1, <2>1, <3>1
  <2>3. CASE b # a
    BY <1>4, <2>1, <2>3 DEF WriteActuator, BridgeInv, BridgeTypeOK
  <2> QED
    BY <2>2, <2>3
<1>5. ASSUME NEW a \in Actuators, Deliver(a) \/ WriteUnconfirmed(a)
      PROVE  Named(b)'
  BY <1>5 DEF Deliver, WriteUnconfirmed, FieldWrite, Handled, BridgeInv, BridgeTypeOK
<1>6. ASSUME NEW a \in Actuators, WriteFails(a)
      PROVE  Named(b)'
  BY <1>6 DEF WriteFails, Handled, BridgeInv, BridgeTypeOK
<1>7. CASE UNCHANGED bridgeVars
  BY <1>7 DEF bridgeVars
<1> QED
  BY <1>2, <1>3, <1>4, <1>5, <1>6, <1>7 DEF BridgeNext

\* Retries, restarts and lost responses never bring an older command back, repeat
\* one no more often than something failed, and what counts as delivered is in the
\* register (ControlWriteBridge.tick, write).
THEOREM CommandsInOrder == BridgeSpec => []SeqOrder
<1>1. BridgeInv /\ NumberNames => SeqOrder
  <2> SUFFICES ASSUME BridgeInv, NumberNames, NEW a \in Actuators
               PROVE  /\ writtenSeq[a] <= register[a].seq
                      /\ register[a].seq <= command[a].seq
                      /\ writtenSeq[a] = command[a].seq => register[a].value = command[a].value
                      /\ feed[a] # NoItem => feed[a].seq \in register[a].seq..command[a].seq
                      /\ \A k \in 1..MaxSeq : writes[a][k] <= 1 + failures
    BY DEF SeqOrder
  <2>1. /\ writtenSeq[a] \in Nat /\ command[a].seq \in Nat /\ register[a].seq \in Nat
        /\ writtenSeq[a] <= register[a].seq /\ register[a].seq <= command[a].seq
    BY BoundsAssumption DEF BridgeInv, BridgeTypeOK, Ordered, Command, Seqs
  <2>2. writtenSeq[a] = command[a].seq => register[a] = command[a]
    BY <2>1 DEF NumberNames, Named
  <2> QED
    BY <2>1, <2>2 DEF BridgeInv, WritesNeedFaults, Ordered
<1> QED
  BY <1>1, BridgeInitEstablishes, BridgeStepPreserves, NumbersStart, NumbersStay, PTL DEF BridgeSpec

\* A write that repeats a number repeats the command, and no write takes the device
\* back to an older one, whatever is lost, retried or restarted in between
\* (ControlWriteBridge.write).
NeverBack ==
  [][\A a \in Actuators :
       /\ register[a].seq <= register'[a].seq
       /\ register[a].seq = register'[a].seq => register'[a] = register[a]]_bridgeVars

\* The commands a device receives never go back in time, for any number of commands
\* and faults (ControlWriteBridge.write).
THEOREM NeverBackAlways == BridgeSpec => NeverBack
<1>1. ASSUME BridgeInv, NumberNames, [BridgeNext]_bridgeVars, NEW a \in Actuators
      PROVE  /\ register[a].seq <= register'[a].seq
             /\ register[a].seq = register'[a].seq => register'[a] = register[a]
  <2>1. register[a].seq \in Nat
    BY <1>1 DEF BridgeInv, BridgeTypeOK, Command, Seqs
  <2>2. CASE register'[a] = register[a]
    BY <2>1, <2>2
  <2>3. ASSUME feed[a] # NoItem, register'[a] = feed[a]
        PROVE  /\ register[a].seq <= register'[a].seq
               /\ register[a].seq = register'[a].seq => register'[a] = register[a]
    <3>1. feed[a].seq \in register[a].seq..command[a].seq
      BY <1>1, <2>3 DEF BridgeInv, Ordered
    <3>2. feed[a].seq = register[a].seq => feed[a] = register[a]
      BY <1>1, <2>3 DEF NumberNames, Named
    <3> QED
      BY <2>1, <2>3, <3>1, <3>2
  <2>4. ASSUME NEW b \in Actuators, Deliver(b) \/ WriteUnconfirmed(b)
        PROVE  register'[a] = register[a] \/ (feed[a] # NoItem /\ register'[a] = feed[a])
    BY <1>1, <2>4 DEF Deliver, WriteUnconfirmed, FieldWrite, BridgeInv, BridgeTypeOK
  <2>5. CASE UNCHANGED register
    BY <2>2, <2>5
  <2> QED
    BY <1>1, <2>2, <2>3, <2>4, <2>5
    DEF BridgeNext, bridgeVars, Poll, BridgeRestart, WriteActuator, WriteFails
<1>2. BridgeInv /\ NumberNames /\ [BridgeNext]_bridgeVars =>
        [\A a \in Actuators :
           /\ register[a].seq <= register'[a].seq
           /\ register[a].seq = register'[a].seq => register'[a] = register[a]]_bridgeVars
  BY <1>1
<1> QED
  BY <1>2, BridgeInitEstablishes, BridgeStepPreserves, NumbersStart, NumbersStay, PTL
  DEF BridgeSpec, NeverBack
=============================================================================
