-------------------------- MODULE EdgeDeliveryProofs --------------------------
(***************************************************************************)
(* Store-and-forward for any number of messages, batch size, concurrent    *)
(* requests and faults: nothing is stored or evaluated twice, the order is *)
(* kept, and Delivery is implemented.  Three layers of invariants, each    *)
(* inductive with the ones before it: what one request may do (OnceInv),   *)
(* what the answer the sender waits for will be worth (AnswerInv), and     *)
(* which messages an item on its way may leave behind (OrderInv).          *)
(***************************************************************************)
EXTENDS EdgeDelivery, FiniteSetTheorems, WellFoundedInduction, TLAPS

USE DEF rejections, Rejected

Senders == {"idle", "waiting", "confirming"}

Types ==
  /\ issued \in 0..N
  /\ buffer \in SUBSET (1..issued)
  /\ sender \in Senders
  /\ batch \in SUBSET Messages
  /\ request \in [Requests -> Handler]
  /\ rows \in [Messages -> Nat]
  /\ evaluated \in [Messages -> Nat]
  /\ Rejected \in SUBSET Messages
  /\ failed \in SUBSET Messages

\* A handler works on messages that were issued, and is between insert and
\* evaluation only while it has an item.
Handlers ==
  \A r \in Requests :
    /\ request[r].items \subseteq 1..issued
    /\ request[r].inserted => request[r].items # {}

\* A message between insert and evaluation is stored, unseen by the alarm
\* engine, and in the hands of one handler only.
Between ==
  /\ \A r \in Requests : request[r].inserted => rows[Item(r)] = 1 /\ evaluated[Item(r)] = 0
  /\ \A r, s \in Requests :
       request[r].inserted /\ request[s].inserted /\ Item(r) = Item(s) => r = s

OnceInv == Types /\ Handlers /\ Between /\ StoredOnce

-----------------------------------------------------------------------------
(* Sets of messages and single requests.                                   *)

\* First returns the least element.
LEMMA FirstIsLeast ==
  ASSUME NEW S \in SUBSET Nat, S # {}
  PROVE  First(S) \in S /\ \A k \in S : First(S) <= k
<1>1. \E m \in S : \A k \in S : ~(<<k, m>> \in OpToRel(<, Nat))
  BY NatLessThanWellFounded, WFMin
<1>2. \A k, m \in Nat : <<k, m>> \in OpToRel(<, Nat) <=> k < m
  BY DEF OpToRel
<1>3. PICK m \in S : \A k \in S : ~(<<k, m>> \in OpToRel(<, Nat))
  BY <1>1
<1>4. ASSUME NEW k \in S PROVE m <= k
  <2>1. ~(k < m)
    BY <1>2, <1>3
  <2>2. k \in Nat /\ m \in Nat
    OBVIOUS
  <2> QED
    BY <2>1, <2>2
<1> QED
  BY <1>4 DEF First

\* A batch leaves nothing older behind in the queue (Snapshot).
LEMMA OldestIsPrefix ==
  ASSUME NEW k \in Nat, NEW n \in Nat, NEW S \in SUBSET (1..n),
         NEW m \in Oldest(S, k), NEW j \in S, j < m
  PROVE  j \in Oldest(S, k)
<1> DEFINE Before(x) == {i \in S : i < x}
<1>1. IsFiniteSet(1..n)
  BY FS_Interval
<1>2. IsFiniteSet(Before(m)) /\ Before(j) \subseteq Before(m)
  <2>1. Before(m) \in SUBSET (1..n) /\ m \in 1..n /\ j \in 1..n
    BY DEF Oldest
  <2>2. IsFiniteSet(Before(m))
    BY <1>1, <2>1, FS_Subset
  <2>3. ASSUME NEW i \in S, i < j PROVE i < m
    <3>1. i \in Int /\ j \in Int /\ m \in Int
      BY <2>1
    <3> QED
      BY <2>3, <3>1
  <2> QED
    BY <2>2, <2>3
<1>3. /\ IsFiniteSet(Before(j)) /\ Cardinality(Before(j)) <= Cardinality(Before(m))
      /\ Cardinality(Before(j)) \in Nat /\ Cardinality(Before(m)) \in Nat
  BY <1>2, FS_Subset, FS_CardinalityType
<1>4. Cardinality(Before(m)) < k
  BY DEF Oldest
<1> QED
  BY <1>3, <1>4 DEF Oldest

\* A batch is taken from the queue.
LEMMA OldestIsQueued ==
  ASSUME NEW S, NEW k PROVE Oldest(S, k) \subseteq S
  BY DEF Oldest

\* Messages are numbered in the order they were issued.
LEMMA MessagesAreNumbers == Messages \subseteq Nat /\ N \in Nat /\ Bad \subseteq Messages
  BY NAssumption DEF Messages

\* Only issued messages are in the queue.
LEMMA IssuedAreMessages ==
  ASSUME Types PROVE 1..issued \subseteq Messages /\ buffer \subseteq 1..issued
<1>1. issued \in Nat /\ issued <= N /\ N \in Nat
  BY MessagesAreNumbers DEF Types
<1> QED
  BY <1>1 DEF Types, Messages

\* The idle handler of the server.
LEMMA FreeIsHandler == Free \in Handler /\ ~Free.busy /\ ~Free.live /\ Free.items = {}
                       /\ ~Free.inserted /\ Free.refused = {}
  BY DEF Free, Handler

\* The item a handler works on.
LEMMA ItemIsFirst ==
  ASSUME Types, NEW r \in Requests, request[r].items # {}
  PROVE  /\ Item(r) \in request[r].items /\ Item(r) \in Messages
         /\ \A k \in request[r].items : Item(r) <= k
<1>1. request[r].items \in SUBSET Messages
  BY DEF Types, Handler
<1> QED
  BY <1>1, FirstIsLeast, MessagesAreNumbers DEF Item

-----------------------------------------------------------------------------
(* What the steps do to one request.                                       *)

\* Handler r becomes h; the others stay.
Becomes(r, h) ==
  /\ h \in Handler
  /\ request' \in [Requests -> Handler]
  /\ request'[r] = h
  /\ \A s \in Requests \ {r} : request'[s] = request[s] /\ Item(s)' = Item(s)

\* A step on one request leaves the others alone.
LEMMA OneRequest ==
  ASSUME Types, NEW r \in Requests, NEW h \in Handler,
         request' = [request EXCEPT ![r] = h]
  PROVE  Becomes(r, h)
<1>1. \A s \in Requests \ {r} : request'[s] = request[s]
  BY DEF Types
<1>2. \A s \in Requests \ {r} : Item(s)' = Item(s)
  BY <1>1 DEF Item
<1> QED
  BY <1>1, <1>2 DEF Types, Becomes

\* A handler is through with its item, which it refuses if refusing holds.
Leaving(r, refusing) ==
  [request[r] EXCEPT !.items = @ \ {Item(r)}, !.inserted = FALSE,
                     !.refused = IF refusing THEN @ \cup {Item(r)} ELSE @]

\* What a request is after it has left one of its items behind.
LEMMA LeavingFields ==
  ASSUME Types, NEW r \in Requests, request[r].items # {}, NEW refusing \in BOOLEAN
  PROVE  LET h == Leaving(r, refusing) IN
         /\ h \in Handler
         /\ h.busy = request[r].busy /\ h.live = request[r].live
         /\ h.items = request[r].items \ {Item(r)} /\ ~h.inserted
         /\ h.refused = IF refusing THEN request[r].refused \cup {Item(r)}
                        ELSE request[r].refused
<1>1. request[r] \in Handler /\ Item(r) \in Messages
  BY ItemIsFirst DEF Types
<1> QED
  BY <1>1 DEF Leaving, Handler

\* The four ways to be through with an item: reject, duplicate, a failed insert,
\* and accepted (ingestOne).
Leaves(r) == Reject(r) \/ Duplicate(r) \/ InsertFails(r) \/ Evaluate(r)

\* An item is left behind stored, or refused for a reason.
LEMMA LeavesEffect ==
  ASSUME OnceInv, NEW r \in Requests, Leaves(r)
  PROVE  /\ request[r].busy /\ request[r].items # {}
         /\ UNCHANGED <<edge, rows>> /\ failed \subseteq failed' /\ failed' \subseteq Messages
         /\ \E refusing \in BOOLEAN :
              /\ Becomes(r, Leaving(r, refusing))
              /\ refusing => Item(r) \in Bad \cup failed'
              /\ ~refusing => rows[Item(r)] > 0
<1>1. request[r].busy /\ request[r].items # {}
  BY DEF Leaves, Reject, Duplicate, InsertFails, Evaluate, Working
<1>2. Types /\ Item(r) \in Messages
  BY <1>1, ItemIsFirst DEF OnceInv
<1>3. UNCHANGED <<edge, rows>> /\ failed \subseteq failed' /\ failed' \subseteq Messages
  BY <1>2 DEF Leaves, Reject, Duplicate, InsertFails, Evaluate, Types
<1>4. request[r] \in Handler
  BY <1>2 DEF Types
<1>5. [Done(r) EXCEPT !.refused = @ \cup {Item(r)}] = Leaving(r, TRUE) /\ Done(r) = Leaving(r, FALSE)
  BY <1>4 DEF Done, Leaving, Handler
<1>6. CASE Reject(r) \/ InsertFails(r)
  <2>1. request' = [request EXCEPT ![r] = Leaving(r, TRUE)] /\ Item(r) \in Bad \cup failed'
    BY <1>5, <1>6 DEF Reject, InsertFails
  <2>2. Becomes(r, Leaving(r, TRUE))
    BY <1>1, <1>2, <2>1, LeavingFields, OneRequest
  <2> QED
    BY <1>1, <1>3, <2>1, <2>2
<1>7. CASE Duplicate(r) \/ Evaluate(r)
  <2>1. request' = [request EXCEPT ![r] = Leaving(r, FALSE)]
    BY <1>5, <1>7 DEF Duplicate, Evaluate
  <2>2. rows[Item(r)] > 0
    BY <1>7 DEF Duplicate, Evaluate, OnceInv, Between
  <2>3. Becomes(r, Leaving(r, FALSE))
    BY <1>1, <1>2, <2>1, LeavingFields, OneRequest
  <2> QED
    BY <1>1, <1>3, <2>2, <2>3
<1> QED
  BY <1>6, <1>7 DEF Leaves

-----------------------------------------------------------------------------
(* First layer: nothing is stored or evaluated twice.                      *)

\* Handlers between insert and evaluation stay where they are, or are gone.
StillBetween ==
  \A s \in Requests :
    request'[s].inserted => request[s].inserted /\ Item(s)' = Item(s)

\* Steps that store nothing keep what lies between insert and evaluation.
LEMMA BetweenKept ==
  ASSUME OnceInv, StillBetween, UNCHANGED <<rows, evaluated>>
  PROVE  Between' /\ StoredOnce'
  BY DEF OnceInv, StillBetween, Between, StoredOnce

\* Nothing is stored in the beginning.
LEMMA InitOnce == Init => OnceInv
  BY MessagesAreNumbers, FreeIsHandler
     DEF Init, OnceInv, Types, Senders, Handlers, Between, StoredOnce

\* Accepted, duplicate or refused: the item is dropped after at most one evaluation.
LEMMA LeavesOnce ==
  ASSUME OnceInv, NEW r \in Requests, Leaves(r)
  PROVE  OnceInv'
<1>1. /\ request[r].items # {} /\ UNCHANGED <<edge, rows>> /\ failed' \subseteq Messages
      /\ \E refusing \in BOOLEAN : Becomes(r, Leaving(r, refusing))
  BY LeavesEffect
<1>2. PICK refusing \in BOOLEAN : Becomes(r, Leaving(r, refusing))
  BY <1>1
<1>3. /\ request' \in [Requests -> Handler]
      /\ request'[r].items = request[r].items \ {Item(r)} /\ ~request'[r].inserted
      /\ \A s \in Requests \ {r} : request'[s] = request[s] /\ Item(s)' = Item(s)
  BY <1>1, <1>2, LeavingFields DEF Becomes, OnceInv
<1>4. Item(r) \in Messages
  BY <1>1, ItemIsFirst DEF OnceInv
<1>5. Types' /\ Handlers'
  <2>1. evaluated' \in [Messages -> Nat]
    BY <1>4 DEF Leaves, Reject, Duplicate, InsertFails, Evaluate, OnceInv, Types
  <2>2. Types'
    BY <1>1, <1>3, <2>1 DEF edge, OnceInv, Types
  <2>3. Handlers'
    BY <1>1, <1>3 DEF edge, OnceInv, Handlers
  <2> QED
    BY <2>2, <2>3
<1>6. StillBetween
  BY <1>3 DEF StillBetween
<1>7. CASE evaluated' = evaluated
  BY <1>1, <1>5, <1>6, <1>7, BetweenKept DEF OnceInv
<1>8. CASE Evaluate(r)
  <2>1. request[r].inserted /\ evaluated' = [evaluated EXCEPT ![Item(r)] = evaluated[Item(r)] + 1]
    BY <1>8 DEF Evaluate
  <2>2. rows[Item(r)] = 1 /\ evaluated[Item(r)] = 0
    BY <2>1 DEF OnceInv, Between
  <2>3. StoredOnce'
    BY <1>1, <1>4, <2>1, <2>2 DEF OnceInv, Types, StoredOnce
  <2>4. ASSUME NEW s \in Requests, request'[s].inserted
        PROVE  /\ Item(s)' = Item(s) /\ request[s].inserted
               /\ rows'[Item(s)] = 1 /\ evaluated'[Item(s)] = 0
    <3>1. s # r /\ Item(s)' = Item(s) /\ request[s].inserted
      BY <1>3, <2>4
    <3>2. Item(s) # Item(r) /\ rows[Item(s)] = 1 /\ evaluated[Item(s)] = 0
      BY <2>1, <3>1 DEF OnceInv, Between
    <3> QED
      BY <1>1, <1>4, <2>1, <3>1, <3>2 DEF OnceInv, Types
  <2>5. Between'
    BY <2>4 DEF OnceInv, Between
  <2> QED
    BY <1>5, <2>3, <2>5 DEF OnceInv
<1> QED
  BY <1>7, <1>8 DEF Leaves, Reject, Duplicate, InsertFails

\* The insert happens only if there is no row (InsertReading).
LEMMA InsertOnce ==
  ASSUME OnceInv, NEW r \in Requests, Insert(r)
  PROVE  OnceInv'
<1> DEFINE h == [request[r] EXCEPT !.inserted = TRUE]
<1>1. /\ request[r].items # {} /\ ~request[r].inserted
      /\ rows[Item(r)] = 0 /\ rows' = [rows EXCEPT ![Item(r)] = rows[Item(r)] + 1]
      /\ request' = [request EXCEPT ![r] = h]
      /\ UNCHANGED <<edge, evaluated, failed, faults>>
  BY DEF Insert, Working
<1>2. h \in Handler /\ h.items = request[r].items /\ h.inserted
  BY DEF OnceInv, Types, Handler
<1>3. Item(r) \in Messages /\ Types
  BY <1>1, ItemIsFirst DEF OnceInv
<1>4. Becomes(r, h)
  BY <1>1, <1>2, <1>3, OneRequest
<1> HIDE DEF h
<1>5. /\ request' \in [Requests -> Handler]
      /\ request'[r].items = request[r].items /\ Item(r)' = Item(r)
      /\ \A s \in Requests \ {r} : request'[s] = request[s] /\ Item(s)' = Item(s)
  BY <1>2, <1>4 DEF Becomes, Item
<1>6. Types' /\ Handlers'
  <2>1. Types'
    BY <1>1, <1>3, <1>5 DEF edge, Types
  <2>2. Handlers'
    BY <1>1, <1>5 DEF edge, OnceInv, Handlers
  <2> QED
    BY <2>1, <2>2
<1>7. evaluated[Item(r)] = 0 /\ rows'[Item(r)] = 1
  BY <1>1, <1>3 DEF OnceInv, StoredOnce, Types
<1>8. StoredOnce'
  BY <1>1, <1>3, <1>7 DEF OnceInv, StoredOnce, Types
<1>9. ASSUME NEW s \in Requests \ {r}, request'[s].inserted
      PROVE  /\ Item(s) # Item(r) /\ rows'[Item(s)] = 1 /\ evaluated'[Item(s)] = 0
  <2>1. request[s].inserted
    BY <1>5, <1>9
  <2>2. rows[Item(s)] = 1 /\ evaluated[Item(s)] = 0
    BY <2>1 DEF OnceInv, Between
  <2> QED
    BY <1>1, <1>3, <2>2 DEF Types
<1>10. Between'
  <2>1. \A s \in Requests : request'[s].inserted =>
          rows'[Item(s)'] = 1 /\ evaluated'[Item(s)'] = 0
    BY <1>1, <1>5, <1>7, <1>9
  <2>2. ASSUME NEW s \in Requests, NEW t \in Requests, request'[s].inserted,
               request'[t].inserted, Item(s)' = Item(t)'
        PROVE  s = t
    <3>1. CASE s = r \/ t = r
      BY <1>5, <1>9, <2>2, <3>1
    <3>2. CASE s # r /\ t # r
      BY <1>5, <2>2, <3>2 DEF OnceInv, Between
    <3> QED
      BY <3>1, <3>2
  <2> QED
    BY <2>1, <2>2 DEF Between
<1> QED
  BY <1>6, <1>8, <1>10 DEF OnceInv

\* One handler starts, is cut off or answers (flushOnce, writeIngestResponse).
LEMMA OtherRequestsOnce ==
  ASSUME OnceInv, NEW r \in Requests, Post(r) \/ Cancelled(r) \/ Respond(r)
  PROVE  OnceInv'
<1>1. request[r] \in Handler /\ Types /\ request \in [Requests -> Handler]
  BY DEF OnceInv, Types
<1>2. PICK h \in Handler :
        request' = [request EXCEPT ![r] = h] /\ ~h.inserted /\ h.items \subseteq 1..issued
  <2>1. CASE Post(r)
    <3> DEFINE h == [Free EXCEPT !.busy = TRUE, !.live = TRUE, !.items = batch']
    <3>1. batch' \subseteq buffer /\ request' = [request EXCEPT ![r] = h]
      BY <2>1, OldestIsQueued DEF Post
    <3>2. batch' \subseteq 1..issued /\ batch' \subseteq Messages
      BY <1>1, <3>1, IssuedAreMessages
    <3>3. h \in Handler /\ ~h.inserted /\ h.items = batch'
      BY <3>2 DEF Free, Handler
    <3> QED
      BY <3>1, <3>2, <3>3
  <2>2. CASE Cancelled(r)
    <3> DEFINE h == [request[r] EXCEPT !.items = {}]
    <3>1. request' = [request EXCEPT ![r] = h] /\ ~request[r].inserted
      BY <2>2 DEF Cancelled
    <3>2. h \in Handler /\ ~h.inserted /\ h.items = {}
      BY <1>1, <3>1 DEF Handler
    <3> QED
      BY <3>1, <3>2
  <2>3. CASE Respond(r)
    BY <2>3, FreeIsHandler DEF Respond
  <2> QED
    BY <2>1, <2>2, <2>3
<1>3. /\ request' \in [Requests -> Handler] /\ request'[r] = h
      /\ \A s \in Requests \ {r} : request'[s] = request[s] /\ Item(s)' = Item(s)
  BY <1>1, <1>2, OneRequest DEF Becomes
<1>4. /\ UNCHANGED <<issued, buffer, rows, evaluated, failed>>
      /\ sender' \in Senders /\ batch' \in SUBSET Messages /\ Rejected' \in SUBSET Messages
  <2>1. UNCHANGED <<issued, buffer, rows, evaluated, failed>>
    BY DEF Post, Cancelled, Respond, edge
  <2>2. sender' \in Senders
    BY <1>1 DEF Post, Cancelled, Respond, edge, Types, Senders
  <2>3. batch' \in SUBSET Messages
    <3>1. CASE Post(r)
      BY <1>1, <3>1, OldestIsQueued, IssuedAreMessages DEF Post
    <3>2. CASE Cancelled(r) \/ Respond(r)
      BY <1>1, <3>2 DEF Cancelled, Respond, edge, Types
    <3> QED
      BY <3>1, <3>2
  <2>4. Rejected' \in SUBSET Messages
    BY <1>1 DEF Post, Cancelled, Respond, Logged, edge, Types, Handler
  <2> QED
    BY <2>1, <2>2, <2>3, <2>4
<1>5. Types' /\ Handlers'
  BY <1>1, <1>2, <1>3, <1>4 DEF OnceInv, Types, Handlers
<1>6. StillBetween
  BY <1>2, <1>3 DEF StillBetween
<1> QED
  BY <1>4, <1>5, <1>6, BetweenKept DEF OnceInv

\* Sender and server give up, stop or start again; messages are issued and deleted.
LEMMA EdgeOnce ==
  ASSUME OnceInv,
         Enqueue \/ Timeout \/ Delete \/ DeleteFails \/ GatewayRestart \/ ServerRestart
  PROVE  OnceInv'
<1>1. Types
  BY DEF OnceInv
<1>2. /\ request' \in [Requests -> Handler]
      /\ \A s \in Requests :
           /\ request'[s].items \subseteq request[s].items
           /\ request'[s].inserted =>
                request[s].inserted /\ request'[s].items = request[s].items
  <2>1. CASE UNCHANGED request
    BY <1>1, <2>1 DEF Types
  <2>2. CASE request' = Abandoned
    <3>1. ASSUME NEW s \in Requests
          PROVE  LET h == [request[s] EXCEPT !.live = FALSE] IN
                 /\ request'[s] = h /\ h \in Handler
                 /\ h.items = request[s].items /\ h.inserted = request[s].inserted
      BY <1>1, <2>2 DEF Abandoned, Types, Handler
    <3> QED
      BY <2>2, <3>1 DEF Abandoned
  <2>3. CASE request' = [r \in Requests |-> Free]
    BY <2>3, FreeIsHandler
  <2> QED
    BY <2>1, <2>2, <2>3
       DEF Enqueue, Timeout, Delete, DeleteFails, GatewayRestart, ServerRestart, server
<1>3. StillBetween
  BY <1>2 DEF StillBetween, Item
<1>4. UNCHANGED <<rows, evaluated, failed>>
  BY DEF Enqueue, Timeout, Delete, DeleteFails, GatewayRestart, ServerRestart, server
<1>5. issued' \in 0..N /\ issued <= issued' /\ buffer' \in SUBSET (1..issued')
  <2>1. CASE Enqueue
    <3>1. issued < N /\ issued' = issued + 1 /\ buffer' = buffer \cup {issued + 1}
      BY <2>1 DEF Enqueue
    <3>2. issued \in 0..N /\ N \in Nat /\ buffer \subseteq 1..issued
      BY <1>1, MessagesAreNumbers DEF Types
    <3> QED
      BY <3>1, <3>2
  <2>2. CASE UNCHANGED issued /\ buffer' \subseteq buffer
    BY <1>1, <2>2, MessagesAreNumbers DEF Types
  <2> QED
    BY <2>1, <2>2 DEF Timeout, Delete, Remaining, DeleteFails, GatewayRestart, ServerRestart
<1>6. sender' \in Senders /\ batch' \in SUBSET Messages /\ Rejected' \in SUBSET Messages
  BY <1>1 DEF Enqueue, Timeout, Delete, DeleteFails, GatewayRestart, ServerRestart, GiveUp,
              Types, Senders
<1>7. Types'
  BY <1>2, <1>4, <1>5, <1>6, <1>1 DEF Types
<1>8. Handlers'
  <2>1. 1..issued \subseteq 1..issued'
    BY <1>5, <1>1, MessagesAreNumbers DEF Types
  <2> QED
    BY <1>2, <2>1 DEF OnceInv, Handlers
<1> QED
  BY <1>3, <1>4, <1>7, <1>8, BetweenKept DEF OnceInv

\* Every step keeps the first part of the invariant.
LEMMA StepOnce ==
  OnceInv /\ [Next]_vars => OnceInv'
<1> SUFFICES ASSUME OnceInv, [Next]_vars PROVE OnceInv'
  OBVIOUS
<1>1. ASSUME NEW r \in Requests, Leaves(r) PROVE OnceInv'
  BY <1>1, LeavesOnce
<1>2. ASSUME NEW r \in Requests, Insert(r) PROVE OnceInv'
  BY <1>2, InsertOnce
<1>3. ASSUME NEW r \in Requests, Post(r) \/ Cancelled(r) \/ Respond(r) PROVE OnceInv'
  BY <1>3, OtherRequestsOnce
<1>4. CASE Enqueue \/ Timeout \/ Delete \/ DeleteFails \/ GatewayRestart \/ ServerRestart
  BY <1>4, EdgeOnce
<1>5. ASSUME UNCHANGED vars PROVE OnceInv'
  BY <1>5 DEF vars, moving, edge, server, OnceInv, Types, Handlers, Between, StoredOnce, Item
<1> QED
  BY <1>1, <1>2, <1>3, <1>4, <1>5 DEF Next, Handle, Leaves

\* So it holds in every behaviour.
LEMMA OnceAlways == Spec => []OnceInv
  BY InitOnce, StepOnce, PTL DEF Spec

\* Nothing is stored or shown to the alarm engine twice, for any number of messages,
\* overlapping requests, retries and restarts (InsertReading, ingestOne).
THEOREM StoredOnceAlways == Spec => []StoredOnce
<1>1. OnceInv => StoredOnce
  BY DEF OnceInv
<1> QED
  BY <1>1, OnceAlways, PTL

-----------------------------------------------------------------------------
(* Second layer: what the answer will be worth.                            *)

\* A batch is in the queue until its outcome is known, and what is about to be
\* deleted is stored or rejected.
Sending ==
  /\ sender = "idle" => batch = {}
  /\ batch \subseteq buffer
  /\ sender = "confirming" => \A m \in batch : rows[m] > 0 \/ m \in Rejected

\* The handler the sender waits for accounts for the whole batch.
Accounts(r) ==
  /\ request[r].items \subseteq batch /\ request[r].refused \subseteq batch
  /\ \A m \in batch : m \in request[r].items \/ rows[m] > 0 \/ m \in request[r].refused

Answering ==
  /\ \A r \in Requests : request[r].live => sender = "waiting" /\ Accounts(r)
  /\ \A r, s \in Requests : request[r].live /\ request[s].live => r = s

\* Only what cannot be accepted, or once failed, is refused.
Refusals ==
  /\ \A r \in Requests : request[r].refused \subseteq Bad \cup failed
  /\ Rejected \subseteq Bad \cup failed

AnswerInv == Sending /\ Answering /\ Refusals

\* Nothing is answered in the beginning.
LEMMA InitAnswer == Init => AnswerInv
  BY FreeIsHandler DEF Init, AnswerInv, Sending, Answering, Refusals

\* Leaving an item behind keeps what the answer will say true.
LEMMA LeavesAnswer ==
  ASSUME OnceInv, AnswerInv, NEW r \in Requests, Leaves(r)
  PROVE  AnswerInv'
<1>1. /\ request[r].items # {} /\ UNCHANGED <<edge, rows>> /\ failed \subseteq failed'
      /\ \E refusing \in BOOLEAN :
           /\ Becomes(r, Leaving(r, refusing))
           /\ refusing => Item(r) \in Bad \cup failed'
           /\ ~refusing => rows[Item(r)] > 0
  BY LeavesEffect
<1>2. PICK refusing \in BOOLEAN :
           /\ Becomes(r, Leaving(r, refusing))
           /\ refusing => Item(r) \in Bad \cup failed'
           /\ ~refusing => rows[Item(r)] > 0
  BY <1>1
<1>3. /\ request'[r].live = request[r].live
      /\ request'[r].items = request[r].items \ {Item(r)}
      /\ request'[r].refused = IF refusing THEN request[r].refused \cup {Item(r)}
                               ELSE request[r].refused
      /\ \A s \in Requests \ {r} : request'[s] = request[s]
  BY <1>1, <1>2, LeavingFields DEF Becomes, OnceInv
<1>4. Item(r) \in request[r].items
  BY <1>1, ItemIsFirst DEF OnceInv
<1>5. UNCHANGED <<buffer, sender, batch, Rejected, rows>>
  BY <1>1 DEF edge
<1>6. Sending'
  BY <1>5 DEF AnswerInv, Sending
<1>7. Refusals'
  BY <1>1, <1>2, <1>3, <1>5 DEF AnswerInv, Refusals
<1>8. ASSUME NEW s \in Requests, request'[s].live
      PROVE  request[s].live /\ sender' = "waiting" /\ Accounts(s)'
  <2>1. request[s].live /\ sender = "waiting" /\ Accounts(s)
    BY <1>3, <1>8 DEF AnswerInv, Answering
  <2>2. CASE s # r
    BY <1>3, <1>5, <2>1, <2>2 DEF Accounts
  <2>3. CASE s = r
    BY <1>2, <1>3, <1>4, <1>5, <2>1, <2>3 DEF Accounts
  <2> QED
    BY <1>5, <2>1, <2>2, <2>3
<1> QED
  BY <1>6, <1>7, <1>8 DEF AnswerInv, Answering

\* So does an insert.
LEMMA InsertAnswer ==
  ASSUME OnceInv, AnswerInv, NEW r \in Requests, Insert(r)
  PROVE  AnswerInv'
<1>1. /\ rows' = [rows EXCEPT ![Item(r)] = rows[Item(r)] + 1]
      /\ request' = [request EXCEPT ![r] = [request[r] EXCEPT !.inserted = TRUE]]
      /\ UNCHANGED <<issued, buffer, sender, batch, Rejected, failed>>
  BY DEF Insert, edge
<1>2. \A m \in Messages : rows[m] > 0 => rows'[m] > 0
  BY <1>1 DEF OnceInv, Types
<1>3. \A s \in Requests : /\ request'[s].live = request[s].live
                          /\ request'[s].items = request[s].items
                          /\ request'[s].refused = request[s].refused
  BY <1>1 DEF OnceInv, Types, Handler
<1>4. batch \subseteq Messages
  BY DEF OnceInv, Types
<1> QED
  BY <1>1, <1>2, <1>3, <1>4 DEF AnswerInv, Sending, Answering, Accounts, Refusals

\* The sender posts a batch: nobody else's answer is awaited (flushOnce).
LEMMA SendAnswer ==
  ASSUME OnceInv, AnswerInv, NEW r \in Requests, Post(r)
  PROVE  AnswerInv'
<1>1. /\ sender = "idle" /\ sender' = "waiting"
      /\ batch' \subseteq buffer
      /\ request' = [request EXCEPT ![r] = [Free EXCEPT !.busy = TRUE, !.live = TRUE,
                                                        !.items = batch']]
      /\ UNCHANGED <<buffer, Rejected, rows, failed>>
  BY OldestIsQueued DEF Post
<1>2. \A s \in Requests : ~request[s].live
  BY <1>1 DEF AnswerInv, Answering
<1>3. /\ request'[r].items = batch' /\ request'[r].refused = {}
      /\ \A s \in Requests \ {r} : request'[s] = request[s]
  BY <1>1 DEF OnceInv, Types, Free
<1>4. Sending'
  BY <1>1 DEF AnswerInv, Sending
<1>5. Answering'
  BY <1>1, <1>2, <1>3 DEF Answering, Accounts
<1>6. Refusals'
  BY <1>1, <1>3 DEF AnswerInv, Refusals
<1> QED
  BY <1>4, <1>5, <1>6 DEF AnswerInv

\* So does a request given up by the gateway.
LEMMA CancelledAnswer ==
  ASSUME OnceInv, AnswerInv, NEW r \in Requests, Cancelled(r)
  PROVE  AnswerInv'
<1>1. /\ ~request[r].live
      /\ request' = [request EXCEPT ![r] = [request[r] EXCEPT !.items = {}]]
      /\ UNCHANGED <<buffer, sender, batch, Rejected, rows, failed>>
  BY DEF Cancelled, edge
<1>2. /\ ~request'[r].live /\ request'[r].refused = request[r].refused
      /\ \A s \in Requests \ {r} : request'[s] = request[s]
  BY <1>1 DEF OnceInv, Types, Handler
<1> QED
  BY <1>1, <1>2 DEF AnswerInv, Sending, Answering, Accounts, Refusals

\* The answer is complete when the sender reads it (writeIngestResponse, flushOnce).
LEMMA RespondAnswer ==
  ASSUME OnceInv, AnswerInv, NEW r \in Requests, Respond(r)
  PROVE  AnswerInv'
<1>1. /\ request[r].items = {} /\ request' = [request EXCEPT ![r] = Free]
      /\ UNCHANGED <<buffer, batch, rows, failed>>
  BY DEF Respond, edge
<1>2. /\ ~request'[r].live /\ request'[r].refused = {}
      /\ \A s \in Requests \ {r} : request'[s] = request[s]
  BY <1>1, FreeIsHandler DEF OnceInv, Types
<1>3. CASE request[r].live
  <2>1. sender' = "confirming" /\ Rejected' = Rejected \cup request[r].refused
    BY <1>3 DEF Respond, Logged
  <2>2. \A s \in Requests : ~request'[s].live
    BY <1>2, <1>3 DEF AnswerInv, Answering
  <2>3. \A m \in batch : rows[m] > 0 \/ m \in request[r].refused
    BY <1>1, <1>3 DEF AnswerInv, Answering, Accounts
  <2>4. Sending'
    BY <1>1, <2>1, <2>3 DEF AnswerInv, Sending
  <2>5. Refusals'
    BY <1>1, <1>2, <2>1 DEF AnswerInv, Refusals
  <2> QED
    BY <2>2, <2>4, <2>5 DEF AnswerInv, Answering
<1>4. CASE ~request[r].live
  <2>1. UNCHANGED <<sender, Rejected>>
    BY <1>4 DEF Respond, edge
  <2> QED
    BY <1>1, <1>2, <1>4, <2>1 DEF AnswerInv, Sending, Answering, Accounts, Refusals
<1> QED
  BY <1>3, <1>4

\* Whoever gives up awaits no answer any more; what is deleted was confirmed.
LEMMA EdgeAnswer ==
  ASSUME OnceInv, AnswerInv,
         Enqueue \/ Timeout \/ Delete \/ DeleteFails \/ GatewayRestart \/ ServerRestart
  PROVE  AnswerInv'
<1>1. CASE Enqueue
  <2>1. buffer \subseteq buffer' /\ UNCHANGED <<sender, batch, Rejected, request, rows, failed>>
    BY <1>1 DEF Enqueue, server
  <2> QED
    BY <2>1 DEF AnswerInv, Sending, Answering, Accounts, Refusals
<1>2. CASE Timeout \/ GatewayRestart
  <2>1. \A s \in Requests : ~request'[s].live /\ request'[s].refused = request[s].refused
    BY <1>2 DEF Timeout, GatewayRestart, Abandoned, OnceInv, Types, Handler
  <2>2. sender' = "idle" /\ batch' = {} /\ UNCHANGED <<Rejected, failed>>
    BY <1>2 DEF Timeout, GatewayRestart, GiveUp
  <2> QED
    BY <2>1, <2>2 DEF AnswerInv, Sending, Answering, Refusals
<1>3. CASE Delete \/ DeleteFails
  <2>1. /\ sender = "confirming" /\ sender' = "idle" /\ batch' = {}
        /\ UNCHANGED <<Rejected, request, failed>>
    BY <1>3 DEF Delete, DeleteFails, GiveUp, server
  <2>2. \A s \in Requests : ~request[s].live
    BY <2>1 DEF AnswerInv, Answering
  <2> QED
    BY <2>1, <2>2 DEF AnswerInv, Sending, Answering, Refusals
<1>4. CASE ServerRestart
  <2>1. /\ request' = [s \in Requests |-> Free] /\ UNCHANGED <<buffer, Rejected, rows, failed>>
        /\ \/ sender' = "idle" /\ batch' = {}
           \/ UNCHANGED <<sender, batch>>
    BY <1>4 DEF ServerRestart, GiveUp
  <2>2. \A s \in Requests : ~request'[s].live /\ request'[s].refused = {}
    BY <2>1, FreeIsHandler
  <2> QED
    BY <2>1, <2>2 DEF AnswerInv, Sending, Answering, Refusals
<1> QED
  BY <1>1, <1>2, <1>3, <1>4

\* Every step keeps the second part of the invariant.
LEMMA StepAnswer ==
  OnceInv /\ AnswerInv /\ [Next]_vars => AnswerInv'
<1> SUFFICES ASSUME OnceInv, AnswerInv, [Next]_vars PROVE AnswerInv'
  OBVIOUS
<1>1. ASSUME NEW r \in Requests, Leaves(r) PROVE AnswerInv'
  BY <1>1, LeavesAnswer
<1>2. ASSUME NEW r \in Requests, Insert(r) PROVE AnswerInv'
  BY <1>2, InsertAnswer
<1>3. ASSUME NEW r \in Requests, Post(r) PROVE AnswerInv'
  BY <1>3, SendAnswer
<1>4. ASSUME NEW r \in Requests, Cancelled(r) PROVE AnswerInv'
  BY <1>4, CancelledAnswer
<1>5. ASSUME NEW r \in Requests, Respond(r) PROVE AnswerInv'
  BY <1>5, RespondAnswer
<1>6. CASE Enqueue \/ Timeout \/ Delete \/ DeleteFails \/ GatewayRestart \/ ServerRestart
  BY <1>6, EdgeAnswer
<1>7. ASSUME UNCHANGED vars PROVE AnswerInv'
  BY <1>7 DEF vars, moving, edge, server, AnswerInv, Sending, Answering, Accounts, Refusals
<1> QED
  BY <1>1, <1>2, <1>3, <1>4, <1>5, <1>6, <1>7 DEF Next, Handle, Leaves

\* So it holds in every behaviour.
LEMMA AnswerAlways == Spec => []AnswerInv
<1>1. Init => OnceInv /\ AnswerInv
  BY InitOnce, InitAnswer
<1>2. (OnceInv /\ AnswerInv) /\ [Next]_vars => (OnceInv /\ AnswerInv)'
  BY StepOnce, StepAnswer
<1> QED
  BY <1>1, <1>2, PTL DEF Spec

-----------------------------------------------------------------------------
(* Third layer: the order.                                                 *)

\* The historian has the message, or will never have it but by a retry.
Handled(k) == rows[k] > 0 \/ k \in Bad \cup failed

\* What left the queue has been handled, and so has everything before an item of
\* a request, the other items apart.
QueueOrder == \A k \in 1..issued : k \in buffer \/ Handled(k)

RequestOrder ==
  \A r \in Requests : \A m \in request[r].items :
    \A k \in 1..(m - 1) : k \in request[r].items \/ Handled(k)

OrderInv == QueueOrder /\ RequestOrder /\ StoredInOrder

\* Queue and table are empty in the beginning.
LEMMA InitOrder == Init => OrderInv
<1> SUFFICES ASSUME Init PROVE OrderInv
  OBVIOUS
<1>1. QueueOrder
  BY DEF Init, QueueOrder
<1>2. RequestOrder
  BY FreeIsHandler DEF Init, RequestOrder
<1>3. StoredInOrder
  BY DEF Init, StoredInOrder
<1> QED
  BY <1>1, <1>2, <1>3 DEF OrderInv

\* No step takes a row away (the historian only grows) or forgets a failure.
LEMMA HandledGrows ==
  ASSUME OnceInv, [Next]_vars
  PROVE  /\ \A m \in Messages : rows'[m] >= rows[m]
         /\ \A m \in Messages : Handled(m) => Handled(m)'
<1>1. rows \in [Messages -> Nat]
  BY DEF OnceInv, Types
<1>2. rows' = rows \/ \E m \in Messages : rows' = [rows EXCEPT ![m] = rows[m] + 1]
  <2>1. CASE \E r \in Requests : Insert(r)
    <3>1. PICK r \in Requests : Insert(r)
      BY <2>1
    <3>2. rows' = [rows EXCEPT ![Item(r)] = rows[Item(r)] + 1] /\ request[r].items # {}
      BY <3>1 DEF Insert, Working
    <3> QED
      BY <3>2, ItemIsFirst DEF OnceInv
  <2>2. CASE ~\E r \in Requests : Insert(r)
    BY <2>2 DEF Next, vars, moving, edge, server, Enqueue, Delete, Timeout, DeleteFails, GatewayRestart,
       ServerRestart, Post, Handle, Reject, Duplicate, Evaluate, Respond, InsertFails, Cancelled
  <2> QED
    BY <2>1, <2>2
<1>3. failed \subseteq failed'
  BY DEF Next, vars, moving, edge, server, Enqueue, Delete, Timeout, DeleteFails, GatewayRestart,
     ServerRestart, Post, Handle, Reject, Duplicate, Insert, Evaluate, Respond, InsertFails,
     Cancelled
<1>4. \A m \in Messages : rows[m] \in Nat /\ rows'[m] \in Nat /\ rows'[m] >= rows[m]
  BY <1>1, <1>2
<1>5. ASSUME NEW m \in Messages, Handled(m) PROVE Handled(m)'
  <2>1. rows[m] > 0 => rows'[m] > 0
    BY <1>4
  <2> QED
    BY <1>3, <1>5, <2>1 DEF Handled
<1> QED
  BY <1>4, <1>5

\* A handled message may be struck off the list of any request.
LEMMA RequestOrderKept ==
  ASSUME OnceInv, OrderInv, [Next]_vars,
         \A s \in Requests :
           /\ request'[s].items \subseteq request[s].items
           /\ \A k \in request[s].items \ request'[s].items :
                Handled(k)' \/ request'[s].items = {}
  PROVE  RequestOrder'
<1> SUFFICES ASSUME NEW s \in Requests, NEW m \in request'[s].items, NEW k \in 1..(m - 1)
             PROVE  k \in request'[s].items \/ Handled(k)'
  BY DEF RequestOrder
<1>1. m \in request[s].items
  OBVIOUS
<1>2. request[s].items \subseteq 1..issued /\ Types
  BY DEF OnceInv, Handlers
<1>3. m \in Messages
  BY <1>1, <1>2, IssuedAreMessages
<1>4. k \in Messages
  BY <1>3, MessagesAreNumbers DEF Messages
<1>5. k \in request[s].items \/ Handled(k)
  BY <1>1 DEF OrderInv, RequestOrder
<1> QED
  BY <1>4, <1>5, HandledGrows

\* The order of the historian changes with an insert only.
LEMMA StoredOrderKept ==
  ASSUME OnceInv, OrderInv, [Next]_vars, UNCHANGED rows
  PROVE  StoredInOrder'
<1> SUFFICES ASSUME NEW m \in Messages, rows'[m] > 0, NEW k \in 1..(m - 1)
             PROVE  Handled(k)'
  BY DEF StoredInOrder, Handled
<1>1. k \in Messages
  BY MessagesAreNumbers DEF Messages
<1>2. Handled(k)
  BY DEF OrderInv, StoredInOrder, Handled
<1> QED
  BY <1>1, <1>2, HandledGrows

\* The queue keeps what has not been handled.
LEMMA QueueOrderKept ==
  ASSUME OnceInv, OrderInv, [Next]_vars, UNCHANGED issued,
         \A k \in buffer \ buffer' : Handled(k)'
  PROVE  QueueOrder'
<1> SUFFICES ASSUME NEW k \in 1..issued PROVE k \in buffer' \/ Handled(k)'
  BY DEF QueueOrder
<1>1. k \in Messages
  BY IssuedAreMessages DEF OnceInv
<1>2. k \in buffer \/ Handled(k)
  BY DEF OrderInv, QueueOrder
<1> QED
  BY <1>1, <1>2, HandledGrows

\* Leaving an item behind keeps the order.
LEMMA LeavesOrder ==
  ASSUME OnceInv, OrderInv, [Next]_vars, NEW r \in Requests, Leaves(r)
  PROVE  OrderInv'
<1>1. /\ request[r].items # {} /\ UNCHANGED <<edge, rows>>
      /\ \E refusing \in BOOLEAN :
           /\ Becomes(r, Leaving(r, refusing))
           /\ refusing => Item(r) \in Bad \cup failed'
           /\ ~refusing => rows[Item(r)] > 0
  BY LeavesEffect
<1>2. PICK refusing \in BOOLEAN :
           /\ Becomes(r, Leaving(r, refusing))
           /\ refusing => Item(r) \in Bad \cup failed'
           /\ ~refusing => rows[Item(r)] > 0
  BY <1>1
<1>3. /\ request'[r].items = request[r].items \ {Item(r)}
      /\ \A s \in Requests \ {r} : request'[s] = request[s]
  BY <1>1, <1>2, LeavingFields DEF Becomes, OnceInv
<1>4. rows'[Item(r)] > 0 \/ Item(r) \in Bad \cup failed'
  BY <1>1, <1>2
<1>5. \A s \in Requests :
           /\ request'[s].items \subseteq request[s].items
           /\ \A k \in request[s].items \ request'[s].items : Handled(k)'
  BY <1>3, <1>4 DEF Handled
<1> QED
  BY <1>1, <1>5, RequestOrderKept, StoredOrderKept, QueueOrderKept DEF edge, OrderInv

\* The item is the first of its request: everything before it has been handled.
LEMMA InsertOrder ==
  ASSUME OnceInv, OrderInv, [Next]_vars, NEW r \in Requests, Insert(r)
  PROVE  OrderInv'
<1>1. /\ request[r].items # {} /\ rows' = [rows EXCEPT ![Item(r)] = rows[Item(r)] + 1]
      /\ request' = [request EXCEPT ![r] = [request[r] EXCEPT !.inserted = TRUE]]
      /\ UNCHANGED <<issued, buffer>>
  BY DEF Insert, Working, edge
<1>2. \A s \in Requests : request'[s].items = request[s].items
  BY <1>1 DEF OnceInv, Types, Handler
<1>3. /\ Item(r) \in request[r].items /\ Item(r) \in Messages
      /\ \A k \in request[r].items : Item(r) <= k
  BY <1>1, ItemIsFirst DEF OnceInv
<1>4. ASSUME NEW m \in Messages, rows'[m] > 0, NEW k \in 1..(m - 1)
      PROVE  Handled(k)'
  <2>1. k \in Messages /\ k \in Int /\ m \in Int /\ k < m
    BY MessagesAreNumbers DEF Messages
  <2>2. Handled(k)
    <3>1. CASE m = Item(r)
      <4>1. k \notin request[r].items
        BY <1>3, <2>1, <3>1
      <4> QED
        BY <1>3, <3>1, <4>1 DEF OrderInv, RequestOrder
    <3>2. CASE m # Item(r)
      <4>1. rows[m] > 0
        BY <1>1, <1>4, <3>2 DEF OnceInv, Types
      <4> QED
        BY <4>1 DEF OrderInv, StoredInOrder, Handled
    <3> QED
      BY <3>1, <3>2
  <2> QED
    BY <2>1, <2>2, HandledGrows
<1>5. StoredInOrder'
  BY <1>4 DEF StoredInOrder, Handled
<1> QED
  BY <1>1, <1>2, <1>5, RequestOrderKept, QueueOrderKept DEF OrderInv

\* A batch is the oldest part of the queue (Snapshot), so what comes before one of its
\* messages is in the batch or has left the queue.
LEMMA SendOrder ==
  ASSUME OnceInv, OrderInv, [Next]_vars, NEW r \in Requests, Post(r)
  PROVE  OrderInv'
<1>1. /\ batch' = Oldest(buffer, MaxBatch)
      /\ request' = [request EXCEPT ![r] = [Free EXCEPT !.busy = TRUE, !.live = TRUE,
                                                        !.items = batch']]
      /\ UNCHANGED <<issued, buffer, rows>>
  BY DEF Post
<1>2. /\ request'[r].items = Oldest(buffer, MaxBatch)
      /\ \A s \in Requests \ {r} : request'[s] = request[s]
  BY <1>1 DEF OnceInv, Types, Free
<1>3. ASSUME NEW m \in Oldest(buffer, MaxBatch), NEW k \in 1..(m - 1)
      PROVE  k \in Oldest(buffer, MaxBatch) \/ Handled(k)'
  <2>1. m \in buffer /\ buffer \in SUBSET (1..issued) /\ issued \in Nat
    BY OldestIsQueued DEF OnceInv, Types
  <2>2. k \in 1..issued /\ k < m
    BY <2>1
  <2>3. k \in Messages
    BY <2>2, IssuedAreMessages DEF OnceInv
  <2>4. CASE k \in buffer
    BY <2>1, <2>2, <2>4, OldestIsPrefix, BatchAssumption
  <2>5. CASE k \notin buffer
    BY <2>2, <2>3, <2>5, HandledGrows DEF OrderInv, QueueOrder
  <2> QED
    BY <2>4, <2>5
<1>4. ASSUME NEW s \in Requests \ {r}, NEW m \in request[s].items, NEW k \in 1..(m - 1)
      PROVE  k \in request[s].items \/ Handled(k)'
  <2>1. request[s].items \subseteq Messages
    BY IssuedAreMessages DEF OnceInv, Handlers
  <2>2. k \in Messages
    BY <2>1, MessagesAreNumbers DEF Messages
  <2>3. k \in request[s].items \/ Handled(k)
    BY DEF OrderInv, RequestOrder
  <2> QED
    BY <2>2, <2>3, HandledGrows
<1>5. RequestOrder'
  <2> SUFFICES ASSUME NEW s \in Requests, NEW m \in request'[s].items, NEW k \in 1..(m - 1)
               PROVE  k \in request'[s].items \/ Handled(k)'
    BY DEF RequestOrder
  <2>1. CASE s = r
    BY <1>2, <1>3, <2>1
  <2>2. CASE s # r
    BY <1>2, <1>4, <2>2
  <2> QED
    BY <2>1, <2>2
<1> QED
  BY <1>1, <1>5, StoredOrderKept, QueueOrderKept DEF OrderInv

\* A request that is cut off, answered or lost with its server leaves nothing to do.
LEMMA EndOrder ==
  ASSUME OnceInv, OrderInv, [Next]_vars,
         ServerRestart \/ \E r \in Requests : Cancelled(r) \/ Respond(r)
  PROVE  OrderInv'
<1>1. \A s \in Requests : request'[s].items \in {request[s].items, {}}
  <2>1. CASE ServerRestart
    BY <2>1, FreeIsHandler DEF ServerRestart
  <2>2. CASE \E r \in Requests : Cancelled(r)
    BY <2>2 DEF Cancelled, OnceInv, Types, Handler
  <2>3. CASE \E r \in Requests : Respond(r)
    BY <2>3, FreeIsHandler DEF Respond, OnceInv, Types
  <2> QED
    BY <2>1, <2>2, <2>3
<1>2. UNCHANGED <<issued, buffer, rows>>
  BY DEF ServerRestart, Cancelled, Respond, edge
<1> QED
  BY <1>1, <1>2, RequestOrderKept, StoredOrderKept, QueueOrderKept DEF OrderInv

\* Only what was confirmed is deleted; what is issued joins the queue at its end.
LEMMA EdgeOrder ==
  ASSUME OnceInv, AnswerInv, OrderInv, [Next]_vars,
         Enqueue \/ Timeout \/ Delete \/ DeleteFails \/ GatewayRestart
  PROVE  OrderInv'
<1>1. UNCHANGED rows
  BY DEF Enqueue, Timeout, Delete, DeleteFails, GatewayRestart, server
<1>2. \A s \in Requests : request'[s].items = request[s].items
  <2>1. CASE request' = Abandoned
    BY <2>1 DEF Abandoned, OnceInv, Types, Handler
  <2> QED
    BY <2>1 DEF Enqueue, Timeout, Delete, DeleteFails, GatewayRestart, server
<1>3. CASE Enqueue
  <2>1. issued' = issued + 1 /\ buffer' = buffer \cup {issued + 1} /\ issued \in Nat
    BY <1>3 DEF Enqueue, OnceInv, Types
  <2>2. \A k \in 1..issued : k \in Messages
    BY IssuedAreMessages DEF OnceInv
  <2>3. ASSUME NEW k \in 1..issued' PROVE k \in buffer' \/ Handled(k)'
    <3>1. CASE k \in 1..issued
      BY <2>1, <2>2, <3>1, HandledGrows DEF OrderInv, QueueOrder
    <3>2. CASE k = issued + 1
      BY <2>1, <3>2
    <3> QED
      BY <2>1, <3>1, <3>2
  <2>4. QueueOrder'
    BY <2>3 DEF QueueOrder
  <2> QED
    BY <1>1, <1>2, <2>4, RequestOrderKept, StoredOrderKept DEF OrderInv
<1>4. CASE ~Enqueue
  <2>1. UNCHANGED issued
    BY <1>4 DEF Timeout, Delete, DeleteFails, GatewayRestart
  <2>2. ASSUME NEW k \in buffer \ buffer' PROVE Handled(k)'
    <3>1. Delete
      BY <1>4, <2>2 DEF Timeout, DeleteFails, GatewayRestart
    <3>2. sender = "confirming" /\ k \in batch
      BY <2>2, <3>1 DEF Delete, Remaining
    <3>3. rows[k] > 0 \/ k \in Rejected
      BY <3>2 DEF AnswerInv, Sending
    <3>4. Handled(k)
      BY <3>3 DEF AnswerInv, Refusals, Handled
    <3>5. k \in Messages
      BY IssuedAreMessages DEF OnceInv
    <3> QED
      BY <3>4, <3>5, HandledGrows
  <2> QED
    BY <1>1, <1>2, <2>1, <2>2, RequestOrderKept, StoredOrderKept, QueueOrderKept DEF OrderInv
<1> QED
  BY <1>3, <1>4

\* Every step keeps the third part of the invariant.
LEMMA StepOrder ==
  OnceInv /\ AnswerInv /\ OrderInv /\ [Next]_vars => OrderInv'
<1> SUFFICES ASSUME OnceInv, AnswerInv, OrderInv, [Next]_vars PROVE OrderInv'
  OBVIOUS
<1>1. ASSUME NEW r \in Requests, Leaves(r) PROVE OrderInv'
  BY <1>1, LeavesOrder
<1>2. ASSUME NEW r \in Requests, Insert(r) PROVE OrderInv'
  BY <1>2, InsertOrder
<1>3. ASSUME NEW r \in Requests, Post(r) PROVE OrderInv'
  BY <1>3, SendOrder
<1>4. CASE ServerRestart \/ \E r \in Requests : Cancelled(r) \/ Respond(r)
  BY <1>4, EndOrder
<1>5. CASE Enqueue \/ Timeout \/ Delete \/ DeleteFails \/ GatewayRestart
  BY <1>5, EdgeOrder
<1>6. ASSUME UNCHANGED vars PROVE OrderInv'
  BY <1>6 DEF vars, moving, edge, server, OrderInv, QueueOrder, RequestOrder, StoredInOrder, Handled
<1> QED
  BY <1>1, <1>2, <1>3, <1>4, <1>5, <1>6 DEF Next, Handle, Leaves

\* Readings reach the historian in the order they were taken, those apart that were
\* refused or failed once, whatever is retried (Snapshot, IngestTelemetryBatch).
THEOREM StoredInOrderAlways == Spec => []StoredInOrder
<1>1. Init => OnceInv /\ AnswerInv /\ OrderInv
  BY InitOnce, InitAnswer, InitOrder
<1>2. (OnceInv /\ AnswerInv /\ OrderInv) /\ [Next]_vars => (OnceInv /\ AnswerInv /\ OrderInv)'
  BY StepOnce, StepAnswer, StepOrder
<1>3. OrderInv => StoredInOrder
  BY DEF OrderInv
<1> QED
  BY <1>1, <1>2, <1>3, PTL DEF Spec

-----------------------------------------------------------------------------
(* Delivery is implemented.                                                *)

\* The empty queue is the abstract empty queue.
LEMMA InitDelivery == Init => D!Init
  BY DEF Init, D!Init

\* Every step is one of Delivery's or does not show there.
LEMMA StepDelivery ==
  ASSUME OnceInv, AnswerInv, [Next]_vars
  PROVE  [D!Next]_(D!vars)
<1> DEFINE stored == {m \in Messages : rows[m] > 0}
<1>1. CASE Enqueue
  <2>1. /\ issued < N /\ issued' = issued + 1 /\ buffer' = buffer \cup {issued + 1}
        /\ UNCHANGED <<Rejected, rows>>
    BY <1>1 DEF Enqueue, server
  <2>2. issued \in Nat /\ N \in Nat
    BY MessagesAreNumbers DEF OnceInv, Types
  <2>3. /\ issued + 1 \in Messages /\ issued + 1 \notin 1..issued
        /\ 1..(issued + 1) = (1..issued) \cup {issued + 1}
    BY <2>1, <2>2 DEF Messages
  <2>4. D!Issue(issued + 1)
    BY <2>1, <2>3 DEF D!Issue
  <2> QED
    BY <2>3, <2>4 DEF D!Next
<1>2. ASSUME NEW r \in Requests, Insert(r) PROVE [D!Next]_(D!vars)
  <2>1. /\ request[r].items # {} /\ rows[Item(r)] = 0
        /\ rows' = [rows EXCEPT ![Item(r)] = rows[Item(r)] + 1]
        /\ UNCHANGED <<issued, buffer, Rejected>>
    BY <1>2 DEF Insert, Working, edge
  <2>2. Item(r) \in Messages /\ Item(r) \in 1..issued
    BY <2>1, ItemIsFirst DEF OnceInv, Handlers
  <2>3. PICK m \in Messages : m = Item(r)
    BY <2>2
  <2>4. stored' = stored \cup {m} /\ m \notin stored
    BY <2>1, <2>3 DEF OnceInv, Types
  <2>5. D!Store(m)
    BY <2>1, <2>2, <2>3, <2>4 DEF D!Store
  <2> QED
    BY <2>5 DEF D!Next
<1>3. ASSUME NEW r \in Requests, Respond(r), request[r].live PROVE [D!Next]_(D!vars)
  <2>1. Rejected' = Rejected \cup request[r].refused /\ UNCHANGED <<issued, buffer, rows>>
    BY <1>3 DEF Respond, Logged
  <2>2. request[r].refused \subseteq buffer /\ request[r].refused \in SUBSET Messages
    BY <1>3, IssuedAreMessages DEF AnswerInv, Sending, Answering, Accounts, OnceInv
  <2>3. D!Refuse(request[r].refused)
    BY <2>1, <2>2 DEF D!Refuse
  <2> QED
    BY <2>2, <2>3 DEF D!Next
<1>4. CASE Delete
  <2>1. /\ sender = "confirming" /\ buffer' = buffer \ batch
        /\ UNCHANGED <<issued, Rejected, rows>>
    BY <1>4 DEF Delete, Remaining, server
  <2>2. /\ batch \subseteq buffer /\ batch \in SUBSET Messages
        /\ \A m \in batch : rows[m] > 0 \/ m \in Rejected
    BY <2>1 DEF AnswerInv, Sending, OnceInv, Types
  <2>3. D!Forget(batch)
    BY <2>1, <2>2 DEF D!Forget
  <2> QED
    BY <2>2, <2>3 DEF D!Next
<1>5. CASE UNCHANGED <<issued, buffer, Rejected, rows>>
  BY <1>5 DEF D!vars
<1>6. \/ Enqueue \/ Delete \/ UNCHANGED <<issued, buffer, Rejected, rows>>
      \/ \E r \in Requests : Insert(r) \/ (Respond(r) /\ request[r].live)
  BY DEF Next, vars, moving, edge, server, Timeout, DeleteFails, GatewayRestart,
     ServerRestart, Post, Handle, Reject, Duplicate, Evaluate, Respond, InsertFails, Cancelled
<1> QED
  BY <1>1, <1>2, <1>3, <1>4, <1>5, <1>6

\* Store-and-forward keeps its promise for any number of messages, batch size, requests
\* and faults: what leaves the queue of the gateway is stored, or an answer has rejected it
\* (flushOnce, IngestTelemetryBatch).
THEOREM ImplementsDelivery == Spec => StoreAndForward
  BY OnceAlways, AnswerAlways, InitDelivery, StepDelivery, PTL
     DEF Spec, StoreAndForward, D!Spec

\* What was accepted from the source is in the queue, in the historian or in the
\* register of rejections, or it is one of the rejections logRejected could not write
\* down: the gateway then keeps no trace of it.
NothingIsLost ==
  \A m \in 1..issued : m \in buffer \/ rows[m] > 0 \/ m \in resync \/ m \in unnoted

\* A step that keeps Delivery's promise loses nothing.
LEMMA StepLosesNothing ==
  ASSUME OnceInv, AnswerInv, NothingIsLost, [Next]_vars PROVE NothingIsLost'
<1> DEFINE stored == {m \in Messages : rows[m] > 0}
<1>1. [D!Next]_(D!vars)
  BY StepDelivery
<1>2. (1..issued) \subseteq buffer \cup Rejected \cup stored
  BY IssuedAreMessages DEF NothingIsLost, OnceInv
<1>3. (1..issued') \subseteq buffer' \cup Rejected' \cup stored'
  <2> HIDE DEF stored
  <2>1. CASE \E m \in Messages : D!Issue(m)
    BY <1>2, <2>1 DEF D!Issue, stored
  <2>2. CASE \E m \in Messages : D!Store(m)
    BY <1>2, <2>2 DEF D!Store, stored
  <2>3. CASE \E S \in SUBSET Messages : D!Refuse(S)
    BY <1>2, <2>3 DEF D!Refuse, stored
  <2>4. CASE \E S \in SUBSET Messages : D!Forget(S)
    BY <1>2, <2>4 DEF D!Forget, stored
  <2>5. CASE UNCHANGED D!vars
    BY <1>2, <2>5 DEF D!vars, stored
  <2> QED
    BY <1>1, <2>1, <2>2, <2>3, <2>4, <2>5 DEF D!Next
<1> QED
  BY <1>3 DEF NothingIsLost

\* Whatever is refused, retried, cut off or restarted, no accepted message disappears,
\* for any number of messages and batch size (flushOnce, Delete; IngestTelemetryBatch).
THEOREM NothingIsLostAlways == Spec => []NothingIsLost
<1>1. Init => NothingIsLost
  BY DEF Init, NothingIsLost
<1>2. OnceInv /\ AnswerInv /\ NothingIsLost /\ [Next]_vars => NothingIsLost'
  BY StepLosesNothing
<1> QED
  BY <1>1, <1>2, OnceAlways, AnswerAlways, PTL DEF Spec
=============================================================================
