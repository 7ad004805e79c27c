---------------------------- MODULE EdgeDelivery -----------------------------
(***************************************************************************)
(* Telemetry from the edge buffer to the historian.  The poller appends    *)
(* messages to the SQLite queue, the sender posts the oldest ones as one   *)
(* batch and removes what the answer confirms, the server works through    *)
(* the batch item by item: validate, insert, evaluate the alarms.          *)
(*                                                                         *)
(* The sender gives up after its HTTP timeout and posts again while the    *)
(* server may still be busy with the first request; either process can     *)
(* stop at any point; the queue and the historian survive.  A message is   *)
(* its number, in the order of queued_at; the queue is a table, a batch    *)
(* the oldest of its rows in that order.                                   *)
(*                                                                         *)
(* An operator directly before another one with the same parameters is a   *)
(* mutated form of it, used by mutation runs only.                         *)
(***************************************************************************)
EXTENDS Integers, FiniteSets

CONSTANTS
  N,         \* number of messages the source produces
  Bad,       \* messages ingestOne can never accept (unknown tag, wrong unit, ...)
  MaxBatch,  \* MAX_BATCH of the gateway
  Limits,    \* what INGEST_MAX_BATCH of the server may be
  Requests,  \* places for ingest requests the server works on
  MaxFaults  \* bound on timeouts, failed statements and restarts

Messages == 1..N

ASSUME NAssumption == N \in Nat \ {0} /\ Bad \subseteq Messages
ASSUME BatchAssumption == MaxBatch \in Nat \ {0} /\ Limits \subseteq Nat \ {0}
ASSUME FaultsAssumption == MaxFaults \in Nat

VARIABLES
  issued,     \* messages produced so far
  buffer,     \* the pending table
  sender,     \* "idle", "waiting" for an answer or "confirming" it
  batch,      \* what the sender posted, until it has the outcome
  request,    \* request[r]: an ingest handler
  rows,       \* rows[m]: rows of telemetry_readings with this message id
  evaluated,  \* evaluated[m]: how often the alarm engine saw the message
  resync,     \* message ids in gateway-rejected.log
  unnoted,    \* history: rejected messages whose line there could not be written
  failed,     \* history: messages whose insert failed once
  limit,      \* the server's limit, chosen once
  faults

rejections == <<resync, unnoted>>
edge   == <<issued, buffer, sender, batch, rejections>>
server == <<request, rows, evaluated, failed>>
moving == <<edge, server, faults>>
vars   == <<moving, limit>>

\* Nobody reads the answer of a handler that is not live.
Handler == [busy : BOOLEAN, live : BOOLEAN, items : SUBSET Messages,
            inserted : BOOLEAN, refused : SUBSET Messages]
Free    == [busy |-> FALSE, live |-> FALSE, items |-> {},
            inserted |-> FALSE, refused |-> {}]

Init ==
  /\ issued = 0
  /\ buffer = {}
  /\ sender = "idle"
  /\ batch = {}
  /\ request = [r \in Requests |-> Free]
  /\ rows = [m \in Messages |-> 0]
  /\ evaluated = [m \in Messages |-> 0]
  /\ resync = {}
  /\ unnoted = {}
  /\ failed = {}
  /\ limit \in Limits
  /\ faults = 0

Fault == faults < MaxFaults /\ faults' = faults + 1

(* The gateway. *)

\* startPoll: read the instruments, enqueue.
Enqueue ==
  /\ issued < N
  /\ issued' = issued + 1
  /\ buffer' = buffer \cup {issued'}
  /\ UNCHANGED <<sender, batch, rejections, server, faults>>

Latest(s, k) == {m \in s : Cardinality({j \in s : j > m}) < k}
\* Snapshot: ORDER BY queued_at LIMIT maxBatch.
Oldest(s, k) == {m \in s : Cardinality({j \in s : j < m}) < k}

\* 400: the batch, one item at least, is beyond the limit of the server.
TooLarge == Cardinality(Oldest(buffer, MaxBatch)) > limit

\* flushOnce up to the POST; an unreachable server leaves everything as it is, and
\* so does one that finds the batch too large.
Post(r) ==
  /\ sender = "idle" /\ buffer # {} /\ ~TooLarge
  /\ ~request[r].busy
  /\ batch' = Oldest(buffer, MaxBatch)
  /\ sender' = "waiting"
  /\ request' = [request EXCEPT ![r] = [Free EXCEPT !.busy = TRUE, !.live = TRUE,
                                                    !.items = batch']]
  /\ UNCHANGED <<issued, buffer, rejections, rows, evaluated, failed, faults>>

Abandoned == [r \in Requests |-> [request[r] EXCEPT !.live = FALSE]]

GiveUp ==
  /\ sender' = "idle"
  /\ batch' = {}

\* The HTTP client times out, or the answer is lost.
Timeout ==
  /\ sender = "waiting"
  /\ Fault
  /\ GiveUp
  /\ request' = Abandoned
  /\ UNCHANGED <<issued, buffer, rejections, rows, evaluated, failed>>

RemainingKeepsAll == buffer
\* Delete: every message with a result leaves the queue, whatever the result.
Remaining == buffer \ batch

Delete ==
  /\ sender = "confirming"
  /\ buffer' = Remaining
  /\ GiveUp
  /\ UNCHANGED <<issued, rejections, server, faults>>

\* The transaction on the queue fails; the next flush sends everything again.
DeleteFails ==
  /\ sender = "confirming"
  /\ Fault
  /\ GiveUp
  /\ UNCHANGED <<issued, buffer, rejections, server>>

GatewayRestart ==
  /\ Fault
  /\ GiveUp
  /\ request' = Abandoned
  /\ UNCHANGED <<issued, buffer, rejections, rows, evaluated, failed>>

(* The server. *)

Working(r) == request[r].busy /\ request[r].items # {}
First(S) == CHOOSE m \in S : \A k \in S : m <= k
\* The loop over the batch, in its order.
Item(r) == First(request[r].items)
Done(r) == [request[r] EXCEPT !.items = @ \ {Item(r)}, !.inserted = FALSE]

\* reject: validation or registry checks fail.
Reject(r) ==
  /\ Working(r) /\ ~request[r].inserted
  /\ Item(r) \in Bad
  /\ request' = [request EXCEPT ![r] = [Done(r) EXCEPT !.refused = @ \cup {Item(r)}]]
  /\ UNCHANGED <<edge, rows, evaluated, failed, faults>>

\* InsertReading meets a row with the same message id.
Duplicate(r) ==
  /\ Working(r) /\ ~request[r].inserted
  /\ Item(r) \notin Bad /\ rows[Item(r)] > 0
  /\ request' = [request EXCEPT ![r] = Done(r)]
  /\ UNCHANGED <<edge, rows, evaluated, failed, faults>>

InsertBlindly(r) ==
  /\ Working(r) /\ ~request[r].inserted
  /\ Item(r) \notin Bad
  /\ rows' = [rows EXCEPT ![Item(r)] = @ + 1]
  /\ request' = [request EXCEPT ![r].inserted = TRUE]
  /\ UNCHANGED <<edge, evaluated, failed, faults>>
\* InsertReading: the check and the insert are one statement.
Insert(r) ==
  /\ Working(r) /\ ~request[r].inserted
  /\ Item(r) \notin Bad /\ rows[Item(r)] = 0
  /\ rows' = [rows EXCEPT ![Item(r)] = @ + 1]
  /\ request' = [request EXCEPT ![r].inserted = TRUE]
  /\ UNCHANGED <<edge, evaluated, failed, faults>>

\* The database refuses: the item is reported as rejected all the same.
InsertFails(r) ==
  /\ Working(r) /\ ~request[r].inserted
  /\ Item(r) \notin Bad
  /\ Fault
  /\ request' = [request EXCEPT ![r] = [Done(r) EXCEPT !.refused = @ \cup {Item(r)}]]
  /\ failed' = failed \cup {Item(r)}
  /\ UNCHANGED <<edge, rows, evaluated>>

\* Engine.Evaluate; only then the item is accepted.
Evaluate(r) ==
  /\ Working(r) /\ request[r].inserted
  /\ evaluated' = [evaluated EXCEPT ![Item(r)] = @ + 1]
  /\ request' = [request EXCEPT ![r] = Done(r)]
  /\ UNCHANGED <<edge, rows, failed, faults>>

\* The sender has hung up, which cancels the context of the handler: from some
\* item on its statements fail.
Cancelled(r) ==
  /\ Working(r) /\ ~request[r].live /\ ~request[r].inserted
  /\ request' = [request EXCEPT ![r].items = {}]
  /\ UNCHANGED <<edge, rows, evaluated, failed, faults>>

LoggedNone(r, lost) == resync
\* flushOnce has every rejected message noted before it deletes anything; logRejected
\* drops what it cannot write, or everything if the file cannot be opened.
Logged(r, lost) == resync \cup (request[r].refused \ lost)

\* writeIngestResponse; a sender that still waits reads it.
Respond(r) ==
  /\ request[r].busy /\ request[r].items = {}
  /\ request' = [request EXCEPT ![r] = Free]
  /\ IF request[r].live
     THEN \E lost \in SUBSET request[r].refused :
            /\ IF lost = {} THEN UNCHANGED faults ELSE Fault
            /\ sender' = "confirming"
            /\ resync' = Logged(r, lost)
            /\ unnoted' = unnoted \cup lost
            /\ UNCHANGED <<issued, buffer, batch>>
     ELSE UNCHANGED <<edge, faults>>
  /\ UNCHANGED <<rows, evaluated, failed>>

\* capd stops: requests die, a waiting sender sees a connection error.
ServerRestart ==
  /\ Fault
  /\ request' = [r \in Requests |-> Free]
  /\ IF sender = "waiting" THEN GiveUp ELSE UNCHANGED <<sender, batch>>
  /\ UNCHANGED <<issued, buffer, rejections, rows, evaluated, failed>>

Handle(r) ==
  Reject(r) \/ Duplicate(r) \/ Insert(r) \/ Evaluate(r) \/ Respond(r)

Next ==
  /\ \/ Enqueue \/ Delete
     \/ Timeout \/ DeleteFails \/ GatewayRestart \/ ServerRestart
     \/ \E r \in Requests : Post(r) \/ Handle(r) \/ InsertFails(r) \/ Cancelled(r)
  /\ UNCHANGED limit

Spec == Init /\ [][Next]_vars

\* The sender flushes on a ticker and finishes what it started; the server
\* works off every request it has accepted.
EdgeFair ==
  /\ WF_moving(\E r \in Requests : Post(r)) /\ WF_moving(Delete)
  /\ \A r \in Requests : WF_moving(Handle(r))

-----------------------------------------------------------------------------
\* Retries, timeouts and requests that overlap never store a message twice nor
\* show it to the alarm engine twice (InsertReading, ON CONFLICT DO NOTHING).
StoredOnce == \A m \in Messages : evaluated[m] <= rows[m] /\ rows[m] <= 1

\* Readings reach the historian in the order they were taken ("order broken",
\* gateway_test.go): a stored message leaves no earlier one behind, those
\* apart that the server refused or failed to insert.
StoredInOrder ==
  \A m \in Messages : rows[m] > 0 =>
    \A k \in 1..(m - 1) : rows[k] > 0 \/ k \in Bad \cup failed

\* Delivery is implemented: no message leaves the queue before it is stored, or an
\* answer that reached the gateway has rejected it, whether that could be noted or not
\* (flushOnce, Delete).
Rejected == resync \cup unnoted

D == INSTANCE Delivery WITH
       issued <- 1..issued,
       queued <- buffer,
       stored <- {m \in Messages : rows[m] > 0},
       refused <- Rejected

StoreAndForward == D!Spec

\* And it does not stay in the queue for ever, whatever the bounded faults were,
\* unless the gateway is configured with larger batches than the server takes and
\* its backlog has outgrown them: then nothing moves any more (IngestTelemetryBatch,
\* flushOnce).
QueueDrains ==
  /\ MaxBatch <= limit => D!Drains
  /\ \A m \in Messages : m \in buffer ~> (m \notin buffer \/ []TooLarge)
=============================================================================
