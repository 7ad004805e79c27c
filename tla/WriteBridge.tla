----------------------------- MODULE WriteBridge -----------------------------
(***************************************************************************)
(* One-shot actuator commands: an operator's PUT /actuators/{tag} bumps a  *)
(* sequence number in actuator_writes, the edge write bridge polls         *)
(* /control/output and performs a Modbus FC6 register write for every      *)
(* command whose number is newer than the last one it remembers having     *)
(* delivered.  The memory of the bridge is a Go map: it does not survive a *)
(* restart of the gateway, and it is updated only after the field device   *)
(* has confirmed the write.                                                *)
(*                                                                         *)
(* As in ControlLoop, an operator directly before another one with the     *)
(* same parameters is a mutated form of it, used by mutation runs only.    *)
(***************************************************************************)
EXTENDS Integers, FiniteSets

CONSTANTS
  Actuators,  \* output tags that no control loop drives
  Values,     \* engineering values an operator may command
  Rest,       \* value of the registers before the first command
  MaxSeq,     \* bound on the commands per actuator
  MaxFailures \* bound on lost polls, failed FC6 exchanges and bridge restarts

ASSUME ActuatorsAssumption == IsFiniteSet(Actuators)
ASSUME RestAssumption == Rest \in Values
ASSUME BoundsAssumption == MaxSeq \in Nat \ {0} /\ MaxFailures \in Nat

VARIABLES
  command,     \* command[a]: the actuator_writes row, seq 0 before the first
  feed,        \* feed[a]: the item of the last poll still to be handled
  writtenSeq,  \* the bridge's memory of delivered commands
  register,    \* register[a]: value in the field device, and its command
  writes,      \* writes[a][k]: FC6 writes that reached the device for command k
  failures     \* faults so far

bridgeVars == <<command, feed, writtenSeq, register, writes, failures>>

Seqs    == 0..MaxSeq
Command == [seq : Seqs, value : Values]
NoItem  == [seq |-> 0, value |-> Rest]

-----------------------------------------------------------------------------
BridgeInit ==
  /\ command    = [a \in Actuators |-> NoItem]
  /\ feed       = [a \in Actuators |-> NoItem]
  /\ writtenSeq = [a \in Actuators |-> 0]
  /\ register   = [a \in Actuators |-> NoItem]
  /\ writes     = [a \in Actuators |-> [k \in 1..MaxSeq |-> 0]]
  /\ failures   = 0

\* UpsertActuatorWrite: one upsert, seq starts at 1.
Bumped(c, v) == [seq |-> c.seq + 1, value |-> v]

WriteActuator(a, v) ==
  /\ command[a].seq < MaxSeq
  /\ command' = [command EXCEPT ![a] = Bumped(@, v)]
  /\ UNCHANGED <<feed, writtenSeq, register, writes, failures>>

Idle == \A a \in Actuators : feed[a] = NoItem

\* One poll of /control/output: the answer is a copy of the table, of which
\* the bridge goes on to handle the commands newer than its memory.
Poll ==
  /\ Idle
  /\ feed' = [a \in Actuators |->
                IF command[a].seq > writtenSeq[a] THEN command[a] ELSE NoItem]
  /\ UNCHANGED <<command, writtenSeq, register, writes, failures>>

\* The FC6 request takes effect in the device.
FieldWrite(a) ==
  /\ register' = [register EXCEPT ![a] = feed[a]]
  /\ writes' = [writes EXCEPT ![a][feed[a].seq] = @ + 1]

Handled(a) == feed' = [feed EXCEPT ![a] = NoItem]

\* WriteSingleRegister succeeds: only now is the command remembered.
Deliver(a) ==
  /\ feed[a] # NoItem
  /\ FieldWrite(a)
  /\ writtenSeq' = [writtenSeq EXCEPT ![a] = feed[a].seq]
  /\ Handled(a)
  /\ UNCHANGED <<command, failures>>

Failure == failures < MaxFailures /\ failures' = failures + 1

WriteFailsRemembers(a) ==
  /\ feed[a] # NoItem
  /\ Failure
  /\ writtenSeq' = [writtenSeq EXCEPT ![a] = feed[a].seq]
  /\ Handled(a)
  /\ UNCHANGED <<command, register, writes>>

\* The connection or the request is lost: nothing reached the device.
WriteFails(a) ==
  /\ feed[a] # NoItem
  /\ Failure
  /\ Handled(a)
  /\ UNCHANGED <<command, writtenSeq, register, writes>>

\* The request took effect but its response is lost: write returns false.
WriteUnconfirmed(a) ==
  /\ feed[a] # NoItem
  /\ Failure
  /\ FieldWrite(a)
  /\ Handled(a)
  /\ UNCHANGED <<command, writtenSeq>>

\* The gateway process starts again with an empty writtenSeq.
BridgeRestart ==
  /\ Failure
  /\ writtenSeq' = [a \in Actuators |-> 0]
  /\ feed' = [a \in Actuators |-> NoItem]
  /\ UNCHANGED <<command, register, writes>>

BridgeNext ==
  \/ Poll
  \/ BridgeRestart
  \/ \E a \in Actuators :
       \/ \E v \in Values : WriteActuator(a, v)
       \/ Deliver(a)
       \/ WriteFails(a)
       \/ WriteUnconfirmed(a)

BridgeSpec == BridgeInit /\ [][BridgeNext]_bridgeVars

\* The bridge polls on a ticker and handles its items one after the other; a
\* failed exchange is bounded by its timeout.
BridgeFair ==
  /\ WF_bridgeVars(Poll)
  /\ \A a \in Actuators : WF_bridgeVars(Deliver(a))

-----------------------------------------------------------------------------
\* Types; in particular no number is remembered that was never handed out
\* (store/control.go UpsertActuatorWrite, gateway/control.go write).
BridgeTypeOK ==
  /\ command \in [Actuators -> Command]
  /\ feed \in [Actuators -> Command]
  /\ writtenSeq \in [Actuators -> Seqs]
  /\ register \in [Actuators -> Command]
  /\ writes \in [Actuators -> [1..MaxSeq -> Nat]]
  /\ failures \in 0..MaxFailures

\* The bridge's memory, the item it holds and the register never run ahead of
\* one another: memory <= register <= command, and a held item is not older
\* than what the register already received, so retries, restarts and lost
\* responses may repeat a command - no more often than something failed - but
\* never bring an older one back; and once the newest command counts as delivered,
\* the register holds its value (ControlWriteBridge.tick, write).
SeqOrder ==
  \A a \in Actuators :
    /\ writtenSeq[a] <= register[a].seq
    /\ register[a].seq <= command[a].seq
    /\ writtenSeq[a] = command[a].seq => register[a].value = command[a].value
    /\ feed[a] # NoItem => feed[a].seq \in register[a].seq..command[a].seq
    /\ \A k \in 1..MaxSeq : writes[a][k] <= 1 + failures

\* Every command reaches the register unless a newer one replaces it first.
CommandArrives ==
  \A a \in Actuators : \A k \in 1..MaxSeq :
    command[a].seq >= k ~> register[a].seq >= k
=============================================================================
