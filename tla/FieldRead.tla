------------------------------ MODULE FieldRead ------------------------------
(***************************************************************************)
(* The drivers that read instruments: simulated, Modbus (one request per   *)
(* register, in the order of TAGS) and OPC UA (one request for all tags,   *)
(* or a subscription whose notifications are drained by Poll).  A message  *)
(* is abstracted to its quality; "silent" is the absence of a message.     *)
(*                                                                         *)
(* An operator directly before another one with the same parameters is a   *)
(* mutated form of it, used by mutation runs only.                         *)
(***************************************************************************)
EXTENDS Integers

CONSTANTS
  Drivers,   \* what SOURCE_DRIVER and OPCUA_MODE may choose
  NTags      \* number of entries of TAGS

ASSUME NTagsAssumption == NTags \in Nat \ {0}

FieldDrivers == {"simulated", "modbus", "opcua_poll", "opcua_subscribe"}
FieldTags == 1..NTags

VARIABLES
  driver,
  link,      \* the device accepts connections: "up" or "down"
  reg,       \* reg[t]: what a read of tag t meets: "good", "nan" or "fails"
  conn,      \* client of the driver: "none", "alive" or "dead"
  at,        \* Modbus: the tag Poll is about to read, 0 between polls
  got,       \* Modbus: messages of the running Poll
  sub,       \* OPC UA: the subscription was made at start-up
  told,      \* OPC UA: told[t] is the state of the last notification
  pending,   \* OPC UA: deltas, the last one of each tag
  seen       \* seen[t]: the last word of the driver on tag t

fieldVars == <<driver, link, reg, conn, at, got, sub, told, pending, seen>>

All(q) == [t \in FieldTags |-> q]

\* json.Marshal fails on a number that is not finite: the message is lost.
Marshalled(q) == IF q = "nan" THEN "silent" ELSE q

\* mapQuality; a Modbus read that fails gives no message at all.
Quality(r) == Marshalled(IF r = "fails" THEN "bad" ELSE r)

\* NewSource: Modbus connects with the first Poll, OPC UA at once if it can, and
\* the subscription is attempted here only.
Started(dr, up, cn, sb) ==
  /\ cn = IF dr \in {"opcua_poll", "opcua_subscribe"} /\ up THEN "alive" ELSE "none"
  /\ sb = TRUE => dr = "opcua_subscribe" /\ up

FieldInit ==
  /\ driver \in Drivers
  /\ link \in {"up", "down"}
  /\ reg \in [FieldTags -> {"good", "nan", "fails"}]
  /\ conn \in {"none", "alive"} /\ sub \in BOOLEAN
  /\ Started(driver, link = "up", conn, sub)
  /\ at = 0 /\ got = All("silent") /\ told = All("never") /\ pending = All("none")
  /\ seen = All("silent")

-----------------------------------------------------------------------------
(* The devices.                                                            *)

LinkChanges ==
  /\ link' = IF link = "up" THEN "down" ELSE "up"
  /\ conn' = IF conn = "none" THEN "none" ELSE "dead"
  /\ UNCHANGED <<driver, reg, at, got, sub, told, pending, seen>>

RegisterChanges ==
  /\ \E t \in FieldTags, r \in {"good", "nan", "fails"} : reg' = [reg EXCEPT ![t] = r]
  /\ UNCHANGED <<driver, link, conn, at, got, sub, told, pending, seen>>

-----------------------------------------------------------------------------
(* Modbus.                                                                 *)

AfterErrorKept(c) == c
\* resetConn
AfterError(c) == "none"

\* Poll, connect: no connection, no reading, every tag is marked offline.
ModbusBegins ==
  /\ driver = "modbus" /\ at = 0
  /\ \/ conn = "none" /\ link = "down"
        /\ seen' = All("offline")
        /\ UNCHANGED <<conn, at>>
     \/ conn = "none" /\ link = "up"
        /\ conn' = "alive" /\ at' = 1
        /\ UNCHANGED seen
     \/ conn # "none"
        /\ at' = 1
        /\ UNCHANGED <<conn, seen>>
  /\ got' = All("silent")
  /\ UNCHANGED <<driver, link, reg, sub, told, pending>>

ModbusReads ==
  /\ at \in FieldTags
  /\ link = "up" /\ reg[at] # "fails"
  /\ got' = [got EXCEPT ![at] = Quality(reg[at])]
  /\ IF at < NTags THEN at' = at + 1 /\ UNCHANGED seen
                   ELSE at' = 0 /\ seen' = got'
  /\ UNCHANGED <<driver, link, reg, conn, sub, told, pending>>

ReadSoFarLost(t) == All("silent")
\* The tags not yet read do not emit.
ReadSoFar(t) == [u \in FieldTags |-> IF u < t THEN got[u] ELSE "silent"]

\* A broken connection may also fail after the device is back.
ModbusReadFails ==
  /\ at \in FieldTags
  /\ link = "down" \/ conn = "dead" \/ reg[at] = "fails"
  /\ conn' = AfterError(conn)
  /\ seen' = ReadSoFar(at)
  /\ at' = 0
  /\ UNCHANGED <<driver, link, reg, got, sub, told, pending>>

-----------------------------------------------------------------------------
(* OPC UA.                                                                 *)

\* pollRead: connect if need be, then one request for all tags.
PollRead ==
  /\ driver = "opcua_poll"
  /\ link = "up"
  /\ conn' = "alive"
  /\ seen' = [t \in FieldTags |-> Quality(reg[t])]
  /\ UNCHANGED <<driver, link, reg, at, got, sub, told, pending>>

PollReadFails ==
  /\ driver = "opcua_poll"
  /\ link = "down" \/ conn = "dead"
  /\ conn' = AfterError(conn)
  /\ seen' = All("offline")
  /\ UNCHANGED <<driver, link, reg, at, got, sub, told, pending>>

\* handleNotification; the client library keeps the subscription across outages.
Notify(t) ==
  /\ sub /\ link = "up"
  /\ told[t] # reg[t]
  /\ told' = [told EXCEPT ![t] = reg[t]]
  /\ pending' = [pending EXCEPT ![t] = Quality(reg[t])]
  /\ UNCHANGED <<driver, link, reg, conn, at, got, sub, seen>>

\* Poll in subscription mode neither connects nor reads.
DrainNotified ==
  /\ driver = "opcua_subscribe"
  /\ pending # All("none")
  /\ seen' = [t \in FieldTags |-> IF pending[t] = "none" THEN seen[t] ELSE pending[t]]
  /\ pending' = All("none")
  /\ UNCHANGED <<driver, link, reg, conn, at, got, sub, told>>

-----------------------------------------------------------------------------
\* Sensor.Poll invents a number for every tag.
SensorPoll ==
  /\ driver = "simulated"
  /\ seen' = All("good")
  /\ UNCHANGED <<driver, link, reg, conn, at, got, sub, told, pending>>

\* The gateway stops (Close) and starts again.
DriverRestart ==
  /\ \E cn \in {"none", "alive"}, sb \in BOOLEAN :
       /\ Started(driver, link = "up", cn, sb)
       /\ conn' = cn
       /\ sub' = sb
  /\ at' = 0 /\ got' = All("silent") /\ told' = All("never") /\ pending' = All("none")
  /\ UNCHANGED <<driver, link, reg, seen>>

Polls ==
  \/ ModbusBegins
  \/ ModbusReads
  \/ ModbusReadFails
  \/ PollRead
  \/ PollReadFails
  \/ DrainNotified
  \/ SensorPoll

FieldStep ==
  \/ Polls
  \/ \E t \in FieldTags : Notify(t)
  \/ LinkChanges
  \/ RegisterChanges
  \/ DriverRestart

\* The poll loop ticks, the OPC UA server notifies what has changed.
FieldFair == WF_fieldVars(Polls) /\ \A t \in FieldTags : WF_fieldVars(Notify(t))

-----------------------------------------------------------------------------
\* What a driver can read at the moment: Modbus no further than the first register
\* that fails, a subscription only if it was made at start-up.
Readable(t) ==
  /\ driver \in FieldDrivers
  /\ link = "up" /\ reg[t] = "good"
  /\ driver = "modbus" => \A u \in 1..t : reg[u] # "fails"
  /\ driver = "opcua_subscribe" => sub

\* Restarts come to an end.
Settled == <>[][~DriverRestart]_fieldVars

\* A device that stays away shows: a polling driver marks every tag offline, the
\* connection that broke in the middle of a poll included (Poll, resetConn;
\* FAQ.md, "offline").
OutageIsMarked ==
  Settled /\ <>[](driver \in {"modbus", "opcua_poll"} /\ link = "down")
    => <>[](\A t \in FieldTags : seen[t] = "offline")

\* A tag that stays readable is read again and again, whatever connections broke
\* before and whatever registers after it keep failing (Poll, pollRead,
\* handleNotification).
ReadableArrives ==
  \A t \in FieldTags : Settled /\ <>[]Readable(t) => <>[](seen[t] = "good")
=============================================================================
