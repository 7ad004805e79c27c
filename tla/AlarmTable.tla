------------------------------ MODULE AlarmTable -----------------------------
(***************************************************************************)
(* One row of the alarms table and the statements of store/alarms.go that  *)
(* change it.  A tag, a control loop ("loop:<id>") or an asset             *)
(* ("comm:<id>") has one row, re-used by every occurrence of its alarm.    *)
(* The table itself does not enforce that: it holds because each of these  *)
(* rows is inserted by one goroutine only, which the modules that use it   *)
(* state for theirs.  Nothing in the code shelves an alarm.                *)
(*                                                                         *)
(* An operator directly before another one with the same parameters is a   *)
(* mutated form of it, used by mutation runs only.                         *)
(***************************************************************************)

AlarmStates == {"none", "unack", "ack", "normal"}  \* "none": no row yet
Severities  == {"none", "medium", "high", "critical"}
Alarm       == [st : AlarmStates, sev : Severities]

NoAlarm == [st |-> "none", sev |-> "none"]

IsActive(a) == a.st \in {"unack", "ack"}

\* UpsertAlarmActive: an alarm that is already active keeps its severity.
Raised(a, sev) == IF IsActive(a) THEN a ELSE [st |-> "unack", sev |-> sev]

ClearedLeavesAcked(a) == IF a.st = "unack" THEN [a EXCEPT !.st = "normal"] ELSE a
\* ClearAlarm: no row, or a row already back to normal, is left alone.
Cleared(a) == IF IsActive(a) THEN [a EXCEPT !.st = "normal"] ELSE a

\* AckAlarm: one UPDATE conditional on the state.
Acked(a) == IF a.st = "unack" THEN [a EXCEPT !.st = "ack"] ELSE a
=============================================================================
