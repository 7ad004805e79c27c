---------------------------- MODULE GatewayStatus ----------------------------
(***************************************************************************)
(* The pulse of a gateway and the row the server keeps of it.  A beat      *)
(* reports what the gateway knew before it, learns from its own answer and *)
(* gives up after five seconds; a request given up may still be served.    *)
(*                                                                         *)
(* An operator directly before another one with the same parameters is a   *)
(* mutated form of it, used by mutation runs only.                         *)
(***************************************************************************)
EXTENDS Integers

CONSTANT MaxMishaps   \* bound on lost beats, refused beats and gateway restarts

ASSUME MishapsAssumption == MaxMishaps \in Nat

VARIABLES
  up,       \* the server is reachable
  alive,    \* the gateway runs
  online,   \* Pulse.online
  beat,     \* the status under way, or "none"
  late,     \* statuses of requests given up and not yet served
  row,      \* gateways.status, "none" before the first pulse
  wake,     \* Sender.wake holds a token
  mishaps

pulseVars == <<alive, online, beat, late, row, wake, mishaps>>

PulseInit ==
  /\ up \in BOOLEAN
  /\ alive \in BOOLEAN /\ online = FALSE /\ beat = "none" /\ late = {}
  /\ row = "none" /\ wake = FALSE /\ mishaps = 0

\* beat: status as of the beat before.
Beat ==
  /\ alive /\ beat = "none"
  /\ beat' = IF online THEN "online" ELSE "offline"
  /\ UNCHANGED <<alive, online, late, row, wake, mishaps>>

AnsweredUnnoticed(on) == on
\* SetOnline on status 202.
Answered(on) == TRUE

\* IngestGatewayEvent, UpsertGateway, and the answer; the sender is woken when
\* the server is back.
Accepted ==
  /\ up /\ beat # "none"
  /\ row' = beat
  /\ online' = Answered(online)
  /\ wake' = (wake \/ (~online /\ online'))
  /\ beat' = "none"
  /\ UNCHANGED <<alive, late, mishaps>>

Mishap ==
  /\ mishaps < MaxMishaps
  /\ mishaps' = mishaps + 1

\* The statement on the row fails: 500.
Refused ==
  /\ up /\ beat # "none" /\ Mishap
  /\ online' = FALSE
  /\ beat' = "none"
  /\ UNCHANGED <<alive, late, row, wake>>

\* Unreachable, at once.
Unreachable ==
  /\ ~up /\ beat # "none"
  /\ online' = FALSE
  /\ beat' = "none"
  /\ UNCHANGED <<alive, late, row, wake, mishaps>>

\* Given up: the answer is lost, or the request is served later or never.
GivenUp ==
  /\ up /\ beat # "none" /\ Mishap
  /\ \/ row' = beat /\ late' = late
     \/ row' = row /\ late' \in {late, late \cup {beat}}
  /\ online' = FALSE
  /\ beat' = "none"
  /\ UNCHANGED <<alive, wake>>

\* The status the row gets is that of the request served last.
ServedLate ==
  /\ up
  /\ \E s \in late : row' = s /\ late' = late \ {s}
  /\ UNCHANGED <<alive, online, beat, wake, mishaps>>

\* A beat under way may reach the server all the same.
GatewayStops ==
  /\ alive /\ Mishap
  /\ alive' = FALSE /\ online' = FALSE /\ wake' = FALSE /\ beat' = "none"
  /\ late' \in {late, late \cup IF up THEN {beat} \ {"none"} ELSE {}}
  /\ UNCHANGED row

GatewayStarts ==
  /\ ~alive
  /\ alive' = TRUE
  /\ UNCHANGED <<online, beat, late, row, wake, mishaps>>

\* Sender.Run takes the token and flushes.
Woken ==
  /\ alive /\ wake
  /\ wake' = FALSE
  /\ UNCHANGED <<alive, online, beat, late, row, mishaps>>

PulseNext ==
  \/ Beat
  \/ Accepted
  \/ Refused
  \/ Unreachable
  \/ GivenUp
  \/ ServedLate
  \/ GatewayStops
  \/ GatewayStarts
  \/ Woken

\* The ticker ticks, a request ends one way or the other, nothing stays in the
\* network for ever.
PulseFair ==
  /\ WF_pulseVars(Beat) /\ WF_pulseVars(Accepted \/ Unreachable) /\ WF_pulseVars(ServedLate)
  /\ WF_pulseVars(Woken)

-----------------------------------------------------------------------------
\* A gateway that runs and reaches the server is shown online in the end, although
\* its first beat says offline and late ones may overwrite newer ones (beat,
\* UpsertGateway).
ConnectedShowsOnline == <>[](alive /\ up) => <>[](row = "online")
=============================================================================
