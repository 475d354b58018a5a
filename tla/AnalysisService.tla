-------------------------- MODULE AnalysisService ---------------------------
(***************************************************************************)
(* What an analysis promises its caller, whatever it downloads, caches and *)
(* retries meanwhile: one outcome; a learning session when that outcome is *)
(* a success and none when it is a cancellation, an exceeded limit or a    *)
(* timeout (a failure or an error may strike once the session is open);    *)
(* and a reason for every cancellation and exceeded limit.                 *)
(***************************************************************************)
CONSTANT Analyses

VARIABLES
  phase,      \* where each analysis is, as its caller sees it
  outcome,    \* what it answered
  sessions,   \* the analyses that opened a session
  cancelled,  \* the running ones whose caller asked to stop
  late,       \* the running ones whose time limit has passed
  large       \* the running ones whose paper is over the size limit

vars == <<phase, outcome, sessions, cancelled, late, large>>

Init ==
  /\ phase = [a \in Analyses |-> "idle"]
  /\ outcome = [a \in Analyses |-> "none"]
  /\ sessions = {} /\ cancelled = {} /\ late = {} /\ large = {}

Submit(a) ==
  /\ phase[a] = "idle"
  /\ phase' = [phase EXCEPT ![a] = "running"]
  /\ large' \in {large, large \cup {a}}
  /\ UNCHANGED <<outcome, sessions, cancelled, late>>

Cancel(a) ==
  /\ phase[a] = "running"
  /\ cancelled' = cancelled \cup {a}
  /\ UNCHANGED <<phase, outcome, sessions, late, large>>

Expire(a) ==
  /\ phase[a] = "running"
  /\ late' = late \cup {a}
  /\ UNCHANGED <<phase, outcome, sessions, cancelled, large>>

\* A paper over the limit never gets a session.
Open(a) ==
  /\ phase[a] = "running" /\ a \notin large
  /\ sessions' = sessions \cup {a}
  /\ UNCHANGED <<phase, outcome, cancelled, late, large>>

Settle(a) ==
  /\ cancelled' = cancelled \ {a} /\ late' = late \ {a} /\ large' = large \ {a}

Answer(a, o) ==
  /\ phase[a] = "running"
  /\ o = "success" => a \in sessions
  /\ a \in sessions => o \in {"success", "failure", "error"}
  /\ o = "cancelled" => a \in cancelled
  /\ o = "limit_exceeded" => a \in late \cup large
  /\ phase' = [phase EXCEPT ![a] = "answered"]
  /\ outcome' = [outcome EXCEPT ![a] = o]
  /\ Settle(a)
  /\ UNCHANGED sessions

Kill(a) ==
  /\ phase[a] = "running"
  /\ phase' = [phase EXCEPT ![a] = "killed"]
  /\ Settle(a)
  /\ UNCHANGED <<outcome, sessions>>

Outcomes == {"success", "cancelled", "limit_exceeded", "timeout", "failure", "error"}

Next ==
  \E a \in Analyses :
     \/ Submit(a) \/ Cancel(a) \/ Expire(a) \/ Open(a) \/ Kill(a)
     \/ \E o \in Outcomes : Answer(a, o)

Spec == Init /\ [][Next]_vars
=============================================================================
