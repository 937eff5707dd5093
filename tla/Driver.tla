------------------------------- MODULE Driver -------------------------------
(***************************************************************************)
(* What the runner of a session promises, whatever its schedule: every     *)
(* update is applied to the session at most once and after what it was     *)
(* made from, the messages of a send task are out before the session       *)
(* records that they were sent, nothing is applied after the session has   *)
(* ended, and a result has its cause.                                      *)
(***************************************************************************)
EXTENDS Integers

CONSTANTS
  Messages, Tasks,
  Needs,       \* task -> the updates that must be applied before it is made
  Sends,       \* task -> the number of its outgoing messages
  Outcomes     \* update -> the states in which it may leave the session

Updates == Messages \cup Tasks

VARIABLES
  given,       \* the messages put into the input channel
  pushed,      \* task -> the number of its messages in the output channel
  applied,     \* the updates applied to the session
  count,       \* the number of times that one was applied
  owes,        \* the last one was a message error, not reported yet
  last,        \* the state of the session after the last of them
  faults,      \* what has gone wrong outside of the session
  result       \* what the runner has returned

vars == <<given, pushed, applied, count, owes, last, faults, result>>

Init ==
  /\ given = {}
  /\ pushed = [t \in Tasks |-> 0]
  /\ applied = {}
  /\ count = 0
  /\ owes = FALSE
  /\ last = "InProgress"
  /\ faults = {}
  /\ result = "none"

Give(m) ==
  /\ m \notin given
  /\ given' = given \cup {m}
  /\ UNCHANGED <<pushed, applied, count, owes, last, faults, result>>

Fault(f) ==
  /\ faults' = faults \cup {f}
  /\ UNCHANGED <<given, pushed, applied, count, owes, last, result>>

(* The session is in progress and nothing is left to report. *)
Going == /\ result = "none"
         /\ last \in {"InProgress", "MessageError"}
         /\ ~owes

Report ==
  /\ result = "none"
  /\ owes
  /\ owes' = FALSE
  /\ UNCHANGED <<given, pushed, applied, count, last, faults, result>>

Push(t) ==
  /\ Going
  /\ Needs[t] \subseteq applied
  /\ t \notin applied
  /\ pushed[t] < Sends[t]
  /\ pushed' = [pushed EXCEPT ![t] = @ + 1]
  /\ UNCHANGED <<given, applied, count, owes, last, faults, result>>

Apply(u, outcome) ==
  /\ Going
  /\ u \notin applied
  /\ outcome \in Outcomes[u]
  /\ u \in Messages => u \in given
  /\ u \in Tasks => Needs[u] \subseteq applied /\ pushed[u] = Sends[u]
  /\ applied' = applied \cup {u}
  /\ count' = count + 1
  /\ owes' = (outcome = "MessageError")
  /\ last' = outcome
  /\ UNCHANGED <<given, pushed, faults, result>>

(* A result is an error when the session failed, when a channel was closed *)
(* or a task could not be made before the session had ended, or when a     *)
(* task has panicked at any time.                                          *)
Return(r) ==
  /\ result = "none"
  /\ \/ r = "Success" /\ last = "ReachedOutput" /\ "panic" \notin faults
     \/ r = "Unfinishable" /\ last = "Unfinishable" /\ "panic" \notin faults
     \/ r = "Terminated" /\ Going /\ "cancel" \in faults /\ "panic" \notin faults
     \/ r = "Error" /\ \/ last = "Err" \/ "panic" \in faults
                       \/ Going /\ faults \cap {"close_input", "task"} # {}
                       \/ (Going \/ owes) /\ "close_output" \in faults
  /\ result' = r
  /\ UNCHANGED <<given, pushed, applied, count, owes, last, faults>>

Results == {"Success", "Unfinishable", "Terminated", "Error"}

Next ==
  \/ \E m \in Messages : Give(m)
  \/ \E f \in {"cancel", "close_input", "close_output", "panic", "task"} : Fault(f)
  \/ \E t \in Tasks : Push(t)
  \/ Report
  \/ \E u \in Updates : \E outcome \in Outcomes[u] : Apply(u, outcome)
  \/ \E r \in Results : Return(r)

Spec == Init /\ [][Next]_vars
=============================================================================
