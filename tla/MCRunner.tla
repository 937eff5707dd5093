------------------------------ MODULE MCRunner ------------------------------
(***************************************************************************)
(* A session with two incoming messages, m1 and m2, that starts with a     *)
(* task that sends two messages and a computation; the tasks of the        *)
(* messages and the first computation lead to the output.                  *)
(***************************************************************************)
EXTENDS Runner

CONSTANTS m1, m2, send, compute, check1, check2, out

GraphMessages == {m1, m2}

GraphTasks == {send, compute, check1, check2, out}

GraphNeeds ==
  [t \in GraphTasks |-> CASE t \in {send, compute} -> {}
                          [] t = check1 -> {m1}
                          [] t = check2 -> {m2, send}
                          [] t = out -> {compute, check1, check2}]

GraphSends == [t \in GraphTasks |-> IF t = send THEN 2 ELSE 0]

(* m2 may be refused with a message error, check2 may make the session     *)
(* unfinishable, and compute may break it.                                 *)
GraphOutcomes ==
  [u \in GraphMessages \cup GraphTasks |->
     CASE u = m2 -> {"InProgress", "MessageError"}
       [] u = check2 -> {"InProgress", "Unfinishable"}
       [] u = compute -> {"InProgress", "Err"}
       [] u = out -> {"ReachedOutput"}
       [] OTHER -> {"InProgress"}]
=============================================================================
