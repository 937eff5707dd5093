------------------------------- MODULE Runner -------------------------------
(***************************************************************************)
(* The runners of a session in execution/tokio.rs: run_session(), which    *)
(* executes the tasks of the session one after another, and                *)
(* par_run_session(), which executes them on the blocking thread pool of   *)
(* tokio and joins them in the order in which they end.                    *)
(*                                                                         *)
(* The session is what the runner sees of it: tasks that become available  *)
(* as updates are applied, and the state after every update.  Around the   *)
(* runner are the bounded channels (tokio::sync::mpsc), the cancellation   *)
(* token and the threads of the pool.                                      *)
(***************************************************************************)
EXTENDS Integers, Sequences, FiniteSets

CONSTANTS
  Messages, Tasks, Needs, Sends, Outcomes,   \* see Driver
  InCapacity, OutCapacity,   \* of the channels
  Faults,      \* what may go wrong
  None

Updates == Messages \cup Tasks

ASSUME RunnerAssumption ==
  /\ IsFiniteSet(Tasks)
  /\ Messages \cap Tasks = {}
  /\ None \notin Updates
  /\ Needs \in [Tasks -> SUBSET Updates]
  /\ Sends \in [Tasks -> Nat]
  /\ Outcomes \in [Updates -> SUBSET {"InProgress", "MessageError",
                                      "ReachedOutput", "Unfinishable", "Err"}]
  /\ InCapacity \in Nat /\ OutCapacity \in Nat
  /\ Faults \subseteq {"cancel", "close_input", "close_output", "panic", "task"}

VARIABLES
  parallel,    \* par_run_session() or run_session(), for the whole run
  pc,          \* "work", "send", "shutdown" or "returned"
  cached,      \* the update that run_session() got from the input channel
  sending,     \* the messages still to push, and the task they belong to
  made,        \* the tasks taken from the session
  pool,        \* task -> its place in the JoinSet
  inbox, outbox,   \* what is in the channels
  given, pushed, applied, count, last, faults,   \* see Driver
  inner,       \* what the loop has returned
  failed,      \* shutdown() has met an error
  result

loopVars == <<parallel, pc, cached, sending, made, pushed, applied, count, last,
              inner, failed, result>>

vars == <<loopVars, pool, inbox, outbox, given, faults>>

(* What a step that applies an update or ends the loop leaves alone. *)
otherVars == <<parallel, made, pushed, failed, inbox, outbox, given, faults>>

Idle == [left |-> 0, task |-> None]

Init ==
  /\ parallel \in BOOLEAN
  /\ pc = "work"
  /\ cached = None
  /\ sending = Idle
  /\ made = {}
  /\ pool = [t \in Tasks |-> "absent"]
  /\ inbox = <<>> /\ outbox = 0
  /\ given = {}
  /\ pushed = [t \in Tasks |-> 0]
  /\ applied = {} /\ count = 0
  /\ last = "InProgress"
  /\ faults = {}
  /\ inner = "none" /\ failed = FALSE /\ result = "none"

(* The tasks that the session would hand out. *)
Ready == {t \in Tasks \ made : Needs[t] \subseteq applied}

InPool == {t \in Tasks : pool[t] # "absent"}

(* The runner waits in select!: it has nothing to execute. *)
Waiting == pc = "work" /\ cached = None /\ Ready = {}

(* The loop ends with r.  par_run_session() still has to shut down the     *)
(* tasks, and abort_all() reaches the ones that have not started;          *)
(* run_session() has none and returns.                                     *)
Finish(r, jobs) ==
  /\ inner' = r
  /\ pc' = "shutdown"
  /\ pool' = [t \in Tasks |-> IF jobs[t] = "queued" THEN "cancelled" ELSE jobs[t]]

(* with_update(): u leaves the session in one of the states of Outcomes. *)
Apply(u, jobs) ==
  /\ UNCHANGED result
  /\ applied' = applied \cup {u}
  /\ count' = count + 1
  /\ last' \in Outcomes[u]
  /\ sending' = IF last' = "MessageError" THEN [left |-> 1, task |-> None] ELSE Idle
  /\ \/ last' = "InProgress" /\ pc' = "work" /\ pool' = jobs /\ UNCHANGED inner
     \/ last' = "MessageError" /\ pc' = "send" /\ pool' = jobs /\ UNCHANGED inner
     \/ last' = "ReachedOutput" /\ Finish("Success", jobs)
     \/ last' = "Unfinishable" /\ Finish("Unfinishable", jobs)
     \/ last' = "Err" /\ Finish("Error", jobs)

(* The update of task t is made: here, or on a thread of the pool. *)
Execute(t) ==
  IF parallel
    THEN /\ pool' = [pool EXCEPT ![t] = "queued"]
         /\ pc' = "work"
         /\ sending' = Idle
         /\ UNCHANGED <<applied, count, last, inner, result>>
    ELSE Apply(t, pool)

Fail == Finish("Error", pool) /\ UNCHANGED <<sending, applied, count, last, result>>

-----------------------------------------------------------------------------
ApplyCached ==
  /\ pc = "work" /\ cached # None
  /\ Apply(cached, pool)
  /\ cached' = None
  /\ UNCHANGED otherVars

(* Mutation: the update of a send task is made before its messages are out. *)
MakeTaskFirst(t) ==
  /\ pc = "work" /\ cached = None /\ t \in Ready
  /\ made' = made \cup {t}
  /\ Execute(t)
  /\ UNCHANGED <<parallel, cached, pushed, failed, inbox, outbox, given, faults>>

(* make_task() hands out t; a send task first sends. *)
MakeTask(t) ==
  /\ pc = "work" /\ cached = None /\ t \in Ready
  /\ made' = made \cup {t}
  /\ IF Sends[t] > 0
       THEN /\ pc' = "send"
            /\ sending' = [left |-> Sends[t], task |-> t]
            /\ UNCHANGED <<pool, applied, count, last, inner, result>>
       ELSE Execute(t)
  /\ UNCHANGED <<parallel, cached, pushed, failed, inbox, outbox, given, faults>>

(* make_task(), send_task_into_messages_out() or the generator fails. *)
MakeTaskError ==
  /\ pc = "work" /\ cached = None /\ Ready # {}
  /\ "task" \in faults
  /\ Fail
  /\ UNCHANGED <<cached, otherVars>>

(* tx.send() waits for a place in the output channel. *)
Push ==
  /\ pc = "send" /\ sending.left > 0
  /\ "close_output" \notin faults
  /\ outbox < OutCapacity
  /\ outbox' = outbox + 1
  /\ sending' = [sending EXCEPT !.left = @ - 1]
  /\ pushed' = IF sending.task = None THEN pushed
                                      ELSE [pushed EXCEPT ![sending.task] = @ + 1]
  /\ UNCHANGED <<parallel, pc, cached, made, pool, applied, count, last, inner,
                 failed, result, inbox, given, faults>>

PushError ==
  /\ pc = "send" /\ sending.left > 0
  /\ "close_output" \in faults
  /\ Fail
  /\ UNCHANGED <<cached, otherVars>>

(* Mutation: the update of a send task is not handed on. *)
SentOnly ==
  /\ pc = "send" /\ sending.left = 0
  /\ pc' = "work" /\ sending' = Idle
  /\ UNCHANGED <<pool, applied, count, last, inner, result>>
  /\ UNCHANGED <<cached, otherVars>>

Sent ==
  /\ pc = "send" /\ sending.left = 0
  /\ IF sending.task = None
       THEN pc' = "work" /\ UNCHANGED <<sending, pool, applied, count, last, inner, result>>
       ELSE Execute(sending.task)
  /\ UNCHANGED <<cached, otherVars>>

-----------------------------------------------------------------------------
(* The branches of select!. *)
Recv ==
  /\ Waiting /\ inbox # <<>>
  /\ inbox' = Tail(inbox)
  /\ IF parallel
       THEN Apply(Head(inbox), pool) /\ UNCHANGED cached
       ELSE /\ cached' = Head(inbox)
            /\ UNCHANGED <<pc, sending, pool, applied, count, last, inner, result>>
  /\ UNCHANGED <<parallel, made, pushed, failed, outbox, given, faults>>

(* Mutation: the channel is polled before the tasks are executed. *)
RecvErrorEarly ==
  /\ pc = "work" /\ cached = None /\ inbox = <<>>
  /\ "close_input" \in faults
  /\ Fail
  /\ UNCHANGED <<cached, otherVars>>

RecvError ==
  /\ Waiting /\ inbox = <<>>
  /\ "close_input" \in faults
  /\ Fail
  /\ UNCHANGED <<cached, otherVars>>

(* Mutation: a join that is not cancel safe loses what it has joined. *)
JoinLoses(t) ==
  /\ parallel
  /\ Waiting /\ pool[t] \in {"done", "panicked"}
  /\ pool' = [pool EXCEPT ![t] = "absent"]
  /\ UNCHANGED <<loopVars, inbox, outbox, given, faults>>

Join(t) ==
  /\ parallel
  /\ Waiting /\ pool[t] \in {"done", "panicked"}
  /\ LET rest == [pool EXCEPT ![t] = "absent"] IN
       \/ pool[t] = "done" /\ Apply(t, rest)
       \/ /\ pool[t] = "panicked" /\ Finish("Error", rest)
          /\ UNCHANGED <<sending, applied, count, last, result>>
  /\ UNCHANGED <<cached, otherVars>>

(* Mutation: cancellation is looked at only when a message has come. *)
TerminateOnMessage ==
  /\ Waiting /\ "cancel" \in faults
  /\ inbox # <<>>
  /\ Finish("Terminated", pool)
  /\ UNCHANGED <<sending, applied, count, last, result>>
  /\ UNCHANGED <<cached, otherVars>>

Terminate ==
  /\ Waiting /\ "cancel" \in faults
  /\ Finish("Terminated", pool)
  /\ UNCHANGED <<sending, applied, count, last, result>>
  /\ UNCHANGED <<cached, otherVars>>

(* shutdown() joins the tasks that remain, then the result is returned. *)
ShutdownJoin(t) ==
  /\ pc = "shutdown"
  /\ pool[t] \in {"done", "panicked", "cancelled"}
  /\ pool' = [pool EXCEPT ![t] = "absent"]
  /\ failed' = (failed \/ pool[t] = "panicked")
  /\ UNCHANGED <<parallel, pc, cached, sending, made, pushed, applied, count, last,
                 inner, result, inbox, outbox, given, faults>>

(* Mutation: the scope is dropped with its tasks, not joined. *)
ShutdownDetached ==
  /\ pc = "shutdown"
  /\ pc' = "returned"
  /\ result' = IF failed THEN "Error" ELSE inner
  /\ UNCHANGED <<parallel, cached, sending, made, pushed, applied, count, last,
                 inner, failed, pool, inbox, outbox, given, faults>>

Shutdown ==
  /\ pc = "shutdown" /\ InPool = {}
  /\ pc' = "returned"
  /\ result' = IF failed THEN "Error" ELSE inner
  /\ UNCHANGED <<parallel, cached, sending, made, pushed, applied, count, last,
                 inner, failed, pool, inbox, outbox, given, faults>>

Step ==
  \/ ApplyCached
  \/ \E t \in Tasks : MakeTask(t)
  \/ MakeTaskError
  \/ Push \/ PushError \/ Sent
  \/ Recv \/ RecvError
  \/ \E t \in Tasks : Join(t)
  \/ Terminate
  \/ \E t \in Tasks : ShutdownJoin(t)
  \/ Shutdown

-----------------------------------------------------------------------------
(* A thread of the pool takes t, and ends it. *)
Start(t) ==
  /\ pool[t] = "queued"
  /\ pool' = [pool EXCEPT ![t] = "started"]
  /\ UNCHANGED <<loopVars, inbox, outbox, given, faults>>

Stop(t) ==
  /\ pool[t] = "started"
  /\ \/ pool' = [pool EXCEPT ![t] = "done"] /\ UNCHANGED faults
     \/ /\ "panic" \in Faults
        /\ pool' = [pool EXCEPT ![t] = "panicked"]
        /\ faults' = faults \cup {"panic"}
  /\ UNCHANGED <<loopVars, inbox, outbox, given>>

(* The other ends of the channels, and the holder of the token. *)
Give(m) ==
  /\ m \notin given
  /\ "close_input" \notin faults
  /\ Len(inbox) < InCapacity
  /\ given' = given \cup {m}
  /\ inbox' = Append(inbox, m)
  /\ UNCHANGED <<loopVars, pool, outbox, faults>>

Consume ==
  /\ outbox > 0
  /\ "close_output" \notin faults
  /\ outbox' = outbox - 1
  /\ UNCHANGED <<loopVars, pool, inbox, given, faults>>

Fault(f) ==
  /\ f \in Faults \ {"panic"}
  /\ faults' = faults \cup {f}
  /\ UNCHANGED <<loopVars, pool, inbox, outbox, given>>

Next ==
  \/ Step
  \/ \E t \in Tasks : Start(t) \/ Stop(t)
  \/ \E m \in Messages : Give(m)
  \/ Consume
  \/ \E f \in Faults : Fault(f)

Spec == Init /\ [][Next]_vars

(* The runner is polled, the threads of the pool get to every task and     *)
(* every task ends, and the output channel is served.                      *)
Fairness ==
  /\ WF_vars(Step)
  /\ \A t \in Tasks : WF_vars(Start(t)) /\ WF_vars(Stop(t))
  /\ WF_vars(Consume)

FairSpec == Spec /\ Fairness

-----------------------------------------------------------------------------
States == {"InProgress", "MessageError", "ReachedOutput", "Unfinishable", "Err"}

Results == {"none", "Success", "Unfinishable", "Terminated", "Error"}

(* The type invariant. *)
TypeOK ==
  /\ parallel \in BOOLEAN
  /\ pc \in {"work", "send", "shutdown", "returned"}
  /\ cached \in Messages \cup {None}
  /\ sending \in [left : Nat, task : Tasks \cup {None}]
  /\ made \subseteq Tasks
  /\ pool \in [Tasks -> {"absent", "queued", "started", "done", "panicked", "cancelled"}]
  /\ inbox \in Seq(Messages) /\ outbox \in Nat
  /\ given \subseteq Messages
  /\ pushed \in [Tasks -> Nat]
  /\ applied \subseteq Updates /\ count \in Nat
  /\ last \in States
  /\ faults \subseteq Faults
  /\ inner \in Results /\ result \in Results
  /\ failed \in BOOLEAN

Queued(m) == \E i \in DOMAIN inbox : inbox[i] = m

(* No update is lost between its origin and the session, whichever branch  *)
(* of select! wins: a message is in the channel, cached or applied, and a  *)
(* task that was made is being sent, in the pool or applied, in one place  *)
(* only.                                                                   *)
UpdatesConserved ==
  /\ \A m \in given :
       /\ Queued(m) \/ m = cached \/ m \in applied
       /\ Queued(m) => m # cached /\ m \notin applied
       /\ m = cached => m \notin applied
  /\ pc \in {"work", "send"} =>
       /\ made = (applied \cap Tasks) \cup InPool \cup ({sending.task} \ {None})
       /\ applied \cap InPool = {}
       /\ sending.task \notin applied \cup InPool

(* "We want to avoid having dangling tasks when we return": by then no     *)
(* task of the session is running or can still start.                      *)
NoDanglingTasks == pc = "returned" => InPool = {}

(* A closed input channel ends a sequential run only after everything that *)
(* could be done without further messages has been done.                   *)
DrainedBeforeError ==
  ~parallel /\ result = "Error" /\ faults \subseteq {"cancel", "close_input"}
    /\ last \in {"InProgress", "MessageError"}
      => given \cup made \subseteq applied /\ Ready = {}

D == INSTANCE Driver WITH owes <- sending.task = None /\ sending.left > 0

(* Both runners keep the promises of Driver. *)
KeepsPromises == D!Spec

(* A cancelled runner returns, also when the messages that it waits for    *)
(* never come, as long as the output channel is served and the tasks end.  *)
CancelReturns == "cancel" \in faults ~> pc = "returned"

(* When all messages arrive and nothing goes wrong the session comes to    *)
(* its end, although the channels hold less than what passes through them. *)
Completes ==
  (\A m \in Messages : WF_vars(Give(m)))
    => <>(faults # {} \/ result \in {"Success", "Unfinishable"} \/ last = "Err")
=============================================================================
