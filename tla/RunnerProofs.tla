---------------------------- MODULE RunnerProofs ----------------------------
(***************************************************************************)
(* The safety properties of Runner for every session, every capacity of    *)
(* the channels and every combination of faults, and the proof that both   *)
(* runners implement Driver.                                               *)
(***************************************************************************)
EXTENDS Runner, SequenceTheorems, TLAPS

Live == pc \in {"work", "send"}

Ended == pc \in {"shutdown", "returned"}

GoingOn == last \in {"InProgress", "MessageError"}

(* Where the loop may be, and what it holds there. *)
LoopShape ==
  /\ pc = "work" => sending = Idle
  /\ pc # "work" \/ parallel => cached = None
  /\ ~parallel \/ pc = "returned" => InPool = {}
  /\ sending.task = None => sending.left <= 1
  /\ pc # "returned" => result = "none"
  /\ Live => inner = "none" /\ ~failed /\ GoingOn

(* A message that was given is in one place. *)
MessagesOnce ==
  /\ \A i, j \in DOMAIN inbox : inbox[i] = inbox[j] => i = j
  /\ \A i \in DOMAIN inbox : inbox[i] \in given \ (applied \cup {cached})
  /\ cached # None => cached \in given \ applied
  /\ applied \cap Messages \subseteq given
  /\ \A m \in given : Queued(m) \/ m = cached \/ m \in applied

(* So is a task that was made, until the loop ends. *)
TasksOnce ==
  Live => /\ made = (applied \cap Tasks) \cup InPool \cup ({sending.task} \ {None})
          /\ applied \cap InPool = {}
          /\ sending.task \notin applied \cup InPool

(* What a task was made from has been applied, and its messages are out    *)
(* before it is executed.                                                  *)
TasksBacked ==
  /\ \A t \in made : Needs[t] \subseteq applied
  /\ \A t \in Tasks \ made : pushed[t] = 0
  /\ Live => \A t \in InPool : pushed[t] = Sends[t]
  /\ Live /\ sending.task # None =>
       pushed[sending.task] + sending.left = Sends[sending.task]

(* What the loop has returned has its cause. *)
Causes ==
  /\ failed \/ (\E t \in Tasks : pool[t] = "panicked") => "panic" \in faults
  /\ "panic" \in faults =>
       failed \/ inner = "Error" \/ \E t \in Tasks : pool[t] = "panicked"
  /\ Ended => inner # "none"
  /\ inner = "Success" => last = "ReachedOutput"
  /\ inner = "Unfinishable" => last = "Unfinishable"
  /\ inner = "Terminated" => GoingOn /\ sending.left = 0 /\ "cancel" \in faults
  /\ inner = "Error" =>
       \/ last = "Err" \/ "panic" \in faults
       \/ GoingOn /\ sending.left = 0 /\ faults \cap {"close_input", "task"} # {}
       \/ GoingOn /\ "close_output" \in faults

(* A sequential loop that a closed input channel has ended was idle. *)
Drained ==
  /\ Ended /\ ~parallel /\ inner = "Error" /\ GoingOn
       /\ faults \subseteq {"cancel", "close_input"}
     => "close_input" \in faults /\ given \cup made \subseteq applied /\ Ready = {}
  /\ result = "Error" => failed \/ inner = "Error"

IndInv ==
  /\ TypeOK /\ LoopShape /\ MessagesOnce /\ TasksOnce
  /\ TasksBacked /\ Causes /\ Drained

-----------------------------------------------------------------------------
Places == {"absent", "queued", "started", "done", "panicked", "cancelled"}

(* Finish() takes no task out of the pool and makes none panic. *)
LEMMA FinishEffect ==
  ASSUME NEW r, NEW jobs \in [Tasks -> Places], Finish(r, jobs)
  PROVE  /\ inner' = r /\ pc' = "shutdown"
         /\ pool' \in [Tasks -> Places]
         /\ \A t \in Tasks : /\ pool'[t] = "absent" <=> jobs[t] = "absent"
                             /\ pool'[t] = "panicked" <=> jobs[t] = "panicked"
  BY DEF Finish, Places

(* What with_update() leaves: the loop goes on, or it ends as the state of *)
(* the session says.                                                       *)
Outcome(u, jobs) ==
  /\ result' = result
  /\ applied' = applied \cup {u}
  /\ count' = count + 1
  /\ last' \in Outcomes[u] /\ last' \in States
  /\ sending' = IF last' = "MessageError" THEN [left |-> 1, task |-> None] ELSE Idle
  /\ pool' \in [Tasks -> Places]
  /\ \A t \in Tasks : /\ pool'[t] = "absent" <=> jobs[t] = "absent"
                      /\ pool'[t] = "panicked" <=> jobs[t] = "panicked"
  /\ \/ last' = "InProgress" /\ pc' = "work" /\ inner' = inner
     \/ last' = "MessageError" /\ pc' = "send" /\ inner' = inner
     \/ last' = "ReachedOutput" /\ pc' = "shutdown" /\ inner' = "Success"
     \/ last' = "Unfinishable" /\ pc' = "shutdown" /\ inner' = "Unfinishable"
     \/ last' = "Err" /\ pc' = "shutdown" /\ inner' = "Error"

(* The case analysis of Apply(), done once. *)
LEMMA ApplyEffect ==
  ASSUME NEW u \in Updates, NEW jobs \in [Tasks -> Places], Apply(u, jobs)
  PROVE  Outcome(u, jobs)
<1>1. last' \in Outcomes[u] /\ last' \in States
  BY RunnerAssumption DEF Apply, States
<1>2. /\ pool' \in [Tasks -> Places]
      /\ \A t \in Tasks : /\ pool'[t] = "absent" <=> jobs[t] = "absent"
                          /\ pool'[t] = "panicked" <=> jobs[t] = "panicked"
  <2>1. CASE pool' = jobs
    BY <2>1
  <2>2. CASE \E r \in Results : Finish(r, jobs)
    BY <2>2, FinishEffect
  <2>3. QED
    BY <2>1, <2>2 DEF Apply, Results
<1>3. QED
  BY <1>1, <1>2 DEF Apply, Finish, Outcome

-----------------------------------------------------------------------------
(* The kinds of steps of the loop. *)

(* Update u is applied, from wherever it was. *)
Applying(u, jobs) ==
  /\ Live /\ sending.left = 0 /\ sending.task \in {None, u}
  /\ u \in Updates \ applied
  /\ u \in Messages => u \in given
  /\ u \in Tasks => /\ Needs[u] \subseteq applied /\ pushed[u] = Sends[u]
                    /\ pool[u] # "panicked" /\ jobs[u] = "absent"
  /\ jobs \in [Tasks -> Places]
  /\ \A t \in Tasks \ {u} : jobs[t] = pool[t]
  /\ Outcome(u, jobs)
  /\ made' = made \cup ({u} \cap Tasks)
  /\ inbox' \in Seq(Messages) /\ cached' = None
  /\ MessagesOnce'
  /\ UNCHANGED <<parallel, pushed, failed, outbox, given, faults>>

(* The loop ends for a reason that is not the session's. *)
Ending(r) ==
  /\ Live /\ cached = None
  /\ \/ r = "Terminated" /\ pc = "work" /\ "cancel" \in faults
     \/ r = "Error" /\ "panic" \in faults
     \/ r = "Error" /\ pc = "work" /\ "task" \in faults
     \/ r = "Error" /\ pc = "send" /\ "close_output" \in faults
     \/ r = "Error" /\ Waiting /\ inbox = <<>> /\ "close_input" \in faults
  /\ inner' = r /\ pc' = "shutdown"
  /\ pool' \in [Tasks -> Places]
  /\ \A t \in Tasks :
       /\ pool[t] = "absent" => pool'[t] = "absent"
       /\ pool'[t] = "panicked" => pool[t] = "panicked"
       /\ pool[t] = "panicked" => pool'[t] = "panicked" \/ r = "Error"
  /\ UNCHANGED <<sending, applied, count, last, result, cached, otherVars>>

(* Task t goes to the pool. *)
Enqueue(t) ==
  /\ parallel /\ Live /\ cached = None
  /\ sending.left = 0 /\ sending.task \in {None, t}
  /\ t \notin applied /\ pool[t] = "absent"
  /\ Needs[t] \subseteq applied /\ pushed[t] = Sends[t]
  /\ made' = made \cup {t}
  /\ pool' = [pool EXCEPT ![t] = "queued"]
  /\ pc' = "work" /\ sending' = Idle
  /\ UNCHANGED <<parallel, cached, pushed, applied, count, last, inner, failed,
                 result, inbox, outbox, given, faults>>

(* The messages of t are to be sent. *)
StartSend(t) ==
  /\ pc = "work" /\ cached = None /\ t \in Ready
  /\ made' = made \cup {t}
  /\ pc' = "send" /\ sending' = [left |-> Sends[t], task |-> t]
  /\ UNCHANGED <<parallel, cached, pool, pushed, applied, count, last, inner, failed,
                 result, inbox, outbox, given, faults>>

(* A message error has been reported. *)
Reported ==
  /\ pc = "send" /\ sending.left = 0 /\ sending.task = None
  /\ pc' = "work"
  /\ UNCHANGED <<sending, pool, applied, count, last, inner, result, cached, otherVars>>

(* run_session() takes a message. *)
TakeMessage ==
  /\ ~parallel /\ pc = "work" /\ cached = None /\ inbox # <<>>
  /\ cached' = Head(inbox) /\ inbox' = Tail(inbox)
  /\ UNCHANGED <<parallel, pc, sending, made, pool, pushed, applied, count, last,
                 inner, failed, result, outbox, given, faults>>

StepKinds ==
  \/ \E u \in Updates : \E jobs \in [Tasks -> Places] : Applying(u, jobs)
  \/ \E r \in {"Terminated", "Error"} : Ending(r)
  \/ \E t \in Tasks : Enqueue(t) \/ StartSend(t) \/ ShutdownJoin(t)
  \/ Push \/ Reported \/ TakeMessage \/ Shutdown

(* Taking the head of the channel keeps the others and their order. *)
LEMMA HeadTail ==
  ASSUME TypeOK, inbox # <<>>
  PROVE  /\ Head(inbox) \in Messages /\ Head(inbox) = inbox[1]
         /\ Tail(inbox) \in Seq(Messages)
         /\ 1 \in DOMAIN inbox
         /\ \A i \in DOMAIN Tail(inbox) :
              /\ i \in Nat \ {0} /\ i + 1 \in DOMAIN inbox
              /\ Tail(inbox)[i] = inbox[i + 1]
         /\ \A i \in DOMAIN inbox :
              i # 1 => i - 1 \in DOMAIN Tail(inbox) /\ Tail(inbox)[i - 1] = inbox[i]
<1>1. inbox \in Seq(Messages) /\ Len(inbox) \in Nat /\ DOMAIN inbox = 1 .. Len(inbox)
  BY DEF TypeOK
<1>2. Len(inbox) > 0
  BY <1>1, EmptySeq
<1>3. QED
  BY <1>1, <1>2, HeadTailProperties

(* Every step of the runner is of one of these kinds. *)
LEMMA StepIsOfAKind ==
  ASSUME IndInv, Step
  PROVE  StepKinds
<1>0. TypeOK /\ LoopShape /\ MessagesOnce /\ TasksOnce /\ TasksBacked /\ Causes
  BY DEF IndInv
<1>1. pool \in [Tasks -> Places] /\ None \notin Updates
  BY <1>0, RunnerAssumption DEF TypeOK, Places
<1>2. ASSUME UNCHANGED <<inbox, cached, given>>, cached = None,
             NEW u \in Tasks, applied' = applied \cup {u}
      PROVE  MessagesOnce' /\ inbox' \in Seq(Messages)
  BY <1>0, <1>2, RunnerAssumption DEF MessagesOnce, TypeOK, Queued
<1>3. CASE ApplyCached
  <2>1. cached \in Messages /\ cached \in Updates /\ cached \notin Tasks
    BY <1>0, <1>3, RunnerAssumption DEF TypeOK, ApplyCached, Updates
  <2>2. Outcome(cached, pool)
    BY <1>1, <1>3, <2>1, ApplyEffect DEF ApplyCached
  <2>3. MessagesOnce'
    <3>1. /\ applied' = applied \cup {cached} /\ cached' = None
          /\ UNCHANGED <<inbox, given>>
      BY <1>3, <2>2 DEF ApplyCached, otherVars, Outcome
    <3>2. None \notin given /\ cached # None
      BY <1>0, <1>1, <1>3 DEF TypeOK, Updates, ApplyCached
    <3>3. QED
      BY <1>0, <3>1, <3>2 DEF MessagesOnce, Queued
  <2>4. Applying(cached, pool)
    BY <1>0, <1>1, <1>3, <2>1, <2>2, <2>3
       DEF Applying, ApplyCached, otherVars, LoopShape, MessagesOnce, Live, Idle, TypeOK
  <2>5. QED
    BY <1>1, <2>1, <2>4 DEF StepKinds
<1>4. ASSUME NEW t \in Tasks, MakeTask(t)
      PROVE  StepKinds
  <2>1. t \in Updates /\ t \notin Messages /\ t \notin applied /\ pool[t] = "absent"
        /\ pushed[t] = 0 /\ Needs[t] \subseteq applied
    BY <1>0, <1>4, RunnerAssumption
       DEF MakeTask, Ready, LoopShape, TasksOnce, TasksBacked, InPool, Live, Updates
  <2>2. pc = "work" /\ cached = None /\ sending = Idle /\ Sends[t] \in Nat
    BY <1>0, <1>4, RunnerAssumption DEF MakeTask, LoopShape
  <2>3. CASE Sends[t] > 0
    BY <1>4, <2>3 DEF MakeTask, StartSend, StepKinds
  <2>4. CASE Sends[t] = 0 /\ parallel
    <3>1. Enqueue(t)
      BY <1>0, <1>4, <2>1, <2>2, <2>4 DEF MakeTask, Execute, Enqueue, Live, Idle
    <3>2. QED
      BY <3>1 DEF StepKinds
  <2>5. CASE Sends[t] = 0 /\ ~parallel
    <3>1. Outcome(t, pool)
      BY <1>1, <1>4, <2>1, <2>5, ApplyEffect DEF MakeTask, Execute
    <3>2. MessagesOnce' /\ inbox' \in Seq(Messages)
      BY <1>2, <1>4, <2>2, <3>1 DEF MakeTask, Outcome
    <3>3. Applying(t, pool)
      BY <1>1, <1>4, <2>1, <2>2, <2>5, <3>1, <3>2 DEF MakeTask, Applying, Live, Idle
    <3>4. QED
      BY <1>1, <2>1, <3>3 DEF StepKinds
  <2>6. QED
    BY <2>2, <2>3, <2>4, <2>5
<1>5. ASSUME NEW r \in {"Terminated", "Error"}, Finish(r, pool),
             UNCHANGED <<sending, applied, count, last, result, cached, otherVars>>,
             Live, cached = None,
             \/ r = "Terminated" /\ pc = "work" /\ "cancel" \in faults
             \/ r = "Error" /\ pc = "work" /\ "task" \in faults
             \/ r = "Error" /\ pc = "send" /\ "close_output" \in faults
             \/ r = "Error" /\ Waiting /\ inbox = <<>> /\ "close_input" \in faults
      PROVE  StepKinds
  BY <1>1, <1>5, FinishEffect DEF Ending, StepKinds
<1>6. CASE MakeTaskError
  BY <1>5, <1>6 DEF MakeTaskError, Fail, Live
<1>7. CASE PushError
  BY <1>0, <1>5, <1>7 DEF PushError, Fail, Live, LoopShape
<1>8. CASE RecvError
  BY <1>5, <1>8 DEF RecvError, Fail, Live, Waiting
<1>9. CASE Terminate
  BY <1>5, <1>9 DEF Terminate, Live, Waiting
<1>10. CASE Sent
  <2>1. CASE sending.task = None
    BY <1>10, <2>1 DEF Sent, Reported, StepKinds
  <2>2. CASE sending.task # None
    <3> DEFINE t == sending.task
    <3>1. t \in Tasks /\ t \in Updates /\ t \notin Messages /\ t \in made
      BY <1>0, <1>10, <2>2, RunnerAssumption
         DEF TypeOK, Updates, Sent, TasksOnce, Live
    <3>2. /\ Live /\ cached = None /\ t \notin applied /\ pool[t] = "absent"
          /\ Needs[t] \subseteq applied /\ pushed[t] = Sends[t] /\ sending.left = 0
      BY <1>0, <1>10, <2>2, <3>1, RunnerAssumption
         DEF Sent, Live, LoopShape, TasksOnce, TasksBacked, InPool, TypeOK
    <3>3. made' = made \cup {t} /\ Execute(t)
      BY <1>10, <2>2, <3>1 DEF Sent, otherVars
    <3>4. UNCHANGED <<parallel, cached, pushed, failed, inbox, outbox, given, faults>>
      BY <1>10 DEF Sent, otherVars
    <3>5. CASE parallel
      <4>1. Enqueue(t)
        BY <3>2, <3>3, <3>4, <3>5 DEF Enqueue, Execute
      <4>2. QED
        BY <3>1, <4>1 DEF StepKinds
    <3>6. CASE ~parallel
      <4>1. Outcome(t, pool)
        BY <1>1, <3>1, <3>3, <3>6, ApplyEffect DEF Execute
      <4>2. MessagesOnce' /\ inbox' \in Seq(Messages)
        BY <1>2, <3>1, <3>2, <3>4, <4>1 DEF Outcome
      <4>3. Applying(t, pool)
        BY <1>1, <3>1, <3>2, <3>3, <3>4, <4>1, <4>2 DEF Applying
      <4>4. QED
        BY <1>1, <3>1, <4>3 DEF StepKinds
    <3>7. QED
      BY <3>5, <3>6
  <2>3. QED
    BY <2>1, <2>2
<1>11. CASE Recv
  <2>1. CASE ~parallel
    BY <1>11, <2>1 DEF Recv, Waiting, TakeMessage, StepKinds
  <2>2. CASE parallel
    <3> DEFINE m == Head(inbox)
    <3>0. inbox # <<>> /\ cached = None /\ pc = "work" /\ Apply(m, pool)
          /\ inbox' = Tail(inbox)
          /\ UNCHANGED <<cached, parallel, made, pushed, failed, outbox, given, faults>>
      BY <1>11, <2>2 DEF Recv, Waiting
    <3>1. m \in Messages /\ m \in Updates /\ m \notin Tasks /\ m = inbox[1]
          /\ 1 \in DOMAIN inbox /\ Tail(inbox) \in Seq(Messages)
      BY <1>0, <3>0, HeadTail, RunnerAssumption DEF Updates
    <3>2. Outcome(m, pool)
      BY <1>1, <3>0, <3>1, ApplyEffect
    <3>3. MessagesOnce'
      <4>1. \A i \in DOMAIN Tail(inbox) :
              /\ i \in Nat \ {0} /\ i + 1 \in DOMAIN inbox
              /\ Tail(inbox)[i] = inbox[i + 1]
        BY <1>0, <3>0, HeadTail
      <4>2. \A i \in DOMAIN inbox :
              i # 1 => i - 1 \in DOMAIN Tail(inbox) /\ Tail(inbox)[i - 1] = inbox[i]
        BY <1>0, <3>0, HeadTail
      <4>3. applied' = applied \cup {m}
        BY <3>2 DEF Outcome
      <4>4. \A i, j \in DOMAIN inbox' : inbox'[i] = inbox'[j] => i = j
        BY <1>0, <3>0, <4>1 DEF MessagesOnce
      <4>5. \A i \in DOMAIN inbox' : inbox'[i] \in given' \ (applied' \cup {cached'})
        BY <1>0, <3>0, <3>1, <4>1, <4>3 DEF MessagesOnce
      <4>6. \A x \in given' : Queued(x)' \/ x = cached' \/ x \in applied'
        <5>1. ASSUME NEW i \in DOMAIN inbox
              PROVE  \/ \E j \in DOMAIN inbox' : inbox'[j] = inbox[i]
                     \/ inbox[i] \in applied'
          <6>1. CASE i = 1
            BY <3>1, <4>3, <6>1
          <6>2. CASE i # 1
            BY <3>0, <4>2, <6>2
          <6>3. QED
            BY <6>1, <6>2
        <5>2. QED
          BY <1>0, <3>0, <4>3, <5>1 DEF MessagesOnce, Queued
      <4>7. QED
        BY <1>0, <3>0, <3>1, <4>3, <4>4, <4>5, <4>6 DEF MessagesOnce
    <3>4. Applying(m, pool)
      BY <1>0, <1>1, <3>0, <3>1, <3>2, <3>3
         DEF Applying, LoopShape, MessagesOnce, Live, Idle, TypeOK
    <3>5. QED
      BY <1>1, <3>1, <3>4 DEF StepKinds
  <2>3. QED
    BY <2>1, <2>2
<1>12. ASSUME NEW t \in Tasks, Join(t)
       PROVE  StepKinds
  <2> DEFINE rest == [pool EXCEPT ![t] = "absent"]
  <2>1. rest \in [Tasks -> Places]
    BY <1>1 DEF Places
  <2>2. pc = "work" /\ cached = None /\ sending = Idle /\ t \in InPool
        /\ UNCHANGED <<cached, otherVars>>
    BY <1>0, <1>12 DEF Join, Waiting, LoopShape, InPool
  <2>3. CASE pool[t] = "done" /\ Apply(t, rest)
    <3>1. t \in Updates /\ t \notin Messages
      BY RunnerAssumption DEF Updates
    <3>2. Outcome(t, rest)
      BY <2>1, <2>3, <3>1, ApplyEffect
    <3>3. MessagesOnce' /\ inbox' \in Seq(Messages)
      BY <1>2, <2>2, <3>2 DEF Outcome, otherVars
    <3>4. t \in made /\ t \notin applied /\ pushed[t] = Sends[t] /\ Needs[t] \subseteq applied
      BY <1>0, <2>2 DEF TasksOnce, TasksBacked, Live
    <3>5. Applying(t, rest)
      BY <1>1, <2>1, <2>2, <2>3, <3>1, <3>2, <3>3, <3>4
         DEF Applying, Live, Idle, otherVars
    <3>6. QED
      BY <2>1, <3>1, <3>5 DEF StepKinds
  <2>4. CASE /\ pool[t] = "panicked" /\ Finish("Error", rest)
             /\ UNCHANGED <<sending, applied, count, last, result>>
    <3>1. "panic" \in faults
      BY <1>0, <2>4 DEF Causes
    <3>2. Ending("Error")
      BY <1>1, <2>1, <2>2, <2>4, <3>1, FinishEffect DEF Ending, Live
    <3>3. QED
      BY <3>2 DEF StepKinds
  <2>5. QED
    BY <1>12, <2>3, <2>4 DEF Join
<1>13. QED
  BY <1>3, <1>4, <1>6, <1>7, <1>8, <1>9, <1>10, <1>11, <1>12 DEF Step, StepKinds

-----------------------------------------------------------------------------
(* The invariant holds initially, and every kind of step keeps it. *)
LEMMA InitIndInv == ASSUME Init PROVE IndInv
<1>1. TypeOK
  <2>1. inbox \in Seq(Messages)
    BY EmptySeq DEF Init
  <2>2. parallel \in BOOLEAN /\ failed \in BOOLEAN
    BY Zenon DEF Init
  <2>3. sending \in [left : Nat, task : Tasks \cup {None}] /\ pushed \in [Tasks -> Nat]
    BY DEF Init, Idle
  <2>4. QED
    BY <2>1, <2>2, <2>3 DEF Init, TypeOK, States, Results
<1>2. LoopShape /\ TasksOnce /\ TasksBacked
  BY RunnerAssumption
     DEF Init, LoopShape, TasksOnce, TasksBacked, Idle, InPool, Live, GoingOn
<1>3. MessagesOnce /\ Causes /\ Drained
  BY DEF Init, MessagesOnce, Causes, Drained, Ended, Queued
<1>4. QED
  BY <1>1, <1>2, <1>3 DEF IndInv

(* A step that moves no message. *)
LEMMA MessagesQuiet ==
  ASSUME MessagesOnce, UNCHANGED <<inbox, cached, given, applied>>
  PROVE  MessagesOnce'
  BY DEF MessagesOnce, Queued

(* with_update() of a message or of a task. *)
LEMMA ApplyingKeeps ==
  ASSUME IndInv, NEW u, NEW jobs, Applying(u, jobs)
  PROVE  IndInv'
<1>0. TypeOK /\ LoopShape /\ TasksOnce /\ TasksBacked /\ Causes /\ Drained
  BY DEF IndInv
<1>1. /\ Live /\ inner = "none" /\ ~failed /\ result = "none"
  BY <1>0 DEF Applying, LoopShape, Live
<1>2. None \notin Updates /\ None \notin Tasks /\ Tasks \subseteq Updates
  BY RunnerAssumption DEF Updates
<1>3. sending' = Idle \/ sending' = [left |-> 1, task |-> None]
  BY DEF Applying, Outcome
<1>4. sending'.task = None /\ sending'.left \in {0, 1}
  BY <1>3 DEF Idle
<1>5. TypeOK'
  BY <1>0, <1>3, <1>4 DEF TypeOK, Applying, Outcome, Places, Results, Idle
<1>6. LoopShape'
  BY <1>0, <1>1, <1>4 DEF LoopShape, Applying, Outcome, Live, GoingOn, InPool, Idle
<1>7. InPool' = InPool \ {u}
  <2>1. ASSUME NEW t \in Tasks
        PROVE  t \in InPool' <=> t \in InPool /\ t # u
    BY DEF Applying, Outcome, InPool
  <2>2. QED
    BY <2>1 DEF InPool
<1>8. TasksOnce'
  <2>1. made = (applied \cap Tasks) \cup InPool \cup ({sending.task} \ {None})
        /\ applied \cap InPool = {} /\ sending.task \notin applied \cup InPool
    BY <1>0, <1>1 DEF TasksOnce
  <2>2. /\ applied' = applied \cup {u} /\ made' = made \cup ({u} \cap Tasks)
        /\ sending.task \in {None, u} /\ u \in Updates /\ u # None
    BY <1>2 DEF Applying, Outcome
  <2>3. None \notin applied' \cup InPool'
    BY <1>2, <1>5 DEF TypeOK, InPool
  <2>4. sending.task \in Tasks \cup {None} /\ InPool \subseteq Tasks
    BY <1>0 DEF TypeOK, InPool
  <2>5. made' = (applied' \cap Tasks) \cup InPool' \cup ({sending'.task} \ {None})
    BY <1>4, <1>7, <2>1, <2>2, <2>4
  <2>6. applied' \cap InPool' = {}
    BY <1>7, <2>1, <2>2
  <2>7. QED
    BY <1>4, <2>3, <2>5, <2>6 DEF TasksOnce
<1>9. TasksBacked'
  BY <1>0, <1>1, <1>4, <1>7 DEF TasksBacked, Applying, Outcome, InPool, Live
<1>10. Causes'
  BY <1>0, <1>1, <1>4 DEF Causes, Applying, Outcome, Live, Ended, GoingOn
<1>11. Drained'
  BY <1>0, <1>1 DEF Drained, Applying, Outcome, GoingOn, Ended
<1>12. QED
  BY <1>5, <1>6, <1>8, <1>9, <1>10, <1>11 DEF IndInv, Applying

(* The loop is cancelled, or meets a closed channel or a failed task. *)
LEMMA EndingKeeps ==
  ASSUME IndInv, NEW r, Ending(r)
  PROVE  IndInv'
<1>0. /\ TypeOK /\ LoopShape /\ MessagesOnce /\ TasksOnce /\ TasksBacked
      /\ Causes /\ Drained
  BY DEF IndInv
<1>1. /\ Live /\ cached = None /\ inner = "none" /\ ~failed /\ result = "none" /\ GoingOn
      /\ pc' = "shutdown" /\ inner' = r /\ r \in {"Terminated", "Error"}
      /\ UNCHANGED <<sending, applied, count, last, result, cached, otherVars>>
  BY <1>0 DEF Ending, LoopShape, Live
<1>2. InPool' \subseteq InPool
  BY DEF Ending, InPool
<1>3. TypeOK'
  BY <1>0, <1>1 DEF TypeOK, Ending, Places, Results, otherVars
<1>4. LoopShape'
  BY <1>0, <1>1, <1>2 DEF LoopShape, Live, otherVars
<1>5. MessagesOnce'
  BY <1>0, <1>1, MessagesQuiet DEF otherVars
<1>6. TasksOnce'
  BY <1>1 DEF TasksOnce, Live
<1>7. TasksBacked'
  BY <1>0, <1>1 DEF TasksBacked, Live, otherVars
<1>8. Causes'
  <2>1. pc = "work" => sending.left = 0
    BY <1>0 DEF LoopShape, Idle
  <2>2. "panic" \in faults => r = "Error" \/ \E t \in Tasks : pool'[t] = "panicked"
    BY <1>0, <1>1 DEF Causes, Ending
  <2>3. QED
    BY <1>0, <1>1, <2>1, <2>2 DEF Causes, Ending, Waiting, GoingOn, otherVars
<1>9. Drained'
  <2>1. SUFFICES ASSUME ~parallel, r = "Error", faults \subseteq {"cancel", "close_input"}
        PROVE  /\ "close_input" \in faults
               /\ given \cup made \subseteq applied /\ Ready = {}
    BY <1>0, <1>1 DEF Drained, Ready, otherVars
  <2>2. Waiting /\ inbox = <<>> /\ "close_input" \in faults
    BY <2>1 DEF Ending
  <2>3. given \subseteq applied
    BY <1>0, <2>2, RunnerAssumption DEF MessagesOnce, Queued, Waiting, TypeOK, Updates
  <2>4. sending.task = None /\ InPool = {}
    BY <1>0, <2>1, <2>2 DEF LoopShape, Waiting, Idle
  <2>5. made \subseteq applied
    BY <1>0, <1>1, <2>4 DEF TasksOnce
  <2>6. QED
    BY <2>2, <2>3, <2>5 DEF Waiting
<1>10. QED
  BY <1>3, <1>4, <1>5, <1>6, <1>7, <1>8, <1>9 DEF IndInv

(* par_run_session() spawns a task. *)
LEMMA EnqueueKeeps ==
  ASSUME IndInv, NEW t \in Tasks, Enqueue(t)
  PROVE  IndInv'
<1>0. /\ TypeOK /\ LoopShape /\ MessagesOnce /\ TasksOnce /\ TasksBacked
      /\ Causes /\ Drained
  BY DEF IndInv
<1>1. InPool' = InPool \cup {t}
  BY <1>0 DEF Enqueue, InPool, TypeOK
<1>2. Live /\ Live'
  BY DEF Enqueue, Live
<1>3. sending' = Idle /\ sending'.task = None /\ sending'.left = 0
  BY DEF Enqueue, Idle
<1>4. TypeOK'
  BY <1>0 DEF TypeOK, Enqueue, Idle
<1>5. LoopShape'
  BY <1>0, <1>2, <1>3 DEF LoopShape, Enqueue, Live, GoingOn
<1>6. MessagesOnce'
  BY <1>0, MessagesQuiet DEF Enqueue
<1>7. TasksOnce'
  <2>1. None \notin applied \cup InPool'
    BY <1>0, RunnerAssumption DEF TypeOK, InPool, Updates
  <2>2. QED
    BY <1>0, <1>1, <1>2, <1>3, <2>1 DEF TasksOnce, Enqueue
<1>8. TasksBacked'
  BY <1>0, <1>1, <1>2, <1>3 DEF TasksBacked, Enqueue
<1>9. Causes'
  <2>1. \A x \in Tasks : pool'[x] = "panicked" <=> pool[x] = "panicked"
    BY <1>0 DEF Enqueue, TypeOK
  <2>2. inner = "none"
    BY <1>0, <1>2 DEF LoopShape
  <2>3. QED
    BY <1>0, <2>1, <2>2 DEF Causes, Enqueue, Ended
<1>10. Drained'
  BY <1>0 DEF Drained, Enqueue, Ended, LoopShape
<1>11. QED
  BY <1>4, <1>5, <1>6, <1>7, <1>8, <1>9, <1>10 DEF IndInv

(* A send task is made. *)
LEMMA StartSendKeeps ==
  ASSUME IndInv, NEW t \in Tasks, StartSend(t)
  PROVE  IndInv'
<1>0. /\ TypeOK /\ LoopShape /\ MessagesOnce /\ TasksOnce /\ TasksBacked
      /\ Causes /\ Drained
  BY DEF IndInv
<1>1. /\ Live /\ Live' /\ sending.task = None /\ InPool' = InPool
      /\ sending'.task = t /\ sending'.left = Sends[t] /\ Sends[t] \in Nat
      /\ t # None /\ t \notin made
      /\ inner = "none"
  BY <1>0, RunnerAssumption
     DEF StartSend, Live, LoopShape, Idle, InPool, Updates, Ready
<1>2. TypeOK'
  BY <1>0, <1>1 DEF TypeOK, StartSend
<1>3. LoopShape'
  BY <1>0, <1>1 DEF LoopShape, StartSend, Live, GoingOn
<1>4. MessagesOnce'
  BY <1>0, MessagesQuiet DEF StartSend
<1>5. TasksOnce'
  BY <1>0, <1>1 DEF TasksOnce, StartSend
<1>6. TasksBacked'
  BY <1>0, <1>1 DEF TasksBacked, StartSend, Ready, TypeOK
<1>7. Causes' /\ Drained'
  BY <1>0, <1>1 DEF Causes, Drained, StartSend, Ended, LoopShape
<1>8. QED
  BY <1>2, <1>3, <1>4, <1>5, <1>6, <1>7 DEF IndInv

(* A message goes into the output channel. *)
LEMMA PushKeeps ==
  ASSUME IndInv, Push
  PROVE  IndInv'
<1>0. /\ TypeOK /\ LoopShape /\ MessagesOnce /\ TasksOnce /\ TasksBacked
      /\ Causes /\ Drained
  BY DEF IndInv
<1>1. /\ Live /\ Live' /\ InPool' = InPool /\ inner = "none" /\ pc = "send"
      /\ sending.left \in Nat \ {0} /\ sending.task \in Tasks \cup {None}
      /\ sending'.task = sending.task /\ sending'.left = sending.left - 1
      /\ sending' \in [left : Nat, task : Tasks \cup {None}]
  BY <1>0 DEF Push, Live, LoopShape, InPool, TypeOK
<1>2. TypeOK'
  BY <1>0, <1>1 DEF TypeOK, Push
<1>3. LoopShape'
  BY <1>0, <1>1 DEF LoopShape, Push, Live, GoingOn
<1>4. MessagesOnce'
  BY <1>0, MessagesQuiet DEF Push
<1>5. TasksOnce'
  BY <1>0, <1>1 DEF TasksOnce, Push
<1>6. TasksBacked'
  <2>1. sending.task # None => sending.task \in made /\ sending.task \notin InPool
    BY <1>0, <1>1 DEF TasksOnce
  <2>2. \A t \in Tasks : t # sending.task => pushed'[t] = pushed[t]
    BY <1>0, <1>1 DEF Push, TypeOK
  <2>3. sending.task # None => pushed'[sending.task] = pushed[sending.task] + 1
    BY <1>0, <1>1 DEF Push, TypeOK
  <2>4. made' = made /\ applied' = applied /\ made \subseteq Tasks /\ InPool \subseteq Tasks
    BY <1>0 DEF Push, TypeOK, InPool
  <2>5. \A t \in Tasks : pushed[t] \in Nat
    BY <1>0 DEF TypeOK
  <2>6. \A t \in InPool' : pushed'[t] = Sends[t]
    BY <1>0, <1>1, <2>1, <2>2, <2>4, RunnerAssumption DEF TasksBacked, Updates
  <2>7. \A t \in Tasks \ made' : pushed'[t] = 0
    BY <1>0, <1>1, <2>1, <2>2, <2>4, RunnerAssumption DEF TasksBacked, Updates
  <2>8. sending'.task # None =>
          pushed'[sending'.task] + sending'.left = Sends[sending'.task]
    BY <1>0, <1>1, <2>3, <2>5 DEF TasksBacked
  <2>9. QED
    BY <1>0, <2>4, <2>6, <2>7, <2>8 DEF TasksBacked
<1>7. Causes' /\ Drained'
  BY <1>0, <1>1 DEF Causes, Drained, Push, Ended, LoopShape
<1>8. QED
  BY <1>2, <1>3, <1>4, <1>5, <1>6, <1>7 DEF IndInv

(* The loop goes on after a message error. *)
LEMMA ReportedKeeps ==
  ASSUME IndInv, Reported
  PROVE  IndInv'
<1>0. /\ TypeOK /\ LoopShape /\ MessagesOnce /\ TasksOnce /\ TasksBacked
      /\ Causes /\ Drained
  BY DEF IndInv
<1>1. Live /\ Live' /\ InPool' = InPool /\ inner = "none" /\ sending = Idle
  BY <1>0 DEF Reported, Live, LoopShape, InPool, TypeOK, Idle
<1>2. TypeOK' /\ LoopShape'
  BY <1>0, <1>1 DEF TypeOK, LoopShape, Reported, Live, GoingOn, otherVars
<1>3. MessagesOnce'
  BY <1>0, MessagesQuiet DEF Reported, otherVars
<1>4. TasksOnce' /\ TasksBacked'
  BY <1>0, <1>1 DEF TasksOnce, TasksBacked, Reported, otherVars
<1>5. Causes' /\ Drained'
  BY <1>0, <1>1 DEF Causes, Drained, Reported, Ended, LoopShape, otherVars
<1>6. QED
  BY <1>2, <1>3, <1>4, <1>5 DEF IndInv

(* run_session() receives a message. *)
LEMMA TakeMessageKeeps ==
  ASSUME IndInv, TakeMessage
  PROVE  IndInv'
<1>0. /\ TypeOK /\ LoopShape /\ MessagesOnce /\ TasksOnce /\ TasksBacked
      /\ Causes /\ Drained
  BY DEF IndInv
<1>1. Live /\ Live' /\ InPool' = InPool /\ inner = "none" /\ pc = "work" /\ cached = None
  BY <1>0 DEF TakeMessage, Live, LoopShape, InPool
<1>2. /\ cached' \in Messages /\ cached' = inbox[1] /\ 1 \in DOMAIN inbox
      /\ inbox' = Tail(inbox) /\ inbox' \in Seq(Messages)
  BY <1>0, HeadTail DEF TakeMessage
<1>3. TypeOK' /\ LoopShape'
  BY <1>0, <1>1, <1>2 DEF TypeOK, LoopShape, TakeMessage, Live, GoingOn
<1>4. MessagesOnce'
  <2>1. \A i \in DOMAIN inbox' :
          /\ i \in Nat \ {0} /\ i + 1 \in DOMAIN inbox /\ inbox'[i] = inbox[i + 1]
    BY <1>0, <1>2, HeadTail DEF TakeMessage
  <2>2. \A i \in DOMAIN inbox :
          i # 1 => i - 1 \in DOMAIN inbox' /\ inbox'[i - 1] = inbox[i]
    BY <1>0, <1>2, HeadTail DEF TakeMessage
  <2>3. UNCHANGED <<applied, given>>
    BY DEF TakeMessage
  <2>4. \A i, j \in DOMAIN inbox' : inbox'[i] = inbox'[j] => i = j
    BY <1>0, <2>1 DEF MessagesOnce
  <2>5. \A i \in DOMAIN inbox' : inbox'[i] \in given' \ (applied' \cup {cached'})
    BY <1>0, <1>2, <2>1, <2>3 DEF MessagesOnce
  <2>6. ASSUME NEW i \in DOMAIN inbox
        PROVE  inbox[i] = cached' \/ \E j \in DOMAIN inbox' : inbox'[j] = inbox[i]
    BY <1>2, <2>2
  <2>7. None \notin given
    BY <1>0, RunnerAssumption DEF TypeOK, Updates
  <2>8. \A m \in given' : Queued(m)' \/ m = cached' \/ m \in applied'
    BY <1>0, <1>1, <2>3, <2>6, <2>7 DEF MessagesOnce, Queued
  <2>9. QED
    BY <1>0, <1>2, <2>3, <2>4, <2>5, <2>8 DEF MessagesOnce
<1>5. TasksOnce' /\ TasksBacked'
  BY <1>0, <1>1 DEF TasksOnce, TasksBacked, TakeMessage
<1>6. Causes' /\ Drained'
  BY <1>0, <1>1 DEF Causes, Drained, TakeMessage, Ended, LoopShape
<1>7. QED
  BY <1>3, <1>4, <1>5, <1>6 DEF IndInv

(* After the loop: the tasks of the pool are joined, then the runner       *)
(* returns.                                                                *)
LEMMA ShutdownKeeps ==
  ASSUME IndInv, Shutdown \/ \E t \in Tasks : ShutdownJoin(t)
  PROVE  IndInv'
<1>0. /\ TypeOK /\ LoopShape /\ MessagesOnce /\ TasksOnce /\ TasksBacked
      /\ Causes /\ Drained
  BY DEF IndInv
<1>1. CASE Shutdown
  <2>1. TypeOK' /\ LoopShape'
    BY <1>0, <1>1 DEF TypeOK, LoopShape, Shutdown, Live, GoingOn, InPool, Results
  <2>2. MessagesOnce'
    BY <1>0, <1>1, MessagesQuiet DEF Shutdown
  <2>3. TasksOnce' /\ TasksBacked'
    BY <1>0, <1>1 DEF TasksOnce, TasksBacked, Shutdown, Live
  <2>4. Causes' /\ Drained'
    BY <1>0, <1>1 DEF Causes, Drained, Shutdown, Ended, GoingOn, Ready
  <2>5. QED
    BY <2>1, <2>2, <2>3, <2>4 DEF IndInv
<1>2. ASSUME NEW t \in Tasks, ShutdownJoin(t)
      PROVE  IndInv'
  <2>1. /\ pc = "shutdown" /\ pc' = "shutdown" /\ InPool' \subseteq InPool
        /\ \A x \in Tasks \ {t} : pool'[x] = pool[x]
        /\ pool'[t] = "absent"
        /\ pool' \in [Tasks -> Places] /\ failed' = (failed \/ pool[t] = "panicked")
    BY <1>0, <1>2 DEF ShutdownJoin, InPool, TypeOK, Places
  <2>2. failed' \in BOOLEAN
    BY <2>1, Zenon
  <2>3. TypeOK' /\ LoopShape'
    BY <1>0, <1>2, <2>1, <2>2 DEF TypeOK, LoopShape, ShutdownJoin, Live, GoingOn, Places
  <2>4. MessagesOnce'
    BY <1>0, <1>2, MessagesQuiet DEF ShutdownJoin
  <2>5. TasksOnce' /\ TasksBacked'
    BY <1>0, <1>2 DEF TasksOnce, TasksBacked, ShutdownJoin, Live
  <2>6. Causes'
    BY <1>0, <1>2, <2>1 DEF Causes, ShutdownJoin, Ended, GoingOn
  <2>7. Drained'
    BY <1>0, <1>2 DEF Drained, ShutdownJoin, Ended, GoingOn, Ready, LoopShape
  <2>8. QED
    BY <2>3, <2>4, <2>5, <2>6, <2>7 DEF IndInv
<1>3. QED
  BY <1>1, <1>2

(* The threads of the pool. *)
LEMMA PoolKeeps ==
  ASSUME IndInv, NEW t \in Tasks, Start(t) \/ Stop(t)
  PROVE  IndInv'
<1>0. /\ TypeOK /\ LoopShape /\ MessagesOnce /\ TasksOnce /\ TasksBacked
      /\ Causes /\ Drained
  BY DEF IndInv
<1>1. /\ pool[t] \in {"queued", "started"}
      /\ \A x \in Tasks \ {t} : pool'[x] = pool[x]
      /\ pool'[t] \in {"started", "done", "panicked"}
      /\ pool' \in [Tasks -> Places]
      /\ \/ pool'[t] # "panicked" /\ faults' = faults
         \/ /\ pool'[t] = "panicked" /\ "panic" \in Faults
            /\ faults' = faults \cup {"panic"}
      /\ UNCHANGED <<loopVars, inbox, outbox, given>>
  BY <1>0 DEF Start, Stop, TypeOK, Places
<1>2. InPool' = InPool
  BY <1>1 DEF InPool
<1>3. UNCHANGED <<parallel, pc, cached, sending, made, pushed, applied, count, last,
                  inner, failed, result, inbox, outbox, given>>
  BY <1>1 DEF loopVars
<1>4. TypeOK'
  BY <1>0, <1>1, <1>3 DEF TypeOK, Places
<1>5. LoopShape' /\ TasksOnce' /\ TasksBacked'
  BY <1>0, <1>2, <1>3 DEF LoopShape, TasksOnce, TasksBacked, Live, GoingOn
<1>6. MessagesOnce'
  BY <1>0, <1>3, MessagesQuiet
<1>7. Causes'
  BY <1>0, <1>1, <1>3 DEF Causes, Ended, GoingOn
<1>8. Drained'
  BY <1>0, <1>1, <1>3 DEF Drained, Ended, GoingOn, Ready
<1>9. QED
  BY <1>4, <1>5, <1>6, <1>7, <1>8 DEF IndInv

(* The other ends of the channels and the holder of the token. *)
LEMMA OutsideKeeps ==
  ASSUME IndInv,
         \/ \E m \in Messages : Give(m)
         \/ Consume
         \/ \E f \in Faults : Fault(f)
         \/ UNCHANGED vars
  PROVE  IndInv'
<1>0. /\ TypeOK /\ LoopShape /\ MessagesOnce /\ TasksOnce /\ TasksBacked
      /\ Causes /\ Drained
  BY DEF IndInv
<1>1. UNCHANGED <<parallel, pc, cached, sending, made, pool, pushed, applied, count,
                  last, inner, failed, result>>
  BY DEF Give, Consume, Fault, vars, loopVars
<1>2. LoopShape' /\ TasksOnce' /\ TasksBacked'
  BY <1>0, <1>1 DEF LoopShape, TasksOnce, TasksBacked, Live, GoingOn, InPool
<1>3. ASSUME NEW m \in Messages, Give(m)
      PROVE  TypeOK' /\ MessagesOnce' /\ Causes' /\ Drained'
  <2>1. inbox' = Append(inbox, m) /\ inbox \in Seq(Messages) /\ given' = given \cup {m}
        /\ m \notin given /\ faults' = faults /\ outbox' = outbox
    BY <1>0, <1>3 DEF Give, TypeOK
  <2>2. /\ inbox' \in Seq(Messages)
        /\ Len(inbox) \in Nat /\ DOMAIN inbox = 1 .. Len(inbox)
        /\ DOMAIN inbox' = 1 .. Len(inbox) + 1
        /\ \A i \in 1 .. Len(inbox) : inbox'[i] = inbox[i]
        /\ inbox'[Len(inbox) + 1] = m
    BY <2>1, AppendProperties
  <2>3. TypeOK'
    BY <1>0, <1>1, <2>1, <2>2 DEF TypeOK
  <2>4. m \notin applied /\ m # cached
    BY <1>0, <2>1, RunnerAssumption DEF MessagesOnce, Updates
  <2>5. \A i \in DOMAIN inbox' :
          \/ i \in DOMAIN inbox /\ inbox'[i] = inbox[i]
          \/ i = Len(inbox) + 1 /\ inbox'[i] = m
    BY <2>2
  <2>6. \A i, j \in DOMAIN inbox' : inbox'[i] = inbox'[j] => i = j
    BY <1>0, <2>1, <2>5 DEF MessagesOnce
  <2>7. \A i \in DOMAIN inbox' : inbox'[i] \in given' \ (applied' \cup {cached'})
    BY <1>0, <1>1, <2>1, <2>4, <2>5 DEF MessagesOnce
  <2>8. \A x \in given' : Queued(x)' \/ x = cached' \/ x \in applied'
    BY <1>0, <1>1, <2>1, <2>2 DEF MessagesOnce, Queued
  <2>9. MessagesOnce'
    BY <1>0, <1>1, <2>1, <2>6, <2>7, <2>8 DEF MessagesOnce
  <2>10. Causes' /\ Drained'
    BY <1>0, <1>1, <1>3, <2>1 DEF Causes, Drained, Give, Ended, GoingOn, Ready
  <2>11. QED
    BY <2>3, <2>9, <2>10
<1>4. CASE Consume \/ UNCHANGED vars
  <2>1. UNCHANGED <<inbox, given, faults>> /\ outbox' \in Nat
    BY <1>0, <1>4 DEF Consume, vars, TypeOK
  <2>2. TypeOK' /\ Causes' /\ Drained'
    BY <1>0, <1>1, <2>1 DEF TypeOK, Causes, Drained, Ended, GoingOn, Ready
  <2>3. MessagesOnce'
    BY <1>0, <1>1, <2>1, MessagesQuiet
  <2>4. QED
    BY <1>2, <2>2, <2>3 DEF IndInv
<1>5. ASSUME NEW f \in Faults, Fault(f)
      PROVE  TypeOK' /\ MessagesOnce' /\ Causes' /\ Drained'
  <2>1. UNCHANGED <<inbox, given, outbox>> /\ faults' = faults \cup {f} /\ f # "panic"
    BY <1>5 DEF Fault
  <2>2. TypeOK' /\ Causes'
    BY <1>0, <1>1, <2>1 DEF TypeOK, Causes, Ended, GoingOn
  <2>3. Drained'
    BY <1>0, <1>1, <2>1 DEF Drained, Ended, GoingOn, Ready
  <2>4. MessagesOnce'
    BY <1>0, <1>1, <2>1, MessagesQuiet
  <2>5. QED
    BY <2>2, <2>3, <2>4
<1>6. QED
  BY <1>2, <1>3, <1>4, <1>5 DEF IndInv

(* The invariant is inductive. *)
LEMMA NextIndInv == ASSUME IndInv, [Next]_vars PROVE IndInv'
<1>1. CASE Step
  BY <1>1, StepIsOfAKind, ApplyingKeeps, EndingKeeps, EnqueueKeeps, StartSendKeeps,
     PushKeeps, ReportedKeeps, TakeMessageKeeps, ShutdownKeeps DEF StepKinds
<1>2. CASE \E t \in Tasks : Start(t) \/ Stop(t)
  BY <1>2, PoolKeeps
<1>3. QED
  BY <1>1, <1>2, OutsideKeeps DEF Next

(* The inductive invariant of the runners. *)
THEOREM RunnerInvariant == Spec => []IndInv
  BY InitIndInv, NextIndInv, PTL DEF Spec

(* Every reachable state of a runner has the type that the code gives it.  *)
THEOREM TypeCorrect == Spec => []TypeOK
<1>1. IndInv => TypeOK
  BY DEF IndInv
<1>2. QED
  BY <1>1, RunnerInvariant, PTL

(* No update is lost or applied twice between its origin and the session,  *)
(* whichever branch of the select! of either runner wins.                  *)
THEOREM Conservation == Spec => []UpdatesConserved
<1>1. IndInv => UpdatesConserved
  <2>1. SUFFICES ASSUME IndInv PROVE UpdatesConserved
    OBVIOUS
  <2>2. None \notin given
    BY <2>1, RunnerAssumption DEF IndInv, TypeOK, Updates
  <2>3. \A m \in given :
          /\ Queued(m) \/ m = cached \/ m \in applied
          /\ Queued(m) => m # cached /\ m \notin applied
          /\ m = cached => m \notin applied
    BY <2>1, <2>2 DEF IndInv, MessagesOnce, Queued
  <2>4. pc \in {"work", "send"} =>
          /\ made = (applied \cap Tasks) \cup InPool \cup ({sending.task} \ {None})
          /\ applied \cap InPool = {}
          /\ sending.task \notin applied \cup InPool
    BY <2>1 DEF IndInv, TasksOnce, Live
  <2>5. QED
    BY <2>3, <2>4 DEF UpdatesConserved
<1>2. QED
  BY <1>1, RunnerInvariant, PTL

(* When par_run_session() returns no task of the session is running or can *)
(* still start, whatever ended its loop.                                   *)
THEOREM NothingDangles == Spec => []NoDanglingTasks
<1>1. IndInv => NoDanglingTasks
  BY DEF IndInv, LoopShape, NoDanglingTasks
<1>2. QED
  BY <1>1, RunnerInvariant, PTL

(* run_session() does everything that can be done without further messages *)
(* before it reports that its input channel is closed.                     *)
THEOREM Draining == Spec => []DrainedBeforeError
<1>1. IndInv => DrainedBeforeError
  <2>1. SUFFICES ASSUME IndInv, ~parallel, result = "Error",
                        faults \subseteq {"cancel", "close_input"}, GoingOn
                 PROVE  given \cup made \subseteq applied /\ Ready = {}
    BY DEF DrainedBeforeError, GoingOn
  <2>2. pc = "returned" /\ ~failed
    BY <2>1 DEF IndInv, LoopShape, Causes, TypeOK
  <2>3. QED
    BY <2>1, <2>2 DEF IndInv, Drained, Ended
<1>2. QED
  BY <1>1, RunnerInvariant, PTL

-----------------------------------------------------------------------------
(* The refinement of Driver. *)
Owes == sending.task = None /\ sending.left > 0

(* The initial states are initial states of Driver. *)
LEMMA InitRefines == ASSUME Init PROVE D!Init
<1>1. ~Owes
  BY DEF Init, Idle, Owes
<1>2. QED
  BY <1>1 DEF Init, D!Init, Owes

(* An update is applied as Driver says: once, after its inputs, its messages out. *)
LEMMA ApplyingRefines ==
  ASSUME IndInv, NEW u \in Updates, NEW jobs, Applying(u, jobs)
  PROVE  D!Next
<1>1. D!Going /\ ~Owes
  BY DEF Applying, IndInv, LoopShape, Live, GoingOn, D!Going, Owes
<1>2. /\ u \notin applied /\ last' \in Outcomes[u] /\ (u \in Messages => u \in given)
      /\ u \in Tasks => Needs[u] \subseteq applied /\ pushed[u] = Sends[u]
      /\ applied' = applied \cup {u} /\ count' = count + 1
      /\ UNCHANGED <<given, pushed, faults, result>>
  BY DEF Applying, Outcome
<1>3. Owes' <=> last' = "MessageError"
  BY DEF Applying, Outcome, Owes, Idle
<1>4. (sending.task = None /\ sending.left > 0)' = (last' = "MessageError")
  BY <1>3 DEF Owes
<1>5. D!Apply(u, last')
  BY <1>1, <1>2, <1>4 DEF D!Apply
<1>6. u \in D!Updates
  BY DEF Updates, D!Updates
<1>7. QED
  BY <1>2, <1>5, <1>6 DEF D!Next

(* A pushed message is one of a send task, or the report that Driver waits for. *)
LEMMA PushRefines ==
  ASSUME IndInv, Push
  PROVE  D!Next
<1>0. TypeOK /\ LoopShape /\ TasksOnce /\ TasksBacked
  BY DEF IndInv
<1>1. /\ Live /\ sending.left \in Nat \ {0} /\ result = "none" /\ GoingOn
      /\ sending.task \in Tasks \cup {None}
      /\ sending'.task = sending.task /\ sending'.left = sending.left - 1
      /\ UNCHANGED <<given, applied, count, last, faults, result>>
  BY <1>0 DEF Push, Live, LoopShape, TypeOK
<1>2. CASE sending.task = None
  <2>1. Owes /\ ~Owes' /\ pushed' = pushed
    BY <1>0, <1>1, <1>2 DEF Owes, LoopShape, Push
  <2>2. D!Report
    BY <1>1, <2>1 DEF D!Report, Owes
  <2>3. QED
    BY <2>2 DEF D!Next
<1>3. CASE sending.task # None
  <2> DEFINE t == sending.task
  <2>1. t \in Tasks /\ ~Owes /\ ~Owes'
    BY <1>1, <1>3 DEF Owes
  <2>2. t \in made /\ t \notin applied
    BY <1>0, <1>1, <1>3 DEF TasksOnce
  <2>3. Needs[t] \subseteq applied
    BY <1>0, <2>2 DEF TasksBacked
  <2>4. pushed[t] + sending.left = Sends[t] /\ pushed[t] \in Nat /\ Sends[t] \in Nat
    BY <1>0, <1>1, <1>3, <2>1, RunnerAssumption DEF TasksBacked, TypeOK
  <2>5. pushed' = [pushed EXCEPT ![t] = @ + 1]
    BY <1>3 DEF Push
  <2>6. D!Push(t)
    <3>1. D!Going
      BY <1>1, <2>1 DEF D!Going, GoingOn, Owes
    <3>2. pushed[t] < Sends[t]
      BY <1>1, <2>4
    <3>3. UNCHANGED (sending.task = None /\ sending.left > 0)
      BY <2>1 DEF Owes
    <3>4. QED
      BY <1>1, <2>2, <2>3, <2>5, <3>1, <3>2, <3>3 DEF D!Push
  <2>7. QED
    BY <2>1, <2>6 DEF D!Next
<1>4. QED
  BY <1>2, <1>3

(* What is returned has a cause that Driver allows. *)
LEMMA ShutdownRefines ==
  ASSUME IndInv, Shutdown
  PROVE  D!Next
<1>0. TypeOK /\ LoopShape /\ Causes
  BY DEF IndInv
<1>1. /\ result = "none" /\ inner # "none" /\ inner \in Results
      /\ \A t \in Tasks : pool[t] # "panicked"
      /\ result' = IF failed THEN "Error" ELSE inner
      /\ UNCHANGED <<given, pushed, applied, count, sending, last, faults>>
  BY <1>0 DEF Shutdown, LoopShape, Causes, Ended, TypeOK, InPool
<1>2. result' \in D!Results
  BY <1>1 DEF Results, D!Results
<1>3. result' # "Error" => "panic" \notin faults /\ result' = inner
  BY <1>0, <1>1 DEF Causes
<1>4. sending.left = 0 => ~Owes
  BY DEF Owes
<1>5. D!Return(result')
  <2>1. CASE result' = "Error"
    <3>1. \/ last = "Err" \/ "panic" \in faults
          \/ GoingOn /\ sending.left = 0 /\ faults \cap {"close_input", "task"} # {}
          \/ GoingOn /\ "close_output" \in faults
      BY <1>0, <1>1, <2>1 DEF Causes
    <3>2. \/ last = "Err" \/ "panic" \in faults
          \/ D!Going /\ faults \cap {"close_input", "task"} # {}
          \/ (D!Going \/ (sending.task = None /\ sending.left > 0))
               /\ "close_output" \in faults
      BY <1>1, <1>4, <3>1 DEF D!Going, GoingOn, Owes
    <3>3. QED
      BY <1>1, <2>1, <3>2 DEF D!Return
  <2>2. CASE result' # "Error"
    BY <1>0, <1>1, <1>3, <1>4, <2>2 DEF D!Return, D!Going, Causes, GoingOn, Owes, Results
  <2>3. QED
    BY <2>1, <2>2
<1>6. QED
  BY <1>2, <1>5 DEF D!Next

(* A step that Driver does not see. *)
LEMMA Unseen ==
  ASSUME Owes' <=> Owes, UNCHANGED <<given, pushed, applied, count, last, faults, result>>
  PROVE  UNCHANGED D!vars
  BY DEF Owes, D!vars

(* A step of the loop is a step of Driver or is not seen by it. *)
LEMMA StepRefines ==
  ASSUME IndInv, Step
  PROVE  [D!Next]_(D!vars)
<1>1. ASSUME NEW u \in Updates, NEW jobs \in [Tasks -> Places], Applying(u, jobs)
      PROVE  D!Next
  BY <1>1, ApplyingRefines
<1>2. ASSUME NEW r, Ending(r)
      PROVE  UNCHANGED D!vars
  BY <1>2, Unseen DEF Ending, Owes, otherVars
<1>3. ASSUME NEW t \in Tasks, Enqueue(t) \/ StartSend(t) \/ ShutdownJoin(t)
      PROVE  UNCHANGED D!vars
  <2>1. t # None
    BY RunnerAssumption DEF Updates
  <2>2. Owes' <=> Owes
    BY <1>3, <2>1 DEF Enqueue, StartSend, ShutdownJoin, Owes, Idle, IndInv, LoopShape
  <2>3. QED
    BY <1>3, <2>2, Unseen DEF Enqueue, StartSend, ShutdownJoin
<1>4. ASSUME Reported \/ TakeMessage
      PROVE  UNCHANGED D!vars
  BY <1>4, Unseen DEF Reported, TakeMessage, Owes, otherVars
<1>5. QED
  BY <1>1, <1>2, <1>3, <1>4, PushRefines, ShutdownRefines, StepIsOfAKind DEF StepKinds

(* So is every step. *)
LEMMA NextRefines ==
  ASSUME IndInv, [Next]_vars
  PROVE  [D!Next]_(D!vars)
<1>1. CASE Step
  BY <1>1, StepRefines
<1>2. ASSUME NEW t \in Tasks, Start(t) \/ Stop(t)
      PROVE  [D!Next]_(D!vars)
  <2>1. CASE faults' = faults
    BY <1>2, <2>1, Unseen DEF Start, Stop, loopVars, Owes
  <2>2. CASE faults' = faults \cup {"panic"}
    <3>1. D!Fault("panic")
      BY <1>2, <2>2 DEF Start, Stop, loopVars, D!Fault
    <3>2. QED
      BY <3>1 DEF D!Next
  <2>3. QED
    BY <1>2, <2>1, <2>2 DEF Start, Stop
<1>3. ASSUME NEW m \in Messages, Give(m)
      PROVE  D!Next
  <2>1. D!Give(m)
    BY <1>3 DEF Give, D!Give, loopVars
  <2>2. QED
    BY <2>1 DEF D!Next
<1>4. CASE Consume \/ UNCHANGED vars
  BY <1>4, Unseen DEF Consume, vars, loopVars, Owes
<1>5. ASSUME NEW f \in Faults, Fault(f)
      PROVE  D!Next
  <2>1. D!Fault(f)
    BY <1>5 DEF Fault, D!Fault, loopVars
  <2>2. f \in {"cancel", "close_input", "close_output", "panic", "task"}
    BY RunnerAssumption
  <2>3. QED
    BY <2>1, <2>2 DEF D!Next
<1>6. QED
  BY <1>1, <1>2, <1>3, <1>4, <1>5 DEF Next

(* run_session() and par_run_session() implement Driver: every step of     *)
(* either is a step of it or one that it does not see.                     *)
THEOREM Refinement == Spec => KeepsPromises
<1>1. Init => D!Init
  BY InitRefines
<1>2. IndInv /\ [Next]_vars => [D!Next]_(D!vars)
  BY NextRefines
<1>3. QED
  BY <1>1, <1>2, RunnerInvariant, PTL DEF Spec, KeepsPromises, D!Spec
=============================================================================
