------------------------------ MODULE DevTokio ------------------------------
(***************************************************************************)
(* run_sessions_async() of dev/tokio.rs: one task per session, one task    *)
(* per session that forwards its messages, and the dispatcher, connected   *)
(* by bounded channels; the caller joins them in this order.               *)
(*                                                                         *)
(* A session is run by run_session() (see Runner) and reduced to its       *)
(* traffic: in every round it sends Batch messages to every other node,    *)
(* then takes messages until it has those of Quorum others.                *)
(***************************************************************************)
EXTENDS Integers, Sequences, FiniteSets

CONSTANTS
  Runs,            \* the parameters of the runs, see RunParameters
  SessionCapacity, OutCapacity, DispatcherCapacity   \* of the channels

(* The sessions and their traffic; broadcasts: BroadcastsSupported or      *)
(* DirectMessagesOnly; early: how a session may end, or go on, after any   *)
(* message.                                                                *)
RunParameters ==
  [nodes : Nat \ {0}, rounds : Nat \ {0}, batch : Nat \ {0}, quorum : Nat,
   broadcasts : BOOLEAN, early : SUBSET {"unfinishable", "error", "report"}]

ASSUME DevTokioAssumption ==
  /\ \A r \in Runs : r \in RunParameters /\ r.quorum < r.nodes
  /\ SessionCapacity \in Nat \ {0}
  /\ OutCapacity \in Nat \ {0} /\ DispatcherCapacity \in Nat \ {0}

VARIABLES
  run,         \* the parameters of this run
  node,        \* session -> "running", "ok" or "err"
  round,       \* session -> the round it is in
  pushing,     \* session -> what it has to push before it goes on
  got,         \* session -> sender and round -> messages received
  inbox,       \* session -> its input channel
  outbox,      \* session -> the channel to its forwarding task
  forwarder,   \* session -> its forwarding task
  held,        \* session -> what the forwarding task is sending
  queue,       \* the channel to the dispatcher
  dispatcher,  \* "recv", "fetch", "send", "ok" or "err"
  pending,     \* messages that the dispatcher has to deliver
  delivering,  \* the one it is delivering
  joined, result   \* the caller

sessionVars == <<run, node, round, pushing, got>>
dispatcherVars == <<dispatcher, pending, delivering>>
callerVars == <<joined, result>>
vars == <<sessionVars, inbox, outbox, forwarder, held, queue, dispatcherVars,
          callerVars>>

NodeCount == run.nodes

Nodes == 1..NodeCount

(* What the dispatcher delivers, and how often it has to. *)
Letters == [from : Nodes, to : Nodes, round : 1..run.rounds]

(* A message error that a session reports, converted by From. *)
ErrorReport(i) == [from |-> i, to |-> {}, round |-> 0]

(* The x-th node other than i. *)
Peer(i, x) == IF x < i THEN x ELSE x + 1

(* send_task_into_messages_out(): broadcasts, or a message for each node. *)
MessagesOut(i, r) ==
  IF run.broadcasts
    THEN [k \in 1..run.batch |-> [from |-> i, to |-> Nodes \ {i}, round |-> r]]
    ELSE [k \in 1..run.batch * (NodeCount - 1) |->
           [from |-> i, to |-> {Peer(i, ((k - 1) \div run.batch) + 1)}, round |-> r]]

NoLetter == [from |-> 0, to |-> 0, round |-> 0]

NoItem == ErrorReport(0)

Init ==
  /\ run \in Runs
  /\ node = [i \in Nodes |-> "running"]
  /\ round = [i \in Nodes |-> 1]
  /\ pushing = [i \in Nodes |-> MessagesOut(i, 1)]
  /\ got = [i \in Nodes |-> [x \in Nodes \X (1..run.rounds) |-> 0]]
  /\ inbox = [i \in Nodes |-> <<>>]
  /\ outbox = [i \in Nodes |-> <<>>]
  /\ forwarder = [i \in Nodes |-> "running"]
  /\ held = [i \in Nodes |-> NoItem]
  /\ queue = <<>>
  /\ dispatcher = "recv"
  /\ pending = [l \in Letters |-> 0]
  /\ delivering = NoLetter
  /\ joined = 0
  /\ result = "none"

-----------------------------------------------------------------------------
(* A session: tx.send() of run_session(). *)
Push(i) ==
  /\ node[i] = "running" /\ pushing[i] # <<>>
  /\ forwarder[i] = "running"
  /\ Len(outbox[i]) < OutCapacity
  /\ outbox' = [outbox EXCEPT ![i] = Append(@, Head(pushing[i]))]
  /\ pushing' = [pushing EXCEPT ![i] = Tail(@)]
  /\ UNCHANGED <<run, node, round, got, inbox, forwarder, held, queue, dispatcherVars,
                 callerVars>>

PushError(i) ==
  /\ node[i] = "running" /\ pushing[i] # <<>>
  /\ forwarder[i] # "running"
  /\ node' = [node EXCEPT ![i] = "err"]
  /\ UNCHANGED <<run, round, pushing, got, inbox, outbox, forwarder, held, queue,
                 dispatcherVars, callerVars>>

Waiting(i) == node[i] = "running" /\ pushing[i] = <<>>

(* The session has all messages of its round from enough others. *)
RoundDone(i) ==
  Cardinality({j \in Nodes \ {i} : got[i][<<j, round[i]>>] = run.batch}) >= run.quorum

(* Its tasks lead to the next messages, or to the output. *)
Advance(i) ==
  /\ Waiting(i) /\ RoundDone(i)
  /\ IF round[i] < run.rounds
       THEN /\ round' = [round EXCEPT ![i] = @ + 1]
            /\ pushing' = [pushing EXCEPT ![i] = MessagesOut(i, round[i] + 1)]
            /\ UNCHANGED node
       ELSE /\ node' = [node EXCEPT ![i] = "ok"]
            /\ UNCHANGED <<round, pushing>>
  /\ UNCHANGED <<run, got, inbox, outbox, forwarder, held, queue, dispatcherVars,
                 callerVars>>

(* rx.recv(), and what the session makes of the message. *)
Recv(i) ==
  /\ Waiting(i) /\ ~RoundDone(i)
  /\ inbox[i] # <<>>
  /\ inbox' = [inbox EXCEPT ![i] = Tail(@)]
  /\ LET m == Head(inbox[i])
     IN  got' = [got EXCEPT ![i][<<m.from, m.round>>] = @ + 1]
  /\ \/ UNCHANGED <<node, pushing>>
     \/ /\ "unfinishable" \in run.early
        /\ node' = [node EXCEPT ![i] = "ok"]
        /\ UNCHANGED pushing
     \/ /\ "error" \in run.early
        /\ node' = [node EXCEPT ![i] = "err"]
        /\ UNCHANGED pushing
     \/ /\ "report" \in run.early
        /\ pushing' = [pushing EXCEPT ![i] = <<ErrorReport(i)>>]
        /\ UNCHANGED node
  /\ UNCHANGED <<run, round, outbox, forwarder, held, queue, dispatcherVars, callerVars>>

Stopped == {"ok", "err"}

(* The dispatcher held the only sender of the channel. *)
RecvError(i) ==
  /\ Waiting(i) /\ ~RoundDone(i)
  /\ inbox[i] = <<>> /\ dispatcher \in Stopped
  /\ node' = [node EXCEPT ![i] = "err"]
  /\ UNCHANGED <<run, round, pushing, got, inbox, outbox, forwarder, held, queue,
                 dispatcherVars, callerVars>>

-----------------------------------------------------------------------------
(* The forwarding task of a session. *)
Take(i) ==
  /\ forwarder[i] = "running" /\ held[i] = NoItem
  /\ outbox[i] # <<>>
  /\ held' = [held EXCEPT ![i] = Head(outbox[i])]
  /\ outbox' = [outbox EXCEPT ![i] = Tail(@)]
  /\ UNCHANGED <<sessionVars, inbox, forwarder, queue, dispatcherVars, callerVars>>

Forward(i) ==
  /\ forwarder[i] = "running" /\ held[i] # NoItem
  /\ dispatcher \notin Stopped
  /\ Len(queue) < DispatcherCapacity
  /\ queue' = Append(queue, held[i])
  /\ held' = [held EXCEPT ![i] = NoItem]
  /\ UNCHANGED <<sessionVars, inbox, outbox, forwarder, dispatcherVars, callerVars>>

ForwardError(i) ==
  /\ forwarder[i] = "running" /\ held[i] # NoItem
  /\ dispatcher \in Stopped
  /\ forwarder' = [forwarder EXCEPT ![i] = "err"]
  /\ UNCHANGED <<sessionVars, inbox, outbox, held, queue, dispatcherVars, callerVars>>

(* The session has ended, and with it the sender of the channel. *)
ForwardEnd(i) ==
  /\ forwarder[i] = "running" /\ held[i] = NoItem
  /\ outbox[i] = <<>> /\ node[i] \in Stopped
  /\ forwarder' = [forwarder EXCEPT ![i] = "ok"]
  /\ UNCHANGED <<sessionVars, inbox, outbox, held, queue, dispatcherVars, callerVars>>

-----------------------------------------------------------------------------
(* The dispatcher takes an item, waiting for the first one, and converts   *)
(* it with message_out_into_dms(); a reported error ends it.  (The code    *)
(* converts when it has fetched them all.)                                 *)
Fetch ==
  /\ dispatcher \in {"recv", "fetch"}
  /\ queue # <<>>
  /\ queue' = Tail(queue)
  /\ LET item == Head(queue) IN
       /\ dispatcher' = IF item.round = 0 THEN "err" ELSE "fetch"
       /\ pending' = [l \in Letters |->
            IF l.from = item.from /\ l.round = item.round /\ l.to \in item.to
              THEN pending[l] + 1 ELSE pending[l]]
  /\ UNCHANGED <<sessionVars, inbox, outbox, forwarder, held, delivering, callerVars>>

(* Mutation: the last copy of the dispatcher's sender is not dropped. *)
DispatcherEndNever == FALSE /\ UNCHANGED vars

DispatcherEnd ==
  /\ dispatcher = "recv"
  /\ queue = <<>> /\ \A i \in Nodes : forwarder[i] \in Stopped
  /\ dispatcher' = "ok"
  /\ UNCHANGED <<sessionVars, inbox, outbox, forwarder, held, queue, pending, delivering,
                 callerVars>>

(* The channel is empty. *)
FetchEnd ==
  /\ dispatcher = "fetch" /\ queue = <<>>
  /\ dispatcher' = "send"
  /\ UNCHANGED <<sessionVars, inbox, outbox, forwarder, held, queue, pending, delivering,
                 callerVars>>

(* Any of the messages is next. *)
Pick(l) ==
  /\ dispatcher = "send" /\ delivering = NoLetter
  /\ pending[l] > 0
  /\ pending' = [pending EXCEPT ![l] = @ - 1]
  /\ delivering' = l
  /\ UNCHANGED <<sessionVars, inbox, outbox, forwarder, held, queue, dispatcher, callerVars>>

(* tx.send() waits for a place, and fails when the session has ended. *)
Deliver ==
  /\ dispatcher = "send" /\ delivering # NoLetter
  /\ \/ /\ node[delivering.to] = "running"
        /\ Len(inbox[delivering.to]) < SessionCapacity
        /\ inbox' = [inbox EXCEPT ![delivering.to] = Append(@, delivering)]
        /\ UNCHANGED dispatcher
     \/ /\ node[delivering.to] \in Stopped
        /\ dispatcher' = "err"
        /\ UNCHANGED inbox
  /\ delivering' = NoLetter
  /\ UNCHANGED <<sessionVars, outbox, forwarder, held, queue, pending, callerVars>>

SendEnd ==
  /\ dispatcher = "send" /\ delivering = NoLetter
  /\ \A l \in Letters : pending[l] = 0
  /\ dispatcher' = "recv"
  /\ UNCHANGED <<sessionVars, inbox, outbox, forwarder, held, queue, pending, delivering,
                 callerVars>>

-----------------------------------------------------------------------------
(* The caller joins the sessions, then the forwarding tasks, then the      *)
(* dispatcher; at the first error it returns and leaves the others alone.  *)
Handle(k) ==
  IF k <= NodeCount THEN node[k]
  ELSE IF k <= 2 * NodeCount THEN forwarder[k - NodeCount]
  ELSE dispatcher

(* Mutation: only the sessions are joined. *)
JoinSessions ==
  /\ result = "none"
  /\ Handle(joined + 1) \in Stopped
  /\ joined' = joined + 1
  /\ result' = IF Handle(joined + 1) = "err" THEN "err"
               ELSE IF joined + 1 = NodeCount THEN "ok" ELSE "none"
  /\ UNCHANGED <<sessionVars, inbox, outbox, forwarder, held, queue, dispatcherVars>>

Join ==
  /\ result = "none"
  /\ Handle(joined + 1) \in Stopped
  /\ joined' = joined + 1
  /\ result' = IF Handle(joined + 1) = "err" THEN "err"
               ELSE IF joined = 2 * NodeCount THEN "ok" ELSE "none"
  /\ UNCHANGED <<sessionVars, inbox, outbox, forwarder, held, queue, dispatcherVars>>

SessionStep(i) == Push(i) \/ PushError(i) \/ Advance(i) \/ Recv(i) \/ RecvError(i)

ForwarderStep(i) == Take(i) \/ Forward(i) \/ ForwardError(i) \/ ForwardEnd(i)

DispatcherStep ==
  Fetch \/ DispatcherEnd \/ FetchEnd \/ (\E l \in Letters : Pick(l)) \/ Deliver \/ SendEnd

Next ==
  \/ \E i \in Nodes : SessionStep(i) \/ ForwarderStep(i)
  \/ DispatcherStep
  \/ Join

Spec == Init /\ [][Next]_vars

(* The runtime polls every task that can go on. *)
Fairness ==
  /\ \A i \in UNION {1..r.nodes : r \in Runs} :
       /\ WF_vars(i \in Nodes /\ SessionStep(i))
       /\ WF_vars(i \in Nodes /\ ForwarderStep(i))
  /\ WF_vars(DispatcherStep)
  /\ WF_vars(Join)

FairSpec == Spec /\ Fairness

-----------------------------------------------------------------------------
(* When the run is Ok no task is left behind and every message that a      *)
(* session has sent has reached its destination.                           *)
OkDelivered ==
  result = "ok" =>
    /\ dispatcher = "ok" /\ queue = <<>> /\ delivering = NoLetter
    /\ \A l \in Letters : pending[l] = 0
    /\ \A i \in Nodes : /\ node[i] = "ok" /\ forwarder[i] = "ok"
                        /\ outbox[i] = <<>> /\ held[i] = NoItem

(* A session waits for messages which the others will not send. *)
Starved ==
  /\ dispatcher = "recv" /\ queue = <<>>
  /\ \E i \in Nodes : Waiting(i) /\ ~RoundDone(i) /\ inbox[i] = <<>>
  /\ \E i \in Nodes : node[i] \in Stopped

(* The dispatcher waits for a session that waits, behind full channels,    *)
(* for the dispatcher.                                                     *)
CircularWait ==
  /\ delivering # NoLetter
  /\ LET i == delivering.to IN
       /\ Len(inbox[i]) = SessionCapacity
       /\ pushing[i] # <<>> /\ Len(outbox[i]) = OutCapacity
  /\ Len(queue) = DispatcherCapacity

(* What a task waits for when it cannot go on: a session for a place in    *)
(* its channel or for a message, a forwarding task for a place or for an   *)
(* item, the dispatcher for an item or for a place, and the caller for the *)
(* next task.                                                              *)
SessionBlocked(i) ==
  \/ node[i] \in Stopped
  \/ pushing[i] # <<>> /\ forwarder[i] = "running" /\ Len(outbox[i]) >= OutCapacity
  \/ Waiting(i) /\ ~RoundDone(i) /\ inbox[i] = <<>> /\ dispatcher \notin Stopped

ForwarderBlocked(i) ==
  \/ forwarder[i] \in Stopped
  \/ held[i] # NoItem /\ dispatcher \notin Stopped /\ Len(queue) >= DispatcherCapacity
  \/ held[i] = NoItem /\ outbox[i] = <<>> /\ node[i] = "running"

DispatcherBlocked ==
  \/ dispatcher \in Stopped
  \/ dispatcher = "recv" /\ queue = <<>> /\ \E i \in Nodes : forwarder[i] = "running"
  \/ /\ dispatcher = "send" /\ delivering # NoLetter
     /\ node[delivering.to] = "running"
     /\ Len(inbox[delivering.to]) >= SessionCapacity

Blocked ==
  /\ \A i \in Nodes : SessionBlocked(i) /\ ForwarderBlocked(i)
  /\ DispatcherBlocked
  /\ Handle(joined + 1) \notin Stopped

(* There are two ways for a run to hang, with every task blocked: nobody   *)
(* cancels sessions that starve when another has ended early, and the      *)
(* bounded channels.                                                       *)
HangsExplained ==
  result = "none" /\ ~ENABLED Next => Blocked /\ (Starved \/ CircularWait)

(* When every session needs all messages that it is sent, the run comes to *)
(* its end and is Ok, unless the channels are too small for the traffic;   *)
(* in particular the dispatcher stops when all else has, and no message    *)
(* comes to a session that has ended.                                      *)
EndsOk ==
  run.early = {} /\ run.quorum = NodeCount - 1 => <>(result = "ok" \/ CircularWait)
=============================================================================
