------------------------------ MODULE RunSync ------------------------------
(***************************************************************************)
(* RunSyncConfig::run_sessions() of dev/run_sync.rs: one loop that runs    *)
(* the sessions in turns, with rules that block messages between them.     *)
(*                                                                         *)
(* A session is reduced to its traffic: in every round it sends a message  *)
(* with the values of Kinds to every other node, then waits for the        *)
(* messages of Quorum others, and after the last round it has its output.  *)
(* Values that arrive are preprocessed in the session's next turn.         *)
(***************************************************************************)
EXTENDS Integers, FiniteSets

CONSTANTS
  NodeCount, Rounds, Quorum,
  Kinds,        \* of the values in a message: "direct" or "broadcast"
  RuleSets,     \* the configurations to check
  MayReport,    \* nodes that may find a message invalid
  Any           \* a field of a rule that is None

Nodes == 1..NodeCount

(* The name of a value says in which round it is sent. *)
Names == [round : 1..Rounds, kind : Kinds]

Rules == [source : Nodes \cup {Any}, destination : Nodes \cup {Any},
          name : Names \cup {Any}]

ASSUME RunSyncAssumption ==
  /\ NodeCount \in Nat \ {0} /\ Rounds \in Nat \ {0}
  /\ Quorum \in 0..(NodeCount - 1)
  /\ Kinds \subseteq {"direct", "broadcast"} /\ Kinds # {}
  /\ RuleSets \subseteq SUBSET Rules
  /\ Any \notin Nodes

VARIABLES
  rules,       \* block_messages
  members,     \* the nodes whose sessions are run
  sessions,    \* those that go on
  left,        \* those whose turn comes in this pass
  stalled,
  queue,       \* node -> the values in its queue, with their senders
  raw,         \* session -> values to preprocess
  stored,      \* session -> values preprocessed
  counted,     \* session -> senders that its collects count, by round
  round, stage,    \* session -> its round and what it does next
  banned,      \* session -> the destinations it could not reach
  report, result

sessionVars == <<raw, stored, counted, round, stage, banned>>
vars == <<rules, members, sessions, left, stalled, queue, sessionVars, report, result>>

Init ==
  /\ rules \in RuleSets
  /\ members \in {Nodes} \cup {Nodes \ {i} : i \in Nodes}
  /\ sessions = members /\ left = members
  /\ stalled = TRUE
  /\ queue = [i \in Nodes |-> {}]
  /\ raw = [i \in Nodes |-> {}]
  /\ stored = [i \in Nodes |-> {}]
  /\ counted = [i \in Nodes |-> {}]
  /\ round = [i \in Nodes |-> 1]
  /\ stage = [i \in Nodes |-> "send"]
  /\ banned = [i \in Nodes |-> {}]
  /\ report = [i \in Nodes |-> "none"]
  /\ result = "none"

-----------------------------------------------------------------------------
(* A broadcast has no destination in its metadata. *)
Blocks(rule, from, to, name) ==
  /\ rule.source \in {Any, from}
  /\ \/ rule.destination \in {Any, to}
     \/ name.kind = "broadcast"
  /\ rule.name \in {Any, name}

(* filter_message(): what is left of the message of a round. *)
FilterMessage(from, to, r) ==
  {name \in {n \in Names : n.round = r} :
     \A rule \in rules : ~Blocks(rule, from, to, name)}

(* make_task() of the session returns a task. *)
RoundDone(i) == Cardinality({j \in Nodes : <<round[i], j>> \in counted[i]}) >= Quorum

HasStep(i) == stage[i] # "collect" \/ RoundDone(i)

HasTask(i) == raw[i] # {} \/ HasStep(i)

(* All values of the sender's message are there. *)
Complete(values) ==
  {c \in (1..Rounds) \X Nodes :
     \A n \in Names : n.round = c[1] => [from |-> c[2], name |-> n] \in values}

(* with_update() with the bans of the destinations `blocked`, in their     *)
(* order: the one that makes a collect impossible is the last.             *)
Recorded(i, blocked) ==
  LET spare == Cardinality(Nodes \ (banned[i] \cup {i})) - Quorum
  IN  {j \in blocked : Cardinality({k \in blocked \ banned[i] : k < j}) <= spare}

Unfinishable(i, blocked) ==
  /\ blocked # {}
  /\ Cardinality(Nodes \ (banned[i] \cup blocked \cup {i})) < Quorum

Fired(i) == IF stage[i] = "output" THEN Rounds ELSE round[i] - 1

(* Mutation: only the last session says whether the pass was idle. *)
StillStalledLast(i) == queue[i] = {} /\ ~HasTask(i)

(* The session got no messages and has made no tasks. *)
StillStalled(i) == stalled /\ queue[i] = {} /\ ~HasTask(i)

(* Mutation: messages to nodes that have had their turn are dropped. *)
DeliveredForward(i, sends) ==
  [j \in Nodes |->
     IF j <= i THEN {}
     ELSE queue[j] \cup
          (IF sends THEN {[from |-> i, name |-> n] : n \in FilterMessage(i, j, round[i])}
                    ELSE {})]

(* The queues after the turn of i, in which it may have sent its messages; *)
(* the queues of sessions that have ended are still filled.                *)
Delivered(i, sends) ==
  [j \in Nodes |->
     IF j = i THEN {}
     ELSE queue[j] \cup
          (IF sends THEN {[from |-> i, name |-> n] : n \in FilterMessage(i, j, round[i])}
                    ELSE {})]

(* The session has sent a message nobody can receive, or has got one that  *)
(* is an error: run_sessions() returns.                                    *)
Abort(i) ==
  /\ \/ stage[i] = "send" /\ members # Nodes
     \/ raw[i] # {} /\ i \in MayReport
  /\ result' = "err"
  /\ UNCHANGED <<rules, members, sessions, left, stalled, queue, sessionVars, report>>

(* The session ends in its turn. *)
End(i, outcome, blocked) ==
  /\ report' = [report EXCEPT ![i] = outcome]
  /\ banned' = [banned EXCEPT ![i] = @ \cup Recorded(i, blocked)]
  /\ sessions' = sessions \ {i}
  /\ UNCHANGED <<raw, stored, counted, round, stage>>

(* The other updates: messages are there to be preprocessed, preprocessed  *)
(* values are stored and counted, and the session goes on to its next      *)
(* stage.                                                                  *)
GoOn(i, blocked) ==
  /\ raw' = [raw EXCEPT ![i] = queue[i]]
  /\ stored' = [stored EXCEPT ![i] = @ \cup raw[i]]
  /\ counted' = [counted EXCEPT ![i] =
       {c \in @ \cup (Complete(stored'[i]) \ Complete(stored[i])) :
          c[1] <= Fired(i) \/ c[2] \notin blocked}]
  /\ banned' = [banned EXCEPT ![i] = @ \cup blocked]
  /\ IF stage[i] = "send"
       THEN stage' = [stage EXCEPT ![i] = "collect"] /\ UNCHANGED round
     ELSE IF RoundDone(i) /\ round[i] < Rounds
       THEN /\ stage' = [stage EXCEPT ![i] = "send"]
            /\ round' = [round EXCEPT ![i] = @ + 1]
     ELSE IF RoundDone(i)
       THEN stage' = [stage EXCEPT ![i] = "output"] /\ UNCHANGED round
     ELSE UNCHANGED <<stage, round>>
  /\ UNCHANGED <<sessions, report>>

(* The turn of a session: its messages and the results of its tasks are    *)
(* collected first, then applied.                                          *)
Turn(i) ==
  /\ \A j \in left : i <= j
  /\ ~(stage[i] = "send" /\ members # Nodes)
  /\ LET sends == stage[i] = "send"
         blocked == IF sends THEN {j \in Nodes \ {i} : FilterMessage(i, j, round[i]) = {}}
                             ELSE {}
     IN  /\ queue' = Delivered(i, sends)
         /\ stalled' = StillStalled(i)
         /\ IF stage[i] = "output" THEN End(i, "Success", {})
            ELSE IF Unfinishable(i, blocked) THEN End(i, "Unfinishable", blocked)
            ELSE GoOn(i, blocked)
  /\ left' = left \ {i}
  /\ UNCHANGED <<rules, members, result>>

NextPass ==
  /\ left = {} /\ sessions # {} /\ ~stalled
  /\ left' = sessions
  /\ stalled' = TRUE
  /\ UNCHANGED <<rules, members, sessions, queue, sessionVars, report, result>>

(* Mutation: a pass in which nothing happened is followed by another. *)
FinishUnstalled ==
  /\ left = {} /\ sessions = {}
  /\ result' = "ok"
  /\ UNCHANGED <<rules, members, left, stalled, sessions, queue, sessionVars, report>>

(* Nothing happens any more: the remaining sessions are terminated. *)
Finish ==
  /\ left = {} /\ (sessions = {} \/ stalled)
  /\ report' = [i \in Nodes |-> IF i \in sessions THEN "Terminated" ELSE report[i]]
  /\ sessions' = {}
  /\ result' = "ok"
  /\ UNCHANGED <<rules, members, left, stalled, queue, sessionVars>>

Next ==
  /\ result = "none"
  /\ \/ \E i \in left : Turn(i)
     \/ \E i \in left : (\A j \in left : i <= j) /\ Abort(i)
     \/ NextPass
     \/ Finish

Spec == Init /\ [][Next]_vars

FairSpec == Spec /\ WF_vars(Next)

-----------------------------------------------------------------------------
(* Every session gets a report, and none is terminated that has a message  *)
(* to look at or something to do: the pass that decides it was idle for    *)
(* all sessions, also for those whose turn came before the others sent.    *)
TerminatedWhenIdle ==
  result = "ok" =>
    \A i \in members :
      /\ report[i] # "none"
      /\ report[i] = "Terminated" => queue[i] = {} /\ ~HasTask(i)

(* Without rules all sessions succeed, also when some end long before the  *)
(* last messages are sent to them.                                         *)
UnblockedSucceed ==
  result = "ok" /\ rules = {} => \A i \in members : report[i] = "Success"

(* The loop ends, whichever messages are blocked. *)
Ends == <>(result # "none")
=============================================================================
