--------------------------- MODULE RunSyncProofs ---------------------------
(***************************************************************************)
(* What the reports of RunSyncConfig::run_sessions() mean, for any number  *)
(* of nodes and rounds, any quorum and any rules.                          *)
(***************************************************************************)
EXTENDS RunSync, FiniteSetTheorems, TLAPS

Values == [from : Nodes, name : Names]

Stages == {"send", "collect", "output"}

(* The types of the variables. *)
RunTypeOK ==
  /\ rules \in RuleSets
  /\ members \subseteq Nodes /\ sessions \subseteq members /\ left \subseteq sessions
  /\ stalled \in BOOLEAN
  /\ queue \in [Nodes -> SUBSET Values]
  /\ raw \in [Nodes -> SUBSET Values]
  /\ stored \in [Nodes -> SUBSET Values]
  /\ counted \in [Nodes -> SUBSET ((1..Rounds) \X Nodes)]
  /\ round \in [Nodes -> 1..Rounds]
  /\ stage \in [Nodes -> Stages]
  /\ banned \in [Nodes -> SUBSET Nodes]
  /\ report \in [Nodes -> {"none", "Success", "Unfinishable", "Terminated"}]
  /\ result \in {"none", "ok", "err"}

(* The session got nothing and can do nothing. *)
Idle(i) == queue[i] = {} /\ ~HasTask(i)

(* While the loop runs, the sessions that ended are those with a report,   *)
(* and as long as the pass counts as stalled every session that has had    *)
(* its turn is idle, whatever the others did after it.                     *)
PassInv ==
  result = "none" =>
    /\ \A i \in members : (i \in sessions <=> report[i] = "none")
                          /\ report[i] # "Terminated"
    /\ stalled => \A i \in sessions \ left : Idle(i)

(* The inductive invariant behind TerminatedWhenIdle. *)
IdleInv == RunTypeOK /\ PassInv /\ TerminatedWhenIdle

-----------------------------------------------------------------------------
(* At first all sessions go on, and none has had its turn. *)
LEMMA RunInit == Init => RunTypeOK /\ PassInv
<1> SUFFICES ASSUME Init PROVE RunTypeOK /\ PassInv
  OBVIOUS
<1>1. members \subseteq Nodes
  BY DEF Init
<1>2. RunTypeOK
  BY <1>1, RunSyncAssumption DEF Init, RunTypeOK, Stages
<1>3. PassInv
  BY <1>1 DEF Init, PassInv
<1> QED  BY <1>2, <1>3

(* The destinations that the turn of i cannot reach. *)
Unreached(i) ==
  IF stage[i] = "send" THEN {j \in Nodes \ {i} : FilterMessage(i, j, round[i]) = {}}
                       ELSE {}

(* The three ways a turn can go. *)
LEMMA TurnCases ==
  ASSUME NEW i \in left, Turn(i)
  PROVE  /\ queue' = Delivered(i, stage[i] = "send")
         /\ stalled' = StillStalled(i)
         /\ left' = left \ {i}
         /\ UNCHANGED <<rules, members, result>>
         /\ \/ stage[i] = "output" /\ End(i, "Success", {})
            \/ /\ stage[i] # "output" /\ Unfinishable(i, Unreached(i))
               /\ End(i, "Unfinishable", Unreached(i))
            \/ /\ stage[i] # "output" /\ ~Unfinishable(i, Unreached(i))
               /\ GoOn(i, Unreached(i))
BY DEF Turn, Unreached

(* A filter passes on messages of the round only. *)
LEMMA FilteredNames ==
  ASSUME NEW i, NEW j, NEW r
  PROVE  FilterMessage(i, j, r) \subseteq {n \in Names : n.round = r}
BY DEF FilterMessage

(* What is delivered are values. *)
LEMMA DeliveredType ==
  ASSUME RunTypeOK, NEW i \in Nodes, NEW sends \in BOOLEAN
  PROVE  Delivered(i, sends) \in [Nodes -> SUBSET Values]
<1>1. ASSUME NEW j \in Nodes
      PROVE  {[from |-> i, name |-> n] : n \in FilterMessage(i, j, round[i])}
               \subseteq Values
  BY FilteredNames DEF Values
<1> QED  BY <1>1 DEF Delivered, RunTypeOK

(* The session that goes on keeps the types. *)
LEMMA GoOnType ==
  ASSUME RunTypeOK, NEW i \in Nodes, NEW blocked \in SUBSET Nodes, GoOn(i, blocked)
  PROVE  /\ raw' \in [Nodes -> SUBSET Values]
         /\ stored' \in [Nodes -> SUBSET Values]
         /\ counted' \in [Nodes -> SUBSET ((1..Rounds) \X Nodes)]
         /\ round' \in [Nodes -> 1..Rounds]
         /\ stage' \in [Nodes -> Stages]
         /\ banned' \in [Nodes -> SUBSET Nodes]
<1>1. raw' \in [Nodes -> SUBSET Values] /\ stored' \in [Nodes -> SUBSET Values]
  BY DEF RunTypeOK, GoOn
<1>2. Complete(stored'[i]) \subseteq (1..Rounds) \X Nodes
  BY DEF Complete
<1>3. counted' \in [Nodes -> SUBSET ((1..Rounds) \X Nodes)]
  BY <1>2 DEF RunTypeOK, GoOn
<1>4. banned' \in [Nodes -> SUBSET Nodes]
  BY DEF RunTypeOK, GoOn
<1>5. Rounds \in Nat
  BY RunSyncAssumption
<1>6. stage' \in [Nodes -> Stages] /\ round' \in [Nodes -> 1..Rounds]
  BY <1>5 DEF RunTypeOK, GoOn, Stages
<1> QED  BY <1>1, <1>3, <1>4, <1>6

(* The turn of a session keeps the types. *)
LEMMA TurnType ==
  ASSUME RunTypeOK, NEW i \in left, Turn(i)
  PROVE  RunTypeOK'
<1>1. i \in Nodes
  BY DEF RunTypeOK
<1>2. queue' \in [Nodes -> SUBSET Values]
  BY <1>1, TurnCases, DeliveredType
<1>3. stalled' \in BOOLEAN
  BY TurnCases DEF StillStalled
<1>4. Unreached(i) \subseteq Nodes
  BY DEF Unreached
<1>5. ASSUME NEW outcome \in {"Success", "Unfinishable"}, NEW blocked \in SUBSET Nodes,
             End(i, outcome, blocked)
      PROVE  RunTypeOK'
  <2>1. Recorded(i, blocked) \subseteq Nodes
    BY DEF Recorded
  <2>2. banned' \in [Nodes -> SUBSET Nodes]
    BY <1>1, <1>5, <2>1 DEF RunTypeOK, End
  <2>3. report' \in [Nodes -> {"none", "Success", "Unfinishable", "Terminated"}]
    BY <1>1, <1>5 DEF RunTypeOK, End
  <2>4. members' \subseteq Nodes /\ sessions' \subseteq members' /\ left' \subseteq sessions'
    BY <1>5, TurnCases DEF RunTypeOK, End
  <2>5. UNCHANGED <<rules, result, raw, stored, counted, round, stage>>
    BY <1>5, TurnCases DEF End
  <2> QED  BY <1>2, <1>3, <2>2, <2>3, <2>4, <2>5 DEF RunTypeOK
<1>6. CASE GoOn(i, Unreached(i))
  <2>1. UNCHANGED <<sessions, report>>
    BY <1>6 DEF GoOn
  <2> QED  BY <1>1, <1>2, <1>3, <1>4, <1>6, <2>1, GoOnType, TurnCases DEF RunTypeOK
<1> QED  BY <1>4, <1>5, <1>6, TurnCases

(* The types are invariant. *)
LEMMA TypeStep ==
  ASSUME RunTypeOK, [Next]_vars
  PROVE  RunTypeOK'
<1>1. ASSUME NEW i \in left, Turn(i) PROVE RunTypeOK'
  BY <1>1, TurnType
<1>2. ASSUME NEW i \in left, Abort(i) PROVE RunTypeOK'
  BY <1>2 DEF Abort, RunTypeOK, sessionVars
<1>3. CASE NextPass
  BY <1>3 DEF NextPass, RunTypeOK, sessionVars
<1>4. CASE Finish
  BY <1>4 DEF Finish, RunTypeOK, sessionVars
<1>5. CASE UNCHANGED vars
  BY <1>5 DEF vars, RunTypeOK, sessionVars
<1> QED  BY <1>1, <1>2, <1>3, <1>4, <1>5 DEF Next

-----------------------------------------------------------------------------
(* Whether a session is idle depends on its own state only. *)
LEMMA IdleFrame ==
  ASSUME NEW i, queue'[i] = queue[i], raw'[i] = raw[i], counted'[i] = counted[i],
         round'[i] = round[i], stage'[i] = stage[i]
  PROVE  Idle(i)' <=> Idle(i)
<1>1. RoundDone(i)' <=> RoundDone(i)
  BY DEF RoundDone
<1> QED  BY <1>1 DEF Idle, HasTask, HasStep

(* In the turn of a session without tasks nothing is sent, so the others   *)
(* stay as idle as they were, and the session itself stays idle.           *)
LEMMA TurnStalled ==
  ASSUME IdleInv, NEW i \in left, Turn(i), StillStalled(i)
  PROVE  /\ UNCHANGED <<sessions, report>>
         /\ \A j \in Nodes : Idle(j)' <=> Idle(j)
<1>1. i \in Nodes /\ stage[i] = "collect" /\ ~RoundDone(i) /\ raw[i] = {} /\ queue[i] = {}
  BY DEF StillStalled, HasTask, HasStep, IdleInv, RunTypeOK
<1>2. Unreached(i) = {}
  BY <1>1 DEF Unreached
<1>3. GoOn(i, {})
  BY <1>1, <1>2, TurnCases DEF Unfinishable
<1>4. queue' = queue
  <2>1. queue' = Delivered(i, FALSE)
    BY <1>1, TurnCases
  <2> QED  BY <1>1, <2>1 DEF Delivered, IdleInv, RunTypeOK
<1>5. raw' = raw /\ stored' = stored /\ stage' = stage /\ round' = round
  BY <1>1, <1>3 DEF GoOn, IdleInv, RunTypeOK
<1>6. counted' = counted
  BY <1>1, <1>3, <1>5 DEF GoOn, IdleInv, RunTypeOK
<1>7. \A j \in Nodes : Idle(j)' <=> Idle(j)
  BY <1>4, <1>5, <1>6, IdleFrame
<1> QED  BY <1>3, <1>7 DEF GoOn

(* A turn: the pass stays stalled only if this session is idle too. *)
LEMMA TurnPass ==
  ASSUME IdleInv, result = "none", NEW i \in left, Turn(i)
  PROVE  PassInv'
<1>1. i \in members /\ i \in sessions /\ i \in Nodes /\ result' = "none" /\ members' = members
      /\ members \subseteq Nodes
  BY TurnCases DEF IdleInv, RunTypeOK
<1>2. \A k \in members : (k \in sessions' <=> report'[k] = "none") /\ report'[k] # "Terminated"
  <2>1. CASE UNCHANGED <<sessions, report>>
    BY <2>1 DEF IdleInv, PassInv
  <2>2. ASSUME NEW outcome \in {"Success", "Unfinishable"}, NEW blocked,
               End(i, outcome, blocked)
        PROVE  \A k \in members : (k \in sessions' <=> report'[k] = "none")
                                  /\ report'[k] # "Terminated"
    BY <1>1, <2>2 DEF IdleInv, PassInv, RunTypeOK, End
  <2> QED  BY <2>1, <2>2, TurnCases DEF GoOn
<1>3. ASSUME stalled' PROVE \A k \in sessions' \ left' : Idle(k)'
  <2>1. StillStalled(i)
    BY <1>3, TurnCases
  <2>2. stalled /\ Idle(i)
    BY <2>1 DEF StillStalled, Idle
  <2>3. \A k \in sessions \ left : Idle(k)
    BY <2>2 DEF IdleInv, PassInv
  <2>4. \A k \in sessions' \ left' : Idle(k)
    BY <2>1, <2>2, <2>3, TurnStalled, TurnCases
  <2> QED  BY <1>1, <2>1, <2>4, TurnStalled DEF IdleInv, RunTypeOK
<1> QED  BY <1>1, <1>2, <1>3 DEF PassInv

(* At the end of an idle pass all the remaining sessions have had their    *)
(* turn, so all of them are idle.                                          *)
LEMMA FinishIdle ==
  ASSUME IdleInv, result = "none", Finish
  PROVE  TerminatedWhenIdle'
<1> SUFFICES ASSUME NEW i \in members
             PROVE  /\ report'[i] # "none"
                    /\ report'[i] = "Terminated" => Idle(i)'
  BY DEF TerminatedWhenIdle, Idle, Finish
<1>1. i \in Nodes /\ report'[i] = IF i \in sessions THEN "Terminated" ELSE report[i]
  BY DEF Finish, IdleInv, RunTypeOK
<1>2. CASE i \in sessions
  <2>1. Idle(i)
    BY <1>2 DEF Finish, IdleInv, PassInv
  <2>2. Idle(i)'
    BY <2>1, IdleFrame DEF Finish, sessionVars
  <2> QED  BY <1>1, <1>2, <2>2
<1>3. CASE i \notin sessions
  BY <1>1, <1>3 DEF IdleInv, PassInv
<1> QED  BY <1>2, <1>3

(* Every step keeps the invariant. *)
LEMMA IdleStep == IdleInv /\ [Next]_vars => IdleInv'
<1> SUFFICES ASSUME IdleInv, [Next]_vars PROVE IdleInv'
  OBVIOUS
<1>1. RunTypeOK'
  BY TypeStep DEF IdleInv
<1>2. ASSUME result = "none", NEW i \in left, Turn(i) PROVE PassInv' /\ TerminatedWhenIdle'
  BY <1>2, TurnPass, TurnCases DEF TerminatedWhenIdle
<1>3. ASSUME NEW i \in left, Abort(i) PROVE PassInv' /\ TerminatedWhenIdle'
  BY <1>3 DEF Abort, PassInv, TerminatedWhenIdle
<1>4. ASSUME result = "none", NextPass PROVE PassInv' /\ TerminatedWhenIdle'
  <2>1. \A i \in members' : (i \in sessions' <=> report'[i] = "none") /\ report'[i] # "Terminated"
    BY <1>4 DEF NextPass, IdleInv, PassInv
  <2>2. sessions' \ left' = {} /\ result' = "none"
    BY <1>4 DEF NextPass
  <2> QED  BY <2>1, <2>2 DEF PassInv, TerminatedWhenIdle
<1>5. ASSUME result = "none", Finish PROVE PassInv' /\ TerminatedWhenIdle'
  BY <1>5, FinishIdle DEF Finish, PassInv
<1>6. ASSUME UNCHANGED vars PROVE PassInv' /\ TerminatedWhenIdle'
  <2>1. \A i : Idle(i)' <=> Idle(i)
    BY <1>6, IdleFrame DEF vars, sessionVars
  <2>2. PassInv'
    BY <1>6, <2>1 DEF vars, sessionVars, IdleInv, PassInv
  <2>3. TerminatedWhenIdle'
    BY <1>6, <2>1 DEF vars, sessionVars, IdleInv, TerminatedWhenIdle, Idle
  <2> QED  BY <2>2, <2>3
<1> QED  BY <1>1, <1>2, <1>3, <1>4, <1>5, <1>6 DEF Next, IdleInv

(* Every behaviour of the loop keeps the invariant. *)
LEMMA IdleInvariance == Spec => []IdleInv
<1>1. Init => IdleInv
  BY RunInit DEF IdleInv, TerminatedWhenIdle, Init
<1> QED  BY <1>1, IdleStep, PTL DEF Spec

(* Every session gets a report, and none is terminated that has a message  *)
(* to look at or something to do (run_sessions() of dev/run_sync.rs).      *)
THEOREM TerminatedOnlyWhenIdle == Spec => []TerminatedWhenIdle
<1>1. IdleInv => TerminatedWhenIdle
  BY DEF IdleInv
<1> QED  BY <1>1, IdleInvariance, PTL

-----------------------------------------------------------------------------
(* The session of j has sent the messages of round r. *)
Sent(j, r) == r < round[j] \/ (r = round[j] /\ stage[j] # "send")

(* With all nodes and without rules: sessions only end with their output,  *)
(* what was sent to a session is with it, in its queue or further, and     *)
(* complete messages are counted.                                          *)
AllConnected ==
  /\ \A i \in Nodes : report[i] \in {"none", "Success"}
  /\ \A i \in Nodes \ sessions : stage[i] = "output"
  /\ \A i \in Nodes : stage[i] = "output" => round[i] = Rounds
  /\ \A i \in sessions : \A j \in Nodes \ {i} : \A n \in Names :
       Sent(j, n.round) => [from |-> j, name |-> n] \in queue[i] \cup raw[i] \cup stored[i]
  /\ \A i \in Nodes : Complete(stored[i]) \subseteq counted[i]

(* With a node missing nobody gets past its first message. *)
NoneStarted == left = members /\ \A i \in members : stage[i] = "send"

(* The inductive invariant behind UnblockedSucceed. *)
UnblockedInv ==
  /\ rules = {} /\ result = "none" =>
       IF members = Nodes THEN AllConnected ELSE NoneStarted
  /\ UnblockedSucceed

(* Nothing is there before the first turn. *)
LEMMA NothingComplete == Complete({}) = {}
<1> SUFFICES ASSUME NEW c \in (1..Rounds) \X Nodes,
                    \A n \in Names : n.round = c[1] => FALSE
             PROVE  FALSE
  BY DEF Complete
<1>1. PICK k \in Kinds : TRUE
  BY RunSyncAssumption
<1>2. [round |-> c[1], kind |-> k] \in Names
  BY DEF Names
<1> QED  BY <1>2

(* At first nothing has been sent. *)
LEMMA UnblockedInit == Init => UnblockedInv
<1> SUFFICES ASSUME Init PROVE UnblockedInv
  OBVIOUS
<1>1. members \subseteq Nodes
  BY DEF Init
<1>2. CASE members = Nodes
  <2>1. \A j \in Nodes : \A n \in Names : ~Sent(j, n.round)
    BY RunSyncAssumption DEF Init, Sent, Names
  <2>2. \A i \in Nodes : Complete(stored[i]) \subseteq counted[i]
    BY NothingComplete DEF Init
  <2>3. AllConnected
    BY <1>2, <2>1, <2>2 DEF Init, AllConnected
  <2> QED  BY <1>2, <2>3 DEF UnblockedInv, UnblockedSucceed, Init
<1>3. CASE members # Nodes
  <2>1. NoneStarted
    BY <1>1 DEF Init, NoneStarted
  <2> QED  BY <1>3, <2>1 DEF UnblockedInv, UnblockedSucceed, Init
<1> QED  BY <1>2, <1>3

(* Without rules a message is sent whole, so every node is reached. *)
LEMMA WithoutRules ==
  ASSUME RunTypeOK, rules = {}, NEW i \in Nodes
  PROVE  /\ \A j \in Nodes : FilterMessage(i, j, round[i]) = {n \in Names : n.round = round[i]}
         /\ Unreached(i) = {}
<1>1. \A j \in Nodes : FilterMessage(i, j, round[i]) = {n \in Names : n.round = round[i]}
  BY DEF FilterMessage
<1>2. PICK k \in Kinds : TRUE
  BY RunSyncAssumption
<1>3. [round |-> round[i], kind |-> k] \in {n \in Names : n.round = round[i]}
  BY DEF Names, RunTypeOK
<1> QED  BY <1>1, <1>3 DEF Unreached

(* A session that goes on has sent no more than it had, except for the     *)
(* messages of its round that it sends in this turn.                       *)
LEMMA SentInTurn ==
  ASSUME RunTypeOK, NEW i \in Nodes, stage[i] # "output", GoOn(i, {}),
         NEW j \in Nodes, NEW r \in 1..Rounds, Sent(j, r)'
  PROVE  Sent(j, r) \/ (j = i /\ r = round[i] /\ stage[i] = "send")
<1>1. Rounds \in Nat /\ round[i] \in 1..Rounds /\ round[j] \in 1..Rounds
  BY RunSyncAssumption DEF RunTypeOK
<1>2. CASE j # i
  <2>1. round'[j] = round[j] /\ stage'[j] = stage[j]
    BY <1>2 DEF GoOn, RunTypeOK
  <2> QED  BY <2>1 DEF Sent
<1>3. CASE j = i /\ stage[i] = "send"
  <2>1. round'[i] = round[i]
    BY <1>3 DEF GoOn
  <2> QED  BY <1>3, <2>1 DEF Sent
<1>4. CASE j = i /\ stage[i] = "collect"
  <2>1. \/ round'[i] = round[i]
        \/ round'[i] = round[i] + 1 /\ stage'[i] = "send"
    BY <1>4 DEF GoOn, RunTypeOK
  <2> QED  BY <1>1, <1>4, <2>1 DEF Sent
<1> QED  BY <1>2, <1>3, <1>4 DEF RunTypeOK, Stages

(* Values move from the queue to the raw values and on to the stored ones; *)
(* the session that sends puts its values into all queues.                 *)
LEMMA GoOnConnected ==
  ASSUME RunTypeOK, rules = {}, AllConnected, NEW i \in left, stage[i] # "output",
         queue' = Delivered(i, stage[i] = "send"), GoOn(i, {})
  PROVE  AllConnected'
<1>1. i \in Nodes /\ i \in sessions /\ sessions' = sessions /\ report' = report
      /\ sessions \subseteq Nodes
  BY DEF RunTypeOK, GoOn
<1>2. \A k \in Nodes \ sessions' : stage'[k] = "output"
  BY <1>1 DEF AllConnected, GoOn, RunTypeOK
<1>3. ASSUME NEW k \in Nodes, stage'[k] = "output" PROVE round'[k] = Rounds
  <2>1. Rounds \in Nat /\ round[k] \in 1..Rounds
    BY RunSyncAssumption DEF RunTypeOK
  <2>2. CASE k # i
    BY <1>3, <2>2 DEF AllConnected, GoOn, RunTypeOK
  <2>3. CASE k = i
    BY <1>3, <2>1, <2>3 DEF GoOn, RunTypeOK
  <2> QED  BY <2>2, <2>3
<1>4. ASSUME NEW k \in sessions', NEW j \in Nodes \ {k}, NEW n \in Names, Sent(j, n.round)'
      PROVE  [from |-> j, name |-> n] \in queue'[k] \cup raw'[k] \cup stored'[k]
  <2>1. n.round \in 1..Rounds /\ k \in Nodes
    BY <1>1 DEF Names
  <2>2. Sent(j, n.round) \/ (j = i /\ n.round = round[i] /\ stage[i] = "send")
    BY <1>1, <1>4, <2>1, SentInTurn
  <2>3. CASE k = i
    <3>1. Sent(j, n.round)
      BY <2>2, <2>3
    <3>2. raw'[i] = queue[i] /\ stored'[i] = stored[i] \cup raw[i]
      BY <1>1 DEF GoOn, RunTypeOK
    <3> QED  BY <1>1, <2>3, <3>1, <3>2 DEF AllConnected
  <2>4. CASE k # i
    <3>1. raw'[k] = raw[k] /\ stored'[k] = stored[k] /\ queue[k] \subseteq queue'[k]
      BY <2>1, <2>4 DEF GoOn, RunTypeOK, Delivered
    <3>2. CASE Sent(j, n.round)
      BY <1>1, <3>1, <3>2 DEF AllConnected
    <3>3. CASE j = i /\ n.round = round[i] /\ stage[i] = "send"
      <4>1. n \in FilterMessage(i, k, round[i])
        BY <1>1, <2>1, <3>3, WithoutRules
      <4> QED  BY <2>1, <2>4, <3>3, <4>1 DEF Delivered
    <3> QED  BY <2>2, <3>2, <3>3
  <2> QED  BY <2>3, <2>4
<1>5. ASSUME NEW k \in Nodes PROVE Complete(stored'[k]) \subseteq counted'[k]
  <2>1. CASE k = i
    <3>1. counted'[i] = counted[i] \cup (Complete(stored'[i]) \ Complete(stored[i]))
      BY <1>1 DEF GoOn, RunTypeOK
    <3> QED  BY <2>1, <3>1 DEF AllConnected
  <2>2. CASE k # i
    BY <2>2 DEF AllConnected, GoOn, RunTypeOK
  <2> QED  BY <2>1, <2>2
<1>6. \A k \in Nodes : report'[k] \in {"none", "Success"}
  BY <1>1 DEF AllConnected
<1> QED  BY <1>2, <1>3, <1>4, <1>5, <1>6 DEF AllConnected, Complete

(* A session that ends leaves the others what they have. *)
LEMMA EndConnected ==
  ASSUME RunTypeOK, AllConnected, NEW i \in left, stage[i] = "output",
         queue' = Delivered(i, stage[i] = "send"), End(i, "Success", {})
  PROVE  AllConnected'
<1>1. i \in Nodes /\ sessions' = sessions \ {i} /\ sessions \subseteq Nodes
      /\ UNCHANGED <<raw, stored, counted, round, stage>>
  BY DEF RunTypeOK, End
<1>2. \A k \in sessions' : queue'[k] = queue[k]
  BY <1>1 DEF Delivered
<1>3. \A j, r : Sent(j, r)' <=> Sent(j, r)
  BY <1>1 DEF Sent
<1>4. \A k \in Nodes : report'[k] \in {"none", "Success"}
  BY DEF AllConnected, End, RunTypeOK
<1>5. \A k \in sessions' : \A j \in Nodes \ {k} : \A n \in Names :
        Sent(j, n.round)' => [from |-> j, name |-> n] \in queue'[k] \cup raw'[k] \cup stored'[k]
  BY <1>1, <1>2, <1>3 DEF AllConnected
<1>6. \A k \in Nodes : Complete(stored[k])' \subseteq counted'[k]
  BY <1>1 DEF AllConnected, Complete
<1> QED  BY <1>1, <1>4, <1>5, <1>6 DEF AllConnected

(* A session that is behind all the others has got all messages of its     *)
(* round, so it is not waiting.                                            *)
LEMMA LastIsNotIdle ==
  ASSUME RunTypeOK, AllConnected, NEW i \in sessions,
         \A j \in sessions : Idle(j) /\ round[i] <= round[j]
  PROVE  FALSE
<1>1. /\ i \in Nodes /\ sessions \subseteq Nodes /\ Rounds \in Nat
      /\ queue[i] = {} /\ raw[i] = {} /\ ~RoundDone(i)
      /\ \A j \in Nodes : round[j] \in 1..Rounds
      /\ \A j \in sessions : stage[j] = "collect"
  BY RunSyncAssumption DEF RunTypeOK, Idle, HasTask, HasStep
<1>2. \A j \in Nodes \ {i} : Sent(j, round[i])
  BY <1>1 DEF Sent, AllConnected
<1>3. ASSUME NEW j \in Nodes \ {i} PROVE <<round[i], j>> \in counted[i]
  <2>1. \A n \in Names : n.round = round[i] => [from |-> j, name |-> n] \in stored[i]
    BY <1>1, <1>2 DEF AllConnected
  <2>2. <<round[i], j>> \in Complete(stored[i])
    BY <1>1, <2>1 DEF Complete
  <2> QED  BY <1>1, <2>2 DEF AllConnected
<1>4. IsFiniteSet(Nodes) /\ Cardinality(Nodes) = NodeCount
  BY FS_Interval, RunSyncAssumption DEF Nodes
<1>5. Cardinality(Nodes \ {i}) = NodeCount - 1
  BY <1>1, <1>4, FS_RemoveElement
<1> DEFINE C == {j \in Nodes : <<round[i], j>> \in counted[i]}
<1>6. IsFiniteSet(C) /\ Nodes \ {i} \in SUBSET C
  BY <1>3, <1>4, FS_Subset
<1>7. Cardinality(Nodes \ {i}) <= Cardinality(C) /\ Cardinality(C) \in Nat
  BY <1>6, FS_Subset, FS_CardinalityType
<1>8. Cardinality(C) >= Quorum
  <2> HIDE DEF C
  <2> QED  BY <1>5, <1>7, RunSyncAssumption
<1> QED  BY <1>1, <1>8 DEF RoundDone

(* So as long as sessions go on, not all of them are idle. *)
LEMMA SomeoneIsBusy ==
  ASSUME RunTypeOK, AllConnected, sessions # {}
  PROVE  \E i \in sessions : ~Idle(i)
<1> SUFFICES ASSUME \A i \in sessions : Idle(i) PROVE FALSE
  OBVIOUS
<1> DEFINE T == {round[i] : i \in sessions}
<1>1. T \subseteq Nat /\ T # {}
  BY RunSyncAssumption DEF RunTypeOK
<1> DEFINE Less == {p \in Nat \X Nat : p[1] < p[2]}
<1>2. IsWellFoundedOn(Less, Nat)
  BY NatLessThanWellFounded DEF OpToRel
<1>3. PICK x \in T : \A y \in T : ~(<<y, x>> \in Less)
  <2> HIDE DEF Less, T
  <2> QED  BY <1>1, <1>2, WFMin
<1>4. ASSUME NEW y \in T PROVE x <= y
  <2>1. x \in Nat /\ y \in Nat /\ ~(<<y, x>> \in Less)
    BY <1>1, <1>3
  <2> HIDE DEF T
  <2> QED  BY <2>1
<1>5. PICK i \in sessions : round[i] = x
  BY <1>3
<1> QED  BY <1>4, <1>5, LastIsNotIdle

-----------------------------------------------------------------------------
(* Every step keeps the invariant. *)
LEMMA UnblockedStep ==
  ASSUME IdleInv, UnblockedInv, [Next]_vars
  PROVE  UnblockedInv'
<1>1. ASSUME result = "none", NEW i \in left, Turn(i) PROVE UnblockedInv'
  <2>1. CASE rules = {} /\ members = Nodes
    <3>1. i \in Nodes /\ RunTypeOK /\ AllConnected
      BY <1>1, <2>1 DEF IdleInv, UnblockedInv, RunTypeOK
    <3>2. Unreached(i) = {}
      BY <2>1, <3>1, WithoutRules
    <3>3. \/ stage[i] = "output" /\ End(i, "Success", {})
          \/ stage[i] # "output" /\ GoOn(i, {})
      BY <1>1, <3>2, TurnCases DEF Unfinishable
    <3>4. AllConnected'
      BY <1>1, <2>1, <3>1, <3>3, TurnCases, GoOnConnected, EndConnected
    <3> QED  BY <1>1, <2>1, <3>4, TurnCases DEF UnblockedInv, UnblockedSucceed
  <2>2. CASE rules = {} /\ members # Nodes
    BY <1>1, <2>2 DEF UnblockedInv, NoneStarted, Turn
  <2>3. CASE rules # {}
    BY <1>1, <2>3, TurnCases DEF UnblockedInv, UnblockedSucceed
  <2> QED  BY <2>1, <2>2, <2>3
<1>2. ASSUME NEW i \in left, Abort(i) PROVE UnblockedInv'
  BY <1>2 DEF Abort, UnblockedInv, UnblockedSucceed
<1>3. ASSUME result = "none", NextPass PROVE UnblockedInv'
  <2>1. CASE rules = {} /\ members = Nodes
    <3>1. AllConnected
      BY <1>3, <2>1 DEF UnblockedInv
    <3>2. AllConnected'
      BY <1>3, <3>1 DEF AllConnected, Sent, Complete, NextPass, sessionVars
    <3> QED  BY <1>3, <2>1, <3>2 DEF UnblockedInv, UnblockedSucceed, NextPass
  <2>2. CASE rules = {} /\ members # Nodes
    BY <1>3, <2>2 DEF UnblockedInv, NoneStarted, NextPass, IdleInv, RunTypeOK
  <2>3. CASE rules # {}
    BY <1>3, <2>3 DEF UnblockedInv, UnblockedSucceed, NextPass
  <2> QED  BY <2>1, <2>2, <2>3
<1>4. ASSUME result = "none", Finish PROVE UnblockedInv'
  <2>1. CASE rules = {} /\ members = Nodes
    <3>1. RunTypeOK /\ AllConnected
      BY <1>4, <2>1 DEF UnblockedInv, IdleInv
    <3>2. sessions = {}
      BY <1>4, <3>1, SomeoneIsBusy DEF IdleInv, PassInv, Finish
    <3>3. \A i \in Nodes : report'[i] = "Success"
      BY <1>4, <2>1, <3>1, <3>2 DEF AllConnected, IdleInv, PassInv, Finish
    <3> QED  BY <1>4, <2>1, <3>3 DEF UnblockedInv, UnblockedSucceed, Finish
  <2>2. CASE rules = {} /\ members # Nodes
    BY <1>4, <2>2 DEF UnblockedInv, UnblockedSucceed, NoneStarted, Finish
  <2>3. CASE rules # {}
    BY <1>4, <2>3 DEF UnblockedInv, UnblockedSucceed, Finish
  <2> QED  BY <2>1, <2>2, <2>3
<1>5. ASSUME UNCHANGED vars PROVE UnblockedInv'
  BY <1>5 DEF vars, sessionVars, UnblockedInv, UnblockedSucceed, AllConnected, NoneStarted,
              Sent, Complete
<1> QED  BY <1>1, <1>2, <1>3, <1>4, <1>5 DEF Next

(* Without rules every session whose run ends well has its output          *)
(* (run_sessions() of dev/run_sync.rs): the loop never takes a session for *)
(* stalled whose messages are on their way.                                *)
THEOREM UnblockedSessionsSucceed == Spec => []UnblockedSucceed
<1>1. IdleInv /\ UnblockedInv /\ [Next]_vars => UnblockedInv'
  BY UnblockedStep
<1>2. UnblockedInv => UnblockedSucceed
  BY DEF UnblockedInv
<1> QED  BY UnblockedInit, IdleInvariance, <1>1, <1>2, PTL DEF Spec
=============================================================================
