--------------------------- MODULE DevTokioProofs ---------------------------
(***************************************************************************)
(* What an Ok of run_sessions_async() means, that no message is lost or    *)
(* made up before the dispatcher fails, and in which ways all tasks can    *)
(* come to wait for each other; for any number of sessions and any traffic *)
(* through channels of any capacity.                                       *)
(***************************************************************************)
EXTENDS DevTokio, FiniteSetTheorems, WellFoundedInduction, TLAPS

(* The types of the variables that the result depends on. *)
TasksTypeOK ==
  /\ run \in Runs
  /\ node \in [Nodes -> {"running", "ok", "err"}]
  /\ forwarder \in [Nodes -> {"running", "ok", "err"}]
  /\ DOMAIN outbox = Nodes
  /\ DOMAIN held = Nodes
  /\ dispatcher \in {"recv", "fetch", "send", "ok", "err"}
  /\ joined \in 0..(2 * NodeCount + 1)

(* A forwarding task that has ended well has left nothing behind. *)
ForwardersDone ==
  \A i \in Nodes : forwarder[i] = "ok" =>
    node[i] \in Stopped /\ outbox[i] = <<>> /\ held[i] = NoItem

(* A dispatcher that waits for an item has delivered all others, and it    *)
(* ends well only after all forwarding tasks.                              *)
DispatcherDone ==
  /\ dispatcher \in {"recv", "ok"} =>
       delivering = NoLetter /\ \A l \in Letters : pending[l] = 0
  /\ dispatcher = "ok" =>
       queue = <<>> /\ \A i \in Nodes : forwarder[i] \in Stopped

(* Until there is an error the joined tasks have ended well; after the     *)
(* last of them the result is Ok.                                          *)
JoinedOk ==
  /\ result \in {"none", "ok"} => \A k \in 1..joined : Handle(k) = "ok"
  /\ result = "none" => joined <= 2 * NodeCount
  /\ result = "ok" => joined = 2 * NodeCount + 1

(* The inductive invariant behind OkDelivered. *)
OkInv == TasksTypeOK /\ ForwardersDone /\ DispatcherDone /\ JoinedOk

(* A run has sessions. *)
LEMMA RunTypes == run \in Runs => NodeCount \in Nat \ {0}
BY DevTokioAssumption DEF RunParameters, NodeCount

(* At first all tasks are running. *)
LEMMA OkInit == Init => OkInv
<1> SUFFICES ASSUME Init PROVE OkInv
  OBVIOUS
<1>1. NodeCount \in Nat \ {0}
  BY RunTypes DEF Init
<1>2. TasksTypeOK
  BY <1>1 DEF Init, TasksTypeOK
<1>3. ForwardersDone /\ DispatcherDone
  BY DEF Init, ForwardersDone, DispatcherDone
<1>4. JoinedOk
  BY <1>1 DEF Init, JoinedOk
<1> QED  BY <1>2, <1>3, <1>4 DEF OkInv

-----------------------------------------------------------------------------
(* A task that has stopped does not change its outcome. *)
OutcomesKept ==
  /\ \A i \in Nodes : node[i] \in Stopped => node'[i] = node[i]
  /\ \A i \in Nodes : forwarder[i] \in Stopped => forwarder'[i] = forwarder[i]
  /\ dispatcher \in Stopped => dispatcher' = dispatcher

(* So what has been joined stays joined with the same outcome. *)
LEMMA JoinedKept ==
  ASSUME OkInv, OutcomesKept, UNCHANGED <<run, joined, result>>
  PROVE  JoinedOk'
<1>1. NodeCount' = NodeCount /\ Nodes' = Nodes /\ NodeCount \in Nat
  BY RunTypes DEF OkInv, TasksTypeOK, NodeCount, Nodes
<1>2. ASSUME NEW k \in 1..joined, Handle(k) = "ok" PROVE Handle(k)' = "ok"
  <2>1. k \in 1..(2 * NodeCount + 1)
    BY <1>1 DEF OkInv, TasksTypeOK
  <2>2. CASE k <= NodeCount
    BY <1>1, <1>2, <2>1, <2>2 DEF Handle, OutcomesKept, Stopped, Nodes
  <2>3. CASE k > NodeCount /\ k <= 2 * NodeCount
    <3>1. k - NodeCount \in Nodes
      BY <1>1, <2>1, <2>3 DEF Nodes
    <3> QED  BY <1>1, <1>2, <2>1, <2>3, <3>1 DEF Handle, OutcomesKept, Stopped
  <2>4. CASE k > 2 * NodeCount
    BY <1>1, <1>2, <2>1, <2>4 DEF Handle, OutcomesKept, Stopped
  <2> QED  BY <1>1, <2>1, <2>2, <2>3, <2>4
<1> QED  BY <1>1, <1>2 DEF OkInv, JoinedOk

(* The steps of a session leave the dispatcher alone, and fill only the    *)
(* channel of a forwarding task that is running.                           *)
LEMMA SessionOk ==
  ASSUME OkInv, NEW i \in Nodes, SessionStep(i)
  PROVE  OkInv'
<1> USE DEF OkInv
<1>1. /\ UNCHANGED <<run, forwarder, held, queue, dispatcherVars, callerVars>>
      /\ node' \in [Nodes -> {"running", "ok", "err"}]
      /\ \A j \in Nodes : node[j] \in Stopped => node'[j] = node[j]
  BY DEF SessionStep, Push, PushError, Advance, Recv, RecvError, Waiting,
         TasksTypeOK, Stopped, sessionVars
<1>2. /\ DOMAIN outbox' = Nodes
      /\ \A j \in Nodes : forwarder[j] = "ok" => outbox'[j] = outbox[j]
  BY DEF SessionStep, Push, PushError, Advance, Recv, RecvError, TasksTypeOK
<1>3. Nodes' = Nodes /\ NodeCount' = NodeCount /\ Letters' = Letters
  BY <1>1 DEF Nodes, NodeCount, Letters
<1>4. TasksTypeOK'
  BY <1>1, <1>2, <1>3 DEF TasksTypeOK, dispatcherVars, callerVars
<1>5. ForwardersDone'
  BY <1>1, <1>2, <1>3 DEF ForwardersDone, NoItem, ErrorReport
<1>6. DispatcherDone'
  BY <1>1, <1>3 DEF DispatcherDone, dispatcherVars, NoLetter
<1>7. JoinedOk'
  BY <1>1, JoinedKept DEF OutcomesKept, dispatcherVars, callerVars
<1> QED  BY <1>4, <1>5, <1>6, <1>7

(* The steps of a forwarding task: it stops with an empty channel, and     *)
(* sends nothing to a dispatcher that has ended.                           *)
LEMMA ForwarderOk ==
  ASSUME OkInv, NEW i \in Nodes, ForwarderStep(i)
  PROVE  OkInv'
<1> USE DEF OkInv
<1>1. /\ UNCHANGED <<sessionVars, inbox, dispatcherVars, callerVars>>
      /\ forwarder' \in [Nodes -> {"running", "ok", "err"}]
      /\ \A j \in Nodes : forwarder[j] \in Stopped => forwarder'[j] = forwarder[j]
      /\ DOMAIN outbox' = Nodes /\ DOMAIN held' = Nodes
      /\ dispatcher \in Stopped => UNCHANGED queue
  BY DEF ForwarderStep, Take, Forward, ForwardError, ForwardEnd, TasksTypeOK, Stopped
<1>2. \A j \in Nodes : forwarder'[j] = "ok" =>
        /\ outbox'[j] = outbox[j] /\ held'[j] = held[j]
        /\ \/ forwarder[j] = "ok"
           \/ node[j] \in Stopped /\ outbox[j] = <<>> /\ held[j] = NoItem
  BY DEF ForwarderStep, Take, Forward, ForwardError, ForwardEnd, TasksTypeOK
<1>3. Nodes' = Nodes /\ NodeCount' = NodeCount /\ Letters' = Letters
  BY <1>1 DEF Nodes, NodeCount, Letters, sessionVars
<1>4. TasksTypeOK'
  BY <1>1, <1>3 DEF TasksTypeOK, sessionVars, dispatcherVars, callerVars
<1>5. ForwardersDone'
  BY <1>1, <1>2, <1>3 DEF ForwardersDone, NoItem, ErrorReport, sessionVars
<1>6. DispatcherDone'
  BY <1>1, <1>3 DEF DispatcherDone, dispatcherVars, NoLetter, Stopped
<1>7. JoinedOk'
  BY <1>1, JoinedKept DEF OutcomesKept, sessionVars, dispatcherVars, callerVars
<1> QED  BY <1>4, <1>5, <1>6, <1>7

(* The steps of the dispatcher. *)
LEMMA DispatcherOk ==
  ASSUME OkInv, DispatcherStep
  PROVE  OkInv'
<1> USE DEF OkInv
<1>1. /\ UNCHANGED <<sessionVars, outbox, forwarder, held, callerVars>>
      /\ dispatcher \notin Stopped
      /\ dispatcher' \in {"recv", "fetch", "send", "ok", "err"}
  BY DEF DispatcherStep, Fetch, DispatcherEnd, FetchEnd, Pick, Deliver, SendEnd,
         TasksTypeOK, Stopped
<1>2. Nodes' = Nodes /\ NodeCount' = NodeCount /\ Letters' = Letters
  BY <1>1 DEF Nodes, NodeCount, Letters, sessionVars
<1>3. TasksTypeOK'
  BY <1>1, <1>2 DEF TasksTypeOK, sessionVars, callerVars
<1>4. ForwardersDone'
  BY <1>1, <1>2 DEF ForwardersDone, NoItem, ErrorReport, sessionVars
<1>5. DispatcherDone'
  <2>1. CASE DispatcherEnd
    BY <1>1, <1>2, <2>1 DEF DispatcherEnd, DispatcherDone, NoLetter
  <2>2. CASE SendEnd
    BY <1>2, <2>2 DEF SendEnd, DispatcherDone, NoLetter
  <2>3. CASE Fetch \/ FetchEnd \/ (\E l \in Letters : Pick(l)) \/ Deliver
    <3>1. dispatcher' \notin {"recv", "ok"}
      BY <2>3 DEF Fetch, FetchEnd, Pick, Deliver
    <3> QED  BY <3>1 DEF DispatcherDone
  <2> QED  BY <2>1, <2>2, <2>3 DEF DispatcherStep
<1>6. JoinedOk'
  BY <1>1, JoinedKept DEF OutcomesKept, sessionVars, callerVars
<1> QED  BY <1>3, <1>4, <1>5, <1>6

(* The caller joins the next task. *)
LEMMA JoinOk == OkInv /\ Join => OkInv'
<1> SUFFICES ASSUME OkInv, Join PROVE OkInv'
  OBVIOUS
<1> USE DEF OkInv
<1>1. /\ NodeCount' = NodeCount /\ Nodes' = Nodes /\ Letters' = Letters
      /\ NodeCount \in Nat
  BY RunTypes DEF Join, TasksTypeOK, NodeCount, Nodes, Letters, sessionVars
<1>2. \A k : Handle(k)' = Handle(k)
  BY <1>1 DEF Join, Handle, sessionVars, dispatcherVars
<1>3. /\ joined \in 0..(2 * NodeCount) /\ joined' = joined + 1
      /\ \A k \in 1..joined : Handle(k) = "ok"
      /\ Handle(joined + 1) \in Stopped
      /\ result' = IF Handle(joined + 1) = "err" THEN "err"
                   ELSE IF joined = 2 * NodeCount THEN "ok" ELSE "none"
  BY <1>1 DEF Join, JoinedOk, TasksTypeOK
<1>4. TasksTypeOK'
  BY <1>1, <1>3 DEF Join, TasksTypeOK, sessionVars, dispatcherVars
<1>5. ForwardersDone' /\ DispatcherDone'
  BY <1>1 DEF Join, ForwardersDone, DispatcherDone, NoItem, NoLetter, ErrorReport,
              sessionVars, dispatcherVars
<1>6. JoinedOk'
  <2>1. result' # "err" => \A k \in 1..joined' : Handle(k) = "ok"
    BY <1>1, <1>3 DEF Stopped
  <2> QED  BY <1>1, <1>2, <1>3, <2>1 DEF JoinedOk
<1> QED  BY <1>4, <1>5, <1>6

(* The invariant says what OkDelivered does of a run that is Ok. *)
LEMMA OkSuffices == OkInv => OkDelivered
<1> SUFFICES ASSUME OkInv, result = "ok" PROVE OkDelivered
  BY DEF OkDelivered
<1> USE DEF OkInv
<1>1. NodeCount \in Nat \ {0}
  BY RunTypes DEF TasksTypeOK
<1>2. \A k \in 1..(2 * NodeCount + 1) : Handle(k) = "ok"
  BY DEF JoinedOk
<1>3. dispatcher = "ok"
  <2>1. Handle(2 * NodeCount + 1) = "ok"
    BY <1>1, <1>2
  <2> QED  BY <1>1, <2>1 DEF Handle
<1>4. ASSUME NEW i \in Nodes PROVE node[i] = "ok" /\ forwarder[i] = "ok"
  <2>1. i \in 1..NodeCount
    BY DEF Nodes
  <2>2. Handle(i) = "ok" /\ Handle(NodeCount + i) = "ok"
    BY <1>1, <1>2, <2>1
  <2>3. NodeCount + i > NodeCount /\ NodeCount + i <= 2 * NodeCount
          /\ (NodeCount + i) - NodeCount = i
    BY <1>1, <2>1
  <2> QED  BY <1>1, <2>1, <2>2, <2>3 DEF Handle
<1> QED  BY <1>3, <1>4 DEF OkDelivered, ForwardersDone, DispatcherDone

(* The invariant holds in all runs. *)
LEMMA OkInvariance == Spec => []OkInv
<1>1. OkInv /\ [Next]_vars => OkInv'
  <2> SUFFICES ASSUME OkInv, [Next]_vars PROVE OkInv'
    OBVIOUS
  <2>1. CASE UNCHANGED vars
    BY <2>1 DEF vars, sessionVars, dispatcherVars, callerVars, OkInv, TasksTypeOK,
                ForwardersDone, DispatcherDone, JoinedOk, Handle, NodeCount, Nodes,
                Letters, NoItem, NoLetter, ErrorReport
  <2> QED
    BY <2>1, SessionOk, ForwarderOk, DispatcherOk, JoinOk DEF Next
<1> QED  BY <1>1, OkInit, PTL DEF Spec

(* run_sessions_async() returns Ok only when every task has ended well and *)
(* every message that was sent has been delivered: none is left in a       *)
(* channel, with a forwarding task or with the dispatcher.                 *)
THEOREM OkMeansDelivered == Spec => []OkDelivered
BY OkInvariance, OkSuffices, PTL

-----------------------------------------------------------------------------
(* Counting in sequences: how many members of s are in X. *)
Hits(s, X) == {k \in 1..Len(s) : s[k] \in X}

Count(s, X) == Cardinality(Hits(s, X))

One(x, X) == IF x \in X THEN 1 ELSE 0

(* A count is a number. *)
LEMMA CountType ==
  ASSUME NEW T, NEW s \in Seq(T), NEW X
  PROVE  IsFiniteSet(Hits(s, X)) /\ Count(s, X) \in Nat
<1>1. Len(s) \in Nat
  OBVIOUS
<1>2. IsFiniteSet(1..Len(s))
  BY <1>1, FS_Interval
<1>3. Hits(s, X) \in SUBSET (1..Len(s))
  BY DEF Hits
<1>4. IsFiniteSet(Hits(s, X))
  BY <1>2, <1>3, FS_Subset
<1> QED  BY <1>4, FS_CardinalityType DEF Count

(* An empty channel holds nothing. *)
LEMMA CountEmpty ==
  ASSUME NEW X
  PROVE  Count(<<>>, X) = 0
<1>1. Hits(<<>>, X) = {}
  BY DEF Hits
<1> QED  BY <1>1, FS_EmptySet DEF Count

(* What is sent into a channel is counted once more. *)
LEMMA CountAppend ==
  ASSUME NEW T, NEW s \in Seq(T), NEW x \in T, NEW X
  PROVE  Count(Append(s, x), X) = Count(s, X) + One(x, X)
<1> DEFINE c == Len(s) + 1
           u == Append(s, x)
<1>1. /\ Len(s) \in Nat /\ u \in Seq(T) /\ Len(u) = c
      /\ \A k \in 1..Len(s) : u[k] = s[k]
      /\ u[c] = x
  OBVIOUS
<1>2. IsFiniteSet(Hits(s, X)) /\ Count(s, X) \in Nat
  BY CountType
<1> HIDE DEF u
<1>3. CASE x \in X
  <2>1. Hits(u, X) = Hits(s, X) \cup {c} /\ c \notin Hits(s, X)
    BY <1>1, <1>3 DEF Hits
  <2>2. Cardinality(Hits(u, X)) = Cardinality(Hits(s, X)) + 1
    BY <1>2, <2>1, FS_AddElement
  <2> QED  BY <1>3, <2>2 DEF Count, One, u
<1>4. CASE x \notin X
  <2>1. Hits(u, X) = Hits(s, X)
    BY <1>1, <1>4 DEF Hits
  <2> QED  BY <1>2, <1>4, <2>1 DEF Count, One, u
<1> QED  BY <1>3, <1>4

(* What is taken from a channel is counted once less. *)
LEMMA CountTail ==
  ASSUME NEW T, NEW s \in Seq(T), s # <<>>, NEW X
  PROVE  Count(s, X) = Count(Tail(s), X) + One(Head(s), X)
<1> DEFINE u == Tail(s)
           g == [k \in Hits(u, X) |-> k + 1]
<1>1. /\ Len(s) \in Nat \ {0} /\ u \in Seq(T) /\ Len(u) = Len(s) - 1
      /\ \A k \in 1..Len(u) : u[k] = s[k + 1]
      /\ Head(s) = s[1]
  OBVIOUS
<1>2. /\ IsFiniteSet(Hits(u, X)) /\ Count(u, X) \in Nat
      /\ IsFiniteSet(Hits(s, X)) /\ Count(s, X) \in Nat
  <2> HIDE DEF u
  <2> QED  BY <1>1, CountType
<1> HIDE DEF u
<1>3. g \in Bijection(Hits(u, X), Hits(s, X) \ {1})
  <2>1. ASSUME NEW k \in Hits(u, X) PROVE k + 1 \in Hits(s, X) \ {1} /\ k \in Nat
    BY <1>1, <2>1 DEF Hits
  <2>2. ASSUME NEW k \in Hits(s, X) \ {1} PROVE k - 1 \in Hits(u, X) /\ (k - 1) + 1 = k
    <3>1. k - 1 \in 1..Len(u) /\ (k - 1) + 1 = k /\ s[k] \in X
      BY <1>1, <2>2 DEF Hits
    <3> QED  BY <1>1, <3>1 DEF Hits
  <2>3. g \in [Hits(u, X) -> Hits(s, X) \ {1}]
    BY <2>1
  <2>4. ASSUME NEW a \in Hits(u, X), NEW b \in Hits(u, X), g[a] = g[b] PROVE a = b
    <3>1. a \in Nat /\ b \in Nat /\ a + 1 = b + 1
      BY <2>1, <2>4
    <3> QED  BY <3>1
  <2>5. ASSUME NEW k \in Hits(s, X) \ {1} PROVE \E a \in Hits(u, X) : g[a] = k
    BY <2>2
  <2> HIDE DEF g
  <2> QED  BY <2>3, <2>4, <2>5 DEF Bijection, Injection, Surjection, IsInjective
<1>4. Cardinality(Hits(s, X) \ {1}) = Count(u, X)
  <2> HIDE DEF g
  <2>1. ExistsBijection(Hits(u, X), Hits(s, X) \ {1})
    BY <1>3 DEF ExistsBijection
  <2> QED  BY <1>2, <2>1, FS_Bijection DEF Count
<1>5. CASE s[1] \in X
  <2>1. 1 \in Hits(s, X)
    BY <1>1, <1>5 DEF Hits
  <2>2. Cardinality(Hits(s, X) \ {1}) = Cardinality(Hits(s, X)) - 1
    BY <1>2, <2>1, FS_RemoveElement
  <2>3. Count(u, X) = Count(s, X) - 1
    BY <1>4, <2>2 DEF Count
  <2>4. One(Head(s), X) = 1
    BY <1>1, <1>5 DEF One
  <2>5. Count(s, X) = Count(u, X) + One(Head(s), X)
    BY <1>2, <2>3, <2>4
  <2> QED  BY <2>5 DEF u
<1>6. CASE s[1] \notin X
  <2>1. Hits(s, X) \ {1} = Hits(s, X)
    BY <1>6 DEF Hits
  <2>2. Count(u, X) = Count(s, X)
    BY <1>4, <2>1 DEF Count
  <2>3. One(Head(s), X) = 0
    BY <1>1, <1>6 DEF One
  <2>4. Count(s, X) = Count(u, X) + One(Head(s), X)
    BY <1>2, <2>2, <2>3
  <2> QED  BY <2>4 DEF u
<1> QED  BY <1>5, <1>6

(* Integer division. *)
LEMMA Quotient ==
  ASSUME NEW x \in Nat, NEW D \in Nat \ {0}
  PROVE  x \div D \in Nat /\ \A e \in Nat : x \div D = e <=> e * D <= x /\ x < e * D + D
<1>1. PICK q : q = x \div D
  OBVIOUS
<1>2. q \in Nat /\ q * D <= x /\ x < (q + 1) * D
  BY <1>1
<1>3. (q + 1) * D = q * D + D /\ q * D \in Nat
  BY <1>2
<1>4. ASSUME NEW e \in Nat, e * D <= x, x < e * D + D PROVE q = e
  <2>1. ASSUME NEW a \in Nat, NEW b \in Nat, a < b PROVE a * D + D <= b * D
    <3>1. PICK c \in Nat : b = a + 1 + c
      <4>1. b - a - 1 \in Nat /\ b = a + 1 + (b - a - 1)
        BY <2>1
      <4> QED  BY <4>1
    <3>2. b * D = a * D + D + c * D /\ c * D \in Nat /\ a * D \in Nat
      BY <3>1
    <3> QED  BY <3>2
  <2>2. e * D \in Nat
    OBVIOUS
  <2>3. ~(q < e) /\ ~(e < q)
    BY <1>2, <1>3, <1>4, <2>1, <2>2
  <2> QED  BY <1>2, <2>3
<1> QED  BY <1>1, <1>2, <1>3, <1>4

-----------------------------------------------------------------------------
(* What is between a session and the dispatcher. *)
Items == [from : Nodes, to : SUBSET Nodes, round : 0..run.rounds]

(* The items that the dispatcher converts to letter l, among others. *)
Carriers(l) ==
  {m \in Items : m.from = l.from /\ m.round = l.round /\ l.to \in m.to}

(* The parameters of a run. *)
LEMMA RunFacts ==
  ASSUME run \in Runs
  PROVE  /\ NodeCount \in Nat \ {0} /\ run.nodes = NodeCount /\ run.rounds \in Nat \ {0}
         /\ run.batch \in Nat \ {0} /\ run.quorum \in Nat /\ run.quorum <= NodeCount - 1
         /\ run.broadcasts \in BOOLEAN
<1>1. run \in RunParameters /\ run.quorum < run.nodes
  BY DevTokioAssumption
<1> QED  BY <1>1 DEF RunParameters, NodeCount

(* Peer() counts the other nodes. *)
LEMMA Peers ==
  ASSUME NEW c \in Nat \ {0}, NEW i \in 1..c, NEW x \in 1..(c - 1)
  PROVE  /\ Peer(i, x) \in (1..c) \ {i}
         /\ \A j \in (1..c) \ {i} : Peer(i, x) = j <=> x = IF j < i THEN j ELSE j - 1
BY DEF Peer

(* In every round a session sends a batch to every other one. *)
LEMMA MessagesOutCount ==
  ASSUME run \in Runs, NEW i \in Nodes, NEW r \in 1..run.rounds
  PROVE  /\ MessagesOut(i, r) \in Seq(Items)
         /\ \A k \in 1..Len(MessagesOut(i, r)) : MessagesOut(i, r)[k].from = i
         /\ \A l \in Letters : l.from # l.to =>
              Count(MessagesOut(i, r), Carriers(l))
                = IF l.from = i /\ l.round = r THEN run.batch ELSE 0
<1>0. PICK c \in Nat \ {0}, b \in Nat \ {0} : c = NodeCount /\ b = run.batch
  BY RunFacts
<1>1. PICK s : c = NodeCount /\ b = run.batch /\ s = MessagesOut(i, r)
  BY <1>0
<1>2. Nodes = 1..c /\ run.rounds \in Nat
  BY <1>1, RunFacts DEF Nodes
<1>3. CASE run.broadcasts
  <2> DEFINE item == [from |-> i, to |-> Nodes \ {i}, round |-> r]
  <2>1. s = [k \in 1..b |-> item]
    BY <1>1, <1>3 DEF MessagesOut
  <2>2. item \in Items
    BY <1>2 DEF Items
  <2> HIDE DEF item
  <2>3. s \in Seq(Items) /\ Len(s) = b
    <3>1. s \in [1..b -> Items]
      BY <2>1, <2>2
    <3> QED  BY <3>1
  <2>4. \A k \in 1..Len(s) : s[k] = item
    BY <2>1, <2>3
  <2>5. ASSUME NEW l \in Letters, l.from # l.to
        PROVE  Count(s, Carriers(l)) = IF l.from = i /\ l.round = r THEN b ELSE 0
    <3>1. item \in Carriers(l) <=> l.from = i /\ l.round = r
      <4>1. l.to \in Nodes
        BY DEF Letters
      <4> QED  BY <2>2, <2>5, <4>1 DEF Carriers, item
    <3>2. CASE l.from = i /\ l.round = r
      <4>1. Hits(s, Carriers(l)) = 1..b
        BY <2>3, <2>4, <3>1, <3>2 DEF Hits
      <4>2. Cardinality(1..b) = IF 1 > b THEN 0 ELSE b - 1 + 1
        BY FS_Interval
      <4>3. Cardinality(1..b) = b
        BY <4>2
      <4> QED  BY <3>2, <4>1, <4>3 DEF Count
    <3>3. CASE ~(l.from = i /\ l.round = r)
      <4>1. Hits(s, Carriers(l)) = {}
        BY <2>3, <2>4, <3>1, <3>3 DEF Hits
      <4> QED  BY <3>3, <4>1, FS_EmptySet DEF Count
    <3> QED  BY <3>2, <3>3
  <2>6. \A k \in 1..Len(s) : s[k].from = i
    BY <2>4 DEF item
  <2> QED  BY <1>1, <2>3, <2>5, <2>6
<1>4. CASE ~run.broadcasts
  <2> DEFINE X(k) == ((k - 1) \div b) + 1
             item(k) == [from |-> i, to |-> {Peer(i, X(k))}, round |-> r]
             size == b * (c - 1)
  <2>1. s = [k \in 1..size |-> item(k)] /\ size \in Nat
    BY <1>1, <1>4 DEF MessagesOut
  <2>2. ASSUME NEW k \in 1..size
        PROVE  /\ X(k) \in 1..(c - 1)
               /\ \A x \in 1..(c - 1) : X(k) = x <=> k \in ((x - 1) * b + 1)..(x * b)
    <3>1. PICK y \in Nat : y = k - 1
      BY <2>1
    <3>2. PICK q \in Nat : q = y \div b /\ \A e \in Nat : q = e <=> e * b <= y /\ y < e * b + b
      BY <3>1, Quotient
    <3>3. X(k) = q + 1
      BY <3>1, <3>2
    <3> HIDE DEF X
    <3>4. \A e \in Nat : q = e <=> e * b <= y /\ y < e * b + b
      BY <3>2
    <3>5. q < c - 1
      <4>1. SUFFICES ASSUME c - 1 <= q PROVE FALSE
        OBVIOUS
      <4>2. PICK d \in Nat : q = (c - 1) + d
        <5>1. q - (c - 1) \in Nat /\ q = (c - 1) + (q - (c - 1))
          BY <4>1
        <5> QED  BY <5>1
      <4>3. q * b = b * (c - 1) + d * b /\ d * b \in Nat
        BY <4>2
      <4>4. q * b <= y /\ y < size
        BY <3>1, <3>4
      <4> QED  BY <2>1, <4>3, <4>4
    <3>6. ASSUME NEW x \in 1..(c - 1)
          PROVE  X(k) = x <=> k \in ((x - 1) * b + 1)..(x * b)
      <4>1. PICK e \in Nat : e = x - 1
        OBVIOUS
      <4>2. x * b = e * b + b /\ e * b \in Nat
        BY <4>1
      <4>3. X(k) = x <=> q = e
        BY <3>3, <4>1
      <4>4. q = e <=> e * b <= y /\ y < e * b + b
        BY <3>4
      <4>5. k \in (e * b + 1)..(e * b + b) <=> e * b <= y /\ y < e * b + b
        BY <3>1, <4>2
      <4> QED  BY <4>1, <4>2, <4>3, <4>4, <4>5
    <3> QED  BY <3>3, <3>5, <3>6
  <2> HIDE DEF X, size
  <2>3. ASSUME NEW k \in 1..size
        PROVE  /\ item(k) \in Items
               /\ \A j \in Nodes \ {i} : j \in item(k).to <=> X(k) = IF j < i THEN j ELSE j - 1
    <3>1. X(k) \in 1..(c - 1)
      BY <2>2
    <3>2. /\ Peer(i, X(k)) \in (1..c) \ {i}
          /\ \A j \in (1..c) \ {i} : Peer(i, X(k)) = j <=> X(k) = IF j < i THEN j ELSE j - 1
      <4>1. i \in 1..c
        BY <1>2
      <4>2. \A x \in 1..(c - 1) :
              /\ Peer(i, x) \in (1..c) \ {i}
              /\ \A j \in (1..c) \ {i} : Peer(i, x) = j <=> x = IF j < i THEN j ELSE j - 1
        BY <4>1, Peers
      <4> HIDE DEF item
      <4> QED  BY <3>1, <4>2
    <3>3. item(k) \in Items
      BY <1>2, <3>2 DEF Items
    <3>4. \A j : j \in item(k).to <=> Peer(i, X(k)) = j
      OBVIOUS
    <3> QED  BY <1>2, <3>2, <3>3, <3>4
  <2>4. \A k \in 1..size : item(k).from = i /\ item(k).round = r
    OBVIOUS
  <2> HIDE DEF item
  <2>5. s \in Seq(Items) /\ Len(s) = size /\ \A k \in 1..size : s[k] = item(k)
    <3>1. s \in [1..size -> Items]
      BY <2>1, <2>3
    <3> QED  BY <2>1, <3>1
  <2>6. ASSUME NEW l \in Letters, l.from # l.to
        PROVE  Count(s, Carriers(l)) = IF l.from = i /\ l.round = r THEN b ELSE 0
    <3>1. ASSUME NEW k \in 1..size
          PROVE  s[k] \in Carriers(l) <=> l.from = i /\ l.round = r /\ l.to \in item(k).to
      BY <2>3, <2>4, <2>5 DEF Carriers
    <3>2. CASE l.from = i /\ l.round = r
      <4> DEFINE x == IF l.to < i THEN l.to ELSE l.to - 1
      <4>1. l.to \in Nodes \ {i} /\ i \in 1..c /\ l.to \in 1..c
        BY <1>2, <2>6, <3>2 DEF Letters
      <4>2. x \in 1..(c - 1)
        BY <4>1
      <4>3. ASSUME NEW k \in 1..size
            PROVE  s[k] \in Carriers(l) <=> k \in ((x - 1) * b + 1)..(x * b)
        <5>1. s[k] \in Carriers(l) <=> X(k) = x
          BY <2>3, <3>1, <3>2, <4>1
        <5> HIDE DEF x
        <5> QED  BY <2>2, <4>2, <5>1
      <4> HIDE DEF x
      <4>4. PICK e \in Nat, d \in Nat : x = e + 1 /\ c - 1 = x + d
        <5>1. x - 1 \in Nat /\ x = (x - 1) + 1 /\ (c - 1) - x \in Nat /\ c - 1 = x + ((c - 1) - x)
          BY <4>2
        <5> QED  BY <5>1
      <4>5. /\ (x - 1) * b = e * b /\ x * b = e * b + b /\ e * b \in Nat
            /\ size = x * b + d * b /\ d * b \in Nat
        BY <4>4 DEF size
      <4>6. Hits(s, Carriers(l)) = (e * b + 1)..(e * b + b)
        BY <2>1, <2>5, <4>3, <4>5 DEF Hits
      <4>7. Cardinality((e * b + 1)..(e * b + b))
              = IF e * b + 1 > e * b + b THEN 0 ELSE (e * b + b) - (e * b + 1) + 1
        BY <4>5, FS_Interval
      <4>8. Cardinality((e * b + 1)..(e * b + b)) = b
        BY <4>5, <4>7
      <4> QED  BY <3>2, <4>6, <4>8 DEF Count
    <3>3. CASE ~(l.from = i /\ l.round = r)
      <4>1. Hits(s, Carriers(l)) = {}
        BY <2>5, <3>1, <3>3 DEF Hits
      <4> QED  BY <3>3, <4>1, FS_EmptySet DEF Count
    <3> QED  BY <3>2, <3>3
  <2>7. \A k \in 1..Len(s) : s[k].from = i
    BY <2>4, <2>5
  <2> QED  BY <1>1, <2>5, <2>6, <2>7
<1> QED  BY <1>3, <1>4

(* What a session sends, and what it is sent. *)
Own(i) == {m \in Items : m.from = i}

Mail(i) == {l \in Letters : l.to = i}

(* The types of what is on its way. *)
ChannelsTypeOK ==
  /\ round \in [Nodes -> 1..run.rounds]
  /\ pushing \in [Nodes -> Seq(Items)] /\ outbox \in [Nodes -> Seq(Items)]
  /\ held \in [Nodes -> Items \cup {NoItem}]
  /\ queue \in Seq(Items)
  /\ pending \in [Letters -> Nat]
  /\ delivering \in Letters \cup {NoLetter}
  /\ inbox \in [Nodes -> Seq(Letters)]
  /\ got \in [Nodes -> [Nodes \X (1..run.rounds) -> Nat]]

(* The capacities of the channels. *)
ChannelsBounded ==
  /\ \A i \in Nodes : Len(outbox[i]) <= OutCapacity /\ Len(inbox[i]) <= SessionCapacity
  /\ Len(queue) <= DispatcherCapacity

(* Nobody sends for another one, and the dispatcher confuses no sessions. *)
Addressed ==
  \A i \in Nodes : /\ pushing[i] \in Seq(Own(i)) /\ outbox[i] \in Seq(Own(i))
                   /\ held[i] \in Own(i) \cup {NoItem}
                   /\ inbox[i] \in Seq(Mail(i))

(* Where the copies of letter l are on their way, and how many have been   *)
(* sent.                                                                   *)
Unsent(l) ==
  Count(pushing[l.from], Carriers(l)) + Count(outbox[l.from], Carriers(l))
    + One(held[l.from], Carriers(l))

Dispatched(l) == Count(queue, Carriers(l)) + pending[l] + One(delivering, {l})

Received(l) == Count(inbox[l.to], {l}) + got[l.to][<<l.from, l.round>>]

Sent(l) == IF l.round <= round[l.from] THEN run.batch ELSE 0

(* Until the dispatcher fails no message is lost and none is made up. *)
Conserved ==
  dispatcher # "err" =>
    \A l \in Letters : l.from # l.to =>
      Unsent(l) + Dispatched(l) + Received(l) = Sent(l)

(* The inductive invariant behind Conserved. *)
FlowInv == ChannelsTypeOK /\ ChannelsBounded /\ Addressed /\ Conserved

(* The parts of a letter. *)
LEMMA LetterFacts ==
  ASSUME NEW l \in Letters
  PROVE  l.from \in Nodes /\ l.to \in Nodes /\ l.round \in 1..run.rounds
BY DEF Letters

(* An idle forwarding task and an idle dispatcher hold nothing that        *)
(* counts.                                                                 *)
LEMMA NoneCounts ==
  ASSUME run \in Runs, NEW l \in Letters
  PROVE  /\ NoItem \notin Items /\ NoItem \notin Carriers(l)
         /\ NoLetter \notin Letters /\ NoLetter # l
<1>1. NodeCount \in Nat /\ 0 \notin Nodes
  BY RunFacts DEF Nodes
<1>2. NoItem.from = 0 /\ NoLetter.from = 0
  BY DEF NoItem, NoLetter, ErrorReport
<1>3. \A m \in Items : m.from \in Nodes
  BY DEF Items
<1>4. \A x \in Letters : x.from \in Nodes
  BY DEF Letters
<1> QED  BY <1>1, <1>2, <1>3, <1>4 DEF Carriers

(* All parts of the sum are numbers. *)
LEMMA FlowTypes ==
  ASSUME run \in Runs, ChannelsTypeOK, NEW l \in Letters
  PROVE  /\ Count(pushing[l.from], Carriers(l)) \in Nat
         /\ Count(outbox[l.from], Carriers(l)) \in Nat
         /\ One(held[l.from], Carriers(l)) \in Nat
         /\ Count(queue, Carriers(l)) \in Nat /\ pending[l] \in Nat
         /\ One(delivering, {l}) \in Nat
         /\ Count(inbox[l.to], {l}) \in Nat /\ got[l.to][<<l.from, l.round>>] \in Nat
         /\ Unsent(l) \in Nat /\ Dispatched(l) \in Nat /\ Received(l) \in Nat
<1>1. l.from \in Nodes /\ l.to \in Nodes /\ l.round \in 1..run.rounds
  BY LetterFacts
<1>2. /\ pushing[l.from] \in Seq(Items) /\ outbox[l.from] \in Seq(Items)
      /\ inbox[l.to] \in Seq(Letters) /\ queue \in Seq(Items) /\ pending[l] \in Nat
  BY <1>1 DEF ChannelsTypeOK
<1>3. got[l.to][<<l.from, l.round>>] \in Nat
  BY <1>1 DEF ChannelsTypeOK
<1>4. /\ Count(pushing[l.from], Carriers(l)) \in Nat
      /\ Count(outbox[l.from], Carriers(l)) \in Nat
      /\ Count(queue, Carriers(l)) \in Nat
      /\ Count(inbox[l.to], {l}) \in Nat
  BY <1>2, CountType
<1>5. One(held[l.from], Carriers(l)) \in Nat /\ One(delivering, {l}) \in Nat
  BY DEF One
<1>6. Unsent(l) \in Nat
  BY <1>4, <1>5 DEF Unsent
<1>7. Dispatched(l) \in Nat
  BY <1>2, <1>4, <1>5 DEF Dispatched
<1>8. Received(l) \in Nat
  BY <1>3, <1>4 DEF Received
<1> QED  BY <1>2, <1>3, <1>4, <1>5, <1>6, <1>7, <1>8

-----------------------------------------------------------------------------
(* At first each session has the messages of its first round to send. *)
LEMMA FlowInit == Init => FlowInv
<1> SUFFICES ASSUME Init PROVE FlowInv
  OBVIOUS
<1>1. run \in Runs /\ NodeCount \in Nat \ {0} /\ run.rounds \in Nat \ {0} /\ run.batch \in Nat
  BY RunFacts DEF Init
<1>2. 1 \in 1..run.rounds
  BY <1>1
<1>3. ASSUME NEW i \in Nodes
      PROVE  /\ pushing[i] \in Seq(Items) /\ pushing[i] \in Seq(Own(i))
             /\ \A l \in Letters : l.from # l.to =>
                  Count(pushing[i], Carriers(l)) = IF l.from = i /\ l.round = 1 THEN run.batch ELSE 0
  <2>1. pushing[i] = MessagesOut(i, 1)
    BY DEF Init
  <2>2. PICK s : s = MessagesOut(i, 1)
    OBVIOUS
  <2>3. /\ s \in Seq(Items) /\ \A k \in 1..Len(s) : s[k].from = i
        /\ \A l \in Letters : l.from # l.to =>
             Count(s, Carriers(l)) = IF l.from = i /\ l.round = 1 THEN run.batch ELSE 0
    BY <1>1, <1>2, <2>2, MessagesOutCount
  <2>4. s \in Seq(Own(i))
    <3>1. \A k \in 1..Len(s) : s[k] \in Own(i)
      BY <2>3 DEF Own
    <3> QED  BY <2>3, <3>1
  <2> QED  BY <2>1, <2>2, <2>3, <2>4
<1>4. ChannelsTypeOK
  <2>1. pushing \in [Nodes -> Seq(Items)]
    BY <1>3 DEF Init
  <2> QED  BY <1>2, <2>1 DEF Init, ChannelsTypeOK
<1>5. ChannelsBounded
  BY <1>1, DevTokioAssumption DEF Init, ChannelsBounded
<1>6. Addressed
  BY <1>3 DEF Init, Addressed
<1>7. ASSUME NEW l \in Letters, l.from # l.to
      PROVE  Unsent(l) + Dispatched(l) + Received(l) = Sent(l)
  <2>1. l.from \in Nodes /\ l.to \in Nodes /\ l.round \in 1..run.rounds
    BY LetterFacts
  <2>2. Count(pushing[l.from], Carriers(l)) = IF l.round = 1 THEN run.batch ELSE 0
    BY <1>3, <1>7, <2>1
  <2>3. /\ outbox[l.from] = <<>> /\ held[l.from] = NoItem /\ queue = <<>> /\ pending[l] = 0
        /\ delivering = NoLetter /\ inbox[l.to] = <<>> /\ got[l.to][<<l.from, l.round>>] = 0
        /\ round[l.from] = 1
    BY <2>1 DEF Init
  <2>4. One(NoItem, Carriers(l)) = 0 /\ One(NoLetter, {l}) = 0
    BY <1>1, NoneCounts DEF One
  <2>5. Sent(l) = IF l.round = 1 THEN run.batch ELSE 0
    BY <1>1, <2>1, <2>3 DEF Sent
  <2>6. Dispatched(l) = 0 /\ Received(l) = 0
    BY <2>3, <2>4, CountEmpty DEF Dispatched, Received
  <2>7. Unsent(l) = IF l.round = 1 THEN run.batch ELSE 0
    BY <1>1, <2>2, <2>3, <2>4, CountEmpty DEF Unsent
  <2> QED  BY <1>1, <2>5, <2>6, <2>7
<1> QED  BY <1>4, <1>5, <1>6, <1>7 DEF FlowInv, Conserved

(* The sets depend on the parameters of the run only. *)
LEMMA Frame ==
  ASSUME UNCHANGED run
  PROVE  /\ Nodes' = Nodes /\ Letters' = Letters /\ Items' = Items /\ run' = run
         /\ NodeCount' = NodeCount
         /\ \A l : Carriers(l)' = Carriers(l)
         /\ \A i : Own(i)' = Own(i) /\ Mail(i)' = Mail(i)
         /\ NoItem' = NoItem /\ NoLetter' = NoLetter
<1>1. Nodes' = Nodes /\ NodeCount' = NodeCount
  BY DEF Nodes, NodeCount
<1>2. Letters' = Letters /\ Items' = Items
  BY <1>1 DEF Letters, Items
<1> QED  BY <1>1, <1>2 DEF Carriers, Own, Mail, NoItem, NoLetter, ErrorReport

(* What the steps leave alone. *)
LEMMA FlowKept ==
  ASSUME UNCHANGED run, NEW l
  PROVE  /\ UNCHANGED <<pushing, outbox, held>> => Unsent(l)' = Unsent(l)
         /\ UNCHANGED <<queue, pending, delivering>> => Dispatched(l)' = Dispatched(l)
         /\ UNCHANGED <<inbox, got>> => Received(l)' = Received(l)
         /\ UNCHANGED round => Sent(l)' = Sent(l)
<1>1. Carriers(l)' = Carriers(l)
  BY Frame
<1> QED  BY <1>1 DEF Unsent, Dispatched, Received, Sent

(* Steps that move no message. *)
LEMMA FlowSame ==
  ASSUME FlowInv,
         UNCHANGED <<run, round, pushing, got, inbox, outbox, held, queue, pending, delivering>>,
         dispatcher' # "err" => dispatcher # "err"
  PROVE  FlowInv'
<1>1. /\ Nodes' = Nodes /\ Letters' = Letters /\ Items' = Items
      /\ \A j : Own(j)' = Own(j) /\ Mail(j)' = Mail(j)
      /\ NoItem' = NoItem /\ NoLetter' = NoLetter
  BY Frame
<1>2. \A l \in Letters : /\ Unsent(l)' = Unsent(l) /\ Dispatched(l)' = Dispatched(l)
                         /\ Received(l)' = Received(l) /\ Sent(l)' = Sent(l)
  BY FlowKept
<1>3. ChannelsTypeOK' /\ ChannelsBounded' /\ Addressed'
  BY <1>1 DEF FlowInv, ChannelsTypeOK, ChannelsBounded, Addressed
<1>4. Conserved'
  BY <1>1, <1>2 DEF FlowInv, Conserved
<1> QED  BY <1>3, <1>4 DEF FlowInv

(* tx.send() of a session. *)
LEMMA PushFlow ==
  ASSUME run \in Runs, FlowInv, NEW i \in Nodes, Push(i)
  PROVE  FlowInv'
<1>1. /\ UNCHANGED <<run, round, got, inbox, held, queue, dispatcher, pending, delivering>>
      /\ pushing[i] # <<>> /\ Len(outbox[i]) < OutCapacity
      /\ outbox' = [outbox EXCEPT ![i] = Append(outbox[i], Head(pushing[i]))]
      /\ pushing' = [pushing EXCEPT ![i] = Tail(pushing[i])]
  BY DEF Push, dispatcherVars
<1>2. /\ Nodes' = Nodes /\ Letters' = Letters /\ Items' = Items
      /\ \A l : Carriers(l)' = Carriers(l) /\ \A j : Own(j)' = Own(j) /\ Mail(j)' = Mail(j)
  BY <1>1, Frame
<1>3. PICK p, o, x : p = pushing[i] /\ o = outbox[i] /\ x = Head(p)
  OBVIOUS
<1>4. /\ p \in Seq(Items) /\ p \in Seq(Own(i)) /\ o \in Seq(Items) /\ o \in Seq(Own(i))
      /\ p # <<>> /\ x \in Items /\ x \in Own(i)
  BY <1>1, <1>3 DEF FlowInv, ChannelsTypeOK, Addressed
<1>5. /\ Tail(p) \in Seq(Items) /\ Tail(p) \in Seq(Own(i))
      /\ Append(o, x) \in Seq(Items) /\ Append(o, x) \in Seq(Own(i))
      /\ Len(Append(o, x)) = Len(o) + 1 /\ Len(o) \in Nat
  BY <1>4
<1>6. /\ pushing' \in [Nodes -> Seq(Items)] /\ outbox' \in [Nodes -> Seq(Items)]
      /\ \A j \in Nodes : pushing'[j] = IF j = i THEN Tail(p) ELSE pushing[j]
      /\ \A j \in Nodes : outbox'[j] = IF j = i THEN Append(o, x) ELSE outbox[j]
  BY <1>1, <1>3, <1>5 DEF FlowInv, ChannelsTypeOK
<1>7. ChannelsTypeOK'
  BY <1>1, <1>2, <1>6 DEF FlowInv, ChannelsTypeOK, NoItem, NoLetter, ErrorReport
<1>8. ChannelsBounded'
  <2>1. OutCapacity \in Nat
    BY DevTokioAssumption
  <2>2. Len(o) < OutCapacity
    BY <1>1, <1>3
  <2>3. Len(Append(o, x)) <= OutCapacity
    BY <1>5, <2>1, <2>2
  <2> QED  BY <1>1, <1>2, <1>6, <2>3 DEF FlowInv, ChannelsBounded
<1>9. Addressed'
  BY <1>1, <1>2, <1>5, <1>6 DEF FlowInv, Addressed, NoItem, ErrorReport
<1>10. ASSUME NEW l \in Letters, l.from # l.to
       PROVE  Unsent(l)' + Dispatched(l)' + Received(l)' = Unsent(l) + Dispatched(l) + Received(l)
                /\ Sent(l)' = Sent(l)
  <2>1. Dispatched(l)' = Dispatched(l) /\ Received(l)' = Received(l) /\ Sent(l)' = Sent(l)
    BY <1>1, FlowKept
  <2>2. l.from \in Nodes
    BY LetterFacts
  <2>3. CASE l.from = i
    <3>1. /\ Count(p, Carriers(l)) = Count(Tail(p), Carriers(l)) + One(x, Carriers(l))
          /\ Count(Append(o, x), Carriers(l)) = Count(o, Carriers(l)) + One(x, Carriers(l))
      BY <1>3, <1>4, CountTail, CountAppend
    <3>2. /\ Count(Tail(p), Carriers(l)) \in Nat /\ Count(o, Carriers(l)) \in Nat
      BY <1>4, <1>5, CountType
    <3>3. One(x, Carriers(l)) \in Nat /\ One(held[l.from], Carriers(l)) \in Nat
      BY DEF One
    <3>4. /\ pushing[l.from] = p /\ outbox[l.from] = o /\ held'[l.from] = held[l.from]
          /\ pushing'[l.from] = Tail(p) /\ outbox'[l.from] = Append(o, x)
      BY <1>1, <1>3, <1>6, <2>2, <2>3
    <3>5. /\ Unsent(l) = Count(p, Carriers(l)) + Count(o, Carriers(l)) + One(held[l.from], Carriers(l))
          /\ Unsent(l)' = Count(Tail(p), Carriers(l)) + Count(Append(o, x), Carriers(l))
                            + One(held[l.from], Carriers(l))
      BY <1>2, <3>4 DEF Unsent
    <3>6. Unsent(l)' = Unsent(l)
      BY <3>1, <3>2, <3>3, <3>5
    <3> QED  BY <2>1, <3>6
  <2>4. CASE l.from # i
    <3>1. /\ pushing'[l.from] = pushing[l.from] /\ outbox'[l.from] = outbox[l.from]
          /\ held'[l.from] = held[l.from]
      BY <1>1, <1>6, <2>2, <2>4
    <3>2. Unsent(l)' = Unsent(l)
      BY <1>2, <3>1 DEF Unsent
    <3> QED  BY <2>1, <3>2
  <2> QED  BY <2>3, <2>4
<1>11. Conserved'
  BY <1>1, <1>2, <1>10 DEF FlowInv, Conserved
<1> QED  BY <1>7, <1>8, <1>9, <1>11 DEF FlowInv

(* A session goes on to its next round, or ends. *)
LEMMA AdvanceFlow ==
  ASSUME run \in Runs, FlowInv, NEW i \in Nodes, Advance(i)
  PROVE  FlowInv'
<1>1. /\ UNCHANGED <<run, got, inbox, outbox, held, queue, dispatcher, pending, delivering>>
      /\ pushing[i] = <<>>
  BY DEF Advance, Waiting, dispatcherVars
<1>2. CASE UNCHANGED <<round, pushing>>
  BY <1>1, <1>2, FlowSame
<1>3. CASE /\ round[i] < run.rounds
           /\ round' = [round EXCEPT ![i] = round[i] + 1]
           /\ pushing' = [pushing EXCEPT ![i] = MessagesOut(i, round[i] + 1)]
  <2>1. /\ Nodes' = Nodes /\ Letters' = Letters /\ Items' = Items
        /\ \A l : Carriers(l)' = Carriers(l) /\ \A j : Own(j)' = Own(j) /\ Mail(j)' = Mail(j)
        /\ NoItem' = NoItem /\ NoLetter' = NoLetter
    BY <1>1, Frame
  <2>2. PICK r, s : r = round[i] + 1 /\ s = MessagesOut(i, r)
    OBVIOUS
  <2>3. run.rounds \in Nat /\ run.batch \in Nat /\ round[i] \in 1..run.rounds
    BY RunFacts DEF FlowInv, ChannelsTypeOK
  <2>4. r \in 1..run.rounds
    BY <1>3, <2>2, <2>3
  <2>5. /\ s \in Seq(Items) /\ \A k \in 1..Len(s) : s[k].from = i
        /\ \A l \in Letters : l.from # l.to =>
             Count(s, Carriers(l)) = IF l.from = i /\ l.round = r THEN run.batch ELSE 0
    BY <2>2, <2>4, MessagesOutCount
  <2>6. s \in Seq(Own(i))
    <3>1. \A k \in 1..Len(s) : s[k] \in Own(i)
      BY <2>5 DEF Own
    <3> QED  BY <2>5, <3>1
  <2>7. /\ pushing' \in [Nodes -> Seq(Items)] /\ round' \in [Nodes -> 1..run.rounds]
        /\ \A j \in Nodes : pushing'[j] = IF j = i THEN s ELSE pushing[j]
        /\ \A j \in Nodes : round'[j] = IF j = i THEN r ELSE round[j]
    BY <1>3, <2>2, <2>4, <2>5 DEF FlowInv, ChannelsTypeOK
  <2>8. ChannelsTypeOK' /\ ChannelsBounded' /\ Addressed'
    BY <1>1, <2>1, <2>6, <2>7 DEF FlowInv, ChannelsTypeOK, ChannelsBounded, Addressed
  <2>9. ASSUME NEW l \in Letters, l.from # l.to,
               Unsent(l) + Dispatched(l) + Received(l) = Sent(l)
        PROVE  Unsent(l)' + Dispatched(l)' + Received(l)' = Sent(l)'
    <3>1. Dispatched(l)' = Dispatched(l) /\ Received(l)' = Received(l)
      BY <1>1, FlowKept
    <3>2. l.from \in Nodes /\ l.round \in 1..run.rounds
      BY LetterFacts
    <3>3. CASE l.from # i
      <4>1. pushing'[l.from] = pushing[l.from] /\ round'[l.from] = round[l.from]
        BY <2>7, <3>2, <3>3
      <4>2. Unsent(l)' = Unsent(l) /\ Sent(l)' = Sent(l)
        BY <1>1, <2>1, <4>1 DEF Unsent, Sent
      <4> QED  BY <2>9, <3>1, <4>2
    <3>4. CASE l.from = i
      <4>1. PICK o \in Nat, h \in Nat, d \in Nat, e \in Nat :
              /\ o = Count(outbox[l.from], Carriers(l)) /\ h = One(held[l.from], Carriers(l))
              /\ d = Dispatched(l) /\ e = Received(l)
        BY FlowTypes DEF FlowInv
      <4>2. pushing[l.from] = <<>> /\ pushing'[l.from] = s
        BY <1>1, <2>7, <3>2, <3>4
      <4>3. Unsent(l) = 0 + o + h /\ Unsent(l)' = Count(s, Carriers(l)) + o + h
        BY <1>1, <2>1, <4>1, <4>2, CountEmpty DEF Unsent
      <4>4. Count(s, Carriers(l)) = IF l.round = r THEN run.batch ELSE 0
        BY <2>5, <2>9, <3>4
      <4>5. /\ Sent(l) = (IF l.round <= round[i] THEN run.batch ELSE 0)
            /\ Sent(l)' = IF l.round <= r THEN run.batch ELSE 0
        BY <1>1, <2>7, <3>2, <3>4 DEF Sent
      <4>6. (0 + o + h) + d + e = Sent(l)
        BY <2>9, <4>1, <4>3
      <4>7. (Count(s, Carriers(l)) + o + h) + d + e = Sent(l)'
        BY <2>2, <2>3, <3>2, <4>4, <4>5, <4>6
      <4> QED  BY <3>1, <4>1, <4>3, <4>7
    <3> QED  BY <3>3, <3>4
  <2>10. Conserved'
    BY <1>1, <2>1, <2>9 DEF FlowInv, Conserved
  <2> QED  BY <2>8, <2>10 DEF FlowInv
<1> QED  BY <1>1, <1>2, <1>3 DEF Advance

(* rx.recv() of a session. *)
LEMMA RecvFlow ==
  ASSUME run \in Runs, FlowInv, NEW i \in Nodes, Recv(i)
  PROVE  FlowInv'
<1>1. PICK b, m : b = inbox[i] /\ m = Head(b)
  OBVIOUS
<1>2. /\ UNCHANGED <<run, round, outbox, held, queue, dispatcher, pending, delivering>>
      /\ pushing[i] = <<>> /\ b # <<>>
      /\ inbox' = [inbox EXCEPT ![i] = Tail(b)]
      /\ got' = [got EXCEPT ![i][<<m.from, m.round>>] = @ + 1]
      /\ pushing' = pushing \/ pushing' = [pushing EXCEPT ![i] = <<ErrorReport(i)>>]
  BY <1>1 DEF Recv, Waiting, dispatcherVars
<1>3. /\ Nodes' = Nodes /\ Letters' = Letters /\ Items' = Items
      /\ \A l : Carriers(l)' = Carriers(l) /\ \A j : Own(j)' = Own(j) /\ Mail(j)' = Mail(j)
      /\ NoItem' = NoItem /\ NoLetter' = NoLetter
  BY <1>2, Frame
<1>4. /\ b \in Seq(Letters) /\ b \in Seq(Mail(i)) /\ m \in Letters /\ m \in Mail(i)
      /\ Tail(b) \in Seq(Letters) /\ Tail(b) \in Seq(Mail(i))
      /\ Len(Tail(b)) = Len(b) - 1 /\ Len(b) \in Nat /\ Len(b) <= SessionCapacity
  <2>1. b \in Seq(Letters) /\ b \in Seq(Mail(i)) /\ Len(b) <= SessionCapacity
    BY <1>1 DEF FlowInv, ChannelsTypeOK, Addressed, ChannelsBounded
  <2> QED  BY <1>1, <1>2, <2>1
<1>5. m.from \in Nodes /\ m.round \in 1..run.rounds /\ m.to = i
  BY <1>4, LetterFacts DEF Mail
<1>6. /\ got' \in [Nodes -> [Nodes \X (1..run.rounds) -> Nat]]
      /\ \A j \in Nodes, x \in Nodes \X (1..run.rounds) :
           got'[j][x] = IF j = i /\ x = <<m.from, m.round>> THEN got[j][x] + 1 ELSE got[j][x]
  <2>1. got \in [Nodes -> [Nodes \X (1..run.rounds) -> Nat]]
    BY DEF FlowInv, ChannelsTypeOK
  <2>2. <<m.from, m.round>> \in Nodes \X (1..run.rounds)
    BY <1>5
  <2>3. PICK K, k : K = Nodes \X (1..run.rounds) /\ k = <<m.from, m.round>>
    OBVIOUS
  <2>4. k \in K /\ got \in [Nodes -> [K -> Nat]] /\ got' = [got EXCEPT ![i][k] = @ + 1]
    BY <1>2, <2>1, <2>2, <2>3
  <2>5. got' = [got EXCEPT ![i] = [got[i] EXCEPT ![k] = got[i][k] + 1]]
    BY <2>4
  <2>6. /\ got' \in [Nodes -> [K -> Nat]]
        /\ \A j \in Nodes, x \in K :
             got'[j][x] = IF j = i /\ x = k THEN got[j][x] + 1 ELSE got[j][x]
    <3>1. PICK h : h = [got[i] EXCEPT ![k] = got[i][k] + 1]
      OBVIOUS
    <3>2. got[i] \in [K -> Nat] /\ got[i][k] + 1 \in Nat
      BY <2>4
    <3>3. h \in [K -> Nat] /\ \A x \in K : h[x] = IF x = k THEN got[i][x] + 1 ELSE got[i][x]
      BY <2>4, <3>1, <3>2
    <3> QED  BY <2>4, <2>5, <3>1, <3>3
  <2> QED  BY <2>3, <2>6
<1>7. /\ inbox' \in [Nodes -> Seq(Letters)]
      /\ \A j \in Nodes : inbox'[j] = IF j = i THEN Tail(b) ELSE inbox[j]
  BY <1>2, <1>4 DEF FlowInv, ChannelsTypeOK
<1>8. /\ ErrorReport(i) \in Items /\ ErrorReport(i) \in Own(i)
      /\ \A l \in Letters : ErrorReport(i) \notin Carriers(l)
  <2>1. ErrorReport(i) \in Items
    BY RunFacts DEF Items, ErrorReport
  <2>2. ErrorReport(i).to = {} /\ ErrorReport(i).from = i
    BY DEF ErrorReport
  <2> QED  BY <2>1, <2>2 DEF Own, Carriers
<1>9. PICK p : /\ pushing' = [pushing EXCEPT ![i] = p]
               /\ p \in Seq(Items) /\ p \in Seq(Own(i))
               /\ \A l \in Letters : Count(p, Carriers(l)) = 0
  <2>1. CASE pushing' = pushing
    <3>1. pushing' = [pushing EXCEPT ![i] = <<>>]
      BY <1>2, <2>1 DEF FlowInv, ChannelsTypeOK
    <3>2. \A l \in Letters : Count(<<>>, Carriers(l)) = 0
      BY CountEmpty
    <3>3. <<>> \in Seq(Items) /\ <<>> \in Seq(Own(i))
      OBVIOUS
    <3> QED  BY <3>1, <3>2, <3>3
  <2>2. CASE pushing' = [pushing EXCEPT ![i] = <<ErrorReport(i)>>]
    <3> DEFINE p == <<ErrorReport(i)>>
    <3>1. ASSUME NEW l \in Letters PROVE Count(p, Carriers(l)) = 0
      <4>1. Hits(p, Carriers(l)) = {}
        BY <1>8 DEF Hits
      <4> QED  BY <4>1, FS_EmptySet DEF Count
    <3>2. p \in Seq(Items) /\ p \in Seq(Own(i))
      BY <1>8
    <3> QED  BY <2>2, <3>1, <3>2
  <2> QED  BY <1>2, <2>1, <2>2
<1>10. /\ pushing' \in [Nodes -> Seq(Items)]
       /\ \A j \in Nodes : pushing'[j] = IF j = i THEN p ELSE pushing[j]
  BY <1>9 DEF FlowInv, ChannelsTypeOK
<1>11. ChannelsTypeOK'
  BY <1>2, <1>3, <1>6, <1>7, <1>10 DEF FlowInv, ChannelsTypeOK
<1>12. ChannelsBounded'
  <2>1. SessionCapacity \in Nat /\ Len(Tail(b)) <= SessionCapacity
    BY <1>4, DevTokioAssumption
  <2> QED  BY <1>2, <1>3, <1>7, <2>1 DEF FlowInv, ChannelsBounded
<1>13. Addressed'
  BY <1>2, <1>3, <1>4, <1>7, <1>9, <1>10 DEF FlowInv, Addressed
<1>14. ASSUME NEW l \in Letters, l.from # l.to
       PROVE  /\ Unsent(l)' = Unsent(l) /\ Dispatched(l)' = Dispatched(l)
              /\ Received(l)' = Received(l) /\ Sent(l)' = Sent(l)
  <2>1. Dispatched(l)' = Dispatched(l) /\ Sent(l)' = Sent(l)
    BY <1>2, FlowKept
  <2>2. l.from \in Nodes /\ l.to \in Nodes /\ l.round \in 1..run.rounds
    BY LetterFacts
  <2>3. Count(pushing'[l.from], Carriers(l)) = Count(pushing[l.from], Carriers(l))
    <3>1. Count(<<>>, Carriers(l)) = 0
      BY CountEmpty
    <3>2. pushing'[l.from] = IF l.from = i THEN p ELSE pushing[l.from]
      BY <1>10, <2>2
    <3> QED  BY <1>2, <1>9, <3>1, <3>2
  <2>4. Unsent(l)' = Unsent(l)
    BY <1>2, <1>3, <2>3 DEF Unsent
  <2>5. PICK x : x = <<l.from, l.round>> /\ x \in Nodes \X (1..run.rounds)
    <3>1. <<l.from, l.round>> \in Nodes \X (1..run.rounds)
      BY <2>2
    <3> QED  BY <3>1
  <2>6. CASE l.to # i
    <3>1. inbox'[l.to] = inbox[l.to] /\ got'[l.to][x] = got[l.to][x]
      BY <1>6, <1>7, <2>2, <2>5, <2>6
    <3>2. Received(l)' = Received(l)
      BY <2>5, <3>1 DEF Received
    <3> QED  BY <2>1, <2>4, <3>2
  <2>7. CASE l.to = i
    <3>1. l = m <=> x = <<m.from, m.round>>
      <4>1. /\ l = [from |-> l.from, to |-> l.to, round |-> l.round]
            /\ m = [from |-> m.from, to |-> m.to, round |-> m.round]
        BY <1>4 DEF Letters
      <4> QED  BY <1>5, <2>5, <2>7, <4>1
    <3>2. Count(b, {l}) = Count(Tail(b), {l}) + One(m, {l})
      BY <1>1, <1>2, <1>4, CountTail
    <3>3. got'[i][x] = got[i][x] + One(m, {l}) /\ got[i][x] \in Nat
      <4>1. got[i][x] \in Nat
        BY <2>5 DEF FlowInv, ChannelsTypeOK
      <4> QED  BY <1>6, <2>5, <3>1, <4>1 DEF One
    <3>4. Count(Tail(b), {l}) \in Nat /\ One(m, {l}) \in Nat
      BY <1>4, CountType DEF One
    <3>5. /\ Received(l) = Count(b, {l}) + got[i][x]
          /\ Received(l)' = Count(Tail(b), {l}) + got'[i][x]
      BY <1>1, <1>7, <2>5, <2>7 DEF Received
    <3>6. Received(l)' = Received(l)
      BY <3>2, <3>3, <3>4, <3>5
    <3> QED  BY <2>1, <2>4, <3>6
  <2> QED  BY <2>6, <2>7
<1>15. Conserved'
  BY <1>2, <1>3, <1>14 DEF FlowInv, Conserved
<1> QED  BY <1>11, <1>12, <1>13, <1>15 DEF FlowInv

(* The forwarding task takes an item from its channel. *)
LEMMA TakeFlow ==
  ASSUME run \in Runs, FlowInv, NEW i \in Nodes, Take(i)
  PROVE  FlowInv'
<1>1. PICK o, x : o = outbox[i] /\ x = Head(o)
  OBVIOUS
<1>2. /\ UNCHANGED <<run, round, pushing, got, inbox, queue, dispatcher, pending, delivering>>
      /\ o # <<>> /\ held[i] = NoItem
      /\ held' = [held EXCEPT ![i] = x] /\ outbox' = [outbox EXCEPT ![i] = Tail(o)]
  BY <1>1 DEF Take, sessionVars, dispatcherVars
<1>3. /\ Nodes' = Nodes /\ Letters' = Letters /\ Items' = Items
      /\ \A l : Carriers(l)' = Carriers(l) /\ \A j : Own(j)' = Own(j) /\ Mail(j)' = Mail(j)
      /\ NoItem' = NoItem /\ NoLetter' = NoLetter
  BY <1>2, Frame
<1>4. /\ o \in Seq(Items) /\ x \in Items /\ x \in Own(i)
      /\ Tail(o) \in Seq(Items) /\ Tail(o) \in Seq(Own(i))
      /\ Len(Tail(o)) = Len(o) - 1 /\ Len(o) \in Nat /\ Len(o) <= OutCapacity
  <2>1. o \in Seq(Items) /\ o \in Seq(Own(i)) /\ Len(o) <= OutCapacity
    BY <1>1 DEF FlowInv, ChannelsTypeOK, Addressed, ChannelsBounded
  <2> QED  BY <1>1, <1>2, <2>1
<1>5. /\ held' \in [Nodes -> Items \cup {NoItem}] /\ outbox' \in [Nodes -> Seq(Items)]
      /\ \A j \in Nodes : held'[j] = IF j = i THEN x ELSE held[j]
      /\ \A j \in Nodes : outbox'[j] = IF j = i THEN Tail(o) ELSE outbox[j]
  BY <1>2, <1>4 DEF FlowInv, ChannelsTypeOK
<1>6. ChannelsTypeOK' /\ Addressed'
  BY <1>2, <1>3, <1>4, <1>5 DEF FlowInv, ChannelsTypeOK, Addressed
<1>7. ChannelsBounded'
  <2>1. OutCapacity \in Nat /\ Len(Tail(o)) <= OutCapacity
    BY <1>4, DevTokioAssumption
  <2> QED  BY <1>2, <1>3, <1>5, <2>1 DEF FlowInv, ChannelsBounded
<1>8. ASSUME NEW l \in Letters
      PROVE  /\ Unsent(l)' = Unsent(l) /\ Dispatched(l)' = Dispatched(l)
             /\ Received(l)' = Received(l) /\ Sent(l)' = Sent(l)
  <2>1. Dispatched(l)' = Dispatched(l) /\ Received(l)' = Received(l) /\ Sent(l)' = Sent(l)
    BY <1>2, FlowKept
  <2>2. l.from \in Nodes
    BY LetterFacts
  <2>3. CASE l.from = i
    <3>1. PICK p \in Nat, t \in Nat : p = Count(pushing[i], Carriers(l)) /\ t = Count(Tail(o), Carriers(l))
      BY <1>4, <2>3, FlowTypes, CountType DEF FlowInv
    <3>2. One(NoItem, Carriers(l)) = 0 /\ One(x, Carriers(l)) \in Nat
      BY NoneCounts DEF One
    <3>3. Count(o, Carriers(l)) = t + One(x, Carriers(l))
      BY <1>1, <1>2, <1>4, <3>1, CountTail
    <3>4. Unsent(l) = p + (t + One(x, Carriers(l))) + 0
      BY <1>1, <1>2, <2>3, <3>1, <3>2, <3>3 DEF Unsent
    <3>5. Unsent(l)' = p + t + One(x, Carriers(l))
      BY <1>2, <1>3, <1>5, <2>2, <2>3, <3>1 DEF Unsent
    <3>6. Unsent(l)' = Unsent(l)
      BY <3>2, <3>4, <3>5
    <3> QED  BY <2>1, <3>6
  <2>4. CASE l.from # i
    <3>1. Unsent(l)' = Unsent(l)
      BY <1>2, <1>3, <1>5, <2>2, <2>4 DEF Unsent
    <3> QED  BY <2>1, <3>1
  <2> QED  BY <2>3, <2>4
<1>9. Conserved'
  BY <1>2, <1>3, <1>8 DEF FlowInv, Conserved
<1> QED  BY <1>6, <1>7, <1>9 DEF FlowInv

(* It sends the item to the dispatcher. *)
LEMMA ForwardFlow ==
  ASSUME run \in Runs, FlowInv, NEW i \in Nodes, Forward(i)
  PROVE  FlowInv'
<1>1. PICK x : x = held[i]
  OBVIOUS
<1>2. /\ UNCHANGED <<run, round, pushing, got, inbox, outbox, dispatcher, pending, delivering>>
      /\ x # NoItem /\ Len(queue) < DispatcherCapacity
      /\ queue' = Append(queue, x) /\ held' = [held EXCEPT ![i] = NoItem]
  BY <1>1 DEF Forward, sessionVars, dispatcherVars
<1>3. /\ Nodes' = Nodes /\ Letters' = Letters /\ Items' = Items
      /\ \A l : Carriers(l)' = Carriers(l) /\ \A j : Own(j)' = Own(j) /\ Mail(j)' = Mail(j)
      /\ NoItem' = NoItem /\ NoLetter' = NoLetter
  BY <1>2, Frame
<1>4. x \in Items /\ x \in Own(i) /\ queue \in Seq(Items)
  BY <1>1, <1>2 DEF FlowInv, ChannelsTypeOK, Addressed
<1>5. queue' \in Seq(Items) /\ Len(queue') = Len(queue) + 1 /\ Len(queue) \in Nat
  BY <1>2, <1>4
<1>6. /\ held' \in [Nodes -> Items \cup {NoItem}]
      /\ \A j \in Nodes : held'[j] = IF j = i THEN NoItem ELSE held[j]
  BY <1>2 DEF FlowInv, ChannelsTypeOK
<1>7. ChannelsTypeOK' /\ Addressed'
  BY <1>2, <1>3, <1>5, <1>6 DEF FlowInv, ChannelsTypeOK, Addressed
<1>8. ChannelsBounded'
  <2>1. DispatcherCapacity \in Nat
    BY DevTokioAssumption
  <2>2. Len(queue') <= DispatcherCapacity
    BY <1>2, <1>5, <2>1
  <2> QED  BY <1>2, <1>3, <2>2 DEF FlowInv, ChannelsBounded
<1>9. ASSUME NEW l \in Letters
      PROVE  /\ Unsent(l)' + Dispatched(l)' = Unsent(l) + Dispatched(l)
             /\ Received(l)' = Received(l) /\ Sent(l)' = Sent(l)
  <2>1. Received(l)' = Received(l) /\ Sent(l)' = Sent(l)
    BY <1>2, FlowKept
  <2>2. l.from \in Nodes
    BY LetterFacts
  <2>3. Count(queue', Carriers(l)) = Count(queue, Carriers(l)) + One(x, Carriers(l))
    BY <1>2, <1>4, CountAppend
  <2>4. PICK p \in Nat, o \in Nat, q \in Nat, n \in Nat, d \in Nat :
          /\ p = Count(pushing[l.from], Carriers(l)) /\ o = Count(outbox[l.from], Carriers(l))
          /\ q = Count(queue, Carriers(l)) /\ n = pending[l] /\ d = One(delivering, {l})
    BY FlowTypes DEF FlowInv
  <2>5. One(NoItem, Carriers(l)) = 0 /\ One(x, Carriers(l)) \in Nat
    BY NoneCounts DEF One
  <2>6. /\ Unsent(l)' = p + o + One(held'[l.from], Carriers(l))
        /\ Unsent(l) = p + o + One(held[l.from], Carriers(l))
    BY <1>2, <1>3, <2>4 DEF Unsent
  <2>7. /\ Dispatched(l)' = (q + One(x, Carriers(l))) + n + d
        /\ Dispatched(l) = q + n + d
    BY <1>2, <1>3, <2>3, <2>4 DEF Dispatched
  <2>8. CASE l.from = i
    <3>1. held'[l.from] = NoItem /\ held[l.from] = x
      BY <1>1, <1>6, <2>2, <2>8
    <3>2. Unsent(l)' + Dispatched(l)' = Unsent(l) + Dispatched(l)
      BY <2>4, <2>5, <2>6, <2>7, <3>1
    <3> QED  BY <2>1, <3>2
  <2>9. CASE l.from # i
    <3>1. held'[l.from] = held[l.from]
      BY <1>6, <2>2, <2>9
    <3>2. x \notin Carriers(l)
      BY <1>4, <2>9 DEF Own, Carriers
    <3>3. One(x, Carriers(l)) = 0 /\ One(held[l.from], Carriers(l)) \in Nat
      BY <3>2 DEF One
    <3>4. Unsent(l)' + Dispatched(l)' = Unsent(l) + Dispatched(l)
      BY <2>4, <2>6, <2>7, <3>1, <3>3
    <3> QED  BY <2>1, <3>4
  <2> QED  BY <2>8, <2>9
<1>10. Conserved'
  BY <1>2, <1>3, <1>9 DEF FlowInv, Conserved
<1> QED  BY <1>7, <1>8, <1>10 DEF FlowInv

(* The dispatcher takes an item and converts it to letters. *)
LEMMA FetchFlow ==
  ASSUME run \in Runs, FlowInv, Fetch
  PROVE  FlowInv'
<1>1. PICK x : x = Head(queue)
  OBVIOUS
<1>2. /\ UNCHANGED <<run, round, pushing, got, inbox, outbox, held, delivering>>
      /\ queue # <<>> /\ queue' = Tail(queue) /\ dispatcher # "err"
      /\ pending' = [l \in Letters |->
           IF l.from = x.from /\ l.round = x.round /\ l.to \in x.to
             THEN pending[l] + 1 ELSE pending[l]]
  BY <1>1 DEF Fetch, sessionVars
<1>3. /\ Nodes' = Nodes /\ Letters' = Letters /\ Items' = Items
      /\ \A l : Carriers(l)' = Carriers(l) /\ \A j : Own(j)' = Own(j) /\ Mail(j)' = Mail(j)
      /\ NoItem' = NoItem /\ NoLetter' = NoLetter
  BY <1>2, Frame
<1>4. queue \in Seq(Items) /\ pending \in [Letters -> Nat]
  BY DEF FlowInv, ChannelsTypeOK
<1>5. /\ x \in Items /\ queue' \in Seq(Items)
      /\ Len(queue') = Len(queue) - 1 /\ Len(queue) \in Nat
  BY <1>1, <1>2, <1>4
<1>6. /\ pending' \in [Letters -> Nat]
      /\ \A l \in Letters : pending'[l] = pending[l] + One(x, Carriers(l))
  <2>1. ASSUME NEW l \in Letters
        PROVE  /\ pending'[l] = pending[l] + One(x, Carriers(l))
               /\ pending[l] + One(x, Carriers(l)) \in Nat
    <3>1. x \in Carriers(l) <=> l.from = x.from /\ l.round = x.round /\ l.to \in x.to
      BY <1>5 DEF Carriers
    <3>2. pending[l] \in Nat
      BY <1>4
    <3>3. pending'[l] = IF x \in Carriers(l) THEN pending[l] + 1 ELSE pending[l]
      BY <1>2, <3>1
    <3> QED  BY <3>2, <3>3 DEF One
  <2>2. \A l \in Letters : pending'[l] \in Nat
    BY <2>1
  <2> QED  BY <1>2, <2>1, <2>2
<1>7. ChannelsTypeOK' /\ Addressed'
  BY <1>2, <1>3, <1>5, <1>6 DEF FlowInv, ChannelsTypeOK, Addressed
<1>8. ChannelsBounded'
  <2>1. DispatcherCapacity \in Nat /\ Len(queue) <= DispatcherCapacity
    BY DevTokioAssumption DEF FlowInv, ChannelsBounded
  <2>2. Len(queue') <= DispatcherCapacity
    BY <1>5, <2>1
  <2> QED  BY <1>2, <1>3, <2>2 DEF FlowInv, ChannelsBounded
<1>9. ASSUME NEW l \in Letters
      PROVE  /\ Unsent(l)' = Unsent(l) /\ Dispatched(l)' = Dispatched(l)
             /\ Received(l)' = Received(l) /\ Sent(l)' = Sent(l)
  <2>1. Unsent(l)' = Unsent(l) /\ Received(l)' = Received(l) /\ Sent(l)' = Sent(l)
    BY <1>2, FlowKept
  <2>2. Count(queue, Carriers(l)) = Count(queue', Carriers(l)) + One(x, Carriers(l))
    BY <1>1, <1>2, <1>4, CountTail
  <2>3. PICK q \in Nat, n \in Nat, d \in Nat, e \in Nat :
          /\ q = Count(queue', Carriers(l)) /\ n = pending[l] /\ d = One(delivering, {l})
          /\ e = One(x, Carriers(l))
    BY <1>5, FlowTypes, CountType DEF FlowInv, One
  <2>4. /\ Dispatched(l) = (q + e) + n + d
        /\ Dispatched(l)' = q + (n + e) + d
    BY <1>2, <1>3, <1>6, <2>2, <2>3 DEF Dispatched
  <2>5. Dispatched(l)' = Dispatched(l)
    BY <2>3, <2>4
  <2> QED  BY <2>1, <2>5
<1>10. Conserved'
  BY <1>2, <1>3, <1>9 DEF FlowInv, Conserved
<1> QED  BY <1>7, <1>8, <1>10 DEF FlowInv

(* It takes the next letter. *)
LEMMA PickFlow ==
  ASSUME run \in Runs, FlowInv, NEW m \in Letters, Pick(m)
  PROVE  FlowInv'
<1>1. /\ UNCHANGED <<run, round, pushing, got, inbox, outbox, held, queue, dispatcher>>
      /\ delivering = NoLetter /\ pending[m] > 0
      /\ pending' = [pending EXCEPT ![m] = pending[m] - 1] /\ delivering' = m
  BY DEF Pick, sessionVars
<1>2. /\ Nodes' = Nodes /\ Letters' = Letters /\ Items' = Items
      /\ \A l : Carriers(l)' = Carriers(l) /\ \A j : Own(j)' = Own(j) /\ Mail(j)' = Mail(j)
      /\ NoItem' = NoItem /\ NoLetter' = NoLetter
  BY <1>1, Frame
<1>3. pending \in [Letters -> Nat]
  BY DEF FlowInv, ChannelsTypeOK
<1>4. pending[m] - 1 \in Nat
  BY <1>1, <1>3
<1>5. /\ pending' \in [Letters -> Nat]
      /\ \A l \in Letters : pending'[l] = IF l = m THEN pending[m] - 1 ELSE pending[l]
  BY <1>1, <1>3, <1>4
<1>6. ChannelsTypeOK' /\ ChannelsBounded' /\ Addressed'
  BY <1>1, <1>2, <1>5 DEF FlowInv, ChannelsTypeOK, ChannelsBounded, Addressed
<1>7. ASSUME NEW l \in Letters
      PROVE  /\ Unsent(l)' = Unsent(l) /\ Dispatched(l)' = Dispatched(l)
             /\ Received(l)' = Received(l) /\ Sent(l)' = Sent(l)
  <2>1. Unsent(l)' = Unsent(l) /\ Received(l)' = Received(l) /\ Sent(l)' = Sent(l)
    BY <1>1, FlowKept
  <2>2. One(NoLetter, {l}) = 0 /\ One(m, {l}) = IF l = m THEN 1 ELSE 0
    BY NoneCounts DEF One
  <2>3. PICK q \in Nat, n \in Nat : q = Count(queue, Carriers(l)) /\ n = pending[l]
    BY FlowTypes DEF FlowInv
  <2>4. /\ Dispatched(l) = q + n + 0
        /\ Dispatched(l)' = q + pending'[l] + One(m, {l})
    BY <1>1, <1>2, <2>2, <2>3 DEF Dispatched
  <2>5. pending'[l] = IF l = m THEN n - 1 ELSE n
    BY <1>5, <2>3
  <2>6. Dispatched(l)' = Dispatched(l)
    BY <2>2, <2>3, <2>4, <2>5
  <2> QED  BY <2>1, <2>6
<1>8. Conserved'
  BY <1>1, <1>2, <1>7 DEF FlowInv, Conserved
<1> QED  BY <1>6, <1>8 DEF FlowInv

(* It delivers the letter, or fails. *)
LEMMA DeliverFlow ==
  ASSUME run \in Runs, FlowInv, Deliver
  PROVE  FlowInv'
<1>1. PICK m : m = delivering
  OBVIOUS
<1>2. /\ UNCHANGED <<run, round, pushing, got, outbox, held, queue, pending>>
      /\ m # NoLetter /\ delivering' = NoLetter /\ dispatcher = "send"
  BY <1>1 DEF Deliver, sessionVars
<1>3. /\ Nodes' = Nodes /\ Letters' = Letters /\ Items' = Items
      /\ \A l : Carriers(l)' = Carriers(l) /\ \A j : Own(j)' = Own(j) /\ Mail(j)' = Mail(j)
      /\ NoItem' = NoItem /\ NoLetter' = NoLetter
  BY <1>2, Frame
<1>4. m \in Letters /\ m.to \in Nodes
  <2>1. m \in Letters
    BY <1>1, <1>2 DEF FlowInv, ChannelsTypeOK
  <2> QED  BY <2>1, LetterFacts
<1>5. CASE dispatcher' = "err" /\ UNCHANGED inbox
  BY <1>2, <1>3, <1>5 DEF FlowInv, ChannelsTypeOK, ChannelsBounded, Addressed, Conserved
<1>6. CASE /\ Len(inbox[m.to]) < SessionCapacity
           /\ inbox' = [inbox EXCEPT ![m.to] = Append(inbox[m.to], m)]
           /\ dispatcher' = dispatcher
  <2>1. PICK b : b = inbox[m.to]
    OBVIOUS
  <2>2. b \in Seq(Letters) /\ b \in Seq(Mail(m.to)) /\ m \in Mail(m.to)
    BY <1>4, <2>1 DEF FlowInv, ChannelsTypeOK, Addressed, Mail
  <2>3. /\ Append(b, m) \in Seq(Letters) /\ Append(b, m) \in Seq(Mail(m.to))
        /\ Len(Append(b, m)) = Len(b) + 1 /\ Len(b) \in Nat
    BY <1>4, <2>2
  <2>4. /\ inbox' \in [Nodes -> Seq(Letters)]
        /\ \A j \in Nodes : inbox'[j] = IF j = m.to THEN Append(b, m) ELSE inbox[j]
    BY <1>4, <1>6, <2>1, <2>3 DEF FlowInv, ChannelsTypeOK
  <2>5. ChannelsTypeOK' /\ Addressed'
    BY <1>2, <1>3, <2>3, <2>4 DEF FlowInv, ChannelsTypeOK, Addressed
  <2>6. ChannelsBounded'
    <3>1. SessionCapacity \in Nat
      BY DevTokioAssumption
    <3>2. Len(Append(b, m)) <= SessionCapacity
      BY <1>6, <2>1, <2>3, <3>1
    <3> QED  BY <1>2, <1>3, <2>4, <3>2 DEF FlowInv, ChannelsBounded
  <2>7. ASSUME NEW l \in Letters
        PROVE  /\ Unsent(l)' = Unsent(l) /\ Sent(l)' = Sent(l)
               /\ Dispatched(l)' + Received(l)' = Dispatched(l) + Received(l)
               /\ Dispatched(l)' \in Nat /\ Received(l)' \in Nat
    <3>1. Unsent(l)' = Unsent(l) /\ Sent(l)' = Sent(l)
      BY <1>2, FlowKept
    <3>2. One(NoLetter, {l}) = 0 /\ One(m, {l}) \in Nat
      BY NoneCounts DEF One
    <3>3. l.to \in Nodes
      BY LetterFacts
    <3>4. Count(inbox'[l.to], {l}) = Count(inbox[l.to], {l}) + One(m, {l})
      <4>1. CASE l.to = m.to
        <5>1. Count(Append(b, m), {l}) = Count(b, {l}) + One(m, {l})
          BY <1>4, <2>2, CountAppend
        <5>2. inbox'[l.to] = Append(b, m) /\ inbox[l.to] = b
          BY <2>1, <2>4, <3>3, <4>1
        <5> QED  BY <5>1, <5>2
      <4>2. CASE l.to # m.to
        <5>1. One(m, {l}) = 0 /\ inbox'[l.to] = inbox[l.to]
          BY <2>4, <3>3, <4>2 DEF One
        <5>2. Count(inbox[l.to], {l}) \in Nat
          BY FlowTypes DEF FlowInv
        <5> QED  BY <5>1, <5>2
      <4> QED  BY <4>1, <4>2
    <3>5. PICK q \in Nat, n \in Nat, c \in Nat, g \in Nat :
            /\ q = Count(queue, Carriers(l)) /\ n = pending[l]
            /\ c = Count(inbox[l.to], {l}) /\ g = got[l.to][<<l.from, l.round>>]
      BY FlowTypes DEF FlowInv
    <3>6. Dispatched(l) = q + n + One(m, {l}) /\ Dispatched(l)' = q + n + 0
      BY <1>1, <1>2, <1>3, <3>2, <3>5 DEF Dispatched
    <3>7. Received(l) = c + g /\ Received(l)' = (c + One(m, {l})) + g
      BY <1>2, <3>4, <3>5 DEF Received
    <3>8. /\ Dispatched(l)' + Received(l)' = Dispatched(l) + Received(l)
          /\ Dispatched(l)' \in Nat /\ Received(l)' \in Nat
      BY <3>2, <3>5, <3>6, <3>7
    <3> QED  BY <3>1, <3>8
  <2>8. \A l \in Letters : Unsent(l) \in Nat /\ Dispatched(l) \in Nat /\ Received(l) \in Nat
    BY FlowTypes DEF FlowInv
  <2>9. Conserved'
    <3>1. ASSUME NEW l \in Letters, Unsent(l) + Dispatched(l) + Received(l) = Sent(l)
          PROVE  Unsent(l)' + Dispatched(l)' + Received(l)' = Sent(l)'
      BY <2>7, <2>8, <3>1
    <3> QED  BY <1>3, <1>6, <3>1 DEF FlowInv, Conserved
  <2> QED  BY <2>5, <2>6, <2>9 DEF FlowInv
<1>7. QED  BY <1>1, <1>2, <1>5, <1>6 DEF Deliver

(* A forwarding task fails only when the dispatcher has ended. *)
ForwarderErrors ==
  \A i \in Nodes : forwarder[i] = "err" => dispatcher \in Stopped

(* The steps of all tasks and of the caller. *)
LEMMA FlowNext == OkInv /\ FlowInv /\ [Next]_vars => FlowInv'
<1> SUFFICES ASSUME OkInv, FlowInv, [Next]_vars PROVE FlowInv'
  OBVIOUS
<1>1. run \in Runs
  BY DEF OkInv, TasksTypeOK
<1>2. ASSUME NEW i \in Nodes, SessionStep(i) PROVE FlowInv'
  <2>1. CASE Push(i)
    BY <1>1, <2>1, PushFlow
  <2>2. CASE PushError(i) \/ RecvError(i)
    BY <2>2, FlowSame DEF PushError, RecvError, dispatcherVars
  <2>3. CASE Advance(i)
    BY <1>1, <2>3, AdvanceFlow
  <2>4. CASE Recv(i)
    BY <1>1, <2>4, RecvFlow
  <2> QED  BY <1>2, <2>1, <2>2, <2>3, <2>4 DEF SessionStep
<1>3. ASSUME NEW i \in Nodes, ForwarderStep(i) PROVE FlowInv'
  <2>1. CASE Take(i)
    BY <1>1, <2>1, TakeFlow
  <2>2. CASE Forward(i)
    BY <1>1, <2>2, ForwardFlow
  <2>3. CASE ForwardError(i) \/ ForwardEnd(i)
    BY <2>3, FlowSame DEF ForwardError, ForwardEnd, sessionVars, dispatcherVars
  <2> QED  BY <1>3, <2>1, <2>2, <2>3 DEF ForwarderStep
<1>4. ASSUME DispatcherStep PROVE FlowInv'
  <2>1. CASE Fetch
    BY <1>1, <2>1, FetchFlow
  <2>2. CASE DispatcherEnd \/ FetchEnd \/ SendEnd
    BY <2>2, FlowSame DEF DispatcherEnd, FetchEnd, SendEnd, sessionVars
  <2>3. CASE \E l \in Letters : Pick(l)
    BY <1>1, <2>3, PickFlow
  <2>4. CASE Deliver
    BY <1>1, <2>4, DeliverFlow
  <2> QED  BY <1>4, <2>1, <2>2, <2>3, <2>4 DEF DispatcherStep
<1>5. CASE Join
  BY <1>5, FlowSame DEF Join, sessionVars, dispatcherVars
<1>6. CASE UNCHANGED vars
  BY <1>6, FlowSame DEF vars, sessionVars, dispatcherVars
<1> QED  BY <1>2, <1>3, <1>4, <1>5, <1>6 DEF Next

(* The dispatcher stays ended, and only ForwardError lets a forwarding     *)
(* task fail.                                                              *)
LEMMA ErrorsNext == OkInv /\ ForwarderErrors /\ [Next]_vars => ForwarderErrors'
<1> SUFFICES ASSUME OkInv, ForwarderErrors, [Next]_vars PROVE ForwarderErrors'
  OBVIOUS
<1>1. forwarder \in [Nodes -> {"running", "ok", "err"}]
  BY DEF OkInv, TasksTypeOK
<1>2. /\ UNCHANGED run
      /\ dispatcher \in Stopped => dispatcher' = dispatcher
      /\ \A i \in Nodes : forwarder'[i] = "err" => forwarder[i] = "err" \/ dispatcher \in Stopped
  <2>1. ASSUME NEW i \in Nodes, SessionStep(i) PROVE UNCHANGED <<run, forwarder, dispatcher>>
    BY <2>1 DEF SessionStep, Push, PushError, Advance, Recv, RecvError, dispatcherVars
  <2>2. ASSUME NEW i \in Nodes, ForwarderStep(i)
        PROVE  /\ UNCHANGED <<run, dispatcher>>
               /\ \A j \in Nodes : forwarder'[j] = "err" => forwarder[j] = "err" \/ dispatcher \in Stopped
    BY <1>1, <2>2 DEF ForwarderStep, Take, Forward, ForwardError, ForwardEnd, sessionVars,
                      dispatcherVars
  <2>3. ASSUME DispatcherStep PROVE UNCHANGED <<run, forwarder>> /\ dispatcher \notin Stopped
    BY <2>3 DEF DispatcherStep, Fetch, DispatcherEnd, FetchEnd, Pick, Deliver, SendEnd,
                sessionVars, Stopped
  <2>4. ASSUME Join \/ UNCHANGED vars PROVE UNCHANGED <<run, forwarder, dispatcher>>
    BY <2>4 DEF Join, vars, sessionVars, dispatcherVars
  <2> QED  BY <2>1, <2>2, <2>3, <2>4 DEF Next
<1> QED  BY <1>2 DEF ForwarderErrors, Nodes, NodeCount

(* With a dispatcher that has ended, all tasks end. *)
LEMMA EndedAll ==
  ASSUME OkInv, FlowInv, result = "none", dispatcher \in Stopped,
         \A i \in Nodes : SessionBlocked(i) /\ ForwarderBlocked(i)
  PROVE  Handle(joined + 1) \in Stopped
<1>1. ASSUME NEW i \in Nodes PROVE forwarder[i] \in Stopped /\ node[i] \in Stopped
  <2>1. SessionBlocked(i) /\ ForwarderBlocked(i)
    OBVIOUS
  <2>2. OutCapacity \in Nat \ {0}
    BY DevTokioAssumption
  <2>3. \/ forwarder[i] \in Stopped
        \/ outbox[i] = <<>> /\ node[i] = "running"
    BY <2>1 DEF ForwarderBlocked
  <2>4. \/ node[i] \in Stopped
        \/ forwarder[i] = "running" /\ Len(outbox[i]) >= OutCapacity
    BY <2>1 DEF SessionBlocked
  <2>5. outbox[i] = <<>> => ~(Len(outbox[i]) >= OutCapacity)
    BY <2>2
  <2> QED  BY <2>3, <2>4, <2>5 DEF Stopped
<1>2. /\ NodeCount \in Nat \ {0} /\ joined \in 0..(2 * NodeCount)
  BY RunTypes DEF OkInv, TasksTypeOK, JoinedOk
<1>3. CASE joined + 1 <= NodeCount
  <2>1. joined + 1 \in Nodes
    BY <1>2, <1>3 DEF Nodes
  <2> QED  BY <1>1, <1>3, <2>1 DEF Handle
<1>4. CASE joined + 1 > NodeCount /\ joined + 1 <= 2 * NodeCount
  <2>1. (joined + 1) - NodeCount \in Nodes /\ ~(joined + 1 <= NodeCount)
    BY <1>2, <1>4 DEF Nodes
  <2>2. Handle(joined + 1) = forwarder[(joined + 1) - NodeCount]
    BY <1>4, <2>1 DEF Handle
  <2> QED  BY <1>1, <2>1, <2>2
<1>5. CASE joined + 1 > 2 * NodeCount
  <2>1. ~(joined + 1 <= NodeCount) /\ ~(joined + 1 <= 2 * NodeCount)
    BY <1>2, <1>5
  <2> QED  BY <2>1 DEF Handle
<1> QED  BY <1>2, <1>3, <1>4, <1>5

(* A dispatcher that waits for a place. *)
LEMMA SenderBlocked ==
  ASSUME OkInv, FlowInv, dispatcher = "send", DispatcherBlocked,
         \A i \in Nodes : SessionBlocked(i) /\ ForwarderBlocked(i)
  PROVE  CircularWait
<1>1. PICK i : i = delivering.to
  OBVIOUS
<1>2. delivering # NoLetter /\ node[i] = "running" /\ Len(inbox[i]) >= SessionCapacity
  BY <1>1 DEF DispatcherBlocked, Stopped
<1>3. i \in Nodes
  BY <1>1, <1>2, LetterFacts DEF FlowInv, ChannelsTypeOK
<1>4. /\ SessionCapacity \in Nat \ {0} /\ OutCapacity \in Nat \ {0}
      /\ DispatcherCapacity \in Nat \ {0}
  BY DevTokioAssumption
<1>5. /\ inbox[i] \in Seq(Letters) /\ outbox[i] \in Seq(Items) /\ queue \in Seq(Items)
      /\ Len(inbox[i]) <= SessionCapacity /\ Len(outbox[i]) <= OutCapacity
      /\ Len(queue) <= DispatcherCapacity
  BY <1>3 DEF FlowInv, ChannelsTypeOK, ChannelsBounded
<1>6. Len(inbox[i]) \in Nat /\ Len(outbox[i]) \in Nat /\ Len(queue) \in Nat
  BY <1>5
<1>7. inbox[i] # <<>>
  BY <1>2, <1>4
<1>8. pushing[i] # <<>> /\ forwarder[i] = "running" /\ Len(outbox[i]) >= OutCapacity
  <2>1. SessionBlocked(i)
    BY <1>3
  <2> QED  BY <1>2, <1>7, <2>1 DEF SessionBlocked, Stopped
<1>9. outbox[i] # <<>>
  BY <1>4, <1>8
<1>10. Len(queue) >= DispatcherCapacity
  <2>1. ForwarderBlocked(i)
    BY <1>3
  <2> QED  BY <1>8, <1>9, <2>1 DEF ForwarderBlocked, Stopped
<1>11. /\ Len(inbox[i]) = SessionCapacity /\ Len(outbox[i]) = OutCapacity
       /\ Len(queue) = DispatcherCapacity
  BY <1>2, <1>4, <1>5, <1>6, <1>8, <1>10
<1> QED  BY <1>1, <1>2, <1>8, <1>11 DEF CircularWait

(* A session that is running while the dispatcher waits for an item. *)
LEMMA ReceiverBlocked ==
  ASSUME OkInv, FlowInv, dispatcher = "recv", queue = <<>>, NEW i \in Nodes,
         SessionBlocked(i), ForwarderBlocked(i), forwarder[i] = "running"
  PROVE  /\ held[i] = NoItem /\ outbox[i] = <<>> /\ node[i] = "running"
         /\ Waiting(i) /\ ~RoundDone(i) /\ inbox[i] = <<>>
<1>1. DispatcherCapacity \in Nat \ {0} /\ OutCapacity \in Nat \ {0}
  BY DevTokioAssumption
<1>2. ~(Len(queue) >= DispatcherCapacity)
  BY <1>1
<1>3. held[i] = NoItem /\ outbox[i] = <<>> /\ node[i] = "running"
  BY <1>2 DEF ForwarderBlocked, Stopped
<1>4. ~(Len(outbox[i]) >= OutCapacity)
  BY <1>1, <1>3
<1> QED  BY <1>3, <1>4 DEF SessionBlocked, Stopped

(* The least of a set of numbers. *)
LEMMA SmallestMember ==
  ASSUME NEW T, T \subseteq Nat, T # {}
  PROVE  \E x \in T : \A y \in T : x <= y
<1> DEFINE Less == {p \in Nat \X Nat : p[1] < p[2]}
<1>1. IsWellFoundedOn(Less, Nat)
  BY NatLessThanWellFounded DEF OpToRel
<1>2. PICK x \in T : \A y \in T : ~(<<y, x>> \in Less)
  <2> HIDE DEF Less
  <2> QED  BY <1>1, WFMin
<1>3. ASSUME NEW y \in T PROVE x <= y
  <2>1. x \in Nat /\ y \in Nat /\ ~(<<y, x>> \in Less)
    BY <1>2
  <2> QED  BY <2>1
<1> QED  BY <1>3

(* While all sessions are running and nothing is on its way, the one that  *)
(* is behind the others has what it waits for.                             *)
LEMMA LastIsDone ==
  ASSUME OkInv, FlowInv, dispatcher = "recv", queue = <<>>,
         \A i \in Nodes : /\ held[i] = NoItem /\ outbox[i] = <<>> /\ pushing[i] = <<>>
                          /\ inbox[i] = <<>>
  PROVE  \E i \in Nodes : RoundDone(i)
<1>1. run \in Runs
  BY DEF OkInv, TasksTypeOK
<1>2. /\ NodeCount \in Nat \ {0} /\ run.rounds \in Nat /\ run.batch \in Nat
      /\ run.quorum \in Nat /\ run.quorum <= NodeCount - 1
  BY <1>1, RunFacts
<1>3. round \in [Nodes -> 1..run.rounds]
  BY DEF FlowInv, ChannelsTypeOK
<1>4. PICK i \in Nodes : \A j \in Nodes : round[i] <= round[j]
  <2> DEFINE T == {round[j] : j \in Nodes}
  <2>1. 1 \in Nodes
    BY <1>2 DEF Nodes
  <2>2. T \subseteq Nat /\ T # {}
    BY <1>2, <1>3, <2>1
  <2>3. PICK x \in T : \A y \in T : x <= y
    <3> HIDE DEF T
    <3> QED  BY <2>2, SmallestMember
  <2> QED  BY <2>3
<1>5. ASSUME NEW j \in Nodes \ {i} PROVE got[i][<<j, round[i]>>] = run.batch
  <2>1. PICK l : l = [from |-> j, to |-> i, round |-> round[i]]
    OBVIOUS
  <2>2. l \in Letters /\ l.from = j /\ l.to = i /\ l.round = round[i]
    BY <1>3, <2>1 DEF Letters
  <2>3. Unsent(l) + Dispatched(l) + Received(l) = Sent(l)
    BY <2>2 DEF FlowInv, Conserved
  <2>4. One(NoItem, Carriers(l)) = 0 /\ One(NoLetter, {l}) = 0
    BY <1>1, <2>2, NoneCounts DEF One
  <2>5. delivering = NoLetter /\ pending[l] = 0
    BY <2>2 DEF OkInv, DispatcherDone
  <2>6. Unsent(l) = 0
    BY <2>2, <2>4, CountEmpty DEF Unsent
  <2>7. Dispatched(l) = 0
    BY <2>4, <2>5, CountEmpty DEF Dispatched
  <2>8. Received(l) = 0 + got[i][<<j, round[i]>>] /\ got[i][<<j, round[i]>>] \in Nat
    <3>1. got[i][<<j, round[i]>>] \in Nat
      BY <1>1, <2>2, FlowTypes DEF FlowInv
    <3> QED  BY <2>2, <3>1, CountEmpty DEF Received
  <2>9. Sent(l) = run.batch
    BY <1>4, <2>2 DEF Sent
  <2> QED  BY <2>3, <2>6, <2>7, <2>8, <2>9
<1>6. {j \in Nodes \ {i} : got[i][<<j, round[i]>>] = run.batch} = Nodes \ {i}
  BY <1>5
<1>7. Cardinality(Nodes \ {i}) = NodeCount - 1
  <2>1. IsFiniteSet(1..NodeCount) /\ Cardinality(1..NodeCount) = IF 1 > NodeCount THEN 0 ELSE NodeCount - 1 + 1
    BY <1>2, FS_Interval
  <2>2. IsFiniteSet(Nodes) /\ Cardinality(Nodes) = NodeCount
    BY <1>2, <2>1 DEF Nodes
  <2> QED  BY <2>2, FS_RemoveElement
<1>8. RoundDone(i)
  BY <1>2, <1>6, <1>7 DEF RoundDone
<1> QED  BY <1>8

(* There are two ways for the tasks to wait for each other. *)
BlockedExplained == result = "none" /\ Blocked => Starved \/ CircularWait

(* The cases of what the dispatcher waits for. *)
LEMMA BlockedWays == OkInv /\ FlowInv /\ ForwarderErrors => BlockedExplained
<1> SUFFICES ASSUME OkInv, FlowInv, ForwarderErrors, result = "none", Blocked
             PROVE  Starved \/ CircularWait
  BY DEF BlockedExplained
<1>1. /\ \A i \in Nodes : SessionBlocked(i) /\ ForwarderBlocked(i)
      /\ DispatcherBlocked /\ Handle(joined + 1) \notin Stopped
  BY DEF Blocked
<1>2. dispatcher \notin Stopped
  BY <1>1, EndedAll
<1>3. CASE dispatcher = "send"
  BY <1>1, <1>3, SenderBlocked
<1>4. CASE dispatcher # "send"
  <2>1. dispatcher = "recv" /\ queue = <<>> /\ \E i \in Nodes : forwarder[i] = "running"
    BY <1>1, <1>2, <1>4 DEF DispatcherBlocked
  <2>2. ASSUME NEW i \in Nodes, forwarder[i] = "running"
        PROVE  /\ held[i] = NoItem /\ outbox[i] = <<>> /\ node[i] = "running"
               /\ Waiting(i) /\ ~RoundDone(i) /\ inbox[i] = <<>>
    BY <1>1, <2>1, <2>2, ReceiverBlocked
  <2>3. CASE \E i \in Nodes : node[i] \in Stopped
    BY <2>1, <2>2, <2>3 DEF Starved
  <2>4. CASE \A i \in Nodes : node[i] \notin Stopped
    <3>1. ASSUME NEW i \in Nodes PROVE forwarder[i] = "running"
      <4>1. forwarder[i] \in {"running", "ok", "err"}
        BY DEF OkInv, TasksTypeOK
      <4>2. forwarder[i] # "ok"
        BY <2>4 DEF OkInv, ForwardersDone
      <4>3. forwarder[i] # "err"
        BY <1>2 DEF ForwarderErrors
      <4> QED  BY <4>1, <4>2, <4>3
    <3>2. \A i \in Nodes : ~RoundDone(i)
      BY <2>2, <3>1
    <3>3. \A i \in Nodes : /\ held[i] = NoItem /\ outbox[i] = <<>> /\ pushing[i] = <<>>
                           /\ inbox[i] = <<>>
      BY <2>2, <3>1 DEF Waiting
    <3> QED  BY <2>1, <3>2, <3>3, LastIsDone
  <2> QED  BY <2>3, <2>4
<1> QED  BY <1>3, <1>4

(* The invariants hold in all runs. *)
LEMMA FlowInvariance == Spec => [](FlowInv /\ ForwarderErrors)
<1>1. Init => ForwarderErrors
  BY DEF Init, ForwarderErrors
<1> QED  BY <1>1, OkInvariance, FlowInit, FlowNext, ErrorsNext, PTL DEF Spec

(* Of the messages that the sessions have sent each other every copy is in *)
(* exactly one place, between the queue of its sender and the receiver, as *)
(* long as the dispatcher has not failed: the tasks and the channels of    *)
(* run_sessions_async() lose none and deliver none twice.                  *)
THEOREM MessagesConserved == Spec => []Conserved
<1>1. FlowInv => Conserved
  BY DEF FlowInv
<1> QED  BY <1>1, FlowInvariance, PTL

(* When all tasks of run_sessions_async() wait, either a session starves   *)
(* because another one has ended, or the dispatcher waits for a session    *)
(* that waits for the dispatcher; channels that are not full never make    *)
(* the tasks wait for each other.                                          *)
THEOREM HangsHaveTwoCauses == Spec => []BlockedExplained
BY OkInvariance, FlowInvariance, BlockedWays, PTL
=============================================================================
