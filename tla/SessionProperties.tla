------------------------- MODULE SessionProperties -------------------------
(***************************************************************************)
(* What a session guarantees, and the invariants it rests on.              *)
(***************************************************************************)
EXTENDS Session

Evidence ==
  [guilty : Int, kind : EvidenceKinds, tag : Tags \cup Names,
   values : SUBSET VerifiedValues]

Reports ==
  [kind : {"InvalidMessage", "DuplicateMessages"}, first : Nat, second : Nat]

StorageTypeOK ==
  /\ scalars \subseteq ScalarTags
  /\ elems \subseteq ElementTags \X Parties
  /\ verified \subseteq VerifiedValues

RulesetTypeOK ==
  /\ scalarWait \in [OnceRules \cup ElementRules -> SUBSET ScalarTags]
  /\ elemWait \in [Slots -> SUBSET MappingTags]
  /\ rules \subseteq OnceRules
  /\ slots \subseteq Slots
  /\ got \in [CollectRules -> SUBSET Parties]
  /\ banned \subseteq Parties

TaskTypeOK ==
  /\ preprocessTasks \subseteq VerifiedValues
  /\ scalarTasks \subseteq OnceRules
  /\ elemTasks \subseteq Slots
  /\ sources \in [CollectRules -> SUBSET Parties]
  /\ sides \in [Merges \cup Forks -> SUBSET Sides]

ErrorTypeOK ==
  /\ provable \subseteq Evidence
  /\ attributable \subseteq Parties
  /\ external \subseteq Parties
  /\ reports \subseteq Reports

(* The type invariant: in particular no element and no ban is ever         *)
(* recorded for someone who is not a participant.                          *)
TypeOK ==
  /\ StorageTypeOK
  /\ RulesetTypeOK
  /\ preprocessing \in Seq(VerifiedValues)
  /\ received \in 0..MaxReceived
  /\ TaskTypeOK
  /\ ErrorTypeOK
  /\ status \in Statuses

-----------------------------------------------------------------------------
(* The session never raises a RuntimeError of its own: make_task() finds   *)
(* all arguments of a popped action in storage, no slot is stored twice,   *)
(* collect_evidence() finds every message of a failed computation, and the *)
(* output of a session that reached it can be read.                        *)
NoRuntimeError == status # "RuntimeError"

(* The conditions kept by the rules are exactly what storage lacks, in     *)
(* whatever order slots were filled: no update_with_scalar_ready() or      *)
(* update_with_element_ready() is lost or comes too early.                 *)
ScalarWaitsExact ==
  /\ \A t \in (OnceRules \cup ElementRules) \ Merges :
       scalarWait[t] = ScalarNeeds(t) \ scalars
  /\ \A t \in Merges :
       scalarWait[t] = IF ScalarNeeds(t) \cap scalars = {} THEN ScalarNeeds(t)
                                                          ELSE {}

ElementWaitsExact ==
  \A s \in Slots :
    elemWait[s] = {a \in ElementNeeds(s[1]) : <<a, s[2]>> \notin elems}

WaitsExact == ScalarWaitsExact /\ ElementWaitsExact

(* A collect rule that is not fired yet has counted exactly the parties    *)
(* with a stored element, except some of the banned ones.                  *)
GotExact ==
  \A c \in CollectRules \cap rules :
    LET stored == {id \in Parties : <<Values(c), id>> \in elems}
    IN  got[c] \subseteq stored /\ stored \ got[c] \subseteq banned

(* A collect task captured a quorum of stored elements, and keeps it until *)
(* its result is stored, whoever is banned meanwhile.                      *)
CollectSound ==
  \A c \in CollectRules \cap (scalarTasks \cup scalars) :
    /\ HasQuorum(c, sources[c])
    /\ \A id \in sources[c] : <<Values(c), id>> \in elems

(* While the session goes on, every collect that has not fired can still   *)
(* get a quorum from the parties that are not banned.                      *)
CollectsPossible == InProgress => ImpossibleCollects(banned) = {}

(* Every ban has a recorded reason, and every recorded failure is a ban.   *)
BansAccounted ==
  banned = {e.guilty : e \in provable} \cup attributable \cup external

-----------------------------------------------------------------------------
(* The inductive invariant behind NoRuntimeError.  A rule or slot is       *)
(* waiting, has a task, or is done; an element that was popped has all its *)
(* inputs, and so has every element it was computed from.                  *)
OncePerSlot ==
  /\ rules \cap (scalarTasks \cup scalars) = {}
  /\ scalarTasks \cap scalars = {}
  /\ slots \cap (elemTasks \cup elems) = {}
  /\ elemTasks \cap elems = {}

ComputedFromSlots == \A e \in elems : e[1] \in ElementRules => e \in Slots

PoppedComplete == \A s \in Slots \ slots : elemWait[s] = {}

GotStored ==
  \A c \in CollectRules : \A id \in got[c] : <<Values(c), id>> \in elems

OutputStored == status = "ReachedOutput" => Output \in scalars

IndInv ==
  /\ TypeOK
  /\ WaitsExact
  /\ OncePerSlot
  /\ ComputedFromSlots
  /\ PoppedComplete
  /\ GotStored
  /\ OutputStored
  /\ NoRuntimeError

-----------------------------------------------------------------------------
(* Preprocessing tasks of the same party run concurrently, yet each remote *)
(* slot holds one verified value, and it is stored exactly when its        *)
(* element is.                                                             *)
OneValuePerSlot ==
  /\ {RemoteSlot(v) : v \in verified} = {e \in elems : e[1] \in Names}
  /\ \A v, w \in verified : RemoteSlot(v) = RemoteSlot(w) => v = w

(* A value that carries the guilty party's valid signature. *)
SignedBy(p, values) ==
  \A v \in values : v.value.source = p /\ v.value.signature /\ v.value.session

(* Provable errors are backed by values the guilty party signed: two       *)
(* different ones under one name, or one for each message that the failed  *)
(* computation has to be reproduced from.                                  *)
EvidenceSound ==
  \A e \in provable :
    /\ SignedBy(e.guilty, e.values)
    /\ e.kind = "ConflictingMessages" =>
         \E v, w \in e.values : RemoteSlot(v) = RemoteSlot(w) /\ ~SameContent(v, w)
    /\ e.kind \in {"SenderError", "SenderErrorWithReveal"} =>
         {v.value.name : v \in e.values} = MessagesOf[e.tag]

(* The values that party p signs for this session and this participant. *)
SignedFor(p) ==
  {v \in UNION {SeqRange(msg) : msg \in Message} :
     /\ v.source = p
     /\ v.session
     /\ v.signature
     /\ v.destination \in {None, Me}}

(* A correct party signs one value per name, well-formed, of the kind      *)
(* (direct or broadcast) and by a sender that the graph expects.           *)
Correct(p) ==
  /\ \A v, w \in SignedFor(p) :
       v.name = w.name => v.destination = w.destination /\ v.payload = w.payload
  /\ \A d \in OfKind({"DeserializeAndCheck"}), v \in SignedFor(p) :
       v.name = Node[d].args[1] =>
         /\ (v.destination # None) = Node[d].direct
         /\ p \in PossibleIds[v.name]
         /\ v.payload \notin Malformed

(* However its messages are duplicated, reordered or mixed with others', a *)
(* correct party is only ever blamed by a protocol function that failed.   *)
CorrectNotBlamed ==
  /\ \A e \in provable : Correct(e.guilty) => e.tag \in MayFail
  /\ \A p \in attributable : Correct(p) => Escalated \cap MayFail # {}

-----------------------------------------------------------------------------
(* Progress.  A runner keeps asking for tasks and keeps applying results:  *)
(* run_session() and par_run_session() leave their loops only when the     *)
(* session ends.  No order between tasks is assumed.                       *)
Fairness == WF_vars(MakeTask) /\ WF_vars(ApplyResult)

FairSpec == Spec /\ Fairness

ScalarReady(t) ==
  IF t \in Merges THEN ScalarNeeds(t) \cap scalars # {}
                  ELSE ScalarNeeds(t) \subseteq scalars

QuorumReady(c) ==
  HasQuorum(c, {id \in Parties \ banned : <<Values(c), id>> \in elems})

ElementReady(s) ==
  /\ ScalarNeeds(s[1]) \subseteq scalars
  /\ \A a \in ElementNeeds(s[1]) : <<a, s[2]>> \in elems

(* Once the last message has been received, every node whose inputs are    *)
(* stored gets its task made and its result applied, unless the session    *)
(* stops: no condition stays unsatisfied by mistake, and pop_action()      *)
(* passes no kind of rule over for ever.                                   *)
NothingReady ==
  /\ \A t \in ScalarRules \cup SendBCRules :
       t \in rules \cup scalarTasks => ~ScalarReady(t)
  /\ \A c \in CollectRules :
       c \in rules \cup scalarTasks => ~(ScalarReady(c) /\ QuorumReady(c))
  /\ \A s \in Slots : s \in slots \cup elemTasks => ~ElementReady(s)

ReadyNodesComputed == <>[](InProgress => NothingReady)

(* A merge of the two branches of a fork is reached whichever branch the   *)
(* fork takes, although the other one never stores a value.                *)
ForksRejoin ==
  \A m \in Merges, f \in Forks :
    (\A a \in ArgTags(m) : ArgTags(a) = {f}) =>
      (f \in scalars ~> (m \in scalars \/ ~InProgress))

(* The session implements the data flow; a captured quorum becomes visible *)
(* when the result of the collect is stored.                               *)
Flow == INSTANCE Dataflow
          WITH collected <- [c \in CollectRules |->
                               IF c \in scalars THEN sources[c] ELSE {}]

ImplementsDataflow == Flow!Spec

-----------------------------------------------------------------------------
(* ban_party(): "all of its messages and values calculated from them being *)
(* discarded, and new messages ignored": a collect that is made after a    *)
(* ban does not contain the banned party.                                  *)
BanDiscardsValues ==
  [][\A c \in CollectRules : c \in scalarTasks' \ scalarTasks =>
       sources'[c] \cap banned = {}]_vars
=============================================================================
