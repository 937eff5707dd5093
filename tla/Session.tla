------------------------------ MODULE Session ------------------------------
(***************************************************************************)
(* A session (execution/session.rs) driven by its user.  The user asks for *)
(* tasks with make_task() and hands their results back with with_update(), *)
(* in any order: a runner may execute one task at a time or keep all of    *)
(* them running in parallel.  Received messages and bans decided by the    *)
(* user arrive as updates too, at any time.                                *)
(*                                                                         *)
(* A task works on the values captured when it was made and its result     *)
(* depends on nothing else, so executing it and applying its result is one *)
(* action here.  The captured value of a collect is the set of parties in  *)
(* sources[c]; that of a merge, and the result of a fork, is the set of    *)
(* alternatives in sides[t].  Other values are opaque.                     *)
(*                                                                         *)
(* The functions of the nodes in MayFail may fail with the errors of their *)
(* kind; RuntimeErrors returned by user functions are not modelled, those  *)
(* raised by the session are.                                              *)
(***************************************************************************)
EXTENDS Storage, Ruleset

CONSTANTS
  Message,      \* the messages that may be received: sequences of signed values
  MaxReceived,  \* bound on the number of received messages
  MayFail,      \* the computations whose functions may return an error
  Bannable,     \* the parties the user may ban
  Escalated,    \* the mapping nodes with OnError::Escalate
  MessagesOf    \* node -> names of the messages in the evidence of its failure

VARIABLES
  preprocessing,    \* received values without a task yet, a stack
  received,         \* number of messages received so far
  preprocessTasks, scalarTasks, elemTasks,      \* tasks made, not applied yet
  sources, sides,                               \* captured values
  provable, attributable, external,             \* recorded failures of parties
  reports,                                      \* message-attributable errors
  status

taskVars == <<preprocessTasks, scalarTasks, elemTasks, sources, sides>>
errorVars == <<provable, attributable, external, reports>>
vars == <<storageVars, rulesetVars, preprocessing, received, taskVars,
          errorVars, status>>

ASSUME MessageAssumption ==
  /\ Message \subseteq Seq(SignedValues)
  /\ MaxReceived \in Nat
  /\ Bannable \subseteq Parties

(* The received messages of the same party that an element of m is         *)
(* calculated from: those in every set of mapping nodes that contains m    *)
(* and the mapping arguments of its members.                               *)
Upstream(m) ==
  {r \in Receives : \A S \in SUBSET MappingTags :
     (m \in S /\ \A x \in S : ElementNeeds(x) \subseteq S) => r \in S}

(* Evidence needs messages of the failed element's own party only: a       *)
(* collect of received elements makes a node not reproducible.             *)
ASSUME EvidenceAssumption ==
  /\ MessagesOf \in [OfKind({"ComputeMapping", "DeserializeAndCheck"}) ->
                        SUBSET Receives]
  /\ \A m \in DOMAIN MessagesOf \ Escalated : MessagesOf[m] \subseteq Upstream(m)

EvidenceKinds == {"ConflictingMessages", "SenderError", "SenderErrorWithReveal",
                  "ThirdPartyError"}

Statuses == {"InProgress", "ReachedOutput", "Success", "Unfinishable",
             "SpuriousError", "ManuallyTerminated", "RuntimeError"}

InProgress == status = "InProgress"

Init ==
  /\ StorageInit
  /\ RulesetInit
  /\ preprocessing = <<>>
  /\ received = 0
  /\ preprocessTasks = {}
  /\ scalarTasks = {}
  /\ elemTasks = {}
  /\ sources = [c \in CollectRules |-> {}]
  /\ sides = [t \in Merges \cup Forks |-> {}]
  /\ provable = {}
  /\ attributable = {}
  /\ external = {}
  /\ reports = {}
  /\ status = "InProgress"

-----------------------------------------------------------------------------
(* make_task(): a preprocessing task if there is one, or else the action   *)
(* popped from the ruleset; its arguments are read from storage, and a     *)
(* value that is missing there is a RuntimeError.                          *)

MakePreprocessTask ==
  /\ InProgress
  /\ preprocessing # <<>>
  /\ preprocessTasks' = preprocessTasks \cup {preprocessing[Len(preprocessing)]}
  /\ preprocessing' = SubSeq(preprocessing, 1, Len(preprocessing) - 1)
  /\ UNCHANGED <<storageVars, rulesetVars, received, scalarTasks, elemTasks,
                 sources, sides, errorVars, status>>

(* What is the same for every task made from a popped action. *)
FromAction(stored) ==
  /\ InProgress
  /\ preprocessing = <<>>
  /\ status' = IF stored THEN status ELSE "RuntimeError"
  /\ UNCHANGED <<storageVars, preprocessing, received, preprocessTasks, errorVars>>

MakeComputeScalarTask(t) ==
  /\ t \notin Merges
  /\ CanPopScalar(t)
  /\ FromAction(ScalarArgsStored(t))
  /\ RemoveRule(t)
  /\ scalarTasks' = scalarTasks \cup {t}
  /\ UNCHANGED <<elemTasks, sources, sides>>

MakeMergeScalarsTask(t) ==
  /\ t \in Merges
  /\ CanPopScalar(t)
  /\ FromAction(StoredSides(t) # {})
  /\ RemoveRule(t)
  /\ scalarTasks' = scalarTasks \cup {t}
  /\ sides' = [sides EXCEPT ![t] = StoredSides(t)]
  /\ UNCHANGED <<elemTasks, sources>>

MakeCollectTask(c) ==
  /\ CanPopCollect(c)
  /\ FromAction(MappingStored(Values(c), got[c]))
  /\ RemoveRule(c)
  /\ scalarTasks' = scalarTasks \cup {c}
  /\ sources' = [sources EXCEPT ![c] = got[c]]
  /\ UNCHANGED <<elemTasks, sides>>

MakeElementTask(s) ==
  /\ CanPopMapping(s)
  /\ FromAction(ElementArgsStored(s[1], s[2]))
  /\ RemoveSlot(s)
  /\ elemTasks' = elemTasks \cup {s}
  /\ UNCHANGED <<scalarTasks, sources, sides>>

MakeSendBCTask(t) ==
  /\ CanPopSendBC(t)
  /\ FromAction(ScalarArgsStored(t))
  /\ RemoveRule(t)
  /\ scalarTasks' = scalarTasks \cup {t}
  /\ UNCHANGED <<elemTasks, sources, sides>>

MakeSendDMTask(s) ==
  /\ CanPopSendDM(s)
  /\ FromAction(ElementArgsStored(s[1], s[2]))
  /\ RemoveSlot(s)
  /\ elemTasks' = elemTasks \cup {s}
  /\ UNCHANGED <<scalarTasks, sources, sides>>

MakeTask ==
  \/ MakePreprocessTask
  \/ \E t \in ScalarRules : MakeComputeScalarTask(t)
  \/ \E t \in ScalarRules : MakeMergeScalarsTask(t)
  \/ \E c \in CollectRules : MakeCollectTask(c)
  \/ \E s \in Slots : MakeElementTask(s)
  \/ \E t \in SendBCRules : MakeSendBCTask(t)
  \/ \E s \in Slots : MakeSendDMTask(s)

-----------------------------------------------------------------------------
(* with_update(): the results of the tasks. *)

(* add_scalar(): storing a slot twice is a RuntimeError. *)
AddScalar(t) ==
  /\ InProgress
  /\ t \in scalarTasks
  /\ scalarTasks' = scalarTasks \ {t}
  /\ IF t \in scalars
       THEN /\ status' = "RuntimeError"
            /\ UNCHANGED <<scalars, rulesetVars>>
       ELSE /\ scalars' = scalars \cup {t}
            /\ UpdateWithScalarReady(t)
            /\ status' = IF t = Output THEN "ReachedOutput" ELSE status
  /\ UNCHANGED <<elems, verified, preprocessing, received, preprocessTasks,
                 elemTasks, sources, errorVars>>

(* Mutation: both branches look at the left one. *)
BranchTakenLeft(t) ==
  IF Node[t].function \in {"ForkLeft", "ForkRight"}
    THEN "left" \in sides[Node[t].args[1]] ELSE TRUE

(* The branch of its fork that a fork_left or fork_right node returns. *)
BranchTaken(t) ==
  CASE Node[t].function = "ForkLeft"  -> "left" \in sides[Node[t].args[1]]
    [] Node[t].function = "ForkRight" -> "right" \in sides[Node[t].args[1]]
    [] OTHER -> TRUE

ComputedScalar(t) ==
  /\ t \notin Merges \cup Forks
  /\ BranchTaken(t)
  /\ AddScalar(t)
  /\ UNCHANGED sides

ComputedFork(t, result) ==
  /\ AddScalar(t)
  /\ sides' = [sides EXCEPT ![t] = result]

MergedScalars(t) == AddScalar(t) /\ UNCHANGED sides

Collected(c) == AddScalar(c) /\ UNCHANGED sides

SentBC(t) == AddScalar(t) /\ UNCHANGED sides

(* The optional function of a branch that was not taken returns None. *)
NoActionNeeded(t) ==
  /\ InProgress
  /\ t \in scalarTasks \ (Merges \cup Forks)
  /\ ~BranchTaken(t)
  /\ scalarTasks' = scalarTasks \ {t}
  /\ UNCHANGED <<storageVars, rulesetVars, preprocessing, received,
                 preprocessTasks, elemTasks, sources, sides, errorVars, status>>

(* set_elem() and update_with_element_ready(), for one task's element. *)
AddElement(s) ==
  /\ InProgress
  /\ s \in elemTasks
  /\ elemTasks' = elemTasks \ {s}
  /\ IF s \in elems
       THEN /\ status' = "RuntimeError"
            /\ UNCHANGED <<elems, rulesetVars>>
       ELSE /\ elems' = elems \cup {s}
            /\ UpdateWithElementReady(s[1], s[2])
            /\ UNCHANGED status
  /\ UNCHANGED <<scalars, verified, preprocessing, received, preprocessTasks,
                 scalarTasks, sources, sides, errorVars>>

(* default_deserialize() accepts the stored value: the destination is of   *)
(* the expected variant, the sender is expected, the payload deserializes. *)
Deserializes(s) ==
  \E v \in StoredValues({Node[s[1]].args[1]}, s[2]) :
    /\ (v.value.destination # None) = Node[s[1]].direct
    /\ v.value.source \in PossibleIds[Node[s[1]].args[1]]
    /\ v.value.payload \notin Malformed

ComputedMappingElement(s) ==
  /\ s[1] \in MappingRules
  /\ Node[s[1]].kind = "DeserializeAndCheck" => Deserializes(s)
  /\ AddElement(s)

SentDM(s) == s[1] \in SendDMRules /\ AddElement(s)

-----------------------------------------------------------------------------
(* with_update(): failures. *)

SpuriousFunctions == {"Unattributable", "UnattributableWithRng", "Fork"}

SenderFunctions == {"SenderAttributable", "SenderAttributableWithReveal"}

Fails(t, functions) == t \in MayFail /\ Node[t].function \in functions

(* The session ends with a report that names the failed node. *)
SpuriousError ==
  /\ InProgress
  /\ \/ \E t \in scalarTasks : Fails(t, SpuriousFunctions)
     \/ \E s \in elemTasks : Fails(s[1], SpuriousFunctions)
  /\ status' = "SpuriousError"
  /\ UNCHANGED <<storageVars, rulesetVars, preprocessing, received, taskVars,
                 errorVars>>

(* Mutation: the collects are checked before the party is banned. *)
BanPartyAfterCheck(p) ==
  /\ UpdateWithBannedParty(p)
  /\ status' = IF ImpossibleCollects(banned) # {} THEN "Unfinishable" ELSE status

(* The ruleset's part of registering a failure, and the resulting state. *)
BanParty(p) ==
  /\ UpdateWithBannedParty(p)
  /\ status' = IF ImpossibleCollects(banned \cup {p}) # {} THEN "Unfinishable"
                                                          ELSE status

(* Mutation: only the last provable error is kept. *)
RegisterLastProvableError(p, kind, tag, values) ==
  /\ BanParty(p)
  /\ provable' = {[guilty |-> p, kind |-> kind, tag |-> tag, values |-> values]}
  /\ UNCHANGED <<attributable, external, reports>>

(* register_provable_error(): a later error replaces the earlier one. *)
RegisterProvableError(p, kind, tag, values) ==
  /\ BanParty(p)
  /\ provable' = {e \in provable : e.guilty # p} \cup
                   {[guilty |-> p, kind |-> kind, tag |-> tag, values |-> values]}
  /\ UNCHANGED <<attributable, external, reports>>

RegisterAttributableError(p) ==
  /\ BanParty(p)
  /\ attributable' = attributable \cup {p}
  /\ UNCHANGED <<provable, external, reports>>

SenderErrorKind(m) ==
  IF Node[m].function = "SenderAttributableWithReveal"
    THEN "SenderErrorWithReveal" ELSE "SenderError"

(* Mutation: every failure is reported as provable. *)
NeverEscalates(m) == FALSE

(* OnError::Escalate: the failure cannot be reproduced by others. *)
Escalates(m) == m \in Escalated

(* A sender-attributable failure of the element s of its party: escalated, *)
(* or recorded with the party's signed messages as evidence; a message     *)
(* that is not in storage is a RuntimeError (collect_evidence).            *)
SenderError(s) ==
  /\ InProgress
  /\ s \in elemTasks
  /\ \/ Fails(s[1], SenderFunctions)
     \/ Node[s[1]].kind = "DeserializeAndCheck" /\ ~Deserializes(s)
  /\ elemTasks' = elemTasks \ {s}
  /\ IF Escalates(s[1]) THEN RegisterAttributableError(s[2])
     ELSE IF \E n \in MessagesOf[s[1]] : <<n, s[2]>> \notin elems
       THEN /\ status' = "RuntimeError"
            /\ UNCHANGED <<rulesetVars, errorVars>>
     ELSE RegisterProvableError(s[2], SenderErrorKind(s[1]), s[1],
                                StoredValues(MessagesOf[s[1]], s[2]))
  /\ UNCHANGED <<storageVars, preprocessing, received, preprocessTasks,
                 scalarTasks, sources, sides>>

ThirdPartyErrorScalar(t, p) ==
  /\ InProgress
  /\ t \in scalarTasks
  /\ Fails(t, {"ThirdPartyAttributable"})
  /\ scalarTasks' = scalarTasks \ {t}
  /\ RegisterProvableError(p, "ThirdPartyError", t, {})
  /\ UNCHANGED <<storageVars, preprocessing, received, preprocessTasks,
                 elemTasks, sources, sides>>

ThirdPartyErrorElement(s, p) ==
  /\ InProgress
  /\ s \in elemTasks
  /\ Fails(s[1], {"ThirdPartyAttributable"})
  /\ elemTasks' = elemTasks \ {s}
  /\ RegisterProvableError(p, "ThirdPartyError", s[1], {})
  /\ UNCHANGED <<storageVars, preprocessing, received, preprocessTasks,
                 scalarTasks, sources, sides>>

-----------------------------------------------------------------------------
(* Updates from the user: received messages and bans. *)

Receive(msg) ==
  /\ InProgress
  /\ received < MaxReceived
  /\ received' = received + 1
  /\ preprocessing' = preprocessing \o
       [k \in 1..Len(msg) |-> [value |-> msg[k], mid |-> received + 1, part |-> k]]
  /\ UNCHANGED <<storageVars, rulesetVars, taskVars, errorVars, status>>

ExternalBan(p) ==
  /\ InProgress
  /\ BanParty(p)
  /\ external' = external \cup {p}
  /\ UNCHANGED <<storageVars, preprocessing, received, taskVars, provable,
                 attributable, reports>>

(* Mutation: the source need not be a participant. *)
PassesPreprocessingFromAnyone(v) ==
  /\ v.value.destination \in {None, Me}
  /\ v.value.session
  /\ v.value.signature

(* The checks of PreprocessMessageTask::execute(). *)
PassesPreprocessing(v) ==
  /\ v.value.source \in Parties
  /\ v.value.destination \in {None, Me}
  /\ v.value.session
  /\ v.value.signature

PreprocessDone(v) ==
  /\ InProgress
  /\ v \in preprocessTasks
  /\ preprocessTasks' = preprocessTasks \ {v}
  /\ UNCHANGED <<scalars, preprocessing, received, scalarTasks, elemTasks,
                 sources, sides>>

MessageError(v) ==
  /\ ~PassesPreprocessing(v)
  /\ PreprocessDone(v)
  /\ reports' = reports \cup
       {[kind |-> "InvalidMessage", first |-> v.mid, second |-> v.mid]}
  /\ UNCHANGED <<elems, verified, rulesetVars, provable, attributable, external,
                 status>>

(* Mutation: the slot may hold a value already. *)
StoreVerifiedValueAgain(v) ==
  /\ PassesPreprocessing(v)
  /\ PreprocessDone(v)
  /\ elems' = elems \cup {RemoteSlot(v)}
  /\ verified' = verified \cup {v}
  /\ UpdateWithElementReady(v.value.name, v.value.source)
  /\ UNCHANGED <<errorVars, status>>

(* try_add_verified_value(): the slot is free. *)
StoreVerifiedValue(v) ==
  /\ PassesPreprocessing(v)
  /\ RemoteSlot(v) \notin elems
  /\ PreprocessDone(v)
  /\ elems' = elems \cup {RemoteSlot(v)}
  /\ verified' = verified \cup {v}
  /\ UpdateWithElementReady(v.value.name, v.value.source)
  /\ UNCHANGED <<errorVars, status>>

(* Mutation: the ids of the messages that delivered the values count too. *)
SameDelivery(v, w) == v = w

(* The stored value of the slot is the same signed value, except for the   *)
(* signature and the message that delivered it.                            *)
SameContent(v, w) ==
  /\ v.value.destination = w.value.destination
  /\ v.value.payload = w.value.payload

(* Mutation: the evidence repeats the stored value. *)
ConflictingMessagesStoredTwice(v, existing) ==
  /\ PassesPreprocessing(v)
  /\ existing \in StoredValues({v.value.name}, v.value.source)
  /\ ~SameContent(existing, v)
  /\ PreprocessDone(v)
  /\ RegisterProvableError(v.value.source, "ConflictingMessages", v.value.name,
                           {existing})
  /\ UNCHANGED <<elems, verified>>

(* Another value is stored under this name. *)
ConflictingMessages(v, existing) ==
  /\ PassesPreprocessing(v)
  /\ existing \in StoredValues({v.value.name}, v.value.source)
  /\ ~SameContent(existing, v)
  /\ PreprocessDone(v)
  /\ RegisterProvableError(v.value.source, "ConflictingMessages", v.value.name,
                           {existing, v})
  /\ UNCHANGED <<elems, verified>>

(* The same value is stored: the report names the stored message twice. *)
DuplicateMessages(v, existing) ==
  /\ PassesPreprocessing(v)
  /\ existing \in StoredValues({v.value.name}, v.value.source)
  /\ SameContent(existing, v)
  /\ PreprocessDone(v)
  /\ reports' = reports \cup
       {[kind |-> "DuplicateMessages", first |-> existing.mid,
         second |-> existing.mid]}
  /\ UNCHANGED <<elems, verified, rulesetVars, provable, attributable, external,
                 status>>

-----------------------------------------------------------------------------
(* What the user may do with the session itself. *)

Close(from, to) ==
  /\ status = from
  /\ status' = to
  /\ UNCHANGED <<storageVars, rulesetVars, preprocessing, received, taskVars,
                 errorVars>>

(* ReachedOutputSession::finalize(): the output is read from storage. *)
Finalize ==
  Close("ReachedOutput", IF Output \in scalars THEN "Success" ELSE "RuntimeError")

ContinueExecution == Close("ReachedOutput", "InProgress")

Terminate == Close("InProgress", "ManuallyTerminated")

-----------------------------------------------------------------------------
(* Applying the result of a task that has been made. *)
ApplyResult ==
  \/ \E t \in ScalarRules : ComputedScalar(t)
  \/ \E t \in Forks, r \in SUBSET Sides \ {{}} : ComputedFork(t, r)
  \/ \E t \in Merges : MergedScalars(t)
  \/ \E c \in CollectRules : Collected(c)
  \/ \E t \in SendBCRules : SentBC(t)
  \/ \E t \in ScalarRules : NoActionNeeded(t)
  \/ \E s \in Slots : ComputedMappingElement(s)
  \/ \E s \in Slots : SentDM(s)
  \/ SpuriousError
  \/ \E s \in Slots : SenderError(s)
  \/ \E t \in ScalarRules, p \in Parties : ThirdPartyErrorScalar(t, p)
  \/ \E s \in Slots, p \in Parties : ThirdPartyErrorElement(s, p)
  \/ \E v \in preprocessTasks : MessageError(v)
  \/ \E v \in preprocessTasks : StoreVerifiedValue(v)
  \/ \E v \in preprocessTasks, e \in verified : ConflictingMessages(v, e)
  \/ \E v \in preprocessTasks, e \in verified : DuplicateMessages(v, e)

Next ==
  \/ MakeTask
  \/ ApplyResult
  \/ \E msg \in Message : Receive(msg)
  \/ \E p \in Bannable : ExternalBan(p)
  \/ Finalize
  \/ ContinueExecution
  \/ Terminate

Spec == Init /\ [][Next]_vars
=============================================================================
