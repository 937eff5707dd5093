--------------------------- MODULE SessionProofs ---------------------------
(***************************************************************************)
(* Proofs about a session, for every graph, set of parties and messages.   *)
(***************************************************************************)
EXTENDS SessionProperties, TLAPS, FiniteSetTheorems

(* The kinds of nodes split the tags into scalars and mappings, and the    *)
(* rules into groups.                                                      *)
LEMMA KindsOfTags ==
  /\ ScalarTags \cup MappingTags = Tags
  /\ ScalarTags \cap MappingTags = {}
  /\ OnceRules \subseteq ScalarTags
  /\ OnceRules \cap Arguments = {}
  /\ Arguments \subseteq ScalarTags
  /\ ElementRules \subseteq MappingTags
  /\ Receives \subseteq MappingTags
  /\ MappingTags = ElementRules \cup Receives
  /\ ElementRules \cap Receives = {}
  /\ Merges \subseteq ScalarRules
  /\ Forks \subseteq ScalarRules
  /\ Merges \cap Forks = {}
  /\ ScalarRules \cap CollectRules = {}
  /\ ScalarRules \cap SendBCRules = {}
  /\ SendBCRules \cap CollectRules = {}
  /\ Output \in ScalarRules
BY NodeAssumption, OutputAssumption
   DEF ScalarTags, MappingTags, Tags, OnceRules, ScalarRules, CollectRules,
       SendBCRules, Arguments, ElementRules, MappingRules, SendDMRules, Receives,
       Merges, Forks, OfKind, ScalarKinds, MappingKinds

(* Only scalar nodes are scalar needs, only mapping nodes element needs. *)
LEMMA NeedsTypes ==
  /\ \A t \in Tags : ScalarNeeds(t) \subseteq ScalarTags
  /\ \A t \in Tags : ElementNeeds(t) \subseteq MappingTags
<1>1. Dependencies \subseteq ScalarTags
  BY DEF Dependencies, ScalarTags, OfKind, ScalarKinds
<1> QED  BY <1>1, NodeAssumption DEF ScalarNeeds, ElementNeeds

(* Slots are pairs of a computed mapping node and a party. *)
LEMMA SlotTypes ==
  \A s \in Slots : /\ s[1] \in ElementRules
                   /\ s[2] \in Parties
                   /\ s = <<s[1], s[2]>>
                   /\ s \in ElementTags \X Parties
BY KindsOfTags DEF Slots, ElementTags

-----------------------------------------------------------------------------
(* The updates of the ruleset keep its types. *)

(* Telling the rules of a stored scalar keeps their types. *)
LEMMA ScalarReadyType ==
  ASSUME TypeOK, NEW tag, UpdateWithScalarReady(tag)
  PROVE  RulesetTypeOK'
BY DEF TypeOK, RulesetTypeOK, UpdateWithScalarReady, WaitWithoutScalar

(* Telling the rules of a stored element keeps their types. *)
LEMMA ElementReadyType ==
  ASSUME TypeOK, NEW tag, NEW id \in Parties, UpdateWithElementReady(tag, id)
  PROVE  RulesetTypeOK'
BY DEF TypeOK, RulesetTypeOK, UpdateWithElementReady

(* Banning a participant keeps the types of the ruleset and status. *)
LEMMA BanPartyType ==
  ASSUME TypeOK, NEW p \in Parties, BanParty(p)
  PROVE  RulesetTypeOK' /\ status' \in Statuses
BY DEF TypeOK, RulesetTypeOK, BanParty, UpdateWithBannedParty, Statuses

(* Recording a provable error keeps the types. *)
LEMMA ProvableErrorType ==
  ASSUME TypeOK, NEW p \in Parties, NEW kind \in EvidenceKinds,
         NEW tag \in Tags \cup Names, NEW values \in SUBSET VerifiedValues,
         RegisterProvableError(p, kind, tag, values)
  PROVE  RulesetTypeOK' /\ ErrorTypeOK' /\ status' \in Statuses
<1>1. RulesetTypeOK' /\ status' \in Statuses
  BY BanPartyType DEF RegisterProvableError
<1>2. [guilty |-> p, kind |-> kind, tag |-> tag, values |-> values] \in Evidence
  BY PartiesAssumption DEF Evidence
<1>3. ErrorTypeOK'
  BY <1>2 DEF TypeOK, ErrorTypeOK, RegisterProvableError
<1> QED  BY <1>1, <1>3

(* Recording an attributable error keeps the types. *)
LEMMA AttributableErrorType ==
  ASSUME TypeOK, NEW p \in Parties, RegisterAttributableError(p)
  PROVE  RulesetTypeOK' /\ ErrorTypeOK' /\ status' \in Statuses
BY BanPartyType DEF TypeOK, ErrorTypeOK, RegisterAttributableError

(* The first state is well typed. *)
LEMMA InitType == Init => TypeOK
<1> SUFFICES ASSUME Init PROVE TypeOK
  OBVIOUS
<1>1. StorageTypeOK
  BY KindsOfTags DEF Init, StorageInit, StorageTypeOK
<1>2. RulesetTypeOK
  BY KindsOfTags, NeedsTypes, SlotTypes DEF Init, RulesetInit, RulesetTypeOK
<1>3. TaskTypeOK /\ ErrorTypeOK
  BY DEF Init, TaskTypeOK, ErrorTypeOK
<1>4. preprocessing \in Seq(VerifiedValues)
  BY DEF Init
<1>5. received \in 0..MaxReceived
  BY MessageAssumption DEF Init
<1> QED  BY <1>1, <1>2, <1>3, <1>4, <1>5 DEF Init, TypeOK, Statuses

(* The variables that no step of making a task from an action touches. *)
LEMMA FromActionType ==
  ASSUME TypeOK, NEW stored, FromAction(stored)
  PROVE  /\ StorageTypeOK'
         /\ ErrorTypeOK'
         /\ preprocessing' \in Seq(VerifiedValues)
         /\ received' \in 0..MaxReceived
         /\ preprocessTasks' \subseteq VerifiedValues
         /\ status' \in Statuses
BY DEF TypeOK, FromAction, StorageTypeOK, ErrorTypeOK, TaskTypeOK, Statuses,
       storageVars, errorVars

(* Removing a rule or a slot keeps the types of the ruleset. *)
LEMMA RemoveType ==
  ASSUME TypeOK, NEW x, RemoveRule(x) \/ RemoveSlot(x)
  PROVE  RulesetTypeOK'
BY DEF TypeOK, RulesetTypeOK, RemoveRule, RemoveSlot

(* Making a task keeps the types. *)
LEMMA MakeTaskType == TypeOK /\ MakeTask => TypeOK'
<1> SUFFICES ASSUME TypeOK, MakeTask PROVE TypeOK'
  OBVIOUS
<1>1. CASE MakePreprocessTask
  <2>1. preprocessing # <<>> /\ preprocessing \in Seq(VerifiedValues)
    BY <1>1 DEF MakePreprocessTask, TypeOK
  <2>2. preprocessing[Len(preprocessing)] \in VerifiedValues
    BY <2>1
  <2>3. preprocessing' \in Seq(VerifiedValues)
    BY <1>1, <2>1 DEF MakePreprocessTask
  <2>4. TaskTypeOK'
    BY <1>1, <2>2 DEF MakePreprocessTask, TypeOK, TaskTypeOK
  <2>5. StorageTypeOK' /\ RulesetTypeOK' /\ ErrorTypeOK'
    BY <1>1 DEF MakePreprocessTask, TypeOK, StorageTypeOK, RulesetTypeOK,
                ErrorTypeOK, storageVars, rulesetVars, errorVars
  <2> QED  BY <1>1, <2>3, <2>4, <2>5 DEF MakePreprocessTask, TypeOK
<1>2. ASSUME NEW t \in ScalarRules, MakeComputeScalarTask(t) PROVE TypeOK'
  <2>1. FromAction(ScalarArgsStored(t)) /\ RemoveRule(t)
    BY <1>2 DEF MakeComputeScalarTask
  <2>2. TaskTypeOK'
    BY <1>2, <2>1, FromActionType
    DEF MakeComputeScalarTask, TypeOK, TaskTypeOK, OnceRules
  <2> QED  BY <2>1, <2>2, FromActionType, RemoveType DEF TypeOK
<1>3. ASSUME NEW t \in ScalarRules, MakeMergeScalarsTask(t) PROVE TypeOK'
  <2>1. FromAction(StoredSides(t) # {}) /\ RemoveRule(t)
    BY <1>3 DEF MakeMergeScalarsTask
  <2>2. TaskTypeOK'
    BY <1>3, <2>1, FromActionType
    DEF MakeMergeScalarsTask, TypeOK, TaskTypeOK, OnceRules, StoredSides
  <2> QED  BY <2>1, <2>2, FromActionType, RemoveType DEF TypeOK
<1>4. ASSUME NEW c \in CollectRules, MakeCollectTask(c) PROVE TypeOK'
  <2>1. FromAction(MappingStored(Values(c), got[c])) /\ RemoveRule(c)
    BY <1>4 DEF MakeCollectTask
  <2>2. TaskTypeOK'
    BY <1>4, <2>1, FromActionType
    DEF MakeCollectTask, TypeOK, TaskTypeOK, RulesetTypeOK, OnceRules
  <2> QED  BY <2>1, <2>2, FromActionType, RemoveType DEF TypeOK
<1>5. ASSUME NEW s \in Slots, MakeElementTask(s) \/ MakeSendDMTask(s)
      PROVE  TypeOK'
  <2>1. FromAction(ElementArgsStored(s[1], s[2])) /\ RemoveSlot(s)
    BY <1>5 DEF MakeElementTask, MakeSendDMTask
  <2>2. TaskTypeOK'
    BY <1>5, <2>1, FromActionType
    DEF MakeElementTask, MakeSendDMTask, TypeOK, TaskTypeOK
  <2> QED  BY <2>1, <2>2, FromActionType, RemoveType DEF TypeOK
<1>6. ASSUME NEW t \in SendBCRules, MakeSendBCTask(t) PROVE TypeOK'
  <2>1. FromAction(ScalarArgsStored(t)) /\ RemoveRule(t)
    BY <1>6 DEF MakeSendBCTask
  <2>2. TaskTypeOK'
    BY <1>6, <2>1, FromActionType
    DEF MakeSendBCTask, TypeOK, TaskTypeOK, OnceRules
  <2> QED  BY <2>1, <2>2, FromActionType, RemoveType DEF TypeOK
<1> QED  BY <1>1, <1>2, <1>3, <1>4, <1>5, <1>6 DEF MakeTask

(* Storing the result of a scalar task: only the result of a fork is a     *)
(* captured value.                                                         *)
LEMMA AddScalarType ==
  ASSUME TypeOK, NEW t \in OnceRules, AddScalar(t),
         sides' \in [Merges \cup Forks -> SUBSET Sides]
  PROVE  TypeOK'
<1>1. StorageTypeOK' /\ TaskTypeOK' /\ ErrorTypeOK'
  BY KindsOfTags
  DEF AddScalar, TypeOK, StorageTypeOK, TaskTypeOK, ErrorTypeOK, errorVars
<1>2. RulesetTypeOK'
  BY ScalarReadyType DEF AddScalar, TypeOK, RulesetTypeOK, rulesetVars
<1>3. status' \in Statuses
  BY DEF AddScalar, TypeOK, Statuses
<1> QED  BY <1>1, <1>2, <1>3 DEF TypeOK, AddScalar

(* Storing a computed element keeps the types. *)
LEMMA AddElementType ==
  ASSUME TypeOK, NEW s \in Slots, AddElement(s)
  PROVE  TypeOK'
<1>1. s \in ElementTags \X Parties /\ s[2] \in Parties
  BY SlotTypes
<1>2. StorageTypeOK' /\ TaskTypeOK' /\ ErrorTypeOK'
  BY <1>1
  DEF AddElement, TypeOK, StorageTypeOK, TaskTypeOK, ErrorTypeOK, errorVars
<1>3. RulesetTypeOK'
  BY <1>1, ElementReadyType DEF AddElement, TypeOK, RulesetTypeOK, rulesetVars
<1>4. status' \in Statuses
  BY DEF AddElement, TypeOK, Statuses
<1> QED  BY <1>2, <1>3, <1>4 DEF TypeOK, AddElement

(* The failures of computations keep the types. *)
LEMMA SenderErrorType ==
  ASSUME TypeOK, NEW s \in Slots, SenderError(s)
  PROVE  TypeOK'
<1>1. s[1] \in Tags /\ s[2] \in Parties
  BY SlotTypes, KindsOfTags
<1>2. StorageTypeOK' /\ TaskTypeOK'
  BY DEF SenderError, TypeOK, StorageTypeOK, TaskTypeOK, storageVars
<1>3. RulesetTypeOK' /\ ErrorTypeOK' /\ status' \in Statuses
  <2>1. CASE s[1] \in Escalated
    BY <1>1, <2>1, AttributableErrorType DEF SenderError, Escalates
  <2>2. CASE /\ s[1] \notin Escalated
             /\ \E n \in MessagesOf[s[1]] : <<n, s[2]>> \notin elems
    BY <2>2 DEF SenderError, Escalates, TypeOK, RulesetTypeOK, ErrorTypeOK,
                Statuses, rulesetVars, errorVars
  <2>3. CASE /\ s[1] \notin Escalated
             /\ ~\E n \in MessagesOf[s[1]] : <<n, s[2]>> \notin elems
    <3>1. RegisterProvableError(s[2], SenderErrorKind(s[1]), s[1],
                                StoredValues(MessagesOf[s[1]], s[2]))
      BY <2>3 DEF SenderError, Escalates
    <3>2. StoredValues(MessagesOf[s[1]], s[2]) \in SUBSET VerifiedValues
      BY DEF StoredValues, TypeOK, StorageTypeOK
    <3>3. SenderErrorKind(s[1]) \in EvidenceKinds
      BY DEF SenderErrorKind, EvidenceKinds
    <3> QED  BY <1>1, <3>1, <3>2, <3>3, ProvableErrorType
  <2> QED  BY <2>1, <2>2, <2>3
<1> QED  BY <1>2, <1>3 DEF SenderError, TypeOK

(* Failures attributed to a third party keep the types. *)
LEMMA ThirdPartyErrorType ==
  ASSUME TypeOK, NEW p \in Parties,
         \/ \E t \in ScalarRules : ThirdPartyErrorScalar(t, p)
         \/ \E s \in Slots : ThirdPartyErrorElement(s, p)
  PROVE  TypeOK'
<1>1. PICK tag \in Tags : RegisterProvableError(p, "ThirdPartyError", tag, {})
  BY SlotTypes, KindsOfTags
  DEF ThirdPartyErrorScalar, ThirdPartyErrorElement, OnceRules
<1>2. RulesetTypeOK' /\ ErrorTypeOK' /\ status' \in Statuses
  BY <1>1, ProvableErrorType DEF EvidenceKinds
<1>3. StorageTypeOK' /\ TaskTypeOK'
  BY DEF ThirdPartyErrorScalar, ThirdPartyErrorElement, TypeOK, StorageTypeOK,
         TaskTypeOK, storageVars
<1> QED
  BY <1>2, <1>3 DEF ThirdPartyErrorScalar, ThirdPartyErrorElement, TypeOK

(* The results of preprocessing keep the types. *)
LEMMA PreprocessType ==
  ASSUME TypeOK, NEW v \in preprocessTasks,
         \/ MessageError(v)
         \/ StoreVerifiedValue(v)
         \/ \E e \in verified : ConflictingMessages(v, e)
         \/ \E e \in verified : DuplicateMessages(v, e)
  PROVE  TypeOK'
<1>1. v \in VerifiedValues
  BY DEF TypeOK, TaskTypeOK
<1>2. v.value \in SignedValues /\ v.mid \in Nat
  BY <1>1 DEF VerifiedValues
<1>3. v.value.name \in Names
  BY <1>2 DEF SignedValues
<1>4. PreprocessDone(v)
  BY DEF MessageError, StoreVerifiedValue, ConflictingMessages, DuplicateMessages
<1>5. TaskTypeOK' /\ preprocessing' \in Seq(VerifiedValues)
        /\ received' \in 0..MaxReceived
  BY <1>4 DEF PreprocessDone, TypeOK, TaskTypeOK
<1>6. CASE MessageError(v)
  <2>1. [kind |-> "InvalidMessage", first |-> v.mid, second |-> v.mid] \in Reports
    BY <1>2 DEF Reports
  <2>2. StorageTypeOK' /\ RulesetTypeOK' /\ ErrorTypeOK' /\ status' \in Statuses
    BY <1>4, <1>6, <2>1
    DEF MessageError, PreprocessDone, TypeOK, StorageTypeOK, RulesetTypeOK,
        ErrorTypeOK, rulesetVars
  <2> QED  BY <1>5, <2>2 DEF TypeOK
<1>7. CASE StoreVerifiedValue(v)
  <2>1. v.value.source \in Parties
    BY <1>7 DEF StoreVerifiedValue, PassesPreprocessing
  <2>2. RulesetTypeOK'
    BY <1>7, <2>1, ElementReadyType DEF StoreVerifiedValue
  <2>3. StorageTypeOK'
    BY <1>1, <1>3, <1>4, <1>7, <2>1
    DEF StoreVerifiedValue, PreprocessDone, RemoteSlot, ElementTags, TypeOK,
        StorageTypeOK
  <2>4. ErrorTypeOK' /\ status' \in Statuses
    BY <1>7 DEF StoreVerifiedValue, TypeOK, ErrorTypeOK, errorVars
  <2> QED  BY <1>5, <2>2, <2>3, <2>4 DEF TypeOK
<1>8. ASSUME NEW e \in verified, ConflictingMessages(v, e) PROVE TypeOK'
  <2>1. v.value.source \in Parties
    BY <1>8 DEF ConflictingMessages, PassesPreprocessing
  <2>2. {e, v} \in SUBSET VerifiedValues
    BY <1>1 DEF TypeOK, StorageTypeOK
  <2>3. RulesetTypeOK' /\ ErrorTypeOK' /\ status' \in Statuses
    BY <1>3, <1>8, <2>1, <2>2, ProvableErrorType
    DEF ConflictingMessages, EvidenceKinds
  <2>4. StorageTypeOK'
    BY <1>4, <1>8 DEF ConflictingMessages, PreprocessDone, TypeOK, StorageTypeOK
  <2> QED  BY <1>5, <2>3, <2>4 DEF TypeOK
<1>9. ASSUME NEW e \in verified, DuplicateMessages(v, e) PROVE TypeOK'
  <2>1. e.mid \in Nat
    BY DEF TypeOK, StorageTypeOK, VerifiedValues
  <2>2. [kind |-> "DuplicateMessages", first |-> e.mid, second |-> e.mid] \in Reports
    BY <2>1 DEF Reports
  <2>3. StorageTypeOK' /\ RulesetTypeOK' /\ ErrorTypeOK' /\ status' \in Statuses
    BY <1>4, <1>9, <2>2
    DEF DuplicateMessages, PreprocessDone, TypeOK, StorageTypeOK, RulesetTypeOK,
        ErrorTypeOK, rulesetVars
  <2> QED  BY <1>5, <2>3 DEF TypeOK
<1> QED  BY <1>6, <1>7, <1>8, <1>9

(* Applying a result keeps the types. *)
LEMMA ApplyResultType == TypeOK /\ ApplyResult => TypeOK'
<1> SUFFICES ASSUME TypeOK, ApplyResult PROVE TypeOK'
  OBVIOUS
<1>1. ASSUME NEW t \in OnceRules, AddScalar(t), UNCHANGED sides PROVE TypeOK'
  BY <1>1, AddScalarType DEF TypeOK, TaskTypeOK
<1>2. ASSUME NEW t \in Forks, NEW r \in SUBSET Sides, ComputedFork(t, r)
      PROVE  TypeOK'
  <2>1. sides' \in [Merges \cup Forks -> SUBSET Sides]
    BY <1>2 DEF ComputedFork, TypeOK, TaskTypeOK
  <2> QED  BY <1>2, <2>1, AddScalarType, KindsOfTags DEF ComputedFork, OnceRules
<1>3. ASSUME NEW t \in ScalarRules, NoActionNeeded(t) PROVE TypeOK'
  BY <1>3 DEF NoActionNeeded, TypeOK, StorageTypeOK, RulesetTypeOK, TaskTypeOK,
              ErrorTypeOK, storageVars, rulesetVars, errorVars
<1>4. ASSUME SpuriousError PROVE TypeOK'
  BY <1>4 DEF SpuriousError, TypeOK, StorageTypeOK, RulesetTypeOK, TaskTypeOK,
              ErrorTypeOK, Statuses, storageVars, rulesetVars, taskVars, errorVars
<1>5. ASSUME NEW s \in Slots, AddElement(s) PROVE TypeOK'
  BY <1>5, AddElementType
<1> QED
  BY <1>1, <1>2, <1>3, <1>4, <1>5, SenderErrorType, ThirdPartyErrorType,
     PreprocessType, KindsOfTags
  DEF ApplyResult, ComputedScalar, MergedScalars, Collected, SentBC,
      ComputedMappingElement, SentDM, OnceRules

(* What the user does with the session keeps the types. *)
LEMMA UserStepType ==
  ASSUME TypeOK,
         \/ \E msg \in Message : Receive(msg)
         \/ \E p \in Bannable : ExternalBan(p)
         \/ Finalize
         \/ ContinueExecution
         \/ Terminate
  PROVE  TypeOK'
<1>1. ASSUME NEW msg \in Message, Receive(msg) PROVE TypeOK'
  <2> DEFINE values == [k \in 1..Len(msg) |->
                          [value |-> msg[k], mid |-> received + 1, part |-> k]]
  <2>1. msg \in Seq(SignedValues) /\ received \in Nat
    BY MessageAssumption DEF TypeOK
  <2>2. values \in Seq(VerifiedValues)
    BY <2>1 DEF VerifiedValues
  <2>3. preprocessing' \in Seq(VerifiedValues)
    BY <1>1, <2>2 DEF Receive, TypeOK
  <2>4. received' \in 0..MaxReceived
    BY <1>1, MessageAssumption DEF Receive, TypeOK
  <2> QED
    BY <1>1, <2>3, <2>4
    DEF Receive, TypeOK, StorageTypeOK, RulesetTypeOK, TaskTypeOK, ErrorTypeOK,
        storageVars, rulesetVars, taskVars, errorVars
<1>2. ASSUME NEW p \in Bannable, ExternalBan(p) PROVE TypeOK'
  <2>1. p \in Parties
    BY MessageAssumption
  <2>2. RulesetTypeOK' /\ status' \in Statuses
    BY <1>2, <2>1, BanPartyType DEF ExternalBan
  <2> QED
    BY <1>2, <2>1, <2>2
    DEF ExternalBan, TypeOK, StorageTypeOK, TaskTypeOK, ErrorTypeOK,
        storageVars, taskVars
<1>3. ASSUME NEW from, NEW to \in Statuses, Close(from, to) PROVE TypeOK'
  BY <1>3 DEF Close, TypeOK, StorageTypeOK, RulesetTypeOK, TaskTypeOK,
              ErrorTypeOK, storageVars, rulesetVars, taskVars, errorVars
<1> QED
  BY <1>1, <1>2, <1>3 DEF Finalize, ContinueExecution, Terminate, Statuses

(* So does a step that changes nothing. *)
LEMMA StutterType == TypeOK /\ UNCHANGED vars => TypeOK'
BY DEF vars, TypeOK, StorageTypeOK, RulesetTypeOK, TaskTypeOK, ErrorTypeOK,
       storageVars, rulesetVars, taskVars, errorVars

(* Every reachable state is well typed: in particular elements, bans and   *)
(* recorded failures are of participants only, whoever sends messages.     *)
THEOREM TypeCorrect == Spec => []TypeOK
<1>1. Init => TypeOK
  BY InitType
<1>2. TypeOK /\ [Next]_vars => TypeOK'
  BY MakeTaskType, ApplyResultType, UserStepType, StutterType DEF Next
<1> QED  BY <1>1, <1>2, PTL DEF Spec

-----------------------------------------------------------------------------
(* The initial state satisfies the inductive invariant. *)
LEMMA InitInv == Init => IndInv
<1> SUFFICES ASSUME Init PROVE IndInv
  OBVIOUS
<1>1. TypeOK
  BY InitType
<1>2. ScalarWaitsExact
  BY KindsOfTags
  DEF Init, RulesetInit, StorageInit, ScalarWaitsExact, OnceRules
<1>3. ElementWaitsExact
  BY DEF Init, RulesetInit, StorageInit, ElementWaitsExact
<1>4. OncePerSlot
  BY KindsOfTags DEF Init, RulesetInit, StorageInit, OncePerSlot
<1>5. ComputedFromSlots /\ PoppedComplete /\ GotStored
  BY DEF Init, RulesetInit, StorageInit, ComputedFromSlots, PoppedComplete,
         GotStored
<1> QED
  BY <1>1, <1>2, <1>3, <1>4, <1>5
  DEF Init, IndInv, WaitsExact, OutputStored, NoRuntimeError

(* Steps that fill no slot and make no task. *)
LEMMA QuietStepInv ==
  ASSUME IndInv, TypeOK',
         UNCHANGED <<scalars, elems, scalarWait, elemWait, rules, slots>>,
         scalarTasks' \subseteq scalarTasks,
         elemTasks' \subseteq elemTasks,
         \A c \in CollectRules : got'[c] \subseteq got[c],
         status' # "RuntimeError",
         status' = "ReachedOutput" => Output \in scalars
  PROVE  IndInv'
<1>1. WaitsExact'
  BY DEF IndInv, WaitsExact, ScalarWaitsExact, ElementWaitsExact
<1>2. OncePerSlot' /\ ComputedFromSlots' /\ PoppedComplete' /\ GotStored'
  BY DEF IndInv, OncePerSlot, ComputedFromSlots, PoppedComplete, GotStored
<1> QED  BY <1>1, <1>2 DEF IndInv, OutputStored, NoRuntimeError

(* A stored scalar satisfies exactly the conditions that wait for it. *)
LEMMA ScalarReadyExact ==
  ASSUME IndInv, NEW tag, UpdateWithScalarReady(tag),
         scalars' = scalars \cup {tag}, UNCHANGED elems
  PROVE  WaitsExact'
<1>1. \A t \in OnceRules \cup ElementRules :
        scalarWait'[t] = WaitWithoutScalar(t, tag)
  BY DEF UpdateWithScalarReady
<1>2. ASSUME NEW t \in (OnceRules \cup ElementRules) \ Merges
      PROVE  scalarWait'[t] = ScalarNeeds(t) \ scalars'
  BY <1>1 DEF IndInv, WaitsExact, ScalarWaitsExact, WaitWithoutScalar
<1>3. ASSUME NEW t \in Merges
      PROVE  scalarWait'[t] = IF ScalarNeeds(t) \cap scalars' = {}
                                THEN ScalarNeeds(t) ELSE {}
  <2>1. t \in OnceRules
    BY KindsOfTags DEF OnceRules
  <2> QED
    BY <1>1, <2>1 DEF IndInv, WaitsExact, ScalarWaitsExact, WaitWithoutScalar
<1>4. ElementWaitsExact'
  BY DEF IndInv, WaitsExact, ElementWaitsExact, UpdateWithScalarReady
<1> QED  BY <1>2, <1>3, <1>4 DEF WaitsExact, ScalarWaitsExact

(* Storing the result of a scalar task keeps the inductive invariant. *)
LEMMA AddScalarInv ==
  ASSUME IndInv, TypeOK', NEW t \in OnceRules, AddScalar(t)
  PROVE  IndInv'
<1>1. t \notin scalars
  BY DEF AddScalar, IndInv, OncePerSlot
<1>2. /\ scalars' = scalars \cup {t}
      /\ UpdateWithScalarReady(t)
      /\ status' = IF t = Output THEN "ReachedOutput" ELSE status
      /\ UNCHANGED <<elems, elemTasks>>
      /\ scalarTasks' = scalarTasks \ {t}
      /\ t \in scalarTasks
  BY <1>1 DEF AddScalar
<1>3. WaitsExact'
  BY <1>2, ScalarReadyExact
<1>4. OncePerSlot' /\ ComputedFromSlots' /\ PoppedComplete' /\ GotStored'
  BY <1>2 DEF IndInv, UpdateWithScalarReady, OncePerSlot, ComputedFromSlots,
              PoppedComplete, GotStored
<1>5. OutputStored' /\ NoRuntimeError'
  BY <1>2 DEF IndInv, OutputStored, NoRuntimeError
<1> QED  BY <1>3, <1>4, <1>5 DEF IndInv

(* A stored element satisfies exactly the conditions that wait for it. *)
LEMMA ElementReadyExact ==
  ASSUME IndInv, NEW tag, NEW id, UpdateWithElementReady(tag, id),
         elems' = elems \cup {<<tag, id>>}, UNCHANGED scalars
  PROVE  WaitsExact' /\ PoppedComplete' /\ GotStored'
<1>1. ScalarWaitsExact'
  BY DEF IndInv, WaitsExact, ScalarWaitsExact, UpdateWithElementReady
<1>2. ASSUME NEW s \in Slots
      PROVE  /\ elemWait'[s] = {a \in ElementNeeds(s[1]) : <<a, s[2]>> \notin elems'}
             /\ elemWait'[s] \subseteq elemWait[s]
  <2>1. elemWait'[s] = IF s[2] = id THEN elemWait[s] \ {tag} ELSE elemWait[s]
    BY DEF UpdateWithElementReady
  <2>2. elemWait[s] = {a \in ElementNeeds(s[1]) : <<a, s[2]>> \notin elems}
    BY DEF IndInv, WaitsExact, ElementWaitsExact
  <2> QED  BY <2>1, <2>2
<1>3. PoppedComplete'
  BY <1>2 DEF IndInv, PoppedComplete, UpdateWithElementReady
<1>4. GotStored'
  BY DEF IndInv, GotStored, UpdateWithElementReady
<1> QED  BY <1>1, <1>2, <1>3, <1>4 DEF WaitsExact, ElementWaitsExact

(* Storing the result of an element task keeps the inductive invariant. *)
LEMMA AddElementInv ==
  ASSUME IndInv, TypeOK', NEW s \in Slots, AddElement(s)
  PROVE  IndInv'
<1>1. s \notin elems /\ s \in elemTasks
  BY DEF AddElement, IndInv, OncePerSlot
<1>2. /\ elems' = elems \cup {<<s[1], s[2]>>}
      /\ UpdateWithElementReady(s[1], s[2])
      /\ elemTasks' = elemTasks \ {s}
      /\ UNCHANGED <<scalars, scalarTasks, status>>
  BY <1>1, SlotTypes DEF AddElement
<1>3. WaitsExact' /\ PoppedComplete' /\ GotStored'
  BY <1>2, ElementReadyExact
<1>4. OncePerSlot'
  BY <1>1, <1>2, SlotTypes DEF IndInv, OncePerSlot, UpdateWithElementReady
<1>5. ComputedFromSlots'
  BY <1>2, SlotTypes DEF IndInv, ComputedFromSlots
<1> QED  BY <1>2, <1>3, <1>4, <1>5 DEF IndInv, OutputStored, NoRuntimeError

(* A received value never fills the slot of a computed element. *)
LEMMA StoreVerifiedValueInv ==
  ASSUME IndInv, TypeOK', NEW v \in preprocessTasks, StoreVerifiedValue(v)
  PROVE  IndInv'
<1>1. v.value.name \in Names
  BY DEF IndInv, TypeOK, TaskTypeOK, VerifiedValues, SignedValues
<1>2. v.value.name \notin ElementRules
  BY <1>1, NamesAssumption, KindsOfTags
<1>3. RemoteSlot(v) \notin Slots
  BY <1>2, SlotTypes DEF RemoteSlot
<1>4. /\ elems' = elems \cup {<<v.value.name, v.value.source>>}
      /\ UpdateWithElementReady(v.value.name, v.value.source)
      /\ UNCHANGED <<scalars, scalarTasks, elemTasks, status>>
  BY DEF StoreVerifiedValue, PreprocessDone, RemoteSlot
<1>5. WaitsExact' /\ PoppedComplete' /\ GotStored'
  BY <1>4, ElementReadyExact
<1>6. OncePerSlot'
  BY <1>3, <1>4 DEF IndInv, TypeOK, TaskTypeOK, RulesetTypeOK, RemoteSlot,
                    OncePerSlot, UpdateWithElementReady
<1>7. ComputedFromSlots'
  BY <1>2, <1>4 DEF IndInv, ComputedFromSlots
<1> QED  BY <1>4, <1>5, <1>6, <1>7 DEF IndInv, OutputStored, NoRuntimeError

-----------------------------------------------------------------------------
(* A satisfied rule finds its arguments in storage. *)

(* A scalar rule that waits for nothing finds its arguments in storage. *)
LEMMA ScalarArgsReady ==
  ASSUME IndInv, NEW t \in (ScalarRules \cup SendBCRules) \ Merges,
         scalarWait[t] = {}
  PROVE  ScalarArgsStored(t)
<1>1. ArgTags(t) \subseteq ScalarTags
  BY NodeAssumption
  DEF ScalarRules, SendBCRules, Merges, ArgKinds, AllArgTags, ArgTags, OfKind,
      Tags, ScalarTags, ScalarKinds, ScalarArgKinds
<1>2. ScalarNeeds(t) \subseteq scalars
  BY DEF IndInv, WaitsExact, ScalarWaitsExact, OnceRules
<1> QED  BY <1>1, <1>2 DEF ScalarArgsStored, ScalarNeeds, AllArgTags, ArgTags

(* A merge that waits for nothing finds one of its sides in storage. *)
LEMMA MergeSideReady ==
  ASSUME IndInv, NEW t \in Merges, scalarWait[t] = {}
  PROVE  StoredSides(t) # {}
<1>1. Node[t].args[1] \in ArgTags(t) /\ DOMAIN Node[t].args = {1, 2}
  BY ArityAssumption DEF ArgTags, SeqRange
<1>2. ScalarNeeds(t) = ArgTags(t)
  BY NodeAssumption
  DEF Merges, ScalarNeeds, ArgKinds, AllArgTags, ArgTags, OfKind, Tags,
      ScalarTags, ScalarKinds, ScalarArgKinds, Dependents
<1>3. ScalarNeeds(t) \cap scalars # {}
  BY <1>1, <1>2 DEF IndInv, WaitsExact, ScalarWaitsExact
<1>4. PICK k \in {1, 2} : Node[t].args[k] \in scalars
  BY <1>1, <1>2, <1>3 DEF ArgTags, SeqRange
<1>5. CASE k = 1
  BY <1>4, <1>5 DEF StoredSides, SideTag, Sides
<1>6. CASE k = 2
  BY <1>4, <1>6 DEF StoredSides, SideTag, Sides
<1> QED  BY <1>5, <1>6

(* A collect with a quorum finds the elements it counted in storage. *)
LEMMA CollectValuesReady ==
  ASSUME IndInv, NEW c \in CollectRules, HasQuorum(c, got[c])
  PROVE  MappingStored(Values(c), got[c])
<1>1. \A id \in got[c] : <<Values(c), id>> \in elems
  BY DEF IndInv, GotStored
<1>2. got[c] # {}
  <2> SUFFICES ASSUME got[c] = {} PROVE FALSE
    OBVIOUS
  <2>1. got[c] \cap Node[c].group = {}
    OBVIOUS
  <2>2. Cardinality(got[c] \cap Node[c].group) = 0
    BY <2>1, FS_EmptySet
  <2>3. Node[c].threshold \in 1..Cardinality(Node[c].group)
    BY GroupAssumption
  <2>4. Cardinality(Node[c].group) \in Nat
    BY GroupAssumption, PartiesAssumption, FS_Subset, FS_CardinalityType
  <2> QED  BY <2>2, <2>3, <2>4 DEF HasQuorum
<1> QED  BY <1>1, <1>2 DEF MappingStored

(* An element that waits for nothing finds its arguments in storage. *)
LEMMA ElementArgsReady ==
  ASSUME IndInv, NEW s \in Slots, scalarWait[s[1]] = {}, elemWait[s] = {}
  PROVE  ElementArgsStored(s[1], s[2])
<1>1. s[1] \in ElementRules /\ s[1] \in Tags /\ s[1] \notin Merges
  BY SlotTypes, KindsOfTags DEF OnceRules
<1>2. ArgTags(s[1]) \subseteq ScalarTags \cup MappingTags
  BY <1>1, NodeAssumption, KindsOfTags DEF ArgKinds, OfKind, AllArgTags, ArgTags
<1>3. ScalarNeeds(s[1]) \subseteq scalars
  BY <1>1 DEF IndInv, WaitsExact, ScalarWaitsExact
<1>4. \A a \in ElementNeeds(s[1]) : <<a, s[2]>> \in elems
  BY DEF IndInv, WaitsExact, ElementWaitsExact
<1> QED
  BY <1>2, <1>3, <1>4
  DEF ElementArgsStored, ScalarNeeds, ElementNeeds, AllArgTags, ArgTags

(* Removing a satisfied rule or slot and making its task. *)
LEMMA RemoveRuleInv ==
  ASSUME IndInv, TypeOK', NEW t \in rules, RemoveRule(t), FromAction(TRUE),
         scalarTasks' = scalarTasks \cup {t}, UNCHANGED elemTasks
  PROVE  IndInv'
<1>1. WaitsExact'
  BY DEF IndInv, WaitsExact, ScalarWaitsExact, ElementWaitsExact, RemoveRule,
         FromAction, storageVars
<1>2. OncePerSlot' /\ ComputedFromSlots' /\ PoppedComplete' /\ GotStored'
  BY DEF IndInv, OncePerSlot, ComputedFromSlots, PoppedComplete, GotStored,
         RemoveRule, FromAction, storageVars
<1> QED
  BY <1>1, <1>2 DEF IndInv, OutputStored, NoRuntimeError, FromAction, storageVars

(* The same for the slot of an element. *)
LEMMA RemoveSlotInv ==
  ASSUME IndInv, TypeOK', NEW s \in slots, elemWait[s] = {}, RemoveSlot(s),
         FromAction(TRUE), elemTasks' = elemTasks \cup {s}, UNCHANGED scalarTasks
  PROVE  IndInv'
<1>1. WaitsExact'
  BY DEF IndInv, WaitsExact, ScalarWaitsExact, ElementWaitsExact, RemoveSlot,
         FromAction, storageVars
<1>2. OncePerSlot' /\ ComputedFromSlots' /\ PoppedComplete' /\ GotStored'
  BY DEF IndInv, OncePerSlot, ComputedFromSlots, PoppedComplete, GotStored,
         RemoveSlot, FromAction, storageVars
<1> QED
  BY <1>1, <1>2 DEF IndInv, OutputStored, NoRuntimeError, FromAction, storageVars

(* make_task() keeps the inductive invariant: no argument is missing. *)
LEMMA MakeTaskInv == IndInv /\ MakeTask => IndInv'
<1> SUFFICES ASSUME IndInv, MakeTask PROVE IndInv'
  OBVIOUS
<1>0. TypeOK'
  BY MakeTaskType DEF IndInv
<1>1. CASE MakePreprocessTask
  BY <1>0, <1>1, QuietStepInv
  DEF MakePreprocessTask, IndInv, OutputStored, NoRuntimeError, storageVars,
      rulesetVars
<1>2. ASSUME NEW t \in ScalarRules, MakeComputeScalarTask(t) PROVE IndInv'
  <2>1. t \in rules /\ scalarWait[t] = {} /\ t \notin Merges
    BY <1>2 DEF MakeComputeScalarTask, CanPopScalar, SatisfiedScalars
  <2>2. ScalarArgsStored(t)
    BY <2>1, ScalarArgsReady
  <2> QED  BY <1>0, <1>2, <2>1, <2>2, RemoveRuleInv DEF MakeComputeScalarTask
<1>3. ASSUME NEW t \in ScalarRules, MakeMergeScalarsTask(t) PROVE IndInv'
  <2>1. t \in rules /\ scalarWait[t] = {} /\ t \in Merges
    BY <1>3 DEF MakeMergeScalarsTask, CanPopScalar, SatisfiedScalars
  <2>2. StoredSides(t) # {}
    BY <2>1, MergeSideReady
  <2> QED  BY <1>0, <1>3, <2>1, <2>2, RemoveRuleInv DEF MakeMergeScalarsTask
<1>4. ASSUME NEW c \in CollectRules, MakeCollectTask(c) PROVE IndInv'
  <2>1. c \in rules /\ HasQuorum(c, got[c])
    BY <1>4 DEF MakeCollectTask, CanPopCollect, SatisfiedCollects
  <2>2. MappingStored(Values(c), got[c])
    BY <2>1, CollectValuesReady
  <2> QED  BY <1>0, <1>4, <2>1, <2>2, RemoveRuleInv DEF MakeCollectTask
<1>5. ASSUME NEW s \in Slots, MakeElementTask(s) \/ MakeSendDMTask(s)
      PROVE  IndInv'
  <2>1. s \in slots /\ scalarWait[s[1]] = {} /\ elemWait[s] = {}
    BY <1>5 DEF MakeElementTask, MakeSendDMTask, CanPopMapping, CanPopSendDM,
                SatisfiedElements
  <2>2. ElementArgsStored(s[1], s[2])
    BY <2>1, ElementArgsReady
  <2> QED
    BY <1>0, <1>5, <2>1, <2>2, RemoveSlotInv DEF MakeElementTask, MakeSendDMTask
<1>6. ASSUME NEW t \in SendBCRules, MakeSendBCTask(t) PROVE IndInv'
  <2>1. t \in rules /\ scalarWait[t] = {} /\ t \notin Merges
    BY <1>6, KindsOfTags DEF MakeSendBCTask, CanPopSendBC, SatisfiedSendBCs
  <2>2. ScalarArgsStored(t)
    BY <2>1, ScalarArgsReady
  <2> QED  BY <1>0, <1>6, <2>1, <2>2, RemoveRuleInv DEF MakeSendBCTask
<1> QED  BY <1>1, <1>2, <1>3, <1>4, <1>5, <1>6 DEF MakeTask

-----------------------------------------------------------------------------
(* The messages an element was computed from are in storage: its inputs    *)
(* were stored when its task was made, and so were the inputs of these.    *)
LEMMA EvidenceStored ==
  ASSUME IndInv, NEW s \in Slots \ slots,
         s[1] \in DOMAIN MessagesOf \ Escalated, NEW n \in MessagesOf[s[1]]
  PROVE  <<n, s[2]>> \in elems
<1> DEFINE Done == {x \in MappingTags :
                      IF x \in Receives THEN <<x, s[2]>> \in elems
                                        ELSE <<x, s[2]>> \in Slots \ slots}
<1>1. s[1] \in Done
  BY SlotTypes, KindsOfTags
<1>2. ASSUME NEW x \in Done, NEW a \in ElementNeeds(x) PROVE a \in Done
  <2>1. x \in Tags /\ a \in MappingTags /\ a \in AllArgTags(x)
    BY KindsOfTags DEF ElementNeeds
  <2>2. x \notin Receives
    BY <2>1, NodeAssumption DEF Receives, OfKind, ArgKinds
  <2>3. <<x, s[2]>> \in Slots \ slots
    BY <2>2
  <2>4. elemWait[<<x, s[2]>>] = {}
    BY <2>3 DEF IndInv, PoppedComplete
  <2>5. <<a, s[2]>> \in elems
    BY <2>3, <2>4 DEF IndInv, WaitsExact, ElementWaitsExact
  <2>6. CASE a \in Receives
    BY <2>1, <2>5, <2>6
  <2>7. CASE a \notin Receives
    <3>1. a \in ElementRules
      BY <2>1, <2>7, KindsOfTags
    <3>2. <<a, s[2]>> \in Slots \ slots
      BY <2>5, <3>1 DEF IndInv, ComputedFromSlots, OncePerSlot
    <3> QED  BY <2>1, <2>7, <3>2
  <2> QED  BY <2>6, <2>7
<1>3. n \in Upstream(s[1])
  BY EvidenceAssumption
<1>4. n \in Receives /\ n \in Done
  BY <1>1, <1>2, <1>3 DEF Upstream
<1> QED  BY <1>4

(* Banning a party fills no slot and only takes ids away from collects. *)
LEMMA BanPartyQuiet ==
  ASSUME TypeOK, InProgress, NEW p, BanParty(p)
  PROVE  /\ UNCHANGED <<scalarWait, elemWait, rules, slots>>
         /\ \A c \in CollectRules : got'[c] \subseteq got[c]
         /\ status' \in {"InProgress", "Unfinishable"}
BY DEF BanParty, UpdateWithBannedParty, InProgress

(* A failure of a sender keeps the inductive invariant. *)
LEMMA SenderErrorInv ==
  ASSUME IndInv, TypeOK', NEW s \in Slots, SenderError(s)
  PROVE  IndInv'
<1>1. s \in Slots \ slots
  BY DEF SenderError, IndInv, OncePerSlot
<1>2. s[1] \in DOMAIN MessagesOf
  <2>1. s[1] \in Tags /\ Node[s[1]].kind # "ComputeScalar"
    BY SlotTypes, KindsOfTags
    DEF ElementRules, MappingRules, SendDMRules, OfKind
  <2>2. Node[s[1]].kind \in {"ComputeMapping", "DeserializeAndCheck"}
    BY <2>1, NodeAssumption DEF SenderError, Fails, SenderFunctions
  <2> QED  BY <2>1, <2>2, EvidenceAssumption DEF OfKind
<1>3. BanParty(s[2])
  BY <1>1, <1>2, EvidenceStored
  DEF SenderError, Escalates, RegisterProvableError, RegisterAttributableError
<1>4. UNCHANGED <<scalars, elems, scalarTasks>> /\ elemTasks' \subseteq elemTasks
  BY DEF SenderError, storageVars
<1> QED
  BY <1>3, <1>4, BanPartyQuiet, QuietStepInv DEF SenderError, IndInv

(* A failure attributed to a third party keeps it. *)
LEMMA ThirdPartyErrorInv ==
  ASSUME IndInv, TypeOK', NEW p \in Parties,
         \/ \E t \in ScalarRules : ThirdPartyErrorScalar(t, p)
         \/ \E s \in Slots : ThirdPartyErrorElement(s, p)
  PROVE  IndInv'
<1>1. InProgress /\ BanParty(p)
  BY DEF ThirdPartyErrorScalar, ThirdPartyErrorElement, RegisterProvableError
<1>2. /\ UNCHANGED <<scalars, elems>>
      /\ scalarTasks' \subseteq scalarTasks
      /\ elemTasks' \subseteq elemTasks
  BY DEF ThirdPartyErrorScalar, ThirdPartyErrorElement, storageVars
<1> QED  BY <1>1, <1>2, BanPartyQuiet, QuietStepInv DEF IndInv

(* The results of preprocessing keep the inductive invariant. *)
LEMMA PreprocessInv ==
  ASSUME IndInv, TypeOK', NEW v \in preprocessTasks,
         \/ MessageError(v)
         \/ StoreVerifiedValue(v)
         \/ \E e \in verified : ConflictingMessages(v, e)
         \/ \E e \in verified : DuplicateMessages(v, e)
  PROVE  IndInv'
<1>1. CASE StoreVerifiedValue(v)
  BY <1>1, StoreVerifiedValueInv
<1>2. CASE MessageError(v) \/ \E e \in verified : DuplicateMessages(v, e)
  BY <1>2, QuietStepInv
  DEF MessageError, DuplicateMessages, PreprocessDone, rulesetVars, IndInv,
      OutputStored, NoRuntimeError
<1>3. ASSUME NEW e \in verified, ConflictingMessages(v, e) PROVE IndInv'
  <2>1. InProgress /\ BanParty(v.value.source)
    BY <1>3 DEF ConflictingMessages, PreprocessDone, RegisterProvableError
  <2>2. UNCHANGED <<scalars, elems, scalarTasks, elemTasks>>
    BY <1>3 DEF ConflictingMessages, PreprocessDone
  <2> QED  BY <2>1, <2>2, BanPartyQuiet, QuietStepInv DEF IndInv
<1> QED  BY <1>1, <1>2, <1>3

(* Applying any result keeps the inductive invariant. *)
LEMMA ApplyResultInv == IndInv /\ ApplyResult => IndInv'
<1> SUFFICES ASSUME IndInv, ApplyResult PROVE IndInv'
  OBVIOUS
<1>0. TypeOK'
  BY ApplyResultType DEF IndInv
<1>1. ASSUME NEW t \in OnceRules, AddScalar(t) PROVE IndInv'
  BY <1>0, <1>1, AddScalarInv
<1>2. ASSUME NEW s \in Slots, AddElement(s) PROVE IndInv'
  BY <1>0, <1>2, AddElementInv
<1>3. ASSUME NEW t \in ScalarRules, NoActionNeeded(t) PROVE IndInv'
  BY <1>0, <1>3, QuietStepInv
  DEF NoActionNeeded, storageVars, rulesetVars, IndInv, OutputStored,
      NoRuntimeError
<1>4. ASSUME SpuriousError PROVE IndInv'
  BY <1>0, <1>4, QuietStepInv DEF SpuriousError, storageVars, rulesetVars, taskVars
<1> QED
  BY <1>0, <1>1, <1>2, <1>3, <1>4, SenderErrorInv, ThirdPartyErrorInv,
     PreprocessInv, KindsOfTags
  DEF ApplyResult, ComputedScalar, ComputedFork, MergedScalars, Collected, SentBC,
      ComputedMappingElement, SentDM, OnceRules

(* What the user does with the session keeps the inductive invariant. *)
LEMMA UserStepInv ==
  ASSUME IndInv, TypeOK',
         \/ \E msg \in Message : Receive(msg)
         \/ \E p \in Bannable : ExternalBan(p)
         \/ Finalize
         \/ ContinueExecution
         \/ Terminate
  PROVE  IndInv'
<1>1. ASSUME NEW msg \in Message, Receive(msg) PROVE IndInv'
  BY <1>1, QuietStepInv
  DEF Receive, storageVars, rulesetVars, taskVars, IndInv, OutputStored,
      NoRuntimeError
<1>2. ASSUME NEW p \in Bannable, ExternalBan(p) PROVE IndInv'
  BY <1>2, QuietStepInv, BanPartyQuiet DEF ExternalBan, storageVars, taskVars, IndInv
<1>3. CASE Finalize \/ ContinueExecution \/ Terminate
  BY <1>3, QuietStepInv
  DEF Finalize, ContinueExecution, Terminate, Close, storageVars, rulesetVars,
      taskVars, IndInv, OutputStored
<1> QED  BY <1>1, <1>2, <1>3

(* The inductive invariant holds in every reachable state. *)
THEOREM Invariance == Spec => []IndInv
<1>1. Init => IndInv
  BY InitInv
<1>2. IndInv /\ [Next]_vars => IndInv'
  <2>1. IndInv /\ Next => IndInv'
    BY MakeTaskInv, ApplyResultInv, UserStepInv, UserStepType DEF Next, IndInv
  <2>2. IndInv /\ UNCHANGED vars => IndInv'
    BY StutterType, QuietStepInv
    DEF vars, storageVars, rulesetVars, taskVars, IndInv, OutputStored,
        NoRuntimeError
  <2> QED  BY <2>1, <2>2
<1> QED  BY <1>1, <1>2, PTL DEF Spec

(* For every graph the constructors can build, in every order of tasks,    *)
(* messages, failures and bans, the session finds what it reads in storage *)
(* and never stores a slot twice.                                          *)
THEOREM NeverRuntimeError == Spec => []NoRuntimeError
<1>1. IndInv => NoRuntimeError
  BY DEF IndInv
<1> QED  BY <1>1, Invariance, PTL

(* The conditions in the rules are exactly what storage lacks. *)
THEOREM WaitsMatchStorage == Spec => []WaitsExact
<1>1. IndInv => WaitsExact
  BY DEF IndInv
<1> QED  BY <1>1, Invariance, PTL

-----------------------------------------------------------------------------
(* The collects that have fired hold a quorum of stored elements, and no   *)
(* collect is impossible while the session may go on.                      *)

CollectsOpen ==
  status \in {"InProgress", "ReachedOutput"} => ImpossibleCollects(banned) = {}

(* A step that neither bans a party nor makes a task of a collect. *)
LEMMA CollectsKept ==
  ASSUME CollectSound, CollectsOpen,
         elems \subseteq elems', rules' \subseteq rules,
         UNCHANGED <<sources, banned>>,
         CollectRules \cap (scalarTasks' \cup scalars')
           \subseteq scalarTasks \cup scalars,
         status' \in {"InProgress", "ReachedOutput"} =>
           status \in {"InProgress", "ReachedOutput"}
  PROVE  CollectSound' /\ CollectsOpen'
<1>1. CollectSound'
  BY DEF CollectSound
<1>2. CollectsOpen'
  BY DEF CollectsOpen, ImpossibleCollects
<1> QED  BY <1>1, <1>2

(* A ban keeps the collects sound, and open while the session goes on. *)
LEMMA CollectsBan ==
  ASSUME CollectSound, CollectsOpen, NEW p, BanParty(p),
         UNCHANGED <<elems, scalars, sources>>, scalarTasks' \subseteq scalarTasks
  PROVE  CollectSound' /\ CollectsOpen'
<1>1. CollectSound'
  BY DEF CollectSound
<1>2. CollectsOpen'
  BY DEF CollectsOpen, ImpossibleCollects, BanParty, UpdateWithBannedParty
<1> QED  BY <1>1, <1>2

(* Making a task captures a quorum, and keeps the open collects open. *)
LEMMA CollectsMakeTask ==
  ASSUME IndInv, CollectSound, CollectsOpen, MakeTask
  PROVE  CollectSound' /\ CollectsOpen'
<1>1. ASSUME NEW c \in CollectRules, MakeCollectTask(c)
      PROVE  CollectSound' /\ CollectsOpen'
  <2>1. /\ HasQuorum(c, got[c])
        /\ sources' = [sources EXCEPT ![c] = got[c]]
        /\ scalarTasks' = scalarTasks \cup {c}
        /\ rules' = rules \ {c}
        /\ UNCHANGED <<scalars, elems, banned>>
        /\ InProgress
    BY <1>1 DEF MakeCollectTask, CanPopCollect, SatisfiedCollects, FromAction,
                RemoveRule, storageVars
  <2>2. \A id \in got[c] : <<Values(c), id>> \in elems
    BY DEF IndInv, GotStored
  <2>3. sources \in [CollectRules -> SUBSET Parties]
    BY DEF IndInv, TypeOK, TaskTypeOK
  <2>4. CollectSound'
    BY <2>1, <2>2, <2>3 DEF CollectSound
  <2>5. CollectsOpen'
    BY <2>1 DEF CollectsOpen, ImpossibleCollects, InProgress
  <2> QED  BY <2>4, <2>5
<1>2. CASE MakePreprocessTask
  BY <1>2, CollectsKept DEF MakePreprocessTask, storageVars, rulesetVars
<1>3. ASSUME NEW t \in ScalarRules \cup SendBCRules,
             \/ MakeComputeScalarTask(t)
             \/ MakeMergeScalarsTask(t)
             \/ MakeSendBCTask(t)
      PROVE  CollectSound' /\ CollectsOpen'
  <2>1. t \notin CollectRules
    BY KindsOfTags
  <2> QED
    BY <1>3, <2>1, CollectsKept
    DEF MakeComputeScalarTask, MakeMergeScalarsTask, MakeSendBCTask, FromAction,
        RemoveRule, storageVars, InProgress
<1>4. ASSUME NEW s \in Slots, MakeElementTask(s) \/ MakeSendDMTask(s)
      PROVE  CollectSound' /\ CollectsOpen'
  BY <1>4, CollectsKept
  DEF MakeElementTask, MakeSendDMTask, FromAction, RemoveSlot, storageVars,
      InProgress
<1> QED  BY <1>1, <1>2, <1>3, <1>4 DEF MakeTask

(* Applying a result keeps the captured quorums and the open collects. *)
LEMMA CollectsApplyResult ==
  ASSUME IndInv, CollectSound, CollectsOpen, ApplyResult
  PROVE  CollectSound' /\ CollectsOpen'
<1>1. ASSUME NEW t, AddScalar(t) PROVE CollectSound' /\ CollectsOpen'
  BY <1>1, CollectsKept
  DEF AddScalar, UpdateWithScalarReady, rulesetVars, InProgress
<1>2. ASSUME NEW s, AddElement(s) PROVE CollectSound' /\ CollectsOpen'
  BY <1>2, CollectsKept
  DEF AddElement, UpdateWithElementReady, rulesetVars, InProgress
<1>3. ASSUME NEW t, NoActionNeeded(t) PROVE CollectSound' /\ CollectsOpen'
  BY <1>3, CollectsKept DEF NoActionNeeded, storageVars, rulesetVars
<1>4. ASSUME SpuriousError PROVE CollectSound' /\ CollectsOpen'
  BY <1>4, CollectsKept DEF SpuriousError, storageVars, rulesetVars, taskVars
<1>5. ASSUME NEW s \in Slots, SenderError(s) PROVE CollectSound' /\ CollectsOpen'
  <2>1. CASE BanParty(s[2])
    BY <1>5, <2>1, CollectsBan DEF SenderError, storageVars
  <2>2. CASE ~BanParty(s[2])
    BY <1>5, <2>2, CollectsKept
    DEF SenderError, Escalates, RegisterProvableError, RegisterAttributableError,
        storageVars, rulesetVars
  <2> QED  BY <2>1, <2>2
<1>6. ASSUME NEW p, NEW x, ThirdPartyErrorScalar(x, p) \/ ThirdPartyErrorElement(x, p)
      PROVE  CollectSound' /\ CollectsOpen'
  BY <1>6, CollectsBan
  DEF ThirdPartyErrorScalar, ThirdPartyErrorElement, RegisterProvableError,
      storageVars
<1>7. ASSUME NEW v, MessageError(v) \/ StoreVerifiedValue(v)
      PROVE  CollectSound' /\ CollectsOpen'
  BY <1>7, CollectsKept
  DEF MessageError, StoreVerifiedValue, PreprocessDone, UpdateWithElementReady,
      rulesetVars
<1>8. ASSUME NEW v, NEW e, ConflictingMessages(v, e) PROVE CollectSound' /\ CollectsOpen'
  BY <1>8, CollectsBan
  DEF ConflictingMessages, PreprocessDone, RegisterProvableError
<1>9. ASSUME NEW v, NEW e, DuplicateMessages(v, e) PROVE CollectSound' /\ CollectsOpen'
  BY <1>9, CollectsKept DEF DuplicateMessages, PreprocessDone, rulesetVars
<1> QED
  BY <1>1, <1>2, <1>3, <1>4, <1>5, <1>6, <1>7, <1>8, <1>9
  DEF ApplyResult, ComputedScalar, ComputedFork, MergedScalars, Collected, SentBC,
      ComputedMappingElement, SentDM

(* Every step does. *)
LEMMA CollectsStep ==
  ASSUME IndInv, CollectSound, CollectsOpen, [Next]_vars
  PROVE  CollectSound' /\ CollectsOpen'
<1>1. ASSUME NEW msg, Receive(msg) PROVE CollectSound' /\ CollectsOpen'
  BY <1>1, CollectsKept DEF Receive, storageVars, rulesetVars, taskVars
<1>2. ASSUME NEW p, ExternalBan(p) PROVE CollectSound' /\ CollectsOpen'
  BY <1>2, CollectsBan DEF ExternalBan, storageVars, taskVars
<1>3. CASE Finalize \/ ContinueExecution \/ Terminate
  BY <1>3, CollectsKept
  DEF Finalize, ContinueExecution, Terminate, Close, storageVars, rulesetVars,
      taskVars
<1>4. CASE UNCHANGED vars
  BY <1>4, CollectsKept DEF vars, storageVars, rulesetVars, taskVars
<1> QED
  BY <1>1, <1>2, <1>3, <1>4, CollectsMakeTask, CollectsApplyResult DEF Next

(* At first no collect has fired, and each can get a quorum. *)
LEMMA CollectsInit == Init => CollectSound /\ CollectsOpen
<1> SUFFICES ASSUME Init PROVE CollectSound /\ CollectsOpen
  OBVIOUS
<1>1. CollectSound
  BY KindsOfTags DEF Init, StorageInit, CollectSound, OnceRules
<1>2. \A c \in CollectRules : IsQuorumPossible(c, {})
  <2> SUFFICES ASSUME NEW c \in CollectRules PROVE IsQuorumPossible(c, {})
    OBVIOUS
  <2>1. Node[c].group \ {} = Node[c].group
    OBVIOUS
  <2>2. Cardinality(Node[c].group) \in Nat
    BY GroupAssumption, PartiesAssumption, FS_Subset, FS_CardinalityType
  <2> QED  BY <2>1, <2>2, GroupAssumption DEF IsQuorumPossible
<1> QED
  BY <1>1, <1>2 DEF Init, RulesetInit, CollectsOpen, ImpossibleCollects

(* A collect captures a quorum of elements that are in storage, whatever   *)
(* is banned while its result is on its way.                               *)
THEOREM CollectsAreSound == Spec => []CollectSound
<1>1. IndInv /\ CollectSound /\ CollectsOpen /\ [Next]_vars
        => (CollectSound /\ CollectsOpen)'
  BY CollectsStep
<1> QED  BY <1>1, CollectsInit, Invariance, PTL DEF Spec

(* A session goes on only while each collect that has not fired can still  *)
(* get a quorum.                                                           *)
THEOREM CollectsStayPossible == Spec => []CollectsPossible
<1>1. IndInv /\ CollectSound /\ CollectsOpen /\ [Next]_vars
        => (CollectSound /\ CollectsOpen)'
  BY CollectsStep
<1>2. CollectsOpen => CollectsPossible
  BY DEF CollectsOpen, CollectsPossible, InProgress
<1> QED  BY <1>1, <1>2, CollectsInit, Invariance, PTL DEF Spec
=============================================================================
