--------------------------- MODULE GuaranteeProofs ---------------------------
(***************************************************************************)
(* Proofs about what a session guarantees, for every graph, set of parties *)
(* and messages: which messages it stores and whom it blames, and that it  *)
(* implements the data flow of its graph.                                  *)
(***************************************************************************)
EXTENDS SessionProofs

(* The signed values that other participants may put into messages. *)
SentValues == UNION {SeqRange(msg) : msg \in Message}

(* A value is handled unaltered from its arrival to storage, and only the  *)
(* values that passed preprocessing are stored.                            *)
ValuesUnaltered ==
  /\ \A k \in DOMAIN preprocessing : preprocessing[k].value \in SentValues
  /\ \A v \in preprocessTasks \cup verified : v.value \in SentValues
  /\ \A v \in verified : PassesPreprocessing(v)

(* The invariant behind the theorems of this module. *)
BlameInv ==
  /\ GotExact
  /\ BansAccounted
  /\ ValuesUnaltered
  /\ OneValuePerSlot
  /\ EvidenceSound
  /\ CorrectNotBlamed

-----------------------------------------------------------------------------
(* The steps of a session as far as messages and blame are concerned. *)

(* A step that stores no element and blames nobody. *)
Quiet ==
  /\ UNCHANGED <<elems, verified, got, banned, provable, attributable, external>>
  /\ rules' \subseteq rules

(* A computation failed in a way that a third party is blamed for. *)
ThirdPartyError(tag, p) ==
  /\ tag \in MayFail
  /\ InProgress
  /\ RegisterProvableError(p, "ThirdPartyError", tag, {})
  /\ UNCHANGED <<elems, verified>>

(* Making a task is quiet. *)
LEMMA MakeTaskQuiet == MakeTask => Quiet
BY DEF MakeTask, MakePreprocessTask, MakeComputeScalarTask, MakeMergeScalarsTask,
       MakeCollectTask, MakeElementTask, MakeSendBCTask, MakeSendDMTask,
       FromAction, RemoveRule, RemoveSlot, Quiet, storageVars, rulesetVars,
       errorVars

(* Applying a result stores an element, blames somebody or is quiet. *)
LEMMA ApplyResultSteps ==
  ASSUME ApplyResult
  PROVE  \/ Quiet
         \/ \E s \in Slots : AddElement(s)
         \/ \E s \in Slots : SenderError(s)
         \/ \E v \in preprocessTasks : StoreVerifiedValue(v)
         \/ \E v \in preprocessTasks, e \in verified : ConflictingMessages(v, e)
         \/ \E tag \in Tags, p \in Parties : ThirdPartyError(tag, p)
<1>1. ASSUME NEW t, AddScalar(t) PROVE Quiet
  BY <1>1 DEF AddScalar, UpdateWithScalarReady, rulesetVars, errorVars, Quiet
<1>2. ASSUME NEW t, NoActionNeeded(t) PROVE Quiet
  BY <1>2 DEF NoActionNeeded, storageVars, rulesetVars, errorVars, Quiet
<1>3. ASSUME SpuriousError PROVE Quiet
  BY <1>3 DEF SpuriousError, storageVars, rulesetVars, errorVars, Quiet
<1>4. ASSUME NEW v, MessageError(v) \/ \E e \in verified : DuplicateMessages(v, e)
      PROVE  Quiet
  BY <1>4 DEF MessageError, DuplicateMessages, rulesetVars, Quiet
<1>5. ASSUME NEW t \in ScalarRules, NEW p \in Parties, ThirdPartyErrorScalar(t, p)
      PROVE  \E tag \in Tags : ThirdPartyError(tag, p)
  BY <1>5, KindsOfTags
  DEF ThirdPartyErrorScalar, ThirdPartyError, Fails, OnceRules, storageVars
<1>6. ASSUME NEW s \in Slots, NEW p \in Parties, ThirdPartyErrorElement(s, p)
      PROVE  \E tag \in Tags : ThirdPartyError(tag, p)
  BY <1>6, SlotTypes, KindsOfTags
  DEF ThirdPartyErrorElement, ThirdPartyError, Fails, storageVars
<1> QED
  BY <1>1, <1>2, <1>3, <1>4, <1>5, <1>6
  DEF ApplyResult, ComputedScalar, ComputedFork, MergedScalars, Collected, SentBC,
      ComputedMappingElement, SentDM

(* So does every step, and the user may ban a party. *)
LEMMA Steps ==
  ASSUME [Next]_vars
  PROVE  \/ Quiet
         \/ \E s \in Slots : AddElement(s)
         \/ \E s \in Slots : SenderError(s)
         \/ \E v \in preprocessTasks : StoreVerifiedValue(v)
         \/ \E v \in preprocessTasks, e \in verified : ConflictingMessages(v, e)
         \/ \E tag \in Tags, p \in Parties : ThirdPartyError(tag, p)
         \/ \E p \in Bannable : ExternalBan(p)
<1>1. ASSUME NEW msg, Receive(msg) PROVE Quiet
  BY <1>1 DEF Receive, storageVars, rulesetVars, errorVars, Quiet
<1>2. CASE Finalize \/ ContinueExecution \/ Terminate
  BY <1>2 DEF Finalize, ContinueExecution, Terminate, Close, storageVars,
              rulesetVars, errorVars, Quiet
<1>3. CASE UNCHANGED vars
  BY <1>3 DEF vars, storageVars, rulesetVars, errorVars, Quiet
<1> QED
  BY <1>1, <1>2, <1>3, MakeTaskQuiet, ApplyResultSteps DEF Next

(* A sender's failure is recorded as the code's own errors cannot happen:  *)
(* its party is banned, and blamed with or without evidence.               *)
LEMMA SenderErrorSteps ==
  ASSUME IndInv, NEW s \in Slots, SenderError(s)
  PROVE  /\ s \in Slots \ slots
         /\ s[1] \in DOMAIN MessagesOf
         /\ UNCHANGED <<elems, verified>>
         /\ \/ s[1] \in Escalated /\ RegisterAttributableError(s[2])
            \/ /\ s[1] \notin Escalated
               /\ RegisterProvableError(s[2], SenderErrorKind(s[1]), s[1],
                                        StoredValues(MessagesOf[s[1]], s[2]))
<1>1. s \in Slots \ slots
  BY DEF SenderError, IndInv, OncePerSlot
<1>2. s[1] \in DOMAIN MessagesOf
  <2>1. s[1] \in Tags /\ Node[s[1]].kind # "ComputeScalar"
    BY SlotTypes, KindsOfTags
    DEF ElementRules, MappingRules, SendDMRules, OfKind
  <2>2. Node[s[1]].kind \in {"ComputeMapping", "DeserializeAndCheck"}
    BY <2>1, NodeAssumption DEF SenderError, Fails, SenderFunctions
  <2> QED  BY <2>1, <2>2, EvidenceAssumption DEF OfKind
<1>3. s[1] \notin Escalated => \A n \in MessagesOf[s[1]] : <<n, s[2]>> \in elems
  BY <1>1, <1>2, EvidenceStored
<1> QED  BY <1>1, <1>2, <1>3 DEF SenderError, Escalates, storageVars

(* A computed element is new, and is not a received one. *)
LEMMA AddElementSteps ==
  ASSUME IndInv, NEW s \in Slots, AddElement(s)
  PROVE  /\ s[1] \notin Names
         /\ elems' = elems \cup {<<s[1], s[2]>>}
         /\ UpdateWithElementReady(s[1], s[2])
         /\ UNCHANGED <<verified, provable, attributable, external>>
<1>1. s \notin elems
  BY DEF AddElement, IndInv, OncePerSlot
<1>2. s[1] \notin Names
  BY SlotTypes, KindsOfTags, NamesAssumption
<1> QED  BY <1>1, <1>2, SlotTypes DEF AddElement, errorVars

-----------------------------------------------------------------------------
(* What the collects have counted. *)

(* A new element is counted by the collects that take it. *)
LEMMA GotElement ==
  ASSUME TypeOK, GotExact, NEW tag, NEW id \in Parties,
         UpdateWithElementReady(tag, id), elems' = elems \cup {<<tag, id>>}
  PROVE  GotExact'
<1> SUFFICES ASSUME NEW c \in CollectRules \cap rules'
             PROVE  /\ got'[c] \subseteq
                         {x \in Parties : <<Values(c), x>> \in elems'}
                    /\ {x \in Parties : <<Values(c), x>> \in elems'} \ got'[c]
                         \subseteq banned'
  BY DEF GotExact
<1>1. c \in rules /\ banned' = banned
  BY DEF UpdateWithElementReady
<1>2. /\ got[c] \subseteq {x \in Parties : <<Values(c), x>> \in elems}
      /\ {x \in Parties : <<Values(c), x>> \in elems} \ got[c] \subseteq banned
  BY <1>1 DEF GotExact
<1>3. got'[c] = IF Values(c) = tag THEN got[c] \cup {id} ELSE got[c]
  BY <1>1 DEF UpdateWithElementReady
<1> QED  BY <1>1, <1>2, <1>3

(* A banned party is no longer counted. *)
LEMMA GotBan ==
  ASSUME GotExact, NEW p, BanParty(p), UNCHANGED elems
  PROVE  GotExact'
<1> SUFFICES ASSUME NEW c \in CollectRules \cap rules'
             PROVE  /\ got'[c] \subseteq
                         {x \in Parties : <<Values(c), x>> \in elems}
                    /\ {x \in Parties : <<Values(c), x>> \in elems} \ got'[c]
                         \subseteq banned'
  BY DEF GotExact
<1>1. c \in rules /\ banned' = banned \cup {p} /\ got'[c] = got[c] \ {p}
  BY DEF BanParty, UpdateWithBannedParty
<1>2. /\ got[c] \subseteq {x \in Parties : <<Values(c), x>> \in elems}
      /\ {x \in Parties : <<Values(c), x>> \in elems} \ got[c] \subseteq banned
  BY <1>1 DEF GotExact
<1> QED  BY <1>1, <1>2

(* A step that counts nothing and keeps the elements. *)
LEMMA GotQuiet == GotExact /\ Quiet => GotExact'
BY DEF GotExact, Quiet

-----------------------------------------------------------------------------
(* The reasons of the bans. *)

(* A provable error adds its guilty party to the bans and to the recorded  *)
(* errors; it may replace an earlier error of the same party only.         *)
LEMMA BansProvable ==
  ASSUME BansAccounted, NEW p, NEW kind, NEW tag, NEW values,
         RegisterProvableError(p, kind, tag, values)
  PROVE  BansAccounted'
<1> DEFINE new == [guilty |-> p, kind |-> kind, tag |-> tag, values |-> values]
<1>1. /\ provable' = {e \in provable : e.guilty # p} \cup {new}
      /\ banned' = banned \cup {p}
      /\ UNCHANGED <<attributable, external>>
  BY DEF RegisterProvableError, BanParty, UpdateWithBannedParty
<1>2. new.guilty = p
  OBVIOUS
<1>3. {e.guilty : e \in provable'} = {e.guilty : e \in provable} \cup {p}
  BY <1>1, <1>2
<1> QED  BY <1>1, <1>3 DEF BansAccounted

(* So do an error without evidence and a ban by the user. *)
LEMMA BansOther ==
  ASSUME BansAccounted, NEW p, RegisterAttributableError(p) \/ ExternalBan(p)
  PROVE  BansAccounted'
BY DEF BansAccounted, RegisterAttributableError, ExternalBan, BanParty,
       UpdateWithBannedParty

-----------------------------------------------------------------------------
(* The received values and the remote slots. *)

(* The values in a message are put on the stack as they are. *)
LEMMA ReceiveUnaltered ==
  ASSUME TypeOK, ValuesUnaltered, NEW msg \in Message, Receive(msg)
  PROVE  ValuesUnaltered'
<1> DEFINE parts == [k \in 1..Len(msg) |->
                       [value |-> msg[k], mid |-> received + 1, part |-> k]]
<1>1. msg \in Seq(SignedValues)
  BY MessageAssumption
<1>2. /\ preprocessing' = preprocessing \o parts
      /\ UNCHANGED <<preprocessTasks, verified>>
  BY DEF Receive, taskVars, storageVars
<1>3. \A k \in 1..Len(msg) : msg[k] \in SentValues
  BY <1>1 DEF SentValues, SeqRange
<1>4. preprocessing \in Seq(VerifiedValues)
  BY DEF TypeOK
<1>5. Len(msg) \in Nat
  BY <1>1
<1>6. parts \in Seq([value : SentValues, mid : {received + 1}, part : Nat])
  BY <1>3, <1>5
<1>7. Len(parts) = Len(msg)
  BY <1>5
<1>8. ASSUME NEW k \in DOMAIN preprocessing'
      PROVE  preprocessing'[k].value \in SentValues
  <2> DEFINE n == Len(preprocessing)
  <2>1. n \in Nat /\ DOMAIN preprocessing = 1..n
    BY <1>4
  <2>2. k \in 1..(n + Len(msg))
    BY <1>2, <1>4, <1>5, <1>6, <1>7, <2>1
  <2>3. CASE k \in 1..n
    <3>1. preprocessing'[k] = preprocessing[k]
      BY <1>2, <1>4, <1>6, <2>1, <2>3
    <3> QED  BY <2>1, <2>3, <3>1 DEF ValuesUnaltered
  <2>4. CASE k \notin 1..n
    <3>1. k - n \in 1..Len(msg)
      BY <1>5, <2>1, <2>2, <2>4
    <3>2. preprocessing'[k] = parts[k - n]
      BY <1>2, <1>4, <1>5, <1>6, <1>7, <2>1, <2>2, <2>4, <3>1
    <3>3. parts[k - n].value = msg[k - n]
      BY <3>1
    <3> QED  BY <1>3, <3>1, <3>2, <3>3
  <2> QED  BY <2>3, <2>4
<1> QED  BY <1>2, <1>8 DEF ValuesUnaltered, PassesPreprocessing

(* Its values are preprocessed one at a time. *)
LEMMA MakePreprocessTaskUnaltered ==
  ASSUME TypeOK, ValuesUnaltered, MakePreprocessTask
  PROVE  ValuesUnaltered'
<1> DEFINE n == Len(preprocessing)
<1>1. /\ preprocessing \in Seq(VerifiedValues)
      /\ preprocessing # <<>>
      /\ preprocessing' = SubSeq(preprocessing, 1, n - 1)
      /\ preprocessTasks' = preprocessTasks \cup {preprocessing[n]}
      /\ UNCHANGED verified
  BY DEF TypeOK, MakePreprocessTask, storageVars
<1>2. n \in Nat /\ n > 0 /\ DOMAIN preprocessing = 1..n
  BY <1>1
<1>3. preprocessing[n].value \in SentValues
  BY <1>2 DEF ValuesUnaltered
<1>4. ASSUME NEW k \in DOMAIN preprocessing'
      PROVE  preprocessing'[k].value \in SentValues
  <2>1. k \in 1..(n - 1) /\ preprocessing'[k] = preprocessing[k]
    BY <1>1, <1>2
  <2> QED  BY <1>2, <2>1 DEF ValuesUnaltered
<1> QED  BY <1>1, <1>3, <1>4 DEF ValuesUnaltered, PassesPreprocessing

(* The other steps only take preprocessing tasks away. *)
MessagesKept ==
  /\ UNCHANGED <<preprocessing, verified>>
  /\ preprocessTasks' \subseteq preprocessTasks

(* The steps that handle received values. *)
LEMMA MessageSteps ==
  ASSUME [Next]_vars
  PROVE  \/ MessagesKept
         \/ \E msg \in Message : Receive(msg)
         \/ MakePreprocessTask
         \/ \E v \in preprocessTasks : StoreVerifiedValue(v)
<1>1. MakeTask => MessagesKept \/ MakePreprocessTask
  BY DEF MakeTask, MakeComputeScalarTask, MakeMergeScalarsTask, MakeCollectTask,
         MakeElementTask, MakeSendBCTask, MakeSendDMTask, FromAction, storageVars,
         MessagesKept
<1>2. ASSUME ApplyResult
      PROVE  MessagesKept \/ \E v \in preprocessTasks : StoreVerifiedValue(v)
  BY <1>2
  DEF ApplyResult, ComputedScalar, ComputedFork, MergedScalars, Collected, SentBC,
      AddScalar, NoActionNeeded, ComputedMappingElement, SentDM, AddElement,
      SpuriousError, SenderError, ThirdPartyErrorScalar, ThirdPartyErrorElement,
      MessageError, ConflictingMessages, DuplicateMessages, PreprocessDone,
      storageVars, taskVars, MessagesKept
<1>3. ASSUME \/ \E p \in Bannable : ExternalBan(p)
             \/ Finalize
             \/ ContinueExecution
             \/ Terminate
             \/ UNCHANGED vars
      PROVE  MessagesKept
  BY <1>3 DEF ExternalBan, Finalize, ContinueExecution, Terminate, Close, vars,
              storageVars, taskVars, MessagesKept
<1> QED  BY <1>1, <1>2, <1>3 DEF Next

(* No step alters a value. *)
LEMMA UnalteredStep ==
  ASSUME TypeOK, ValuesUnaltered, [Next]_vars
  PROVE  ValuesUnaltered'
<1>1. CASE MessagesKept
  BY <1>1 DEF MessagesKept, ValuesUnaltered, PassesPreprocessing
<1>2. ASSUME NEW v \in preprocessTasks, StoreVerifiedValue(v)
      PROVE  ValuesUnaltered'
  <2>1. /\ PassesPreprocessing(v)
        /\ verified' = verified \cup {v}
        /\ preprocessTasks' \subseteq preprocessTasks
        /\ UNCHANGED preprocessing
    BY <1>2 DEF StoreVerifiedValue, PreprocessDone
  <2> QED  BY <2>1 DEF ValuesUnaltered, PassesPreprocessing
<1> QED
  BY <1>1, <1>2, MessageSteps, ReceiveUnaltered, MakePreprocessTaskUnaltered

(* A value that passed preprocessing is one its source signed. *)
LEMMA PassedIsSigned ==
  ASSUME NEW v, v.value \in SentValues, PassesPreprocessing(v)
  PROVE  v.value \in SignedFor(v.value.source)
BY DEF PassesPreprocessing, SignedFor, SentValues

(* Storing a value fills one remote slot. *)
LEMMA OneValueStore ==
  ASSUME OneValuePerSlot, TypeOK, NEW v \in preprocessTasks, StoreVerifiedValue(v)
  PROVE  OneValuePerSlot'
<1>1. /\ elems' = elems \cup {RemoteSlot(v)}
      /\ verified' = verified \cup {v}
      /\ RemoteSlot(v) \notin elems
  BY DEF StoreVerifiedValue
<1>2. RemoteSlot(v)[1] \in Names
  BY DEF TypeOK, TaskTypeOK, VerifiedValues, SignedValues, RemoteSlot
<1>3. {RemoteSlot(w) : w \in verified} = {e \in elems : e[1] \in Names}
  BY DEF OneValuePerSlot
<1>4. {RemoteSlot(w) : w \in verified'} = {e \in elems' : e[1] \in Names}
  BY <1>1, <1>2, <1>3
<1>5. \A w \in verified : RemoteSlot(w) # RemoteSlot(v)
  BY <1>1, <1>3
<1>6. \A u, w \in verified' : RemoteSlot(u) = RemoteSlot(w) => u = w
  BY <1>1, <1>5 DEF OneValuePerSlot
<1> QED  BY <1>4, <1>6 DEF OneValuePerSlot, RemoteSlot

(* Storing a computed element fills no remote slot. *)
LEMMA OneValueElement ==
  ASSUME OneValuePerSlot, NEW tag, tag \notin Names, NEW id,
         elems' = elems \cup {<<tag, id>>}, UNCHANGED verified
  PROVE  OneValuePerSlot'
BY DEF OneValuePerSlot, RemoteSlot

-----------------------------------------------------------------------------
(* The evidence and who is blamed. *)

(* What has to be shown of a new provable error. *)
Backed(p, kind, tag, values) ==
  /\ SignedBy(p, values)
  /\ kind = "ConflictingMessages" =>
       \E v, w \in values : RemoteSlot(v) = RemoteSlot(w) /\ ~SameContent(v, w)
  /\ kind \in {"SenderError", "SenderErrorWithReveal"} =>
       {v.value.name : v \in values} = MessagesOf[tag]

(* A backed error against a party that is not correct, or of a function    *)
(* that may fail, can be recorded.                                         *)
LEMMA BlameProvable ==
  ASSUME EvidenceSound, CorrectNotBlamed,
         NEW p, NEW kind, NEW tag, NEW values,
         RegisterProvableError(p, kind, tag, values),
         Backed(p, kind, tag, values), Correct(p) => tag \in MayFail
  PROVE  EvidenceSound' /\ CorrectNotBlamed'
<1> DEFINE new == [guilty |-> p, kind |-> kind, tag |-> tag, values |-> values]
<1>1. provable' \subseteq provable \cup {new} /\ UNCHANGED attributable
  BY DEF RegisterProvableError
<1>2. new.guilty = p /\ new.kind = kind /\ new.tag = tag /\ new.values = values
  OBVIOUS
<1> HIDE DEF new
<1>3. EvidenceSound'
  <2> SUFFICES ASSUME NEW e \in provable'
               PROVE  Backed(e.guilty, e.kind, e.tag, e.values)
    BY DEF EvidenceSound, Backed, SignedBy, RemoteSlot, SameContent
  <2>1. CASE e \in provable
    BY <2>1 DEF EvidenceSound, Backed
  <2>2. CASE e = new
    BY <1>2, <2>2
  <2> QED  BY <1>1, <2>1, <2>2
<1>4. CorrectNotBlamed'
  <2>1. \A e \in provable' : Correct(e.guilty) => e.tag \in MayFail
    BY <1>1, <1>2 DEF CorrectNotBlamed
  <2>2. \A q \in attributable' : Correct(q) => Escalated \cap MayFail # {}
    BY <1>1 DEF CorrectNotBlamed
  <2> QED  BY <2>1, <2>2 DEF CorrectNotBlamed, Correct, SignedFor
<1> QED  BY <1>3, <1>4

(* Two values with different contents under one name are never sent by a   *)
(* correct party, and are the evidence.                                    *)
LEMMA ConflictBlame ==
  ASSUME ValuesUnaltered, EvidenceSound, CorrectNotBlamed,
         NEW v \in preprocessTasks, NEW w \in verified, ConflictingMessages(v, w)
  PROVE  EvidenceSound' /\ CorrectNotBlamed'
<1> DEFINE p == v.value.source
<1>1. /\ PassesPreprocessing(v) /\ PassesPreprocessing(w)
      /\ w.value.name = v.value.name /\ w.value.source = p
      /\ ~SameContent(w, v)
      /\ RegisterProvableError(p, "ConflictingMessages", v.value.name, {w, v})
  BY DEF ConflictingMessages, StoredValues, ValuesUnaltered
<1>2. v.value \in SignedFor(p) /\ w.value \in SignedFor(p)
  BY <1>1, PassedIsSigned DEF ValuesUnaltered
<1>3. ~Correct(p)
  BY <1>1, <1>2 DEF Correct, SameContent
<1>4. Backed(p, "ConflictingMessages", v.value.name, {w, v})
  <2>1. SignedBy(p, {w, v})
    BY <1>1 DEF SignedBy, PassesPreprocessing
  <2>2. \E x, y \in {w, v} : RemoteSlot(x) = RemoteSlot(y) /\ ~SameContent(x, y)
    BY <1>1 DEF RemoteSlot
  <2> QED  BY <2>1, <2>2 DEF Backed
<1> QED  BY <1>1, <1>3, <1>4, BlameProvable

(* Every filled remote slot holds a value that its source signed. *)
LEMMA StoredIsSigned ==
  ASSUME ValuesUnaltered, OneValuePerSlot, NEW n \in Names, NEW p,
         <<n, p>> \in elems
  PROVE  \E v \in StoredValues({n}, p) : v.value \in SignedFor(p)
<1>1. PICK v \in verified : RemoteSlot(v) = <<n, p>>
  <2>1. <<n, p>> \in {RemoteSlot(v) : v \in verified}
    BY DEF OneValuePerSlot
  <2> QED  BY <2>1
<1>2. v.value.name = n /\ v.value.source = p
  BY <1>1 DEF RemoteSlot
<1> QED  BY <1>2, PassedIsSigned DEF ValuesUnaltered, StoredValues

(* The first value of a correct party under a name is deserialized. *)
LEMMA CorrectDeserializes ==
  ASSUME IndInv, ValuesUnaltered, OneValuePerSlot, NEW s \in Slots \ slots,
         Node[s[1]].kind = "DeserializeAndCheck", Correct(s[2])
  PROVE  Deserializes(s)
<1> DEFINE r == Node[s[1]].args[1]
<1>1. s[1] \in Tags /\ s[1] \in OfKind({"DeserializeAndCheck"})
  BY SlotTypes, KindsOfTags DEF OfKind
<1>2. r \in AllArgTags(s[1])
  BY <1>1, ArityAssumption DEF AllArgTags, SeqRange
<1>3. r \in Receives
  BY <1>1, <1>2, NodeAssumption DEF ArgKinds, Receives
<1>4. r \in ElementNeeds(s[1]) /\ r \in Names
  BY <1>2, <1>3, KindsOfTags, NamesAssumption DEF ElementNeeds
<1>5. <<r, s[2]>> \in elems
  BY <1>4 DEF IndInv, PoppedComplete, WaitsExact, ElementWaitsExact
<1>6. PICK v \in StoredValues({r}, s[2]) : v.value \in SignedFor(s[2])
  BY <1>4, <1>5, StoredIsSigned
<1>7. v.value.name = r /\ v.value.source = s[2]
  BY DEF StoredValues
<1>8. /\ (v.value.destination # None) = Node[s[1]].direct
      /\ s[2] \in PossibleIds[r]
      /\ v.value.payload \notin Malformed
  BY <1>1, <1>6, <1>7 DEF Correct
<1> QED  BY <1>6, <1>7, <1>8 DEF Deserializes

(* A sender-attributable failure: the messages it is reproduced from are   *)
(* all there, and with a correct sender it was the function that failed.   *)
LEMMA SenderErrorBlame ==
  ASSUME IndInv, ValuesUnaltered, OneValuePerSlot, EvidenceSound, CorrectNotBlamed,
         NEW s \in Slots, SenderError(s)
  PROVE  EvidenceSound' /\ CorrectNotBlamed'
<1>1. s \in Slots \ slots /\ s[1] \in DOMAIN MessagesOf
  BY SenderErrorSteps
<1>2. Correct(s[2]) => s[1] \in MayFail
  BY <1>1, CorrectDeserializes DEF SenderError, Fails
<1>3. CASE s[1] \in Escalated /\ RegisterAttributableError(s[2])
  <2>1. attributable' = attributable \cup {s[2]} /\ UNCHANGED provable
    BY <1>3 DEF RegisterAttributableError
  <2>2. EvidenceSound'
    BY <2>1 DEF EvidenceSound, SignedBy, RemoteSlot, SameContent
  <2>3. \A q \in attributable' : Correct(q) => Escalated \cap MayFail # {}
    BY <1>2, <1>3, <2>1 DEF CorrectNotBlamed
  <2> QED  BY <2>1, <2>2, <2>3 DEF CorrectNotBlamed, Correct, SignedFor
<1>4. ASSUME s[1] \notin Escalated,
             RegisterProvableError(s[2], SenderErrorKind(s[1]), s[1],
                                   StoredValues(MessagesOf[s[1]], s[2]))
      PROVE  EvidenceSound' /\ CorrectNotBlamed'
  <2> DEFINE values == StoredValues(MessagesOf[s[1]], s[2])
  <2>1. SignedBy(s[2], values)
    BY DEF SignedBy, StoredValues, ValuesUnaltered, PassesPreprocessing
  <2>2. {v.value.name : v \in values} = MessagesOf[s[1]]
    <3>1. \A v \in values : v.value.name \in MessagesOf[s[1]]
      BY DEF StoredValues
    <3>2. ASSUME NEW n \in MessagesOf[s[1]]
          PROVE  \E v \in values : v.value.name = n
      <4>1. n \in Names
        BY <1>1, EvidenceAssumption, NamesAssumption
      <4>2. <<n, s[2]>> \in elems
        BY <1>1, <1>4, EvidenceStored
      <4>3. PICK v \in StoredValues({n}, s[2]) : TRUE
        BY <4>1, <4>2, StoredIsSigned
      <4> QED  BY <4>3 DEF StoredValues
    <3> QED  BY <3>1, <3>2
  <2>3. SenderErrorKind(s[1]) # "ConflictingMessages"
    BY DEF SenderErrorKind
  <2>4. Backed(s[2], SenderErrorKind(s[1]), s[1], values)
    BY <2>1, <2>2, <2>3 DEF Backed
  <2> QED  BY <1>2, <1>4, <2>4, BlameProvable
<1> QED  BY <1>3, <1>4, SenderErrorSteps

(* A failure blamed on a third party needs no evidence but a function that *)
(* failed.                                                                 *)
LEMMA ThirdPartyBlame ==
  ASSUME EvidenceSound, CorrectNotBlamed, NEW tag, NEW p, ThirdPartyError(tag, p)
  PROVE  EvidenceSound' /\ CorrectNotBlamed'
<1>1. Backed(p, "ThirdPartyError", tag, {})
  BY DEF Backed, SignedBy
<1> QED  BY <1>1, BlameProvable DEF ThirdPartyError

(* Steps that record no error of a party change nothing here. *)
LEMMA BlameKept ==
  ASSUME EvidenceSound, CorrectNotBlamed, UNCHANGED <<provable, attributable>>
  PROVE  EvidenceSound' /\ CorrectNotBlamed'
BY DEF EvidenceSound, CorrectNotBlamed, SignedBy, RemoteSlot, SameContent, Correct,
       SignedFor

-----------------------------------------------------------------------------
(* At first nothing is stored and nobody is blamed. *)
LEMMA BlameInit == Init => BlameInv
<1> SUFFICES ASSUME Init PROVE BlameInv
  OBVIOUS
<1>1. GotExact /\ BansAccounted
  BY DEF Init, StorageInit, RulesetInit, GotExact, BansAccounted
<1>2. ValuesUnaltered /\ OneValuePerSlot
  BY DEF Init, StorageInit, ValuesUnaltered, OneValuePerSlot
<1>3. EvidenceSound /\ CorrectNotBlamed
  BY DEF Init, EvidenceSound, CorrectNotBlamed
<1> QED  BY <1>1, <1>2, <1>3 DEF BlameInv

(* Every step keeps the invariant. *)
LEMMA BlameStep ==
  ASSUME IndInv, BlameInv, [Next]_vars
  PROVE  BlameInv'
<1> USE DEF BlameInv
<1>1. ValuesUnaltered'
  BY UnalteredStep DEF IndInv
<1>2. CASE Quiet
  <2>1. BansAccounted' /\ OneValuePerSlot'
    BY <1>2 DEF Quiet, BansAccounted, OneValuePerSlot, RemoteSlot
  <2> QED  BY <1>1, <1>2, <2>1, GotQuiet, BlameKept DEF Quiet
<1>3. ASSUME NEW s \in Slots, AddElement(s) PROVE BlameInv'
  <2>1. GotExact' /\ OneValuePerSlot'
    BY <1>3, AddElementSteps, GotElement, OneValueElement, SlotTypes DEF IndInv
  <2>2. BansAccounted'
    BY <1>3, AddElementSteps DEF BansAccounted, UpdateWithElementReady
  <2> QED  BY <1>1, <1>3, <2>1, <2>2, AddElementSteps, BlameKept
<1>4. ASSUME NEW v \in preprocessTasks, StoreVerifiedValue(v) PROVE BlameInv'
  <2>1. /\ v.value.source \in Parties
        /\ elems' = elems \cup {<<v.value.name, v.value.source>>}
        /\ UpdateWithElementReady(v.value.name, v.value.source)
        /\ UNCHANGED <<provable, attributable, external>>
    BY <1>4 DEF StoreVerifiedValue, PassesPreprocessing, RemoteSlot, errorVars
  <2>2. GotExact' /\ OneValuePerSlot'
    BY <1>4, <2>1, GotElement, OneValueStore DEF IndInv
  <2>3. BansAccounted'
    BY <2>1 DEF BansAccounted, UpdateWithElementReady
  <2> QED  BY <1>1, <2>1, <2>2, <2>3, BlameKept
<1>5. ASSUME NEW s \in Slots, SenderError(s) PROVE BlameInv'
  <2>1. BanParty(s[2]) /\ UNCHANGED <<elems, verified>>
    BY <1>5, SenderErrorSteps
    DEF RegisterProvableError, RegisterAttributableError
  <2>2. GotExact' /\ OneValuePerSlot'
    BY <2>1, GotBan DEF OneValuePerSlot, RemoteSlot
  <2>3. BansAccounted'
    BY <1>5, SenderErrorSteps, BansProvable, BansOther
  <2> QED  BY <1>1, <1>5, <2>2, <2>3, SenderErrorBlame
<1>6. ASSUME NEW v \in preprocessTasks, NEW e \in verified,
             ConflictingMessages(v, e)
      PROVE  BlameInv'
  <2>1. /\ RegisterProvableError(v.value.source, "ConflictingMessages",
                                 v.value.name, {e, v})
        /\ BanParty(v.value.source)
        /\ UNCHANGED <<elems, verified>>
    BY <1>6 DEF ConflictingMessages, RegisterProvableError
  <2>2. GotExact' /\ OneValuePerSlot'
    BY <2>1, GotBan DEF OneValuePerSlot, RemoteSlot
  <2> QED  BY <1>1, <1>6, <2>1, <2>2, BansProvable, ConflictBlame
<1>7. ASSUME NEW tag, NEW p, ThirdPartyError(tag, p) PROVE BlameInv'
  <2>1. /\ RegisterProvableError(p, "ThirdPartyError", tag, {})
        /\ BanParty(p)
        /\ UNCHANGED <<elems, verified>>
    BY <1>7 DEF ThirdPartyError, RegisterProvableError
  <2>2. GotExact' /\ OneValuePerSlot'
    BY <2>1, GotBan DEF OneValuePerSlot, RemoteSlot
  <2> QED  BY <1>1, <1>7, <2>1, <2>2, BansProvable, ThirdPartyBlame
<1>8. ASSUME NEW p, ExternalBan(p) PROVE BlameInv'
  <2>1. BanParty(p) /\ UNCHANGED <<elems, verified, provable, attributable>>
    BY <1>8 DEF ExternalBan, storageVars
  <2>2. GotExact' /\ OneValuePerSlot'
    BY <2>1, GotBan DEF OneValuePerSlot, RemoteSlot
  <2> QED  BY <1>1, <1>8, <2>1, <2>2, BansOther, BlameKept
<1> QED  BY <1>2, <1>3, <1>4, <1>5, <1>6, <1>7, <1>8, Steps

(* The invariant holds in every reachable state. *)
THEOREM BlameInvariance == Spec => []BlameInv
<1>1. IndInv /\ BlameInv /\ [Next]_vars => BlameInv'
  BY BlameStep
<1> QED  BY <1>1, BlameInit, Invariance, PTL DEF Spec

(* A collect that has not fired has counted every stored element of a      *)
(* party that is not banned, whatever the order of elements and bans.      *)
THEOREM CollectsCountExactly == Spec => []GotExact
<1>1. BlameInv => GotExact
  BY DEF BlameInv
<1> QED  BY <1>1, BlameInvariance, PTL

(* No ban is without a recorded reason and no recorded failure without a   *)
(* ban, although a later provable error of a party replaces the earlier.   *)
THEOREM BansHaveReasons == Spec => []BansAccounted
<1>1. BlameInv => BansAccounted
  BY DEF BlameInv
<1> QED  BY <1>1, BlameInvariance, PTL

(* However the preprocessing tasks of a party's values interleave, a       *)
(* remote slot is filled together with one verified value, and only one.   *)
THEOREM RemoteSlotsHoldOneValue == Spec => []OneValuePerSlot
<1>1. BlameInv => OneValuePerSlot
  BY DEF BlameInv
<1> QED  BY <1>1, BlameInvariance, PTL

(* Every provable error comes with values that the guilty party signed:    *)
(* two that conflict, or all that the failure is reproduced from.          *)
THEOREM EvidenceIsSound == Spec => []EvidenceSound
<1>1. BlameInv => EvidenceSound
  BY DEF BlameInv
<1> QED  BY <1>1, BlameInvariance, PTL

(* A party that signs one well-formed value per name is blamed only when a *)
(* function of the protocol fails on its values.                           *)
THEOREM CorrectPartiesNotBlamed == Spec => []CorrectNotBlamed
<1>1. BlameInv => CorrectNotBlamed
  BY DEF BlameInv
<1> QED  BY <1>1, BlameInvariance, PTL

-----------------------------------------------------------------------------
(* The data flow of the graph. *)


(* What was popped had its scalar conditions satisfied, and still has. *)
PoppedReady ==
  /\ \A t \in OnceRules \ rules : scalarWait[t] = {}
  /\ \A s \in Slots \ slots : scalarWait[s[1]] = {}

(* A collect is waiting, has a task, or is stored. *)
CollectsAccounted == CollectRules \subseteq rules \cup scalarTasks \cup scalars

(* The invariant that the step simulation rests on. *)
FlowInv ==
  /\ IndInv
  /\ CollectSound
  /\ CollectsOpen
  /\ PoppedReady
  /\ CollectsAccounted

-----------------------------------------------------------------------------
(* The invariant is inductive. *)

(* At first nothing was popped. *)
LEMMA PoppedInit == Init => PoppedReady /\ CollectsAccounted
BY DEF Init, RulesetInit, PoppedReady, CollectsAccounted, OnceRules

(* A step that removes no rule and no slot, fills no scalar and keeps the  *)
(* tasks of collects.                                                      *)
LEMMA PoppedKept ==
  ASSUME PoppedReady, CollectsAccounted,
         UNCHANGED <<scalarWait, rules, slots, scalars>>,
         CollectRules \cap scalarTasks \subseteq scalarTasks'
  PROVE  PoppedReady' /\ CollectsAccounted'
BY DEF PoppedReady, CollectsAccounted

(* What is popped has its conditions satisfied. *)
LEMMA PoppedMakeTask ==
  ASSUME PoppedReady, CollectsAccounted, MakeTask
  PROVE  PoppedReady' /\ CollectsAccounted'
<1>1. CASE MakePreprocessTask
  BY <1>1, PoppedKept DEF MakePreprocessTask, storageVars, rulesetVars
<1>2. ASSUME NEW t \in OnceRules, RemoveRule(t), scalarWait[t] = {},
             scalarTasks' = scalarTasks \cup {t}, UNCHANGED scalars
      PROVE  PoppedReady' /\ CollectsAccounted'
  BY <1>2 DEF RemoveRule, PoppedReady, CollectsAccounted
<1>3. ASSUME NEW s \in Slots, RemoveSlot(s), scalarWait[s[1]] = {},
             UNCHANGED <<scalars, scalarTasks>>
      PROVE  PoppedReady' /\ CollectsAccounted'
  BY <1>3 DEF RemoveSlot, PoppedReady, CollectsAccounted
<1>4. ASSUME NEW t \in ScalarRules,
             MakeComputeScalarTask(t) \/ MakeMergeScalarsTask(t)
      PROVE  PoppedReady' /\ CollectsAccounted'
  BY <1>2, <1>4
  DEF MakeComputeScalarTask, MakeMergeScalarsTask, CanPopScalar, SatisfiedScalars,
      FromAction, storageVars, OnceRules
<1>5. ASSUME NEW c \in CollectRules, MakeCollectTask(c)
      PROVE  PoppedReady' /\ CollectsAccounted'
  BY <1>2, <1>5
  DEF MakeCollectTask, CanPopCollect, SatisfiedCollects, FromAction, storageVars,
      OnceRules
<1>6. ASSUME NEW t \in SendBCRules, MakeSendBCTask(t)
      PROVE  PoppedReady' /\ CollectsAccounted'
  BY <1>2, <1>6
  DEF MakeSendBCTask, CanPopSendBC, SatisfiedSendBCs, FromAction, storageVars,
      OnceRules
<1>7. ASSUME NEW s \in Slots, MakeElementTask(s) \/ MakeSendDMTask(s)
      PROVE  PoppedReady' /\ CollectsAccounted'
  BY <1>3, <1>7
  DEF MakeElementTask, MakeSendDMTask, CanPopMapping, CanPopSendDM,
      SatisfiedElements, FromAction, storageVars
<1> QED  BY <1>1, <1>4, <1>5, <1>6, <1>7 DEF MakeTask

(* Storing a scalar only satisfies conditions. *)
LEMMA PoppedAddScalar ==
  ASSUME IndInv, PoppedReady, CollectsAccounted, NEW t, AddScalar(t)
  PROVE  PoppedReady' /\ CollectsAccounted'
<1>1. /\ scalars' = scalars \cup {t}
      /\ scalarTasks' = scalarTasks \ {t}
      /\ UpdateWithScalarReady(t)
  BY DEF AddScalar, IndInv, OncePerSlot
<1>2. \A u \in OnceRules \cup ElementRules :
        scalarWait[u] = {} => scalarWait'[u] = {}
  BY <1>1 DEF UpdateWithScalarReady, WaitWithoutScalar
<1>3. UNCHANGED <<rules, slots>>
  BY <1>1 DEF UpdateWithScalarReady
<1> QED  BY <1>1, <1>2, <1>3, SlotTypes DEF PoppedReady, CollectsAccounted

(* Only a scalar computation is dropped without a result. *)
LEMMA PoppedApplyResult ==
  ASSUME IndInv, PoppedReady, CollectsAccounted, ApplyResult
  PROVE  PoppedReady' /\ CollectsAccounted'
<1>1. ASSUME NEW s, AddElement(s) PROVE PoppedReady' /\ CollectsAccounted'
  BY <1>1, PoppedKept DEF AddElement, UpdateWithElementReady, rulesetVars
<1>2. ASSUME NEW t \in ScalarRules,
             NoActionNeeded(t) \/ \E p \in Parties : ThirdPartyErrorScalar(t, p)
      PROVE  PoppedReady' /\ CollectsAccounted'
  <2>1. t \notin CollectRules
    BY KindsOfTags
  <2>2. scalarTasks' = scalarTasks \ {t}
    BY <1>2 DEF NoActionNeeded, ThirdPartyErrorScalar
  <2>3. UNCHANGED <<scalarWait, rules, slots, scalars>>
    BY <1>2 DEF NoActionNeeded, ThirdPartyErrorScalar, RegisterProvableError,
                BanParty, UpdateWithBannedParty, storageVars, rulesetVars
  <2> QED  BY <2>1, <2>2, <2>3, PoppedKept
<1>3. ASSUME SpuriousError PROVE PoppedReady' /\ CollectsAccounted'
  BY <1>3, PoppedKept DEF SpuriousError, storageVars, rulesetVars, taskVars
<1>4. ASSUME NEW s,
             \/ SenderError(s)
             \/ \E p \in Parties : ThirdPartyErrorElement(s, p)
      PROVE  PoppedReady' /\ CollectsAccounted'
  BY <1>4, PoppedKept
  DEF SenderError, ThirdPartyErrorElement, RegisterProvableError,
      RegisterAttributableError, BanParty, UpdateWithBannedParty, storageVars,
      rulesetVars
<1>5. ASSUME NEW v, \/ MessageError(v)
                    \/ StoreVerifiedValue(v)
                    \/ \E e \in verified : ConflictingMessages(v, e)
                    \/ \E e \in verified : DuplicateMessages(v, e)
      PROVE  PoppedReady' /\ CollectsAccounted'
  BY <1>5, PoppedKept
  DEF MessageError, StoreVerifiedValue, ConflictingMessages, DuplicateMessages,
      PreprocessDone, RegisterProvableError, BanParty, UpdateWithBannedParty,
      UpdateWithElementReady, rulesetVars
<1> QED
  BY <1>1, <1>2, <1>3, <1>4, <1>5, PoppedAddScalar
  DEF ApplyResult, ComputedScalar, ComputedFork, MergedScalars, Collected, SentBC,
      ComputedMappingElement, SentDM

(* Every step keeps these invariants. *)
LEMMA PoppedStep ==
  ASSUME IndInv, PoppedReady, CollectsAccounted, [Next]_vars
  PROVE  PoppedReady' /\ CollectsAccounted'
<1>1. ASSUME \/ \E msg \in Message : Receive(msg)
             \/ \E p \in Bannable : ExternalBan(p)
             \/ Finalize
             \/ ContinueExecution
             \/ Terminate
             \/ UNCHANGED vars
      PROVE  PoppedReady' /\ CollectsAccounted'
  BY <1>1, PoppedKept
  DEF Receive, ExternalBan, BanParty, UpdateWithBannedParty, Finalize,
      ContinueExecution, Terminate, Close, vars, storageVars, rulesetVars, taskVars
<1> QED  BY <1>1, PoppedMakeTask, PoppedApplyResult DEF Next

(* The invariant holds in every reachable state. *)
THEOREM FlowInvariance == Spec => []FlowInv
<1>1. Init => CollectSound /\ CollectsOpen /\ PoppedReady /\ CollectsAccounted
  BY CollectsInit, PoppedInit
<1>2. /\ IndInv
      /\ CollectSound /\ CollectsOpen /\ PoppedReady /\ CollectsAccounted
      /\ [Next]_vars
      => (CollectSound /\ CollectsOpen /\ PoppedReady /\ CollectsAccounted)'
  BY CollectsStep, PoppedStep
<1>3. Spec => []IndInv
  BY Invariance
<1> QED  BY <1>1, <1>2, <1>3, PTL DEF Spec, FlowInv

-----------------------------------------------------------------------------
(* The graph of the data flow is that of the session. *)
LEMMA SameGraph ==
  /\ Flow!ScalarTags = ScalarTags
  /\ Flow!MappingTags = MappingTags
  /\ Flow!Arguments = Arguments
  /\ Flow!Merges = Merges
  /\ Flow!Receives = Receives
  /\ Flow!CollectRules = CollectRules
  /\ \A t : Flow!ScalarNeeds(t) = ScalarNeeds(t)
  /\ \A t : Flow!ElementNeeds(t) = ElementNeeds(t)
  /\ \A c : Flow!Values(c) = Values(c)
  /\ \A c, ids : Flow!HasQuorum(c, ids) = HasQuorum(c, ids)
  /\ \A c, bans : Flow!IsQuorumPossible(c, bans) = IsQuorumPossible(c, bans)
BY DEF Flow!ScalarTags, Flow!MappingTags, Flow!Arguments, Flow!Merges,
       Flow!Receives, Flow!CollectRules, Flow!ScalarNeeds, Flow!ElementNeeds,
       Flow!Values, Flow!HasQuorum, Flow!IsQuorumPossible, Flow!OfKind,
       Flow!ScalarKinds, Flow!MappingKinds, Flow!Tags, Flow!AllArgTags,
       Flow!DepTags, Flow!SeqRange, Flow!Cardinality, Cardinality, ScalarTags, MappingTags, Arguments, Merges,
       Receives, CollectRules, ScalarNeeds, ElementNeeds, Values, HasQuorum,
       IsQuorumPossible, OfKind, ScalarKinds, MappingKinds, Tags, AllArgTags,
       DepTags, SeqRange

(* The captured elements that are visible in the data flow. *)
Collection == [c \in CollectRules |-> IF c \in scalars THEN sources[c] ELSE {}]

(* The initial states of the session are those of the data flow. *)
LEMMA FlowInit == Init => Flow!Init
<1> SUFFICES ASSUME Init PROVE Flow!Init
  OBVIOUS
<1>1. scalars = Flow!Arguments /\ elems = {} /\ banned = {} /\ status = "InProgress"
  BY SameGraph DEF Init, StorageInit, RulesetInit
<1>2. Collection = [c \in CollectRules |-> {}]
  BY <1>1, SameGraph, KindsOfTags DEF Init, Collection, OnceRules
<1> QED  BY <1>1, <1>2, SameGraph DEF Flow!Init, Collection

-----------------------------------------------------------------------------
(* Each step of the session is a step of the data flow, or none. *)

(* A satisfied scalar condition means that the inputs are filled. *)
LEMMA InputsReady ==
  ASSUME IndInv, NEW t \in OnceRules \cup ElementRules, scalarWait[t] = {}
  PROVE  Flow!InputsFilled(t)
<1>1. CASE t \in Merges
  <2>1. t \in Tags /\ Node[t].kind = "MergeScalars"
    BY <1>1 DEF Merges, OfKind
  <2>2. Node[t].args[1] \in AllArgTags(t)
    BY <1>1, ArityAssumption DEF AllArgTags, SeqRange
  <2>3. AllArgTags(t) \subseteq ScalarTags
    BY <2>1, NodeAssumption
    DEF ArgKinds, ScalarArgKinds, ScalarTags, ScalarKinds, OfKind
  <2>4. ScalarNeeds(t) # {}
    BY <2>2, <2>3 DEF ScalarNeeds
  <2> QED
    BY <1>1, <2>4, SameGraph
    DEF IndInv, WaitsExact, ScalarWaitsExact, Flow!InputsFilled
<1>2. CASE t \notin Merges
  BY <1>2, SameGraph DEF IndInv, WaitsExact, ScalarWaitsExact, Flow!InputsFilled
<1> QED  BY <1>1, <1>2

(* The parties with a stored element under a tag. *)
LEMMA StoredIds ==
  ASSUME NEW tag, NEW id, <<tag, id>> \in elems
  PROVE  id \in Flow!Stored(tag)
<1> DEFINE e == <<tag, id>>
<1>1. e[1] = tag /\ e[2] = id /\ e \in {x \in elems : x[1] = tag}
  OBVIOUS
<1> QED  BY <1>1 DEF Flow!Stored

(* Storing a scalar. *)
LEMMA FlowFill ==
  ASSUME FlowInv, NEW t \in OnceRules, AddScalar(t)
  PROVE  Flow!Next
<1>1. /\ status = "InProgress"
      /\ t \in scalarTasks
      /\ t \notin scalars
      /\ t \notin rules
      /\ scalars' = scalars \cup {t}
      /\ status' = IF t = Output THEN "ReachedOutput" ELSE status
      /\ UNCHANGED <<elems, banned, sources>>
  BY DEF FlowInv, IndInv, OncePerSlot, AddScalar, InProgress, UpdateWithScalarReady
<1>2. Flow!InputsFilled(t)
  BY <1>1, InputsReady DEF FlowInv, PoppedReady
<1>3. Flow!Fill(t)
  BY <1>1, <1>2 DEF Flow!Fill
<1>4. CASE t \notin CollectRules
  <2>1. Collection' = Collection
    BY <1>1, <1>4 DEF Collection
  <2>2. Flow!FillScalar(t)
    BY <1>3, <2>1 DEF Flow!FillScalar, Collection
  <2>3. t \in Flow!ScalarTags \ (Flow!Arguments \cup Flow!CollectRules)
    BY <1>4, KindsOfTags, SameGraph
  <2> QED  BY <2>2, <2>3 DEF Flow!Next
<1>5. CASE t \in CollectRules
  <2>1. /\ HasQuorum(t, sources[t])
        /\ \A id \in sources[t] : <<Values(t), id>> \in elems
        /\ sources[t] \in SUBSET Parties
    BY <1>1, <1>5 DEF FlowInv, CollectSound, IndInv, TypeOK, TaskTypeOK
  <2>2. sources[t] \subseteq Flow!Stored(Flow!Values(t))
    BY <2>1, StoredIds, SameGraph
  <2>3. Collection' = [Collection EXCEPT ![t] = sources[t]]
    BY <1>1, <1>5 DEF Collection
  <2>4. PICK ids \in SUBSET Parties : ids = sources[t]
    BY <2>1
  <2>5. Flow!FillCollect(t, ids)
    BY <1>3, <2>1, <2>2, <2>3, <2>4, SameGraph DEF Flow!FillCollect, Collection
  <2> QED  BY <1>5, <2>5, SameGraph DEF Flow!Next
<1> QED  BY <1>4, <1>5

(* Storing a computed element. *)
LEMMA FlowFillElement ==
  ASSUME FlowInv, NEW s \in Slots, AddElement(s)
  PROVE  Flow!Next
<1> DEFINE m == s[1]
           id == s[2]
<1>1. s = <<m, id>> /\ m \in ElementRules /\ id \in Parties
  BY SlotTypes
<1>2. /\ status = "InProgress"
      /\ s \in Slots \ slots
      /\ <<m, id>> \notin elems
      /\ elems' = elems \cup {<<m, id>>}
      /\ UNCHANGED <<scalars, sources, banned, status>>
  BY <1>1 DEF FlowInv, IndInv, OncePerSlot, AddElement, InProgress,
              UpdateWithElementReady
<1>3. Flow!InputsFilled(m)
  BY <1>1, <1>2, InputsReady DEF FlowInv, PoppedReady
<1>4. \A a \in Flow!ElementNeeds(m) : id \in Flow!Stored(a)
  <2>1. \A a \in ElementNeeds(m) : <<a, id>> \in elems
    BY <1>2 DEF FlowInv, IndInv, PoppedComplete, WaitsExact, ElementWaitsExact
  <2> QED  BY <2>1, StoredIds, SameGraph
<1>5. Collection' = Collection
  BY <1>2 DEF Collection
<1>6. Flow!FillElement(m, id)
  BY <1>2, <1>3, <1>4, <1>5 DEF Flow!FillElement, Collection
<1>7. m \in Flow!MappingTags \ Flow!Receives
  BY <1>1, KindsOfTags, SameGraph
<1> QED  BY <1>1, <1>6, <1>7 DEF Flow!Next

(* Storing a received value. *)
LEMMA FlowReceive ==
  ASSUME FlowInv, NEW v \in preprocessTasks, StoreVerifiedValue(v)
  PROVE  Flow!Next
<1>1. v.value.name \in Names
  BY DEF FlowInv, IndInv, TypeOK, TaskTypeOK, VerifiedValues, SignedValues
<1>2. /\ v.value.source \in Parties
      /\ <<v.value.name, v.value.source>> \notin elems
      /\ elems' = elems \cup {<<v.value.name, v.value.source>>}
      /\ status = "InProgress"
      /\ UNCHANGED <<scalars, sources, banned, status>>
  BY DEF StoreVerifiedValue, PassesPreprocessing, PreprocessDone, RemoteSlot,
         InProgress, UpdateWithElementReady
<1>3. Collection' = Collection
  BY <1>2 DEF Collection
<1>4. Flow!ReceiveElement(v.value.name, v.value.source)
  BY <1>2, <1>3 DEF Flow!ReceiveElement, Collection
<1> QED  BY <1>1, <1>2, <1>4 DEF Flow!Next

(* Banning a party: a collect that has not been filled is waiting, and     *)
(* then the ban counts against it, or has its quorum captured.             *)
LEMMA FlowBan ==
  ASSUME FlowInv, InProgress, NEW p \in Parties, BanParty(p),
         UNCHANGED <<scalars, elems, sources>>
  PROVE  Flow!Next
<1>1. /\ banned' = banned \cup {p}
      /\ status = "InProgress"
      /\ status' = IF ImpossibleCollects(banned') # {} THEN "Unfinishable"
                                                       ELSE status
  BY DEF BanParty, UpdateWithBannedParty, InProgress
<1>2. Collection' = Collection
  BY DEF Collection
<1>3. CASE ImpossibleCollects(banned') = {}
  <2>1. ASSUME NEW c \in CollectRules \ scalars
        PROVE  \/ IsQuorumPossible(c, banned')
               \/ HasQuorum(c, Flow!Stored(Values(c)))
    <3>1. CASE c \in rules
      BY <1>3, <3>1 DEF ImpossibleCollects
    <3>2. CASE c \in scalarTasks
      <4> DEFINE taken  == sources[c] \cap Node[c].group
                 stored == Flow!Stored(Values(c)) \cap Node[c].group
      <4>1. /\ HasQuorum(c, sources[c])
            /\ \A id \in sources[c] : <<Values(c), id>> \in elems
        BY <3>2 DEF FlowInv, CollectSound
      <4>2. taken \subseteq stored
        BY <4>1, StoredIds
      <4>3. IsFiniteSet(stored)
        BY GroupAssumption, PartiesAssumption, FS_Subset
      <4>4. /\ Cardinality(taken) \in Nat /\ Cardinality(stored) \in Nat
            /\ Cardinality(taken) <= Cardinality(stored)
        BY <4>2, <4>3, FS_Subset, FS_CardinalityType
      <4>5. Node[c].threshold \in Int
        BY GroupAssumption
      <4> QED  BY <4>1, <4>4, <4>5 DEF HasQuorum
    <3> QED  BY <3>1, <3>2 DEF FlowInv, CollectsAccounted
  <2>2. Flow!Ban(p)
    BY <1>1, <1>2, <1>3, <2>1, SameGraph DEF Flow!Ban, Flow!Unfilled, Collection
  <2> QED  BY <2>2 DEF Flow!Next
<1>4. CASE ImpossibleCollects(banned') # {}
  <2>1. PICK c \in CollectRules \cap rules : ~IsQuorumPossible(c, banned')
    BY <1>4 DEF ImpossibleCollects
  <2>2. c \notin scalars
    BY <2>1 DEF FlowInv, IndInv, OncePerSlot
  <2>3. Flow!Ban(p)
    BY <1>1, <1>2, <1>4, <2>1, <2>2, SameGraph
    DEF Flow!Ban, Flow!Unfilled, Collection
  <2> QED  BY <2>3 DEF Flow!Next
<1> QED  BY <1>3, <1>4

(* Whatever else happens is invisible in the data flow, or ends it. *)
FlowQuiet == UNCHANGED <<scalars, elems, Collection, banned, status>>

(* Making a task is invisible: a collect that gets one is not filled yet. *)
LEMMA FlowMakeTask ==
  ASSUME FlowInv, FlowInv', MakeTask
  PROVE  FlowQuiet
<1>1. UNCHANGED <<scalars, elems, banned>>
  BY DEF MakeTask, MakePreprocessTask, MakeComputeScalarTask, MakeMergeScalarsTask,
         MakeCollectTask, MakeElementTask, MakeSendBCTask, MakeSendDMTask,
         FromAction, RemoveRule, RemoveSlot, storageVars, rulesetVars
<1>2. UNCHANGED status
  BY DEF MakeTask, MakePreprocessTask, MakeComputeScalarTask, MakeMergeScalarsTask,
         MakeCollectTask, MakeElementTask, MakeSendBCTask, MakeSendDMTask,
         FromAction, FlowInv, IndInv, NoRuntimeError
<1>3. UNCHANGED Collection
  <2>1. ASSUME NEW c \in CollectRules, MakeCollectTask(c) PROVE UNCHANGED Collection
    <3>1. c \in rules /\ sources' = [sources EXCEPT ![c] = got[c]]
      BY <2>1 DEF MakeCollectTask, CanPopCollect, SatisfiedCollects
    <3>2. c \notin scalars
      BY <3>1 DEF FlowInv, IndInv, OncePerSlot
    <3>3. sources \in [CollectRules -> SUBSET Parties]
      BY DEF FlowInv, IndInv, TypeOK, TaskTypeOK
    <3> QED  BY <1>1, <3>1, <3>2, <3>3 DEF Collection
  <2>2. ASSUME UNCHANGED sources PROVE UNCHANGED Collection
    BY <1>1, <2>2 DEF Collection
  <2> QED
    BY <2>1, <2>2
    DEF MakeTask, MakePreprocessTask, MakeComputeScalarTask, MakeMergeScalarsTask,
        MakeElementTask, MakeSendBCTask, MakeSendDMTask
<1> QED  BY <1>1, <1>2, <1>3 DEF FlowQuiet

(* A failed computation ends the session, or its party is banned. *)
LEMMA FlowFailure ==
  ASSUME FlowInv, FlowInv',
         \/ SpuriousError
         \/ \E s \in Slots : SenderError(s)
         \/ \E t \in ScalarRules, p \in Parties : ThirdPartyErrorScalar(t, p)
         \/ \E s \in Slots, p \in Parties : ThirdPartyErrorElement(s, p)
  PROVE  Flow!Next
<1>1. CASE SpuriousError
  <2>1. /\ status = "InProgress" /\ status' = "SpuriousError"
        /\ UNCHANGED <<scalars, elems, sources, banned>>
    BY <1>1 DEF SpuriousError, InProgress, storageVars, rulesetVars, taskVars
  <2>2. Collection' = Collection
    BY <2>1 DEF Collection
  <2>3. Flow!End("SpuriousError")
    BY <2>1, <2>2 DEF Flow!End, Collection
  <2> QED  BY <2>3 DEF Flow!Next
<1>2. ASSUME NEW s \in Slots, SenderError(s) PROVE Flow!Next
  <2>1. InProgress /\ UNCHANGED <<scalars, elems, sources>>
    BY <1>2 DEF SenderError, storageVars
  <2>2. BanParty(s[2])
    BY <1>2 DEF SenderError, RegisterProvableError, RegisterAttributableError,
                FlowInv, IndInv, NoRuntimeError
  <2> QED  BY <2>1, <2>2, SlotTypes, FlowBan
<1>3. ASSUME NEW p \in Parties, \/ \E t \in ScalarRules : ThirdPartyErrorScalar(t, p)
                                \/ \E s \in Slots : ThirdPartyErrorElement(s, p)
      PROVE  Flow!Next
  BY <1>3, FlowBan
  DEF ThirdPartyErrorScalar, ThirdPartyErrorElement, RegisterProvableError,
      storageVars
<1> QED  BY <1>1, <1>2, <1>3

(* Applying the result of preprocessing. *)
LEMMA FlowPreprocess ==
  ASSUME FlowInv, NEW v \in preprocessTasks,
         \/ MessageError(v)
         \/ StoreVerifiedValue(v)
         \/ \E e \in verified : ConflictingMessages(v, e)
         \/ \E e \in verified : DuplicateMessages(v, e)
  PROVE  Flow!Next \/ FlowQuiet
<1>1. ASSUME MessageError(v) \/ \E e \in verified : DuplicateMessages(v, e)
      PROVE  FlowQuiet
  BY <1>1 DEF MessageError, DuplicateMessages, PreprocessDone, rulesetVars,
              FlowQuiet, Collection
<1>2. ASSUME NEW e \in verified, ConflictingMessages(v, e) PROVE Flow!Next
  <2>1. /\ InProgress
        /\ v.value.source \in Parties
        /\ BanParty(v.value.source)
        /\ UNCHANGED <<scalars, elems, sources>>
    BY <1>2 DEF ConflictingMessages, PreprocessDone, PassesPreprocessing,
                RegisterProvableError
  <2> QED  BY <2>1, FlowBan
<1> QED  BY <1>1, <1>2, FlowReceive

(* Applying any result. *)
LEMMA FlowApplyResult ==
  ASSUME FlowInv, FlowInv', ApplyResult
  PROVE  Flow!Next \/ FlowQuiet
<1>1. ASSUME NEW t \in ScalarRules, NoActionNeeded(t) PROVE FlowQuiet
  BY <1>1 DEF NoActionNeeded, storageVars, rulesetVars, FlowQuiet, Collection
<1> QED
  BY <1>1, FlowFill, FlowFillElement, FlowFailure, FlowPreprocess, KindsOfTags
  DEF ApplyResult, ComputedScalar, ComputedFork, MergedScalars, Collected, SentBC,
      ComputedMappingElement, SentDM, OnceRules

(* What the user does: messages wait in the session, bans are bans, and    *)
(* the session is ended or goes on.                                        *)
LEMMA FlowUserStep ==
  ASSUME FlowInv,
         \/ \E msg \in Message : Receive(msg)
         \/ \E p \in Bannable : ExternalBan(p)
         \/ Finalize
         \/ ContinueExecution
         \/ Terminate
  PROVE  Flow!Next \/ FlowQuiet
<1>1. ASSUME NEW msg, Receive(msg) PROVE FlowQuiet
  BY <1>1 DEF Receive, storageVars, rulesetVars, taskVars, FlowQuiet, Collection
<1>2. ASSUME NEW p \in Bannable, ExternalBan(p) PROVE Flow!Next
  BY <1>2, FlowBan, MessageAssumption DEF ExternalBan, storageVars, taskVars
<1>3. ASSUME Finalize \/ ContinueExecution \/ Terminate PROVE Flow!Next
  <2>1. UNCHANGED <<scalars, elems, sources, banned>>
    BY <1>3 DEF Finalize, ContinueExecution, Terminate, Close, storageVars,
                rulesetVars, taskVars
  <2>2. Collection' = Collection
    BY <2>1 DEF Collection
  <2>3. \/ status = "InProgress" /\ status' = "ManuallyTerminated"
        \/ /\ status = "ReachedOutput" /\ Output \in scalars
           /\ status' \in {"InProgress", "Success"}
    BY <1>3 DEF Finalize, ContinueExecution, Terminate, Close, FlowInv, IndInv,
                OutputStored
  <2>4. Flow!End(status')
    BY <2>1, <2>2, <2>3 DEF Flow!End, Collection
  <2>5. status' \in {"SpuriousError", "ManuallyTerminated", "InProgress", "Success"}
    BY <2>3
  <2> QED  BY <2>4, <2>5 DEF Flow!Next
<1> QED  BY <1>1, <1>2, <1>3

(* Every step of the session is one of the data flow, or invisible there. *)
LEMMA FlowStep ==
  ASSUME FlowInv, FlowInv', [Next]_vars
  PROVE  [Flow!Next]_(Flow!dataflowVars)
<1>1. ASSUME UNCHANGED vars PROVE FlowQuiet
  BY <1>1 DEF vars, storageVars, rulesetVars, taskVars, FlowQuiet, Collection
<1>2. Flow!Next \/ FlowQuiet
  BY <1>1, FlowMakeTask, FlowApplyResult, FlowUserStep DEF Next
<1> QED  BY <1>2 DEF FlowQuiet, Flow!dataflowVars, Collection

(* The session implements the data flow: each slot is filled once and from *)
(* filled slots, a collect with a quorum, and the session gives up for     *)
(* bans exactly when a collect cannot be filled any more.                  *)
THEOREM SessionImplementsDataflow == Spec => ImplementsDataflow
<1>1. Init => Flow!Init
  BY FlowInit
<1>2. FlowInv /\ FlowInv' /\ [Next]_vars => [Flow!Next]_(Flow!dataflowVars)
  BY FlowStep
<1>3. Spec => []FlowInv
  BY FlowInvariance
<1> QED  BY <1>1, <1>2, <1>3, PTL DEF Spec, ImplementsDataflow, Flow!Spec
=============================================================================
