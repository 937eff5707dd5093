---------------------------- MODULE Verification ----------------------------
(***************************************************************************)
(* Verifying the evidence of a session's report (execution/evidence.rs):   *)
(* what another party, who knows the protocol and its public inputs but    *)
(* not the private ones, makes of a provable error.                        *)
(*                                                                         *)
(* Functions without randomness give the same result for the same          *)
(* arguments, and the verification functions that authors declare for      *)
(* reveals and for third-party errors accept what the failing function     *)
(* produced, so a failure is confirmed if verification gets to the failed  *)
(* function with the arguments it had.                                     *)
(***************************************************************************)
EXTENDS SessionProperties, NodeTree

(* ValueMetadata::ne: name, destination and session id. *)
MetadataNotEqual(first, second) ==
  \/ first.value.name # second.value.name
  \/ first.value.destination # second.value.destination
  \/ first.value.session # second.value.session

(* ConflictingMessagesEvidence::verify *)
ConflictVerified(e) ==
  \E first, second \in e.values :
    /\ first.value.source = e.guilty
    /\ second.value.source = e.guilty
    /\ ~MetadataNotEqual(first, second)
    /\ first.value.session
    /\ first.value.signature
    /\ second.value.signature
    /\ first.value.payload # second.value.payload

-----------------------------------------------------------------------------
(* get_reproduction_subtree(): the failed node is replaced by one that     *)
(* returns a verdict; other types of nodes are a RuntimeError.             *)
HasReproduction(e) ==
  Node[e.tag].function = IF e.kind = "SenderErrorWithReveal"
                           THEN "SenderAttributableWithReveal"
                           ELSE "SenderAttributable"

(* The arguments of the replaced node, and everything they need. *)
ReproductionArgs(m) ==
  IF Node[m].function = "SenderAttributableWithReveal"
    THEN SeqRange(Node[m].checks) ELSE ArgTags(m)

ReproductionSubtree(m) == ReachedFrom(ReproductionArgs(m))

(* new_inner() fails if an argument is not among the public inputs, a      *)
(* serialize-and-sign node needs a signer, and a node with randomness      *)
(* makes the evidence invalid.                                             *)
IsReproducedPublicly(m) ==
  \A t \in ReproductionSubtree(m) :
    /\ ~Node[t].private
    /\ Node[t].kind \notin {"SerializeAndSignBC", "SerializeAndSignDM"}
    /\ Node[t].function # "UnattributableWithRng"

(* The signed values are put into one message to the reproduction session, *)
(* whose local participant is the reporting party: they have to be         *)
(* addressed to it and to pass preprocessing.                              *)
AcceptedForReproduction(e) ==
  \A v \in e.values : v.value.source = e.guilty /\ PassesPreprocessing(v)

(* A node of the subtree can be computed for the guilty party once the     *)
(* nodes in `done` are.                                                    *)
ReproducedAfter(e, t, done) ==
  CASE Node[t].kind = "ScalarArgument" -> TRUE
    [] Node[t].kind = "Receive" -> \E v \in e.values : v.value.name = t
    [] Node[t].kind = "DeserializeAndCheck" ->
         /\ ArgTags(t) \subseteq done
         /\ \E v \in e.values :
              /\ v.value.name = Node[t].args[1]
              /\ (v.value.destination # None) = Node[t].direct
              /\ v.value.payload \notin Malformed
    [] Node[t].kind = "MergeScalars" -> ArgTags(t) \cap done # {}
    [] Node[t].kind = "Collect" ->
         /\ ArgTags(t) \subseteq done
         /\ IsLocal(t) \/ HasQuorum(t, {e.guilty})
    [] OTHER -> AllArgTags(t) \subseteq done /\ BranchTaken(t)

(* run_evidence_verification_session(): tasks are executed until there are *)
(* none left.                                                              *)
RECURSIVE ReproducedFrom(_, _)
ReproducedFrom(e, done) ==
  LET more == done \cup {t \in ReproductionSubtree(e.tag) :
                           ReproducedAfter(e, t, done)}
  IN  IF more = done THEN done ELSE ReproducedFrom(e, more)

(* SenderErrorEvidence::verify, SenderErrorWithRevealEvidence::verify *)
SenderErrorVerified(e) ==
  /\ HasReproduction(e)
  /\ IsReproducedPublicly(e.tag)
  /\ AcceptedForReproduction(e)
  /\ ReproductionArgs(e.tag) \subseteq ReproducedFrom(e, {})

(* ThirdPartyErrorEvidence::verify: only mapping nodes are looked at. *)
ThirdPartyErrorVerified(e) ==
  /\ Node[e.tag].kind = "ComputeMapping"
  /\ Node[e.tag].function = "ThirdPartyAttributable"

(* Evidence::verify returns a valid verdict. *)
Verified(e) ==
  CASE e.kind = "ConflictingMessages" -> ConflictVerified(e)
    [] e.kind = "ThirdPartyError"     -> ThirdPartyErrorVerified(e)
    [] OTHER                          -> SenderErrorVerified(e)

-----------------------------------------------------------------------------
(* Evidence that a report carries convinces others in these two cases: two *)
(* different values under one name with the same destination, and failures *)
(* of mapping computations, for which nothing private or random is in the  *)
(* way and the messages that the session collected are all that            *)
(* verification needs.  What is left is claimed by the next properties.    *)
EvidenceVerifies ==
  \A e \in provable :
    (\/ e.tag \in OfKind({"ComputeMapping"})
     \/ /\ e.kind = "ConflictingMessages"
        /\ \A v, w \in e.values : v.value.destination = w.value.destination)
    => Verified(e)

(* try_add_verified_value() (session.rs 268) says of two values with the   *)
(* same name that "both values are signed, contain the same named value,   *)
(* but are different.  This is a provable failure."                        *)
ConflictsVerify ==
  \A e \in provable : e.kind = "ConflictingMessages" => Verified(e)

(* The same function (session.rs 284) passes over values that are repeated *)
(* without a look at them: "if the payload/metadata are invalid, the later *)
(* checks will produce verifiable evidence."                               *)
MalformedValuesVerify ==
  \A e \in provable : e.tag \in OfKind({"DeserializeAndCheck"}) => Verified(e)

(* The book (graph_representation.md 176) has "an associated evidence      *)
(* verification function" for every third-party failure.                   *)
ThirdPartyErrorsVerify ==
  \A e \in provable : e.kind = "ThirdPartyError" => Verified(e)
=============================================================================
