------------------------------- MODULE Nodes -------------------------------
(***************************************************************************)
(* The protocol graph: a directed acyclic graph of nodes, each of which    *)
(* stores its result in a slot named by a tag.  A scalar node has one      *)
(* slot; a mapping node has one slot per party id.  The graph is constant  *)
(* during a session.  Node[t] is the node that stores in tag t, built by   *)
(* one of the constructors below, which keep the names of constructors.rs. *)
(***************************************************************************)
EXTENDS Integers, Sequences, FiniteSets

CONSTANTS
  Parties,      \* the participants; integers, because ids are ordered
  Me,           \* the local participant (the session's verifier)
  Node,         \* the graph: tag -> node
  Output        \* the tag of the output node

(***************************************************************************)
(* Constructors.  `args` are in the order of the argument names (the code  *)
(* keeps them in a BTreeMap), `checks` are the verification_args of a      *)
(* computation with a reveal, `deps` are added by with_dependency().       *)
(***************************************************************************)
MakeNode(kind, function, args) ==
  [kind |-> kind, function |-> function, args |-> args, checks |-> <<>>,
   deps |-> <<>>, group |-> {}, threshold |-> 0, direct |-> FALSE,
   private |-> FALSE]

scalar_argument(private) ==
  [MakeNode("ScalarArgument", "none", <<>>) EXCEPT !.private = private]

compute_scalar(function, args) == MakeNode("ComputeScalar", function, args)

compute_mapping(function, args) == MakeNode("ComputeMapping", function, args)

compute_mapping_sender_fallible_with_reveal(args, verification_args) ==
  [MakeNode("ComputeMapping", "SenderAttributableWithReveal", args)
     EXCEPT !.checks = verification_args]

fork_left(fork) == compute_scalar("ForkLeft", <<fork>>)

fork_right(fork) == compute_scalar("ForkRight", <<fork>>)

merge_scalars(left, right) == MakeNode("MergeScalars", "none", <<left, right>>)

collect(values, group, threshold) ==
  [MakeNode("Collect", "none", <<values>>)
     EXCEPT !.group = group, !.threshold = threshold]

send_all(values, destinations) ==
  [MakeNode("SendAll", "none", <<values>>)
     EXCEPT !.group = destinations, !.threshold = Cardinality(destinations)]

serialize_and_sign_bc(data) == MakeNode("SerializeAndSignBC", "none", <<data>>)

send_bc(signed) == MakeNode("SendBC", "none", <<signed>>)

serialize_and_sign_dm(data) == MakeNode("SerializeAndSignDM", "none", <<data>>)

send_dm(signed) == MakeNode("SendDM", "none", <<signed>>)

receive == MakeNode("Receive", "none", <<>>)

deserialize_and_check(message, expect_some_destination) ==
  [MakeNode("DeserializeAndCheck", "none", <<message>>)
     EXCEPT !.direct = expect_some_destination]

with_dependency(node, deps) == [node EXCEPT !.deps = deps]

-----------------------------------------------------------------------------
Tags == DOMAIN Node

OfKind(kinds) == {t \in Tags : Node[t].kind \in kinds}

ScalarKinds == {"ScalarArgument", "ComputeScalar", "MergeScalars", "Collect",
                "SendAll", "SerializeAndSignBC", "SendBC"}

MappingKinds == {"ComputeMapping", "SerializeAndSignDM", "SendDM",
                 "DeserializeAndCheck", "Receive"}

ScalarFunctions == {"Unattributable", "UnattributableWithRng", "Fork",
                    "ForkLeft", "ForkRight", "ThirdPartyAttributable"}

MappingFunctions == {"Unattributable", "UnattributableWithRng",
                     "SenderAttributable", "SenderAttributableWithReveal",
                     "ThirdPartyAttributable"}

ScalarTags == OfKind(ScalarKinds)

MappingTags == OfKind(MappingKinds)

Arguments == OfKind({"ScalarArgument"})

Merges == OfKind({"MergeScalars"})

Receives == OfKind({"Receive"})

Forks == {t \in OfKind({"ComputeScalar"}) : Node[t].function = "Fork"}

SeqRange(s) == {s[k] : k \in DOMAIN s}

(* The tags whose values are passed to the node's function. *)
ArgTags(t) == SeqRange(Node[t].args)

(* all_args(): the arguments and, with a reveal, the verification arguments. *)
AllArgTags(t) == SeqRange(Node[t].args) \cup SeqRange(Node[t].checks)

DepTags(t) == SeqRange(Node[t].deps)

(* The mapping slot a collect-type node takes its elements from. *)
Values(c) == Node[c].args[1]

Sides == {"left", "right"}

SideTag(t, side) == Node[t].args[IF side = "left" THEN 1 ELSE 2]

(***************************************************************************)
(* What the type system of the node constructors guarantees of a graph:    *)
(* each kind of node takes the kinds of arguments in union_nodes.rs, only  *)
(* scalar nodes are dependencies, the output node computes a scalar.       *)
(***************************************************************************)
ScalarArgKinds == {"ComputeScalar", "ScalarArgument", "MergeScalars", "Collect"}

ArgKinds ==
  [ScalarArgument      |-> {},
   ComputeScalar       |-> ScalarArgKinds,
   MergeScalars        |-> ScalarArgKinds,
   SerializeAndSignBC  |-> {"ComputeScalar", "ScalarArgument"},
   SendBC              |-> {"SerializeAndSignBC"},
   ComputeMapping      |-> ScalarArgKinds \cup
                             {"ComputeMapping", "SerializeAndSignBC",
                              "SerializeAndSignDM", "DeserializeAndCheck"},
   SerializeAndSignDM  |-> {"ComputeScalar", "ScalarArgument", "ComputeMapping",
                            "DeserializeAndCheck"},
   SendDM              |-> {"SerializeAndSignDM"},
   Receive             |-> {},
   DeserializeAndCheck |-> {"Receive"},
   Collect             |-> {"ComputeMapping", "SerializeAndSignDM",
                            "DeserializeAndCheck", "Receive"},
   SendAll             |-> {"SendDM"}]

Dependencies ==
  OfKind({"ComputeScalar", "Collect", "MergeScalars", "SendBC", "SendAll"})

(* The kinds of nodes that can be given dependencies. *)
Dependents ==
  OfKind({"ComputeScalar", "Collect", "ComputeMapping", "SendBC", "SendDM"})

CollectRules == OfKind({"Collect", "SendAll"})

(* The scalars a rule needs: those among its arguments, and dependencies. *)
ScalarNeeds(t) == (AllArgTags(t) \cap ScalarTags) \cup DepTags(t)

ElementNeeds(m) == AllArgTags(m) \cap MappingTags

HasQuorum(c, ids) ==
  Cardinality(ids \cap Node[c].group) >= Node[c].threshold

IsQuorumPossible(c, without) ==
  Cardinality(Node[c].group \ without) >= Node[c].threshold

ASSUME PartiesAssumption ==
  /\ Parties \subseteq Int
  /\ IsFiniteSet(Parties)
  /\ Me \in Parties

ASSUME NodeAssumption ==
  \A t \in Tags :
    /\ Node[t].kind \in ScalarKinds \cup MappingKinds
    /\ Node[t].kind = "ComputeScalar" => Node[t].function \in ScalarFunctions
    /\ Node[t].kind = "ComputeMapping" => Node[t].function \in MappingFunctions
    /\ Node[t].kind \notin {"ComputeScalar", "ComputeMapping"} =>
         Node[t].function = "none"
    /\ Node[t].function # "SenderAttributableWithReveal" =>
         SeqRange(Node[t].checks) = {}
    /\ AllArgTags(t) \subseteq OfKind(ArgKinds[Node[t].kind])
    /\ DepTags(t) \subseteq Dependencies
    /\ DepTags(t) # {} => t \in Dependents

(* Nodes with a fixed number of arguments have them. *)
ASSUME ArityAssumption ==
  /\ \A t \in CollectRules : DOMAIN Node[t].args = {1}
  /\ \A t \in Merges : DOMAIN Node[t].args = {1, 2}
  /\ \A t \in OfKind({"DeserializeAndCheck"}) : DOMAIN Node[t].args = {1}
  /\ \A t \in OfKind({"ComputeScalar"}) :
       Node[t].function \in {"ForkLeft", "ForkRight"} =>
         DOMAIN Node[t].args = {1} /\ Node[t].args[1] \in Forks

ASSUME OutputAssumption == Output \in OfKind({"ComputeScalar"})

(* A collect can be satisfied, and needs at least one element.  The code   *)
(* checks neither: ThresholdGroup accepts any threshold.                   *)
ASSUME GroupAssumption ==
  \A c \in CollectRules :
    /\ Node[c].group \subseteq Parties
    /\ Node[c].threshold \in 1..Cardinality(Node[c].group)
=============================================================================
