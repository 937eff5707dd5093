----------------------------- MODULE NodeTree -----------------------------
(***************************************************************************)
(* The algorithms on the node tree that a ruleset is built with            *)
(* (graph_representation/node_tree.rs, flat_representation/ruleset.rs): the *)
(* leaves-first traversal, the propagation of party ids from the sinks of  *)
(* the graph to its mapping nodes, and the search for what is needed to    *)
(* reproduce the failure of a node from signed messages.                   *)
(***************************************************************************)
EXTENDS Nodes, SequencesExt

(* all_args() and all_args_and_dependencies() *)
AllArgs(t) == Node[t].args \o Node[t].checks

Children(t) == AllArgs(t) \o Node[t].deps

(***************************************************************************)
(* LeavesFirstIterator: `queue` is a stack whose last node is emitted once *)
(* all its children are, and is otherwise kept below its missing children. *)
(***************************************************************************)
RECURSIVE LeavesFirst(_, _)
LeavesFirst(queue, emitted) ==
  IF queue = <<>> THEN emitted
  ELSE LET node == Last(queue)
           unprocessed == SelectSeq(Children(node), LAMBDA c : ~Contains(emitted, c))
       IN  IF Contains(emitted, node) THEN LeavesFirst(Front(queue), emitted)
           ELSE IF unprocessed = <<>>
             THEN LeavesFirst(Front(queue), Append(emitted, node))
           ELSE LeavesFirst(queue \o unprocessed, emitted)

FlattenedLeavesFirst(root) == LeavesFirst(<<root>>, <<>>)

FlattenedRootsFirst(root) == Reverse(FlattenedLeavesFirst(root))

(* The order in which the rules of the output node's tree are created. *)
RuleOrder ==
  LET order == FlattenedLeavesFirst(Output)
  IN  [t \in Tags |-> CHOOSE k \in DOMAIN order : order[k] = t]

(***************************************************************************)
(* PropagatedGroups: going from the roots, a sink adds the ids of its      *)
(* group to its values, a mapping node its own ids to its mapping args.    *)
(***************************************************************************)
PropagateFrom(groups, t) ==
  LET ids == IF t \in CollectRules THEN Node[t].group
             ELSE IF t \in MappingTags THEN groups[t]
             ELSE {}
  IN  [m \in MappingTags |-> IF m \in AllArgTags(t) THEN groups[m] \cup ids
                                                    ELSE groups[m]]

PropagatedGroups ==
  FoldLeft(PropagateFrom, [m \in MappingTags |-> {}], FlattenedRootsFirst(Output))

(***************************************************************************)
(* reproducibility(): the nodes reached through arguments, starting with   *)
(* the verification arguments for a computation with a reveal.             *)
(***************************************************************************)
RECURSIVE ReachedFrom(_)
ReachedFrom(tags) ==
  LET more == tags \cup UNION {AllArgTags(t) : t \in tags}
  IN  IF more = tags THEN tags ELSE ReachedFrom(more)

ReproducedNodes(m) ==
  ReachedFrom(IF Node[m].function = "SenderAttributableWithReveal"
                THEN SeqRange(Node[m].checks) ELSE {m})

IsLocal(t) == ReachedFrom({t}) \cap Receives = {}

IsReproducible(m) ==
  \A t \in ReproducedNodes(m) :
    /\ Node[t].function # "UnattributableWithRng"
    /\ Node[t].kind \notin {"SerializeAndSignBC", "SerializeAndSignDM"}
    /\ Node[t].kind = "Collect" => IsLocal(t)

RequiredMessages(m) == ReproducedNodes(m) \cap Receives

RequiredArguments(m) == ReproducedNodes(m) \cap Arguments

(* get_on_error(): Escalate if the failure cannot be reproduced by others. *)
EscalatesOnError(m) ==
  \/ ~IsReproducible(m)
  \/ \E a \in RequiredArguments(m) : Node[a].private

FallibleNodes == OfKind({"ComputeMapping", "DeserializeAndCheck"})

EscalatedNodes == {m \in FallibleNodes : EscalatesOnError(m)}

EvidenceMessages == [m \in FallibleNodes |-> RequiredMessages(m)]
=============================================================================
