------------------------------ MODULE Rewrite ------------------------------
(***************************************************************************)
(* Rewriting of node trees (graph_representation/node_tree.rs): a nested   *)
(* protocol is embedded in its caller by call_protocol(), and a node is    *)
(* exchanged for a test by Replacement::apply().  Both walk a graph of     *)
(* reference-counted nodes with an iterator and build a new one beside it, *)
(* node by node; a node is identified by its address.                      *)
(*                                                                         *)
(* The heap is a sequence of nodes and an id is a position in it.  The     *)
(* graph that is rewritten occupies the first ids, the nodes of the caller *)
(* follow.  `kids` holds arguments and dependencies, in their order.       *)
(***************************************************************************)
EXTENDS Integers, Sequences, FiniteSets, SequencesExt

CONSTANTS
  Kinds,      \* the kinds of the nodes of the graph
  Caller,     \* the nodes of the caller, whose kids are among themselves
  Signature,  \* the names that the nested protocol declares as inputs
  MaxKids,    \* bound: how many kids a node of the graph may have
  Calls,      \* may call_protocol() be called?
  Targets     \* the kinds of replacements that may be applied

K == Len(Kinds)

(* The nodes of a graph are numbered so that kids come before parents.  The *)
(* inputs of a graph are the nodes that ArgNodes::new() makes from the     *)
(* signature.  A node of the caller is named apart from the nested ones,   *)
(* whatever its name is without the prefix.                                *)
ASSUME GraphAssumption ==
  /\ Kinds \in Seq(STRING) /\ K # 0 /\ MaxKids \in Nat
  /\ Signature = {i \in 1 .. K : Kinds[i] = "ScalarArgument"}
  /\ Caller \in Seq([name : Nat, prefix : {0}, kind : STRING, modified : {FALSE},
                     kids : Seq(Nat)])
  /\ \A i \in DOMAIN Caller :
       /\ Caller[i].name > K
       /\ Caller[i].kids \in Seq(K + 1 .. K + i - 1)
       /\ \A j \in DOMAIN Caller : Caller[j].name = Caller[i].name => j = i

VARIABLES
  heap,
  phase,    \* "start", "prefix", "substitute", "find", "replace", "done", "error"
  root,     \* the node whose tree is being walked
  bound,    \* the arguments of the call: name -> node of the caller
  target,   \* the replacement: the slot it names and its kind
  subnode,  \* what find_subnode() has found, or 0
  queue, emitted,
  replacements,  \* old node -> new node
  result    \* the root of the new tree, or 0

vars == <<heap, phase, root, bound, target, subnode, queue, emitted,
          replacements, result>>

(* The kids of a node are older nodes; an input has none. *)
KidSeqs(i) ==
  IF Kinds[i] = "ScalarArgument" THEN {<<>>}
                                 ELSE BoundedSeq(1 .. i - 1, MaxKids)

NewNode(i, kids) ==
  [name |-> i, prefix |-> 0, kind |-> Kinds[i], modified |-> FALSE, kids |-> kids]

Init ==
  /\ heap \in {[i \in 1 .. K |-> NewNode(i, kids[i])] \o Caller :
               kids \in {k \in [1 .. K -> BoundedSeq(1 .. K - 1, MaxKids)] :
                           \A i \in 1 .. K : k[i] \in KidSeqs(i)}}
  /\ phase = "start"
  /\ root = K
  /\ bound = <<>>
  /\ target = [slot |-> 0, kind |-> "none"]
  /\ subnode = 0
  /\ queue = <<>>
  /\ emitted = <<>>
  /\ replacements = <<>>
  /\ result = 0

(* store_in: the slot of a node. *)
Slot(n) == <<n.name, n.prefix>>

Kids(id) == heap[id].kids

(* The node itself and, for every node, what its kids reach. *)
Below(h) ==
  LET below[i \in DOMAIN h] == {i} \cup UNION {below[k] : k \in ToSet(h[i].kids)}
  IN below

Reachable(id) == Below(heap)[id]

-----------------------------------------------------------------------------
(* mutated_tree(): first the nodes below the root, leaves first. *)
Mutate(kind, from) ==
  /\ phase' = kind
  /\ root' = from
  /\ queue' = Kids(from)
  /\ emitted' = <<>>
  /\ replacements' = <<>>

(* Mutation: the arguments are substituted before the prefix is added. *)
MutatedSwapped(id) ==
  CASE phase = "prefix" ->
         IF heap[id].name \in DOMAIN bound THEN heap[bound[heap[id].name]]
                                           ELSE heap[id]
    [] phase = "substitute" -> [heap[id] EXCEPT !.prefix = @ + 1]
    [] phase = "replace" -> [heap[id] EXCEPT !.modified = (id = subnode)]

(* Mutation: every node of the kind of the replaced one is replaced. *)
MutatedAnywhere(id) ==
  CASE phase = "prefix" -> [heap[id] EXCEPT !.prefix = @ + 1]
    [] phase = "substitute" ->
         IF heap[id].kind = "ScalarArgument" THEN heap[bound[heap[id].name]]
                                             ELSE heap[id]
    [] phase = "replace" ->
         [heap[id] EXCEPT !.modified = (heap[id].kind = heap[subnode].kind)]

(* The closures that mutated_tree() is called with. *)
Mutated(id) ==
  CASE phase = "prefix" -> [heap[id] EXCEPT !.prefix = @ + 1]
    [] phase = "substitute" ->
         IF heap[id].kind = "ScalarArgument" THEN heap[bound[heap[id].name]]
                                             ELSE heap[id]
    [] phase = "replace" -> [heap[id] EXCEPT !.modified = (id = subnode)]

(* with_replacements(), which always makes a new node. *)
WithReplacements(n) ==
  [n EXCEPT !.kids = [j \in DOMAIN @ |-> IF @[j] \in DOMAIN replacements
                                           THEN replacements[@[j]] ELSE @[j]]]

(* The members of kids that are not in done, in their order. *)
Missing(kids, done) ==
  LET pick[j \in 0 .. Len(kids)] ==
        IF j = 0 THEN <<>>
                 ELSE pick[j - 1] \o (IF Contains(done, kids[j]) THEN <<>> ELSE <<kids[j]>>)
  IN pick[Len(kids)]

Unprocessed(id) == Missing(Kids(id), emitted)

Insert(map, key, value) ==
  [k \in DOMAIN map \cup {key} |-> IF k = key THEN value ELSE map[k]]

Rewriting == phase \in {"prefix", "substitute", "replace"}

(* LeavesFirstIterator::next() meets a node that has been emitted. *)
Skip ==
  /\ Rewriting /\ queue # <<>>
  /\ Contains(emitted, Last(queue))
  /\ queue' = Front(queue)
  /\ UNCHANGED <<heap, phase, root, bound, target, subnode, emitted,
                 replacements, result>>

(* It puts the missing kids of a node on top of it. *)
Descend ==
  /\ Rewriting /\ queue # <<>>
  /\ ~Contains(emitted, Last(queue))
  /\ Unprocessed(Last(queue)) # <<>>
  /\ queue' = queue \o Unprocessed(Last(queue))
  /\ UNCHANGED <<heap, phase, root, bound, target, subnode, emitted,
                 replacements, result>>

(* Mutation: a node is emitted when its first kid has been. *)
EmitEarly ==
  /\ Rewriting /\ queue # <<>>
  /\ LET node == Last(queue)
     IN /\ ~Contains(emitted, node)
        /\ Kids(node) # <<>> => Contains(emitted, Head(Kids(node)))
        /\ queue' = Front(queue)
        /\ emitted' = Append(emitted, node)
        /\ heap' = Append(heap, WithReplacements(Mutated(node)))
        /\ replacements' = Insert(replacements, node, Len(heap'))
  /\ UNCHANGED <<phase, root, bound, target, subnode, result>>

(* Mutation: a node is emitted again for every parent. *)
EmitAgain ==
  /\ Rewriting /\ queue # <<>>
  /\ LET node == Last(queue)
     IN /\ Unprocessed(node) = <<>>
        /\ queue' = Front(queue)
        /\ emitted' = Append(emitted, node)
        /\ heap' = Append(heap, WithReplacements(Mutated(node)))
        /\ replacements' = Insert(replacements, node, Len(heap'))
  /\ UNCHANGED <<phase, root, bound, target, subnode, result>>

(* It emits a node, and mutated_tree() builds the node's replacement. *)
Emit ==
  /\ Rewriting /\ queue # <<>>
  /\ LET node == Last(queue)
     IN /\ ~Contains(emitted, node)
        /\ Unprocessed(node) = <<>>
        /\ queue' = Front(queue)
        /\ emitted' = Append(emitted, node)
        /\ heap' = Append(heap, WithReplacements(Mutated(node)))
        /\ replacements' = Insert(replacements, node, Len(heap'))
  /\ UNCHANGED <<phase, root, bound, target, subnode, result>>

(* mutated_tree() ends with the root; call_protocol() binds the arguments  *)
(* of the call after it has added the prefix.                              *)
EmitRoot ==
  /\ Rewriting /\ queue = <<>>
  /\ heap' = Append(heap, WithReplacements(Mutated(root)))
  /\ IF phase = "prefix"
       THEN /\ phase' = IF DOMAIN bound = Signature THEN "substitute" ELSE "error"
            /\ root' = Len(heap')
            /\ queue' = heap'[Len(heap')].kids
            /\ emitted' = <<>>
            /\ replacements' = <<>>
            /\ UNCHANGED result
       ELSE /\ phase' = "done"
            /\ result' = Len(heap')
            /\ UNCHANGED <<root, queue, emitted, replacements>>
  /\ UNCHANGED <<bound, target, subnode>>

-----------------------------------------------------------------------------
(* call_protocol(), once the nested protocol has built its graph. *)
Call ==
  /\ Calls /\ phase = "start"
  /\ \E names \in SUBSET (1 .. K) :
       /\ \A i \in names : Kinds[i] = "ScalarArgument"
       /\ bound' \in [names -> K + 1 .. K + Len(Caller)]
  /\ Mutate("prefix", K)
  /\ UNCHANGED <<heap, target, subnode, result>>

(* Replacement::apply() looks for the slot: UnorderedIterator starts. *)
Apply ==
  /\ phase = "start"
  /\ \E slot \in 1 .. K + 1, kind \in Targets : target' = [slot |-> slot, kind |-> kind]
  /\ phase' = "find"
  /\ queue' = <<root>>
  /\ UNCHANGED <<heap, root, bound, subnode, emitted, replacements, result>>

(* UnorderedIterator::next() emits a node, and it is not the one. *)
Search ==
  /\ phase = "find" /\ queue # <<>>
  /\ LET node == Last(queue)
     IN /\ heap[node].name # target.slot
        /\ queue' = Front(queue) \o Unprocessed(node)
        /\ emitted' = Append(emitted, node)
  /\ UNCHANGED <<heap, phase, root, bound, target, subnode, replacements, result>>

(* find_subnode() has found the node; a replacement of another kind fails. *)
Found ==
  /\ phase = "find" /\ queue # <<>>
  /\ heap[Last(queue)].name = target.slot
  /\ subnode' = Last(queue)
  /\ IF heap[Last(queue)].kind = target.kind
       THEN Mutate("replace", root)
       ELSE phase' = "error" /\ UNCHANGED <<root, queue, emitted, replacements>>
  /\ UNCHANGED <<heap, bound, target, result>>

NotFound ==
  /\ phase = "find" /\ queue = <<>>
  /\ phase' = "error"
  /\ UNCHANGED <<heap, root, bound, target, subnode, queue, emitted,
                 replacements, result>>

Next ==
  \/ Skip \/ Descend \/ Emit \/ EmitRoot
  \/ Call \/ Apply \/ Search \/ Found \/ NotFound

Spec == Init /\ [][Next]_vars

-----------------------------------------------------------------------------
New == Reachable(result)

Done == phase = "done"

(* Nothing of the old graph is left in the new one: a parent that was      *)
(* rebuilt before one of its kids would still lead to the old kid, without *)
(* the prefix, the argument or the replacement.                            *)
NothingLeftBehind == Done => New \cap (1 .. K) = {}

(* The inputs that the nested protocol uses are bound to nodes of which    *)
(* none is, or uses, the node of another input.                            *)
BoundApart ==
  \A x, y \in DOMAIN bound \cap Reachable(K) :
    x # y => bound[y] \notin Reachable(bound[x])

OneNodePerSlot == \A i, j \in New : i # j => Slot(heap[i]) # Slot(heap[j])

(* Rewriting makes no second node for a slot if the bound nodes are apart: *)
(* a node with several parents stays one node, though it is met once for   *)
(* each of them.                                                           *)
SharingKept == Done /\ BoundApart => OneNodePerSlot

(* The book (graph_representation.md 24) says that "slot names are unique  *)
(* in the graph", without a condition on the arguments of calls.           *)
SlotNamesUnique == Done => OneNodePerSlot

(* A call binds every use of an input, and names apart what it embeds: no  *)
(* input of the nested protocol is left, every node of it has the prefix   *)
(* once, and no node of the caller has it.                                 *)
ArgumentsBound ==
  Done /\ subnode = 0 =>
    \A i \in New :
      IF heap[i].name <= K THEN heap[i].kind # "ScalarArgument" /\ heap[i].prefix = 1
                           ELSE heap[i].prefix = 0

(* A replacement changes the node that it names, which has its kind, and   *)
(* no other node of the graph.                                             *)
OnlyTargetModified ==
  Done /\ subnode # 0 =>
    \A i \in New : heap[i].modified <=> /\ heap[i].name = target.slot
                                        /\ heap[i].kind = target.kind
=============================================================================
