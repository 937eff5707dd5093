---------------------------- MODULE RewriteProofs ----------------------------
(***************************************************************************)
(* Proofs about the rewriting of node trees, for every graph, caller and   *)
(* signature: nested protocols are embedded, and nodes replaced, without   *)
(* leaving anything of the old tree behind.                                *)
(***************************************************************************)
EXTENDS Rewrite, WellFoundedInduction, SequenceTheorems, TLAPS

(* The last node that is there before anything is rewritten. *)
B == K + Len(Caller)

(* The ids up to which nodes are older than the tree that is walked, and   *)
(* than the copies that are made of it.  The first walk is over the given  *)
(* graph, whose root is K; the second is over the copies of the first.     *)
Lower == IF root = K THEN 0 ELSE B
Base == IF root = K THEN B ELSE root

Emitted == ToSet(emitted)

(* In a heap, kids are older than their parents. *)
Ordered(h) == \A i \in DOMAIN h : h[i].kids \in Seq(1 .. i - 1)

Node == [name : Nat, prefix : Nat, kind : STRING, modified : BOOLEAN, kids : Seq(Nat)]

(* What is there at first is never changed. *)
GivenKept ==
  /\ heap \in Seq(Node) /\ Len(heap) >= B
  /\ \A i \in 1 .. K : heap[i] = NewNode(i, heap[i].kids)
  /\ \A i \in Signature : heap[i].kids = <<>>
  /\ \A i \in 1 .. Len(Caller) : heap[K + i] = Caller[i]

(* The nodes of the tree that is walked mirror the given ones. *)
SourceNode(i) ==
  /\ heap[i].name \in 1 .. K
  /\ heap[i].kind = Kinds[heap[i].name]
  /\ heap[i].modified = FALSE
  /\ heap[i].prefix = IF root = K THEN 0 ELSE 1
  /\ heap[i].kids \in Seq(Lower + 1 .. i - 1)
  /\ {heap[k].name : k \in ToSet(heap[i].kids)} = ToSet(heap[heap[i].name].kids)
  /\ \A j \in Lower + 1 .. root : heap[j].name = heap[i].name => j = i

Source ==
  /\ root \in DOMAIN heap /\ heap[root].name = K
  /\ root # K => root > B
  /\ \A i \in Lower + 1 .. root : SourceNode(i)

(* The iterator has emitted the kids of what it has emitted, and it will   *)
(* come to the other kids of the root.                                     *)
Walk ==
  /\ queue \in Seq(Reachable(root) \ {root})
  /\ emitted \in Seq(Reachable(root) \ {root})
  /\ \A e \in Emitted : ToSet(Kids(e)) \subseteq Emitted
  /\ ToSet(Kids(root)) \subseteq Emitted \cup ToSet(queue)

(* What mutated_tree() makes of a node, once its kids have been replaced. *)
IsCopy(n, e) ==
  IF root # K /\ heap[e].kind = "ScalarArgument"
    THEN n = heap[bound[heap[e].name]]
    ELSE /\ n.name = heap[e].name
         /\ n.kind = heap[e].kind
         /\ n.prefix = IF subnode = 0 THEN 1 ELSE 0
         /\ n.modified = (e = subnode)
         /\ n.kids = [j \in DOMAIN heap[e].kids |-> replacements[heap[e].kids[j]]]

(* The new nodes are the copies of the emitted ones, one for each. *)
Copies(last) ==
  /\ replacements \in [Emitted -> Base + 1 .. last]
  /\ \A e, f \in Emitted : replacements[e] = replacements[f] => e = f
  /\ \A i \in Base + 1 .. last : \E e \in Emitted : replacements[e] = i
  /\ \A e \in Emitted : IsCopy(heap[replacements[e]], e)

(* The arguments of a call are nodes of the caller. *)
Bound ==
  /\ DOMAIN bound \subseteq Signature
  /\ \A x \in DOMAIN bound : bound[x] \in K + 1 .. B
  /\ root # K => DOMAIN bound = Signature
  /\ subnode # 0 => bound = <<>>

(* The replaced node is the one that the replacement names. *)
Subnode ==
  /\ subnode \in 0 .. K
  /\ subnode # 0 => target.slot = subnode /\ target.kind = Kinds[subnode] /\ root = K

(* What holds in the phases. *)
Phases ==
  /\ phase \in {"start", "find"} =>
       /\ root = K /\ subnode = 0 /\ Len(heap) = B /\ bound = <<>>
  /\ phase = "start" => queue = <<>> /\ emitted = <<>>
  /\ phase = "find" => queue \in Seq(1 .. K) /\ emitted \in Seq(1 .. K)
  /\ phase = "prefix" => root = K /\ subnode = 0
  /\ phase = "substitute" => root # K /\ subnode = 0
  /\ phase = "replace" => subnode # 0
  /\ Rewriting => Walk /\ Copies(Len(heap))
  /\ Done => /\ Walk /\ queue = <<>>
             /\ root = K => subnode # 0
             /\ Len(heap) > Base /\ Copies(Len(heap) - 1)
             /\ result = Len(heap) /\ IsCopy(heap[result], root)

(* What a walk rests on. *)
Graph ==
  /\ GivenKept
  /\ Ordered(heap)
  /\ Source
  /\ Bound
  /\ Subnode

(* The inductive invariant of a rewriting that has not failed. *)
RewriteInv == phase # "error" => Graph /\ Phases
-----------------------------------------------------------------------------
(* Induction over numbers, which the provers know only through the library *)
(* theorem on smallest members of sets.                                    *)

(* A set of numbers has a smallest member. *)
LEMMA SmallestMember ==
  ASSUME NEW T, T \subseteq Nat, T # {}
  PROVE  \E x \in T : \A y \in T : x <= y
<1> DEFINE Less == {p \in Nat \X Nat : p[1] < p[2]}
<1>1. IsWellFoundedOn(Less, Nat)
  BY NatLessThanWellFounded DEF OpToRel
<1>2. PICK x \in T : \A y \in T : ~(<<y, x>> \in Less)
  <2> HIDE DEF Less
  <2> QED  BY <1>1, WFMin
<1>3. ASSUME NEW y \in T PROVE x <= y
  <2>1. x \in Nat /\ y \in Nat /\ ~(<<y, x>> \in Less)
    BY <1>2
  <2> QED  BY <2>1
<1> QED  BY <1>3

(* The kids of a node of an ordered heap. *)
LEMMA KidsOlder ==
  ASSUME NEW h, DOMAIN h \subseteq Nat, Ordered(h), NEW i \in DOMAIN h,
         NEW k \in ToSet(h[i].kids)
  PROVE  k \in 1 .. i - 1
BY DEF Ordered, ToSet

(* What a node reaches: the equation that the recursive function stands for *)
(* has a solution in every ordered heap.                                   *)
BelowEquation(h, g, n) ==
  g = [i \in 1 .. n |-> {i} \cup UNION {g[k] : k \in ToSet(h[i].kids)}]

(* There is a function that satisfies the equation, built up by nodes. *)
LEMMA BelowExists ==
  ASSUME NEW h, NEW n \in Nat, DOMAIN h = 1 .. n, Ordered(h)
  PROVE  \E g : BelowEquation(h, g, n)
<1> DEFINE T == {m \in 0 .. n : ~ \E g : BelowEquation(h, g, m)}
<1>1. SUFFICES ASSUME T # {} PROVE FALSE
  BY DEF T
<1>2. PICK m \in T : \A y \in T : m <= y
  <2>1. T \subseteq Nat
    OBVIOUS
  <2> HIDE DEF T
  <2> QED  BY <1>1, <2>1, SmallestMember
<1>3. CASE m = 0
  <2> DEFINE g == [i \in 1 .. 0 |-> {}]
  <2>1. BelowEquation(h, g, 0)
    BY DEF BelowEquation
  <2> QED  BY <1>2, <1>3, <2>1
<1>4. CASE m # 0
  <2>1. m \in 1 .. n /\ m - 1 \in 0 .. n /\ m - 1 \notin T
    BY <1>2, <1>4
  <2>2. PICK f : BelowEquation(h, f, m - 1)
    BY <2>1
  <2> DEFINE new == {m} \cup UNION {f[k] : k \in ToSet(h[m].kids)}
             g == [i \in 1 .. m |-> IF i = m THEN new ELSE f[i]]
  <2>3. ASSUME NEW i \in 1 .. m, NEW k \in ToSet(h[i].kids) PROVE k \in 1 .. m - 1
    <3>1. DOMAIN h \subseteq Nat /\ i \in DOMAIN h
      BY <2>1
    <3>2. k \in 1 .. i - 1
      BY <3>1, KidsOlder
    <3> QED  BY <3>2, <2>1
  <2>4. \A k \in 1 .. m - 1 : g[k] = f[k]
    BY <2>1
  <2>5. \A i \in 1 .. m - 1 : f[i] = {i} \cup UNION {f[k] : k \in ToSet(h[i].kids)}
    BY <2>2, Zenon DEF BelowEquation
  <2>6. ASSUME NEW i \in 1 .. m
        PROVE  g[i] = {i} \cup UNION {g[k] : k \in ToSet(h[i].kids)}
    <3>1. {g[k] : k \in ToSet(h[i].kids)} = {f[k] : k \in ToSet(h[i].kids)}
      <4> HIDE DEF g
      <4> QED  BY <2>3, <2>4
    <3>2. CASE i = m
      BY <3>1, <3>2 DEF g
    <3>3. CASE i # m
      <4>1. i \in 1 .. m - 1
        BY <3>3, <2>1
      <4> QED  BY <3>1, <4>1, <2>4, <2>5
    <3> QED  BY <3>2, <3>3
  <2>7. g = [i \in 1 .. m |-> {i} \cup UNION {g[k] : k \in ToSet(h[i].kids)}]
    <3>1. g = [i \in 1 .. m |-> g[i]]
      BY Zenon DEF g
    <3> HIDE DEF g
    <3> QED  BY <3>1, <2>6, Zenon
  <2> HIDE DEF g
  <2>8. BelowEquation(h, g, m)
    BY <2>7 DEF BelowEquation
  <2> QED  BY <1>2, <2>8
<1> QED  BY <1>3, <1>4

(* What a node reaches is the node and what its kids reach. *)
LEMMA BelowDef ==
  ASSUME NEW h, NEW n \in Nat, DOMAIN h = 1 .. n, Ordered(h), NEW i \in DOMAIN h
  PROVE  Below(h)[i] = {i} \cup UNION {Below(h)[k] : k \in ToSet(h[i].kids)}
<1>1. PICK g : BelowEquation(h, g, n)
  BY BelowExists
<1>2. g = [j \in DOMAIN h |-> {j} \cup UNION {g[k] : k \in ToSet(h[j].kids)}]
  BY <1>1, Zenon DEF BelowEquation
<1>3. Below(h) = [j \in DOMAIN h |-> {j} \cup UNION {Below(h)[k] : k \in ToSet(h[j].kids)}]
  BY <1>2, Zenon DEF Below
<1> QED  BY <1>3, Zenon

(* A heap, and the sets of its nodes that nothing leads out of. *)
IsHeap(h) == Len(h) \in Nat /\ DOMAIN h = 1 .. Len(h) /\ Ordered(h)

Closed(h, C) == \A i \in C \cap DOMAIN h : ToSet(h[i].kids) \subseteq C

(* What a node reaches is in every closed set that has the node. *)
LEMMA BelowLeast ==
  ASSUME NEW h, IsHeap(h), NEW C, Closed(h, C), NEW id \in C \cap DOMAIN h
  PROVE  Below(h)[id] \subseteq C
<1> DEFINE T == {i \in C \cap DOMAIN h : ~(Below(h)[i] \subseteq C)}
<1>1. SUFFICES ASSUME T # {} PROVE FALSE
  BY DEF T
<1>2. PICK i \in T : \A j \in T : i <= j
  <2>1. T \subseteq Nat
    BY DEF IsHeap
  <2> HIDE DEF T
  <2> QED  BY <1>1, <2>1, SmallestMember
<1>3. ASSUME NEW k \in ToSet(h[i].kids) PROVE Below(h)[k] \subseteq C
  <2>1. k \in 1 .. i - 1
    BY KidsOlder, <1>2 DEF IsHeap
  <2>2. k \in C /\ k \in DOMAIN h
    BY <2>1, <1>2 DEF Closed, IsHeap
  <2> QED  BY <2>1, <2>2, <1>2 DEF IsHeap
<1>4. Below(h)[i] = {i} \cup UNION {Below(h)[k] : k \in ToSet(h[i].kids)}
  BY <1>2, BelowDef DEF IsHeap
<1> QED  BY <1>2, <1>3, <1>4

(* It has no newer node, and nothing leads out of it. *)
LEMMA BelowClosed ==
  ASSUME NEW h, IsHeap(h), NEW id \in DOMAIN h
  PROVE  /\ id \in Below(h)[id]
         /\ Below(h)[id] \subseteq 1 .. id
         /\ Closed(h, Below(h)[id])
         /\ \A j \in Below(h)[id] : Below(h)[j] \subseteq Below(h)[id]
         /\ \A j \in Below(h)[id] \ {id} : \E k \in ToSet(h[id].kids) : j \in Below(h)[k]
<1> DEFINE C == {j \in 1 .. id : Below(h)[j] \subseteq Below(h)[id]}
<1>1. \A j \in DOMAIN h : Below(h)[j] = {j} \cup UNION {Below(h)[k] : k \in ToSet(h[j].kids)}
  BY BelowDef DEF IsHeap
<1>2. ASSUME NEW j \in DOMAIN h, NEW k \in ToSet(h[j].kids)
      PROVE  k \in 1 .. j - 1 /\ k \in DOMAIN h /\ Below(h)[k] \subseteq Below(h)[j]
  BY <1>1, KidsOlder DEF IsHeap
<1>3. Closed(h, C)
  BY <1>2 DEF Closed, IsHeap
<1>4. id \in C
  BY DEF IsHeap
<1>5. Below(h)[id] \subseteq C
  <2> HIDE DEF C
  <2> QED  BY <1>3, <1>4, BelowLeast
<1>6. \A j \in DOMAIN h : j \in Below(h)[j]
  BY <1>1
<1>7. Closed(h, Below(h)[id])
  BY <1>2, <1>5, <1>6 DEF Closed
<1>8. \A j \in Below(h)[id] \ {id} : \E k \in ToSet(h[id].kids) : j \in Below(h)[k]
  BY <1>1
<1> QED  BY <1>5, <1>6, <1>7, <1>8

(* It is the same in every heap that the given one is the beginning of. *)
LEMMA BelowKept ==
  ASSUME NEW h, IsHeap(h), NEW l, IsHeap(l),
         Len(h) <= Len(l), \A i \in DOMAIN h : l[i] = h[i], NEW id \in DOMAIN h
  PROVE  Below(l)[id] = Below(h)[id]
<1>1. id \in DOMAIN l /\ DOMAIN h \subseteq DOMAIN l
  BY DEF IsHeap
<1>2. Below(h)[id] \subseteq DOMAIN h /\ Below(l)[id] \subseteq DOMAIN h
  BY <1>1, BelowClosed DEF IsHeap
<1>3. Closed(l, Below(h)[id])
  BY <1>2, BelowClosed DEF Closed
<1>4. Closed(h, Below(l)[id])
  BY <1>1, <1>2, BelowClosed DEF Closed
<1>5. Below(l)[id] \subseteq Below(h)[id]
  <2>1. id \in Below(h)[id] \cap DOMAIN l
    BY <1>1, BelowClosed
  <2> QED  BY <1>3, <2>1, BelowLeast
<1>6. Below(h)[id] \subseteq Below(l)[id]
  <2>1. id \in Below(l)[id] \cap DOMAIN h
    BY <1>1, BelowClosed
  <2> QED  BY <1>4, <2>1, BelowLeast
<1> QED  BY <1>5, <1>6

-----------------------------------------------------------------------------
(* The members of sequences. *)

(* The set of the members. *)
LEMMA Members ==
  ASSUME NEW S, NEW s \in Seq(S)
  PROVE  ToSet(s) \subseteq S /\ s \in Seq(ToSet(s))
<1>1. Len(s) \in Nat /\ DOMAIN s = 1 .. Len(s) /\ \A i \in DOMAIN s : s[i] \in S
  OBVIOUS
<1>2. \A i \in DOMAIN s : s[i] \in ToSet(s)
  BY DEF ToSet
<1>3. s \in Seq(ToSet(s))
  BY <1>1, <1>2
<1> QED  BY <1>1, <1>3 DEF ToSet

(* A sequence without members. *)
LEMMA NoMembers ==
  ASSUME NEW S, NEW s \in Seq(S), ToSet(s) = {}
  PROVE  s = <<>>
<1>1. SUFFICES ASSUME s # <<>> PROVE FALSE
  OBVIOUS
<1>2. 1 \in DOMAIN s
  BY <1>1
<1> QED  BY <1>2 DEF ToSet

(* A sequence with every member exchanged. *)
LEMMA Exchanged ==
  ASSUME NEW S, NEW s \in Seq(S), NEW T, NEW f \in [S -> T]
  PROVE  /\ [j \in DOMAIN s |-> f[s[j]]] \in Seq(T)
         /\ \A j \in DOMAIN s : s[j] \in DOMAIN f
<1>1. Len(s) \in Nat /\ DOMAIN s = 1 .. Len(s) /\ \A j \in DOMAIN s : s[j] \in S
  OBVIOUS
<1>2. \A j \in 1 .. Len(s) : f[s[j]] \in T
  BY <1>1
<1>3. [j \in 1 .. Len(s) |-> f[s[j]]] \in Seq(T)
  BY <1>1, <1>2
<1> QED  BY <1>1, <1>3

(* A new member at the end. *)
LEMMA AppendMembers ==
  ASSUME NEW S, NEW s \in Seq(S), NEW e \in S
  PROVE  ToSet(Append(s, e)) = ToSet(s) \cup {e}
<1>1. \A i \in 1 .. Len(s) : Append(s, e)[i] = s[i]
  OBVIOUS
<1>2. Append(s, e)[Len(s) + 1] = e
  OBVIOUS
<1>3. DOMAIN Append(s, e) = 1 .. Len(s) + 1 /\ DOMAIN s = 1 .. Len(s) /\ Len(s) \in Nat
  OBVIOUS
<1> QED  BY <1>1, <1>2, <1>3 DEF ToSet

(* Two sequences in a row. *)
LEMMA ConcatMembers ==
  ASSUME NEW S, NEW s \in Seq(S), NEW t \in Seq(S)
  PROVE  ToSet(s \o t) = ToSet(s) \cup ToSet(t)
<1>1. \A i \in 1 .. Len(s) : (s \o t)[i] = s[i]
  OBVIOUS
<1>2. \A i \in 1 .. Len(t) : Len(s) + i \in DOMAIN (s \o t) /\ (s \o t)[Len(s) + i] = t[i]
  OBVIOUS
<1>3. \A i \in DOMAIN (s \o t) : i \in 1 .. Len(s) \/ \E j \in 1 .. Len(t) : i = Len(s) + j
  <2> SUFFICES ASSUME NEW i \in DOMAIN (s \o t), i \notin 1 .. Len(s)
               PROVE  \E j \in 1 .. Len(t) : i = Len(s) + j
    OBVIOUS
  <2>1. i - Len(s) \in 1 .. Len(t) /\ i = Len(s) + (i - Len(s))
    OBVIOUS
  <2> QED  BY <2>1
<1>4. DOMAIN s = 1 .. Len(s) /\ DOMAIN t = 1 .. Len(t) /\ 1 .. Len(s) \subseteq DOMAIN (s \o t)
  OBVIOUS
<1>5. ToSet(s \o t) \subseteq ToSet(s) \cup ToSet(t)
  BY <1>1, <1>2, <1>3, <1>4 DEF ToSet
<1>6. ToSet(s) \cup ToSet(t) \subseteq ToSet(s \o t)
  BY <1>1, <1>2, <1>4 DEF ToSet
<1> QED  BY <1>5, <1>6

(* The last member and the rest. *)
LEMMA FrontMembers ==
  ASSUME NEW S, NEW s \in Seq(S), s # <<>>
  PROVE  /\ Last(s) \in S
         /\ Front(s) \in Seq(S)
         /\ ToSet(s) = ToSet(Front(s)) \cup {Last(s)}
<1>1. Len(s) \in Nat /\ Len(s) # 0 /\ DOMAIN s = 1 .. Len(s)
  OBVIOUS
<1>2. /\ Front(s) \in Seq(S)
      /\ DOMAIN Front(s) = 1 .. Len(s) - 1
      /\ \A i \in 1 .. Len(s) - 1 : Front(s)[i] = s[i]
  BY <1>1 DEF Front
<1>3. 1 .. Len(s) = (1 .. Len(s) - 1) \cup {Len(s)}
  BY <1>1
<1> QED  BY <1>1, <1>2, <1>3 DEF ToSet, Last

(* Contains() is about the members. *)
LEMMA ContainsMember ==
  ASSUME NEW S, NEW s \in Seq(S), NEW e
  PROVE  Contains(s, e) <=> e \in ToSet(s)
BY DEF Contains, ToSet

-----------------------------------------------------------------------------
(* The kids that an iterator has not emitted. *)

MissingEquation(kids, done, g, n) ==
  g = [j \in 0 .. n |->
         IF j = 0 THEN <<>>
                  ELSE g[j - 1] \o (IF Contains(done, kids[j]) THEN <<>> ELSE <<kids[j]>>)]

(* The members of a sequence that has what is missing among the first n. *)
IsMissing(s, kids, done, n) ==
  /\ s \in Seq({kids[j] : j \in 1 .. n})
  /\ ToSet(s) = {kids[j] : j \in {j \in 1 .. n : ~Contains(done, kids[j])}}

(* There is a function that satisfies the equation, built up by kids. *)
LEMMA MissingExists ==
  ASSUME NEW kids, NEW n \in Nat, NEW done
  PROVE  \E g : MissingEquation(kids, done, g, n)
<1> DEFINE T == {m \in 0 .. n : ~ \E g : MissingEquation(kids, done, g, m)}
<1>1. SUFFICES ASSUME T # {} PROVE FALSE
  BY DEF T
<1>2. PICK m \in T : \A y \in T : m <= y
  <2>1. T \subseteq Nat
    OBVIOUS
  <2> HIDE DEF T
  <2> QED  BY <1>1, <2>1, SmallestMember
<1>3. CASE m = 0
  <2> DEFINE g == [j \in 0 .. 0 |-> <<>>]
  <2>1. \A j \in 0 .. 0 : j = 0
    OBVIOUS
  <2>2. MissingEquation(kids, done, g, 0)
    BY <2>1, Zenon DEF MissingEquation
  <2> QED  BY <1>2, <1>3, <2>2
<1>4. CASE m # 0
  <2>1. m \in 1 .. n /\ m - 1 \in 0 .. n /\ m - 1 \notin T
    BY <1>2, <1>4
  <2>2. PICK f : MissingEquation(kids, done, f, m - 1)
    BY <2>1
  <2> DEFINE more(j) == IF Contains(done, kids[j]) THEN <<>> ELSE <<kids[j]>>
             g == [j \in 0 .. m |-> IF j = m THEN f[m - 1] \o more(m) ELSE f[j]]
  <2>3. \A j \in 0 .. m - 1 : f[j] = IF j = 0 THEN <<>> ELSE f[j - 1] \o more(j)
    BY <2>2, Zenon DEF MissingEquation
  <2>4. \A j \in 0 .. m - 1 : g[j] = f[j]
    BY <2>1
  <2>5. g[m] = f[m - 1] \o more(m)
    <3>1. m \in 0 .. m
      BY <2>1
    <3> QED  BY <3>1, Zenon DEF g
  <2>6. ASSUME NEW j \in 0 .. m
        PROVE  g[j] = IF j = 0 THEN <<>> ELSE g[j - 1] \o more(j)
    <3> HIDE DEF g, more
    <3>1. CASE j = m
      <4>1. m - 1 \in 0 .. m - 1 /\ m # 0
        BY <2>1
      <4> QED  BY <3>1, <4>1, <2>4, <2>5
    <3>2. CASE j # m
      <4>1. j \in 0 .. m - 1
        BY <2>1, <3>2
      <4>2. j # 0 => j - 1 \in 0 .. m - 1
        BY <4>1
      <4> QED  BY <4>1, <4>2, <2>3, <2>4
    <3> QED  BY <3>1, <3>2
  <2>7. g = [j \in 0 .. m |-> IF j = 0 THEN <<>> ELSE g[j - 1] \o more(j)]
    <3>1. g = [j \in 0 .. m |-> g[j]]
      BY Zenon DEF g
    <3> HIDE DEF g, more
    <3> QED  BY <3>1, <2>6, Zenon
  <2> HIDE DEF g
  <2>8. MissingEquation(kids, done, g, m)
    BY <2>7 DEF MissingEquation
  <2> QED  BY <1>2, <2>8
<1> QED  BY <1>3, <1>4

(* An iterator puts exactly the missing kids on its queue. *)
LEMMA MissingKids ==
  ASSUME NEW kids, Len(kids) \in Nat, DOMAIN kids = 1 .. Len(kids), NEW done
  PROVE  /\ Missing(kids, done) \in Seq(ToSet(kids))
         /\ ToSet(Missing(kids, done)) = {k \in ToSet(kids) : ~Contains(done, k)}
<1> DEFINE n == Len(kids)
           more(j) == IF Contains(done, kids[j]) THEN <<>> ELSE <<kids[j]>>
<1>1. PICK g : MissingEquation(kids, done, g, n)
  BY MissingExists
<1> DEFINE p == CHOOSE pick : MissingEquation(kids, done, pick, n)
<1>2. MissingEquation(kids, done, p, n)
  BY <1>1
<1>3. Missing(kids, done) = p[n]
  BY Zenon DEF Missing, MissingEquation
<1> HIDE DEF p
<1>4. \A j \in 0 .. n : p[j] = IF j = 0 THEN <<>> ELSE p[j - 1] \o more(j)
  BY <1>2, Zenon DEF MissingEquation
<1> DEFINE T == {j \in 0 .. n : ~IsMissing(p[j], kids, done, j)}
<1>5. T = {}
  <2>1. SUFFICES ASSUME T # {} PROVE FALSE
    OBVIOUS
  <2>2. PICK m \in T : \A y \in T : m <= y
    <3>1. T \subseteq Nat
      OBVIOUS
    <3> HIDE DEF T
    <3> QED  BY <2>1, <3>1, SmallestMember
  <2>3. CASE m = 0
    <3>1. p[0] = <<>>
      <4>1. 0 \in 0 .. n
        OBVIOUS
      <4> QED  BY <4>1, <1>4, Zenon
    <3>2. IsMissing(<<>>, kids, done, 0)
      BY DEF IsMissing, ToSet
    <3> QED  BY <2>2, <2>3, <3>1, <3>2
  <2>4. CASE m # 0
    <3>1. m \in 1 .. n /\ m - 1 \in 0 .. n /\ m - 1 \notin T
      BY <2>2, <2>4
    <3> DEFINE s == p[m - 1]
    <3>2. IsMissing(s, kids, done, m - 1)
      BY <3>1
    <3>3. p[m] = s \o more(m)
      <4>1. m \in 0 .. n /\ m # 0
        BY <3>1
      <4> QED  BY <4>1, <1>4, Zenon DEF s
    <3> HIDE DEF s
    <3>4. IsMissing(s \o more(m), kids, done, m)
      <4>1. s \in Seq({kids[j] : j \in 1 .. m})
        BY <3>2 DEF IsMissing
      <4>2. 1 .. m = (1 .. m - 1) \cup {m}
        BY <3>1
      <4>3. CASE Contains(done, kids[m])
        <5>1. s \o more(m) = s
          BY <4>1, <4>3, ConcatEmptySeq
        <5>2. {kids[j] : j \in {j \in 1 .. m : ~Contains(done, kids[j])}}
                = {kids[j] : j \in {j \in 1 .. m - 1 : ~Contains(done, kids[j])}}
          BY <4>2, <4>3
        <5> QED  BY <4>1, <5>1, <5>2, <3>2 DEF IsMissing
      <4>4. CASE ~Contains(done, kids[m])
        <5>1. s \o more(m) = Append(s, kids[m])
          BY <4>1, <4>4, AppendIsConcat
        <5>2. {kids[j] : j \in {j \in 1 .. m : ~Contains(done, kids[j])}}
                = {kids[j] : j \in {j \in 1 .. m - 1 : ~Contains(done, kids[j])}}
                    \cup {kids[m]}
          BY <4>2, <4>4
        <5>3. kids[m] \in {kids[j] : j \in 1 .. m}
          BY <3>1
        <5>4. ToSet(Append(s, kids[m])) = ToSet(s) \cup {kids[m]}
          BY <4>1, <5>3, AppendMembers
        <5>5. Append(s, kids[m]) \in Seq({kids[j] : j \in 1 .. m})
          BY <4>1, <5>3
        <5> QED  BY <5>1, <5>2, <5>4, <5>5, <3>2 DEF IsMissing
      <4> QED  BY <4>3, <4>4
    <3> QED  BY <2>2, <3>3, <3>4
  <2> QED  BY <2>3, <2>4
<1>6. IsMissing(p[n], kids, done, n)
  BY <1>5
<1> QED  BY <1>3, <1>6 DEF IsMissing, ToSet

-----------------------------------------------------------------------------
(* The heap and the tree that is walked. *)

(* The sizes of the callee and of the caller. *)
LEMMA Sizes ==
  /\ K \in Nat \ {0} /\ Len(Caller) \in Nat /\ B \in Nat /\ K <= B
  /\ DOMAIN Caller = 1 .. Len(Caller)
  /\ Signature \subseteq 1 .. K
  /\ \A i \in 1 .. Len(Caller) : Caller[i] \in Node /\ Caller[i].kids \in Seq(K + 1 .. K + i - 1)
<1> DEFINE Given == [name : Nat, prefix : {0}, kind : STRING, modified : {FALSE},
                     kids : Seq(Nat)]
<1>1. Given \subseteq Node
  <2>1. {0} \subseteq Nat /\ {FALSE} \subseteq BOOLEAN
    OBVIOUS
  <2> QED  BY <2>1, Zenon DEF Node
<1>2. Caller \in Seq(Given)
  BY GraphAssumption
<1>3. Caller \in Seq(Node)
  <2> HIDE DEF Given
  <2> QED  BY <1>1, <1>2, SeqMonotonic
<1> QED  BY <1>3, GraphAssumption DEF K, B

(* An ordered sequence of nodes is a heap. *)
LEMMA HeapIsHeap ==
  ASSUME heap \in Seq(Node), Ordered(heap)
  PROVE  IsHeap(heap)
BY DEF IsHeap

(* The nodes of the tree are those that mirror the graph. *)
LEMMA TreeInSource ==
  ASSUME GivenKept, Ordered(heap), Source
  PROVE  /\ root \in Reachable(root)
         /\ Reachable(root) \subseteq Lower + 1 .. root
         /\ Lower + 1 .. root \subseteq DOMAIN heap
         /\ \A i \in Reachable(root) :
              ToSet(Kids(i)) \subseteq Reachable(root) \ {root} /\ Kids(i) \in Seq(ToSet(Kids(i)))
<1>1. IsHeap(heap)
  BY HeapIsHeap DEF GivenKept
<1>2. Lower \in Nat /\ root \in Lower + 1 .. root /\ root \in DOMAIN heap
  BY <1>1, Sizes DEF Source, SourceNode, Lower, IsHeap
<1>3. Lower + 1 .. root \subseteq DOMAIN heap
  BY <1>1, <1>2 DEF IsHeap
<1>4. Closed(heap, Lower + 1 .. root)
  <2>1. ASSUME NEW i \in Lower + 1 .. root, NEW k \in ToSet(heap[i].kids)
        PROVE  k \in Lower + 1 .. root
    <3>1. heap[i].kids \in Seq(Lower + 1 .. i - 1)
      BY DEF Source, SourceNode
    <3>2. k \in Lower + 1 .. i - 1
      BY <3>1, Members
    <3> QED  BY <3>2, <1>2
  <2> QED  BY <2>1 DEF Closed
<1>5. Reachable(root) \subseteq Lower + 1 .. root
  BY <1>1, <1>2, <1>4, BelowLeast DEF Reachable
<1>6. root \in Reachable(root) /\ Closed(heap, Reachable(root))
  BY <1>1, <1>2, BelowClosed DEF Reachable
<1>7. ASSUME NEW i \in Reachable(root)
      PROVE  ToSet(Kids(i)) \subseteq Reachable(root) \ {root} /\ Kids(i) \in Seq(ToSet(Kids(i)))
  <2>1. i \in DOMAIN heap /\ i <= root /\ i \in Nat
    BY <1>2, <1>3, <1>5
  <2>2. Kids(i) \in Seq(1 .. i - 1)
    BY <2>1 DEF Ordered, Kids
  <2>3. ToSet(Kids(i)) \subseteq Reachable(root)
    BY <1>6, <2>1 DEF Closed, Kids
  <2>4. ToSet(Kids(i)) \subseteq 1 .. i - 1
    BY <2>2, Members
  <2>5. Kids(i) \in Seq(ToSet(Kids(i)))
    BY <2>2, Members
  <2> QED  BY <1>2, <2>1, <2>3, <2>4, <2>5
<1> QED  BY <1>3, <1>5, <1>6, <1>7

(* The facts about a node that is about to be copied. *)
LEMMA NewCopy ==
  ASSUME Graph, Phases, Rewriting, NEW node \in Reachable(root),
         ToSet(Kids(node)) \subseteq Emitted
  PROVE  /\ WithReplacements(Mutated(node)) \in Node
         /\ WithReplacements(Mutated(node)).kids \in Seq(1 .. Len(heap))
         /\ IsCopy(WithReplacements(Mutated(node)), node)
<1> USE DEF Graph
<1>1. /\ Reachable(root) \subseteq Lower + 1 .. root
      /\ node \in Lower + 1 .. root /\ node \in DOMAIN heap
      /\ Kids(node) \in Seq(Emitted)
  BY TreeInSource
<1>2. /\ Lower \in Nat /\ Base \in Nat /\ root \in Nat /\ Len(heap) \in Nat
      /\ root <= Len(heap)
  BY Sizes DEF GivenKept, Source, SourceNode, Lower, Base
<1>3. replacements \in [Emitted -> 1 .. Len(heap)] /\ Emitted \subseteq Lower + 1 .. root
  <2>1. replacements \in [Emitted -> Base + 1 .. Len(heap)]
    BY DEF Phases, Copies
  <2>2. Emitted \subseteq Reachable(root)
    BY DEF Phases, Walk, Emitted, ToSet
  <2> QED  BY <1>1, <1>2, <2>1, <2>2
<1>4. heap[node] \in Node /\ heap[node].prefix = IF root = K THEN 0 ELSE 1
  BY <1>1 DEF GivenKept, Source, SourceNode
<1> DEFINE kids == [j \in DOMAIN Kids(node) |-> replacements[Kids(node)[j]]]
<1>5. /\ kids \in Seq(1 .. Len(heap))
      /\ kids \in Seq(Nat)
      /\ \A j \in DOMAIN Kids(node) : Kids(node)[j] \in DOMAIN replacements
  <2>1. replacements \in [Emitted -> Nat]
    BY <1>3
  <2> QED  BY <1>1, <1>3, <2>1, Exchanged
<1>6. CASE phase = "prefix"
  <2> DEFINE m == [heap[node] EXCEPT !.prefix = @ + 1]
  <2>1. Mutated(node) = m
    BY <1>6 DEF Mutated
  <2>2. m.kids = Kids(node)
    BY <1>4 DEF Node, Kids
  <2>3. WithReplacements(m) = [m EXCEPT !.kids = kids]
    BY <2>2, <1>5 DEF WithReplacements
  <2>4. root = K /\ subnode = 0 /\ node # 0
    BY <1>6, <1>1, <1>2 DEF Phases
  <2> DEFINE n == [m EXCEPT !.kids = kids]
  <2>5. /\ n \in Node /\ n.name = heap[node].name /\ n.kind = heap[node].kind
        /\ n.prefix = 1 /\ n.modified = heap[node].modified /\ n.kids = kids
    <3>1. m = [heap[node] EXCEPT !.prefix = 1]
      BY <2>4, <1>4
    <3> HIDE DEF m, kids
    <3> QED  BY <3>1, <1>4, <1>5 DEF Node
  <2>6. heap[node].modified = (node = subnode)
    <3>1. heap[node].modified = FALSE /\ node # subnode
      BY <2>4, <1>1, <1>2 DEF Source, SourceNode
    <3> QED  BY <3>1
  <2> HIDE DEF n
  <2> QED  BY <2>1, <2>3, <2>4, <2>5, <2>6, <1>5 DEF IsCopy, Kids, n
<1>7. CASE phase = "replace"
  <2> DEFINE m == [heap[node] EXCEPT !.modified = (node = subnode)]
  <2>1. Mutated(node) = m
    BY <1>7 DEF Mutated
  <2>2. m.kids = Kids(node)
    BY <1>4 DEF Node, Kids
  <2>3. WithReplacements(m) = [m EXCEPT !.kids = kids]
    BY <2>2, <1>5 DEF WithReplacements
  <2>4. root = K /\ subnode # 0
    BY <1>7 DEF Phases, Subnode
  <2> DEFINE n == [m EXCEPT !.kids = kids]
  <2>5. /\ n \in Node /\ n.name = heap[node].name /\ n.kind = heap[node].kind
        /\ n.prefix = 0 /\ n.modified = (node = subnode) /\ n.kids = kids
    <3> DEFINE b == (node = subnode)
    <3>1. b \in BOOLEAN
      OBVIOUS
    <3>2. m = [heap[node] EXCEPT !.modified = b]
      OBVIOUS
    <3> HIDE DEF b, m
    <3>3. /\ n \in Node /\ n.name = heap[node].name /\ n.kind = heap[node].kind
          /\ n.prefix = 0 /\ n.modified = b /\ n.kids = kids
      BY <3>1, <3>2, <2>4, <1>4, <1>5 DEF Node
    <3> QED  BY <3>3 DEF b
  <2> HIDE DEF n
  <2> QED  BY <2>1, <2>3, <2>4, <2>5, <1>5 DEF IsCopy, Kids, n
<1>8. CASE phase = "substitute" /\ heap[node].kind # "ScalarArgument"
  <2> DEFINE m == heap[node]
  <2>1. Mutated(node) = m
    BY <1>8 DEF Mutated
  <2>2. m.kids = Kids(node)
    BY <1>4 DEF Node, Kids
  <2>3. WithReplacements(m) = [m EXCEPT !.kids = kids]
    BY <2>2, <1>5 DEF WithReplacements
  <2>4. root # K /\ subnode = 0 /\ node # 0 /\ heap[node].modified = FALSE
    BY <1>8, <1>1, <1>2 DEF Phases, Source, SourceNode
  <2> QED  BY <2>1, <2>3, <2>4, <1>4, <1>5, <1>8 DEF IsCopy, Node, Kids
<1>9. CASE phase = "substitute" /\ heap[node].kind = "ScalarArgument"
  <2> DEFINE x == heap[node].name
             m == heap[bound[x]]
  <2>1. Mutated(node) = m
    BY <1>9 DEF Mutated
  <2>2. root # K /\ x \in 1 .. K /\ Kinds[x] = "ScalarArgument"
    BY <1>9, <1>1 DEF Phases, Source, SourceNode
  <2>3. x \in DOMAIN bound /\ bound[x] \in K + 1 .. B
    BY <2>2, GraphAssumption DEF Bound
  <2>4. bound[x] - K \in 1 .. Len(Caller) /\ bound[x] = K + (bound[x] - K)
    BY <2>3, Sizes DEF B
  <2>5. m = Caller[bound[x] - K]
    BY <2>4 DEF GivenKept
  <2>6. m \in Node /\ m.kids \in Seq(K + 1 .. K + (bound[x] - K) - 1)
    BY <2>4, <2>5, Sizes
  <2>7. m.kids \in Seq(1 .. B)
    BY <2>3, <2>6, Sizes
  <2>8. Lower = B /\ B <= Len(heap)
    BY <2>2 DEF Lower, GivenKept
  <2>9. \A j \in DOMAIN m.kids : m.kids[j] \notin DOMAIN replacements
    BY <1>3, <2>7, <2>8, Sizes
  <2>10. WithReplacements(m) = m
    <3>1. m.kids = [j \in DOMAIN m.kids |-> m.kids[j]]
      BY <2>7
    <3>2. WithReplacements(m) = [m EXCEPT !.kids = [j \in DOMAIN m.kids |-> m.kids[j]]]
      BY <2>9 DEF WithReplacements
    <3> QED  BY <3>1, <3>2, <2>6 DEF Node
  <2>11. m.kids \in Seq(1 .. Len(heap))
    BY <2>7, <2>8, <1>2, Sizes
  <2> QED  BY <2>1, <2>2, <2>6, <2>10, <2>11, <1>9 DEF IsCopy
<1> QED  BY <1>6, <1>7, <1>8, <1>9 DEF Rewriting

(* A node is added to the heap. *)
LEMMA HeapAppended ==
  ASSUME GivenKept, Ordered(heap), NEW n \in Node, n.kids \in Seq(1 .. Len(heap)),
         heap' = Append(heap, n)
  PROVE  /\ GivenKept' /\ Ordered(heap')
         /\ Len(heap') = Len(heap) + 1 /\ heap'[Len(heap) + 1] = n
         /\ DOMAIN heap = 1 .. Len(heap) /\ DOMAIN heap' = 1 .. Len(heap) + 1
         /\ \A i \in DOMAIN heap : heap'[i] = heap[i] /\ Below(heap')[i] = Below(heap)[i]
<1>1. heap \in Seq(Node) /\ heap' \in Seq(Node) /\ Len(heap) \in Nat
  BY DEF GivenKept
<1>2. /\ Len(heap') = Len(heap) + 1 /\ heap'[Len(heap) + 1] = n
      /\ DOMAIN heap = 1 .. Len(heap) /\ DOMAIN heap' = 1 .. Len(heap) + 1
      /\ \A i \in DOMAIN heap : heap'[i] = heap[i]
  BY <1>1
<1>3. GivenKept'
  <2>1. Len(heap) >= B /\ 1 .. K \subseteq DOMAIN heap
    BY <1>1, <1>2, Sizes DEF GivenKept
  <2>2. \A i \in 1 .. Len(Caller) : K + i \in DOMAIN heap
    BY <1>1, <1>2, <2>1, Sizes DEF B
  <2> QED  BY <1>1, <1>2, <2>1, <2>2, Sizes DEF GivenKept
<1>4. Ordered(heap')
  <2>1. ASSUME NEW i \in DOMAIN heap' PROVE heap'[i].kids \in Seq(1 .. i - 1)
    <3>1. CASE i \in DOMAIN heap
      BY <3>1, <1>2 DEF Ordered
    <3>2. CASE i = Len(heap) + 1
      <4>1. i - 1 = Len(heap)
        BY <3>2, <1>1
      <4> QED  BY <3>2, <4>1, <1>2
    <3> QED  BY <3>1, <3>2, <1>1, <1>2
  <2> QED  BY <2>1 DEF Ordered
<1>5. IsHeap(heap) /\ IsHeap(heap')
  BY <1>1, <1>2, <1>4 DEF IsHeap
<1>6. ASSUME NEW i \in DOMAIN heap PROVE Below(heap')[i] = Below(heap)[i]
  <2>1. Len(heap) <= Len(heap')
    BY <1>1, <1>2
  <2> HIDE DEF IsHeap
  <2> QED  BY <1>2, <1>5, <2>1, BelowKept
<1> QED  BY <1>2, <1>3, <1>4, <1>6

(* The tree that is walked stays as it is. *)
LEMMA GraphAppended ==
  ASSUME Graph, NEW n \in Node, n.kids \in Seq(1 .. Len(heap)),
         heap' = Append(heap, n), UNCHANGED <<root, bound, target, subnode>>
  PROVE  Graph'
<1>1. /\ GivenKept' /\ Ordered(heap')
      /\ DOMAIN heap \subseteq DOMAIN heap'
      /\ \A i \in DOMAIN heap : heap'[i] = heap[i]
  <2>1. GivenKept /\ Ordered(heap) /\ Len(heap) \in Nat
    BY DEF Graph, GivenKept
  <2> QED  BY <2>1, HeapAppended
<1>2. Source'
  <2>1. Lower' = Lower /\ Lower + 1 .. root \subseteq DOMAIN heap /\ 1 .. K \subseteq DOMAIN heap
    BY TreeInSource, Sizes DEF Graph, GivenKept, Lower
  <2>2. root' \in DOMAIN heap' /\ heap'[root'].name = K /\ (root' # K => root' > B)
    BY <1>1 DEF Graph, Source, SourceNode
  <2>3. ASSUME NEW i \in Lower + 1 .. root
        PROVE  /\ heap'[i] = heap[i]
               /\ heap'[heap[i].name] = heap[heap[i].name]
               /\ {heap'[k].name : k \in ToSet(heap[i].kids)}
                    = {heap[k].name : k \in ToSet(heap[i].kids)}
    <3>1. /\ heap[i].name \in 1 .. K
          /\ heap[i].kids \in Seq(Lower + 1 .. i - 1)
      BY DEF Graph, Source, SourceNode
    <3>2. ToSet(heap[i].kids) \subseteq Lower + 1 .. i - 1
      BY <3>1, Members
    <3>3. Lower \in Nat /\ root \in Nat
      BY Sizes DEF Lower, Graph, Source, SourceNode, GivenKept
    <3>4. ToSet(heap[i].kids) \subseteq DOMAIN heap
      BY <2>1, <3>2, <3>3
    <3> QED  BY <1>1, <2>1, <3>1, <3>4
  <2>4. ASSUME NEW i \in Lower + 1 .. root PROVE SourceNode(i)'
    <3>1. SourceNode(i)
      BY DEF Graph, Source
    <3>2. \A j \in Lower + 1 .. root : heap'[j] = heap[j]
      BY <2>3
    <3> QED  BY <2>1, <2>3, <3>1, <3>2 DEF SourceNode
  <2> QED  BY <2>1, <2>2, <2>4 DEF Source
<1> QED  BY <1>1, <1>2 DEF Graph, Bound, Subnode

-----------------------------------------------------------------------------
(* The steps. *)

(* What was emitted and what is queued is in the tree, below its root. *)
LEMMA WalkInTree ==
  ASSUME Walk
  PROVE  /\ Emitted \subseteq Reachable(root) \ {root}
         /\ ToSet(queue) \subseteq Reachable(root) \ {root}
BY Members DEF Walk, Emitted

(* A walk begins with the kids of the root. *)
LEMMA FreshWalk ==
  Graph /\ emitted = <<>> /\ replacements = <<>> /\ queue = Kids(root) /\ Base = Len(heap)
    => Walk /\ Copies(Len(heap))
<1> SUFFICES ASSUME Graph, emitted = <<>>, replacements = <<>>, queue = Kids(root),
                    Base = Len(heap)
             PROVE  Walk /\ Copies(Len(heap))
  OBVIOUS
<1>1. /\ root \in Reachable(root)
      /\ ToSet(Kids(root)) \subseteq Reachable(root) \ {root}
      /\ Kids(root) \in Seq(ToSet(Kids(root)))
  BY TreeInSource DEF Graph
<1>2. Kids(root) \in Seq(Reachable(root) \ {root})
  BY <1>1, SeqMonotonic
<1>3. Emitted = {}
  BY DEF Emitted, ToSet
<1>4. Walk
  BY <1>2, <1>3 DEF Walk
<1>5. Len(heap) \in Nat /\ Base + 1 .. Len(heap) = {}
  BY DEF Graph, GivenKept
<1>6. replacements \in [{} -> {}]
  OBVIOUS
<1> QED  BY <1>3, <1>4, <1>5, <1>6 DEF Copies

(* The graph depends on these variables only. *)
LEMMA GraphUnchanged ==
  ASSUME Graph, UNCHANGED <<heap, root, bound, target, subnode>>
  PROVE  Graph'
<1>1. GivenKept' /\ Ordered(heap)'
  BY DEF Graph, GivenKept, Ordered
<1>2. ASSUME NEW i, SourceNode(i) PROVE SourceNode(i)'
  BY <1>2 DEF SourceNode, Lower
<1>3. Source'
  BY <1>2 DEF Graph, Source, Lower
<1>4. Bound' /\ Subnode'
  BY DEF Graph, Bound, Subnode
<1> QED  BY <1>1, <1>3, <1>4 DEF Graph

(* So do the copies. *)
LEMMA CopiesUnchanged ==
  ASSUME Copies(Len(heap)), UNCHANGED <<heap, root, bound, subnode, emitted, replacements>>
  PROVE  Copies(Len(heap))'
BY DEF Copies, IsCopy, Emitted, Base

(* A step of a walk. *)
LEMMA PhasesInWalk ==
  ASSUME Phases, Rewriting, UNCHANGED <<phase, root, subnode>>, Walk', Copies(Len(heap))'
  PROVE  Phases'
BY DEF Phases, Rewriting, Done

(* A node that was visited is passed over. *)
LEMMA SkipStep ==
  ASSUME Graph, Phases, Skip
  PROVE  Graph' /\ Phases'
<1> USE DEF Skip
<1>1. Graph' /\ Copies(Len(heap))'
  BY GraphUnchanged, CopiesUnchanged DEF Phases
<1>2. Walk /\ queue # <<>>
  BY DEF Phases
<1>3. /\ Front(queue) \in Seq(Reachable(root) \ {root})
      /\ ToSet(queue) = ToSet(Front(queue)) \cup {Last(queue)}
  BY <1>2, FrontMembers DEF Walk
<1>4. Last(queue) \in Emitted
  BY <1>2, ContainsMember DEF Walk, Emitted
<1>5. Walk'
  BY <1>2, <1>3, <1>4 DEF Walk, Emitted, Reachable, Kids
<1> QED  BY <1>1, <1>5, PhasesInWalk

(* The kids of a queued node. *)
LEMMA UnprocessedKids ==
  ASSUME Graph, Walk, queue # <<>>
  PROVE  /\ Last(queue) \in Reachable(root) \ {root}
         /\ Unprocessed(Last(queue)) \in Seq(Reachable(root) \ {root})
         /\ Unprocessed(Last(queue)) = <<>> => ToSet(Kids(Last(queue))) \subseteq Emitted
<1> DEFINE node == Last(queue)
<1>1. node \in Reachable(root) \ {root}
  BY FrontMembers DEF Walk
<1>2. ToSet(Kids(node)) \subseteq Reachable(root) \ {root} /\ Kids(node) \in Seq(ToSet(Kids(node)))
  BY <1>1, TreeInSource DEF Graph
<1>3. Len(Kids(node)) \in Nat /\ DOMAIN Kids(node) = 1 .. Len(Kids(node))
  BY <1>2
<1> HIDE DEF node
<1>4. /\ Unprocessed(node) \in Seq(ToSet(Kids(node)))
      /\ ToSet(Unprocessed(node)) = {k \in ToSet(Kids(node)) : ~Contains(emitted, k)}
  BY <1>3, MissingKids DEF Unprocessed
<1>5. \A k : Contains(emitted, k) <=> k \in Emitted
  BY ContainsMember DEF Walk, Emitted
<1>6. ASSUME Unprocessed(node) = <<>> PROVE ToSet(Kids(node)) \subseteq Emitted
  <2>1. ToSet(<<>>) = {}
    BY DEF ToSet
  <2> QED  BY <1>4, <1>5, <1>6, <2>1
<1>7. Unprocessed(node) \in Seq(Reachable(root) \ {root})
  BY <1>2, <1>4, SeqMonotonic
<1> QED  BY <1>1, <1>6, <1>7 DEF node

(* The traversal goes down to a kid that is missing. *)
LEMMA DescendStep ==
  ASSUME Graph, Phases, Descend
  PROVE  Graph' /\ Phases'
<1> USE DEF Descend
<1>1. Graph' /\ Copies(Len(heap))'
  BY GraphUnchanged, CopiesUnchanged DEF Phases
<1>2. Walk /\ queue # <<>>
  BY DEF Phases
<1>3. Unprocessed(Last(queue)) \in Seq(Reachable(root) \ {root})
  BY <1>2, UnprocessedKids
<1>4. queue' \in Seq(Reachable(root) \ {root}) /\ ToSet(queue) \subseteq ToSet(queue')
  BY <1>2, <1>3, ConcatMembers, ConcatProperties DEF Walk
<1>5. Walk'
  BY <1>2, <1>4 DEF Walk, Emitted, Reachable, Kids
<1> QED  BY <1>1, <1>5, PhasesInWalk

(* A copy stays one while later nodes are copied. *)
LEMMA IsCopyKept ==
  ASSUME NEW n, NEW e, IsCopy(n, e), Graph, e \in Reachable(root),
         ToSet(Kids(e)) \subseteq Emitted,
         UNCHANGED <<root, bound, subnode>>,
         \A i \in DOMAIN heap : heap'[i] = heap[i],
         \A k \in Emitted : replacements'[k] = replacements[k]
  PROVE  IsCopy(n, e)'
<1>1. e \in DOMAIN heap /\ heap'[e] = heap[e] /\ e \in Lower + 1 .. root
  BY TreeInSource DEF Graph
<1>2. CASE root # K /\ heap[e].kind = "ScalarArgument"
  <2>1. heap[e].name \in 1 .. K /\ Kinds[heap[e].name] = "ScalarArgument"
    BY <1>1, <1>2 DEF Graph, Source, SourceNode
  <2>2. bound[heap[e].name] \in K + 1 .. B
    BY <1>2, <2>1, GraphAssumption DEF Graph, Bound
  <2>3. bound[heap[e].name] \in DOMAIN heap
    BY <2>2, Sizes DEF Graph, GivenKept
  <2> QED  BY <1>1, <1>2, <2>3 DEF IsCopy
<1>3. CASE ~(root # K /\ heap[e].kind = "ScalarArgument")
  <2>1. \A j \in DOMAIN heap[e].kids : heap[e].kids[j] \in Emitted
    BY DEF ToSet, Kids
  <2>2. [j \in DOMAIN heap[e].kids |-> replacements'[heap[e].kids[j]]]
          = [j \in DOMAIN heap[e].kids |-> replacements[heap[e].kids[j]]]
    BY <2>1
  <2> QED  BY <1>1, <1>3, <2>2 DEF IsCopy
<1> QED  BY <1>2, <1>3

(* A node is copied when all its kids have been. *)
LEMMA EmitStep ==
  ASSUME Graph, Phases, Emit
  PROVE  Graph' /\ Phases'
<1> DEFINE node == Last(queue)
           n == WithReplacements(Mutated(node))
           id == Len(heap) + 1
<1>1. /\ Rewriting /\ queue # <<>> /\ Walk /\ Copies(Len(heap))
      /\ ~Contains(emitted, node) /\ Unprocessed(node) = <<>>
      /\ queue' = Front(queue)
      /\ emitted' = Append(emitted, node)
      /\ heap' = Append(heap, n)
      /\ replacements' = Insert(replacements, node, Len(heap'))
      /\ UNCHANGED <<phase, root, bound, target, subnode, result>>
  BY DEF Emit, Phases
<1>2. /\ node \in Reachable(root) /\ node # root
      /\ ToSet(Kids(node)) \subseteq Emitted
      /\ node \notin Emitted
  BY <1>1, UnprocessedKids, ContainsMember DEF Walk, Emitted
<1>3. n \in Node /\ n.kids \in Seq(1 .. Len(heap)) /\ IsCopy(n, node)
  <2> HIDE DEF node
  <2> QED  BY <1>1, <1>2, NewCopy
<1>4. /\ Front(queue) \in Seq(Reachable(root) \ {root})
      /\ ToSet(queue) = ToSet(Front(queue)) \cup {node}
  BY <1>1, FrontMembers DEF Walk
<1> HIDE DEF node, n
<1>5. Graph'
  BY <1>1, <1>3, GraphAppended
<1>6. /\ GivenKept' /\ Ordered(heap')
      /\ Len(heap) \in Nat /\ Len(heap') = id /\ heap'[id] = n
      /\ DOMAIN heap = 1 .. Len(heap) /\ DOMAIN heap' = 1 .. id
      /\ \A i \in DOMAIN heap : heap'[i] = heap[i] /\ Below(heap')[i] = Below(heap)[i]
  <2>1. GivenKept /\ Ordered(heap) /\ Len(heap) \in Nat
    BY DEF Graph, GivenKept
  <2> QED  BY <1>1, <1>3, <2>1, HeapAppended
<1>7. /\ Emitted \subseteq Reachable(root) \ {root}
      /\ Reachable(root) \subseteq DOMAIN heap /\ root \in DOMAIN heap
  BY <1>1, WalkInTree, TreeInSource DEF Graph
<1>8. Emitted' = Emitted \cup {node} /\ emitted' \in Seq(Reachable(root) \ {root})
  BY <1>1, <1>2, AppendMembers DEF Emitted, Walk
<1>9. Reachable(root)' = Reachable(root)
  BY <1>1, <1>6, <1>7 DEF Reachable
<1>10. \A e \in Emitted \cup {node, root} : Kids(e)' = Kids(e)
  BY <1>2, <1>6, <1>7 DEF Kids
<1>11. Walk'
  BY <1>1, <1>2, <1>4, <1>8, <1>9, <1>10 DEF Walk
<1>12. /\ replacements \in [Emitted -> Base + 1 .. Len(heap)]
       /\ Base' = Base /\ Base \in Nat /\ Base <= Len(heap)
  BY <1>1, <1>6, <1>7, Sizes DEF Copies, Base, Graph, GivenKept
<1>13. /\ DOMAIN replacements' = Emitted \cup {node}
       /\ replacements'[node] = id
       /\ \A e \in Emitted : replacements'[e] = replacements[e]
       /\ replacements' \in [Emitted \cup {node} -> Base + 1 .. id]
  <2>1. replacements' = [x \in Emitted \cup {node} |-> IF x = node THEN id ELSE replacements[x]]
    BY <1>1, <1>6, <1>12 DEF Insert
  <2>2. \A e \in Emitted : replacements[e] \in Base + 1 .. id
    BY <1>6, <1>12
  <2>3. id \in Base + 1 .. id
    BY <1>6, <1>12
  <2> QED  BY <1>2, <2>1, <2>2, <2>3
<1>14. Copies(Len(heap))'
  <2>1. \A e, f \in Emitted \cup {node} : replacements'[e] = replacements'[f] => e = f
    <3>1. \A e \in Emitted : replacements'[e] # id
      BY <1>6, <1>12, <1>13
    <3> QED  BY <1>1, <1>13, <3>1 DEF Copies
  <2>2. \A i \in Base + 1 .. id : \E e \in Emitted \cup {node} : replacements'[e] = i
    <3>1. \A i \in Base + 1 .. id : i = id \/ i \in Base + 1 .. Len(heap)
      BY <1>6, <1>12
    <3> QED  BY <1>1, <1>13, <3>1 DEF Copies
  <2>3. ASSUME NEW e \in Emitted \cup {node} PROVE IsCopy(heap[replacements[e]], e)'
    <3>1. PICK m : m = heap'[replacements'[e]]
      OBVIOUS
    <3>2. e \in Reachable(root) /\ ToSet(Kids(e)) \subseteq Emitted
      BY <1>1, <1>2, <1>7 DEF Walk
    <3>3. IsCopy(m, e)
      <4>1. CASE e = node
        BY <3>1, <4>1, <1>3, <1>6, <1>13
      <4>2. CASE e \in Emitted
        <5>1. m = heap[replacements[e]]
          BY <3>1, <4>2, <1>6, <1>12, <1>13
        <5> QED  BY <4>2, <5>1, <1>1 DEF Copies
      <4> QED  BY <4>1, <4>2
    <3>4. IsCopy(m, e)'
      BY <3>2, <3>3, <1>1, <1>6, <1>13, IsCopyKept
    <3> QED  BY <3>1, <3>4 DEF IsCopy
  <2> QED  BY <1>6, <1>8, <1>12, <1>13, <2>1, <2>2, <2>3 DEF Copies
<1> QED  BY <1>1, <1>5, <1>11, <1>14, PhasesInWalk

(* The root is copied last, when all that it reaches has been emitted. *)
LEMMA EmittedTree ==
  ASSUME Graph, Walk, queue = <<>>
  PROVE  /\ ToSet(Kids(root)) \subseteq Emitted
         /\ Reachable(root) = Emitted \cup {root}
<1>1. ToSet(Kids(root)) \subseteq Emitted
  BY DEF Walk, ToSet
<1>2. IsHeap(heap) /\ root \in DOMAIN heap
  BY HeapIsHeap DEF Graph, GivenKept, Source
<1>3. Closed(heap, Emitted \cup {root})
  BY <1>1 DEF Closed, Walk, Kids
<1>4. Reachable(root) \subseteq Emitted \cup {root}
  BY <1>2, <1>3, BelowLeast DEF Reachable
<1>5. Emitted \cup {root} \subseteq Reachable(root)
  BY WalkInTree, TreeInSource DEF Graph
<1> QED  BY <1>1, <1>4, <1>5

(* The copies of the first walk are the tree of the second. *)
LEMMA PrefixedSource ==
  ASSUME Graph, Phases, phase = "prefix", queue = <<>>,
         NEW n \in Node, n.kids \in Seq(1 .. Len(heap)), IsCopy(n, root),
         heap' = Append(heap, n), root' = Len(heap')
  PROVE  Source' /\ root' # K
<1> DEFINE id == Len(heap) + 1
<1>1. /\ GivenKept' /\ Ordered(heap')
      /\ Len(heap) \in Nat /\ Len(heap) >= B /\ Len(heap') = id /\ heap'[id] = n
      /\ DOMAIN heap = 1 .. Len(heap) /\ DOMAIN heap' = 1 .. id
      /\ \A i \in DOMAIN heap : heap'[i] = heap[i]
  <2>1. GivenKept /\ Ordered(heap) /\ Len(heap) \in Nat /\ Len(heap) >= B
    BY DEF Graph, GivenKept
  <2> QED  BY <2>1, HeapAppended
<1>2. /\ root = K /\ subnode = 0 /\ Walk /\ Copies(Len(heap))
      /\ Lower = 0 /\ Base = B /\ Lower' = B /\ root' = id /\ root' # K /\ root' > B
  BY <1>1, Sizes DEF Phases, Rewriting, Lower, Base
<1>3. /\ ToSet(Kids(K)) \subseteq Emitted /\ Emitted \subseteq 1 .. K - 1
      /\ \A e \in Emitted : ToSet(Kids(e)) \subseteq Emitted
  <2>1. Reachable(root) \subseteq 1 .. K
    BY <1>2, TreeInSource DEF Graph
  <2> QED  BY <1>2, <2>1, EmittedTree, WalkInTree, Sizes DEF Walk
<1> DEFINE of == [i \in B + 1 .. id |-> CHOOSE e \in Emitted \cup {K} :
                     IF i = id THEN e = K ELSE e \in Emitted /\ replacements[e] = i]
<1>a. /\ B + 1 .. id = (B + 1 .. Len(heap)) \cup {id} /\ id \in B + 1 .. id
      /\ id \notin B + 1 .. Len(heap) /\ B + 1 .. Len(heap) \subseteq DOMAIN heap
      /\ B + 1 .. id \subseteq DOMAIN heap' /\ 1 .. K \subseteq DOMAIN heap
      /\ K \in 1 .. K /\ K \notin Emitted /\ Emitted \cup {K} \subseteq 1 .. K
  <2>1. B \in Nat /\ K \in Nat \ {0} /\ K <= B
    BY Sizes
  <2> QED  BY <2>1, <1>1, <1>3
<1>4. ASSUME NEW i \in B + 1 .. id
      PROVE  /\ of[i] \in Emitted \cup {K}
             /\ IF i = id THEN of[i] = K ELSE of[i] \in Emitted /\ replacements[of[i]] = i
  <2>1. CASE i = id
    BY <2>1
  <2>2. CASE i # id
    <3>1. i \in B + 1 .. Len(heap)
      BY <2>2, <1>a
    <3>2. \E e \in Emitted : replacements[e] = i
      BY <3>1, <1>2 DEF Copies
    <3> QED  BY <2>2, <3>2
  <2> QED  BY <2>1, <2>2
<1> HIDE DEF of
(* What is known of the copy of a given node. *)
<1>5. ASSUME NEW i \in B + 1 .. id
      PROVE  /\ of[i] \in 1 .. K
             /\ heap'[i].name = of[i] /\ heap'[i].kind = Kinds[of[i]]
             /\ heap'[i].prefix = 1 /\ heap'[i].modified = FALSE
             /\ heap'[i].kids = [j \in DOMAIN Kids(of[i]) |-> replacements[Kids(of[i])[j]]]
  <2>1. of[i] \in 1 .. K
    BY <1>4, <1>a
  <2>2. IsCopy(heap'[i], of[i])
    <3>1. CASE i = id
      BY <3>1, <1>1, <1>2, <1>4
    <3>2. CASE i # id
      <4>1. i \in DOMAIN heap
        BY <3>2, <1>a
      <4> QED  BY <3>2, <4>1, <1>1, <1>2, <1>4 DEF Copies
    <3> QED  BY <3>1, <3>2
  <2>3. /\ heap[of[i]] = NewNode(of[i], heap[of[i]].kids)
    BY <2>1 DEF Graph, GivenKept
  <2>4. heap[of[i]].name = of[i] /\ heap[of[i]].kind = Kinds[of[i]]
    BY <2>3 DEF NewNode
  <2>5. (of[i] = subnode) = FALSE
    BY <2>1, <1>2
  <2> QED  BY <1>2, <2>1, <2>2, <2>4, <2>5 DEF IsCopy, Kids
<1>6. ASSUME NEW i \in B + 1 .. id
      PROVE  /\ heap'[i].kids \in Seq(B + 1 .. i - 1)
             /\ {heap'[k].name : k \in ToSet(heap'[i].kids)} = ToSet(heap'[of[i]].kids)
  <2> DEFINE e == of[i]
             ks == heap'[i].kids
  <2>1. /\ e \in 1 .. K /\ e \in DOMAIN heap /\ heap'[e] = heap[e]
        /\ ks = [j \in DOMAIN Kids(e) |-> replacements[Kids(e)[j]]]
        /\ ks \in Seq(1 .. i - 1)
    BY <1>1, <1>5, <1>a DEF Ordered
  <2>2. Kids(e) \in Seq(1 .. e - 1) /\ ToSet(Kids(e)) \subseteq Emitted
    BY <1>3, <1>4, <2>1 DEF Graph, Ordered, Kids
  <2> HIDE DEF e, ks
  <2>3. Kids(e) \in Seq(Emitted)
    BY <2>2, Members, SeqMonotonic
  <2>4. replacements \in [Emitted -> B + 1 .. Len(heap)]
    BY <1>2 DEF Copies
  <2>5. ks \in Seq(B + 1 .. Len(heap))
    BY <2>1, <2>3, <2>4, Exchanged
  <2>6. ks \in Seq(ToSet(ks)) /\ ToSet(ks) \subseteq B + 1 .. Len(heap)
    BY <2>5, Members
  <2>7. ToSet(ks) \subseteq B + 1 .. i - 1
    <3>1. ToSet(ks) \subseteq 1 .. i - 1
      BY <2>1, Members
    <3>2. B \in Nat /\ Len(heap) \in Nat /\ i \in Nat
      BY <1>1, Sizes
    <3> QED  BY <2>6, <3>1, <3>2
  <2>8. ks \in Seq(B + 1 .. i - 1)
    BY <2>6, <2>7, SeqMonotonic
  <2>9. ASSUME NEW c \in Emitted
        PROVE  heap'[replacements[c]].name = c
    <3>1. replacements[c] \in B + 1 .. id /\ replacements[c] # id
      BY <2>4, <1>a
    <3>2. of[replacements[c]] = c
      BY <3>1, <1>2, <1>4 DEF Copies
    <3> QED  BY <3>1, <3>2, <1>5
  <2>10. ToSet(ks) = {replacements[c] : c \in ToSet(Kids(e))}
    BY <2>1 DEF ToSet
  <2>11. {heap'[k].name : k \in ToSet(ks)} = ToSet(Kids(e))
    <3>1. ASSUME NEW k \in ToSet(ks) PROVE heap'[k].name \in ToSet(Kids(e))
      BY <2>2, <2>9, <2>10
    <3>2. ASSUME NEW c \in ToSet(Kids(e)) PROVE \E k \in ToSet(ks) : heap'[k].name = c
      BY <2>2, <2>9, <2>10
    <3> QED  BY <3>1, <3>2
  <2> QED  BY <2>1, <2>8, <2>11 DEF Kids, e, ks
<1>7. ASSUME NEW i \in B + 1 .. id PROVE SourceNode(i)'
  <2>1. \A j \in B + 1 .. id : heap'[j].name = heap'[i].name => j = i
    <3> SUFFICES ASSUME NEW j \in B + 1 .. id, heap'[j].name = heap'[i].name PROVE j = i
      OBVIOUS
    <3>1. of[j] = of[i]
      BY <1>5
    <3>2. CASE of[i] = K
      BY <3>1, <3>2, <1>4, <1>a
    <3>3. CASE of[i] # K
      <4>1. i # id /\ j # id
        BY <3>1, <3>3, <1>4
      <4> QED  BY <3>1, <4>1, <1>4
    <3> QED  BY <3>2, <3>3
  <2> QED  BY <2>1, <1>2, <1>5, <1>6 DEF SourceNode
<1>8. id \in B + 1 .. id /\ heap'[id].name = K
  BY <1>4, <1>5, <1>a
<1> QED  BY <1>1, <1>2, <1>7, <1>8 DEF Source

(* The root is copied last; a call binds the arguments. *)
LEMMA EmitRootStep ==
  ASSUME Graph, Phases, EmitRoot
  PROVE  RewriteInv'
<1>1. PICK n : n = WithReplacements(Mutated(root))
  OBVIOUS
<1>2. /\ Rewriting /\ queue = <<>> /\ Walk /\ Copies(Len(heap))
      /\ heap' = Append(heap, n)
      /\ UNCHANGED <<bound, target, subnode>>
  BY <1>1 DEF EmitRoot, Phases
<1>3. /\ root \in Reachable(root) /\ root \in DOMAIN heap
      /\ ToSet(Kids(root)) \subseteq Emitted
  BY <1>2, EmittedTree, TreeInSource DEF Graph, Source
<1>4. n \in Node /\ n.kids \in Seq(1 .. Len(heap)) /\ IsCopy(n, root)
  BY <1>1, <1>2, <1>3, NewCopy
<1>5. /\ GivenKept' /\ Ordered(heap')
      /\ Len(heap) \in Nat /\ Len(heap') = Len(heap) + 1 /\ heap'[Len(heap) + 1] = n
      /\ DOMAIN heap = 1 .. Len(heap)
      /\ \A i \in DOMAIN heap : heap'[i] = heap[i] /\ Below(heap')[i] = Below(heap)[i]
  <2>1. GivenKept /\ Ordered(heap) /\ Len(heap) \in Nat
    BY DEF Graph, GivenKept
  <2> QED  BY <1>2, <1>4, <2>1, HeapAppended
<1>6. CASE phase = "prefix" /\ DOMAIN bound # Signature
  BY <1>6 DEF EmitRoot, RewriteInv
<1>7. CASE phase = "prefix" /\ DOMAIN bound = Signature
  <2>1. /\ phase' = "substitute" /\ root' = Len(heap') /\ queue' = heap'[Len(heap')].kids
        /\ emitted' = <<>> /\ replacements' = <<>> /\ subnode = 0
    BY <1>7 DEF EmitRoot, Phases
  <2>2. Source' /\ root' # K
    BY <1>2, <1>4, <1>7, <2>1, PrefixedSource
  <2>3. Bound' /\ Subnode'
    BY <1>2, <1>7, <2>1 DEF Graph, Bound, Subnode
  <2>4. Graph'
    BY <1>5, <2>2, <2>3 DEF Graph
  <2>5. /\ Base' = Len(heap)'
        /\ queue' = Kids(root)'
    BY <2>1, <2>2 DEF Base, Kids
  <2>6. (Graph /\ emitted = <<>> /\ replacements = <<>> /\ queue = Kids(root) /\ Base = Len(heap)
          => Walk /\ Copies(Len(heap)))'
    BY FreshWalk, PTL
  <2>7. Walk' /\ Copies(Len(heap))'
    BY <2>1, <2>4, <2>5, <2>6
  <2>8. Phases'
    BY <1>2, <2>1, <2>2, <2>7 DEF Phases, Rewriting, Done
  <2> QED  BY <2>4, <2>8 DEF RewriteInv
<1>8. CASE phase # "prefix"
  <2>1. /\ phase' = "done" /\ result' = Len(heap')
        /\ UNCHANGED <<root, queue, emitted, replacements>>
    BY <1>8 DEF EmitRoot
  <2>2. Graph'
    BY <1>2, <1>4, <2>1, GraphAppended
  <2>3. Emitted' = Emitted /\ Base' = Base /\ Base \in Nat /\ Base <= Len(heap)
    BY <1>3, <1>5, <2>1, Sizes DEF Emitted, Base, Graph, GivenKept
  <2>4. Emitted \subseteq Reachable(root) /\ Reachable(root) \subseteq DOMAIN heap
    BY <1>2, WalkInTree, TreeInSource DEF Graph
  <2>5. Reachable(root)' = Reachable(root) /\ \A e \in Emitted \cup {root} : Kids(e)' = Kids(e)
    BY <1>3, <1>5, <2>1, <2>4 DEF Reachable, Kids
  <2>6. Walk'
    <3>1. Kids(root)' = Kids(root)
      BY <1>3, <1>5, <2>1 DEF Kids
    <3> QED  BY <1>2, <2>1, <2>3, <2>5, <3>1 DEF Walk
  <2>7. ASSUME NEW m, NEW e, IsCopy(m, e), e \in Emitted \cup {root} PROVE IsCopy(m, e)'
    <3>1. e \in Reachable(root) /\ ToSet(Kids(e)) \subseteq Emitted
      BY <1>2, <1>3, <2>4, <2>7 DEF Walk
    <3> QED  BY <1>2, <1>5, <2>1, <2>7, <3>1, IsCopyKept
  <2>8. Copies(Len(heap) - 1)'
    <3>1. Len(heap') - 1 = Len(heap)
      BY <1>5
    <3>2. replacements' = replacements /\ replacements \in [Emitted -> Base + 1 .. Len(heap)]
      BY <1>2, <2>1 DEF Copies
    <3>3. ASSUME NEW e \in Emitted PROVE IsCopy(heap[replacements[e]], e)'
      <4>1. replacements[e] \in DOMAIN heap
        BY <3>2, <1>5, <2>3
      <4>2. PICK m : m = heap'[replacements[e]]
        OBVIOUS
      <4>3. IsCopy(m, e)
        BY <4>1, <4>2, <1>2, <1>5 DEF Copies
      <4>4. IsCopy(m, e)'
        BY <4>3, <2>7
      <4> QED  BY <4>2, <4>4, <2>1 DEF IsCopy
    <3> QED  BY <1>2, <2>3, <3>1, <3>2, <3>3 DEF Copies
  <2>9. IsCopy(heap[result], root)'
    <3>1. PICK e : e = root
      OBVIOUS
    <3>2. IsCopy(n, e)'
      BY <1>4, <2>7, <3>1
    <3> QED  BY <1>5, <2>1, <3>1, <3>2 DEF IsCopy
  <2>10. root = K => subnode # 0
    BY <1>2, <1>8 DEF Phases, Rewriting
  <2>11. Len(heap') > Base'
    BY <1>5, <2>3
  <2>12. Phases'
    BY <1>2, <2>1, <2>6, <2>8, <2>9, <2>10, <2>11 DEF Phases, Rewriting, Done
  <2> QED  BY <2>2, <2>12 DEF RewriteInv
<1> QED  BY <1>6, <1>7, <1>8

(* The other steps change no node. *)
LEMMA CallStep ==
  ASSUME Graph, Phases, Call
  PROVE  RewriteInv'
<1>1. /\ phase = "start" /\ phase' = "prefix" /\ root' = K /\ queue' = Kids(K)
      /\ emitted' = <<>> /\ replacements' = <<>>
      /\ UNCHANGED <<heap, target, subnode, result>>
      /\ root = K /\ subnode = 0 /\ Len(heap) = B
  BY DEF Call, Mutate, Phases
<1>2. PICK names \in SUBSET (1 .. K) :
        /\ \A i \in names : Kinds[i] = "ScalarArgument"
        /\ bound' \in [names -> K + 1 .. K + Len(Caller)]
  BY DEF Call
<1>3. Bound'
  <2>1. names \subseteq Signature
    BY <1>2, GraphAssumption
  <2> QED  BY <1>1, <1>2, <2>1 DEF Bound, B
<1>4. Graph'
  <2>1. GivenKept' /\ Ordered(heap)' /\ Subnode'
    BY <1>1 DEF Graph, GivenKept, Ordered, Subnode
  <2>2. ASSUME NEW i, SourceNode(i) PROVE SourceNode(i)'
    BY <1>1, <2>2 DEF SourceNode, Lower
  <2>3. Source'
    BY <1>1, <2>2 DEF Graph, Source, Lower
  <2> QED  BY <1>3, <2>1, <2>3 DEF Graph
<1>5. (Graph /\ emitted = <<>> /\ replacements = <<>> /\ queue = Kids(root) /\ Base = Len(heap)
        => Walk /\ Copies(Len(heap)))'
  BY FreshWalk, PTL
<1>6. Base' = Len(heap)' /\ queue' = Kids(root)'
  BY <1>1 DEF Base, Kids
<1>7. Walk' /\ Copies(Len(heap))'
  BY <1>1, <1>4, <1>5, <1>6
<1> QED  BY <1>1, <1>4, <1>7 DEF RewriteInv, Phases, Rewriting, Done

(* A replacement starts with the search for its target. *)
LEMMA ApplyStep ==
  ASSUME Graph, Phases, Apply
  PROVE  RewriteInv'
<1>1. /\ phase = "start" /\ phase' = "find" /\ queue' = <<root>>
      /\ UNCHANGED <<heap, root, bound, subnode, emitted, replacements, result>>
      /\ root = K /\ subnode = 0 /\ emitted = <<>>
  BY DEF Apply, Phases
<1>2. Graph'
  <2>1. GivenKept' /\ Ordered(heap)' /\ Bound' /\ Subnode'
    BY <1>1 DEF Graph, GivenKept, Ordered, Bound, Subnode
  <2>2. ASSUME NEW i, SourceNode(i) PROVE SourceNode(i)'
    BY <1>1, <2>2 DEF SourceNode, Lower
  <2>3. Source'
    BY <1>1, <2>2 DEF Graph, Source, Lower
  <2> QED  BY <2>1, <2>3 DEF Graph
<1>3. queue' \in Seq(1 .. K) /\ emitted' \in Seq(1 .. K)
  BY <1>1, Sizes
<1> QED  BY <1>1, <1>2, <1>3 DEF RewriteInv, Phases, Rewriting, Done

(* A node that is not the target is passed over. *)
LEMMA SearchStep ==
  ASSUME Graph, Phases, Search
  PROVE  RewriteInv'
<1>1. PICK node : node = Last(queue)
  OBVIOUS
<1>2. /\ phase = "find" /\ queue # <<>>
      /\ queue' = Front(queue) \o Unprocessed(node)
      /\ emitted' = Append(emitted, node)
      /\ UNCHANGED <<heap, phase, root, bound, target, subnode, replacements, result>>
      /\ queue \in Seq(1 .. K) /\ emitted \in Seq(1 .. K)
  BY <1>1 DEF Search, Phases
<1>3. Graph'
  BY <1>2, GraphUnchanged
<1>4. node \in 1 .. K /\ Front(queue) \in Seq(1 .. K)
  BY <1>1, <1>2, FrontMembers
<1>5. Kids(node) \in Seq(1 .. node - 1)
  <2>1. node \in DOMAIN heap
    BY <1>4, Sizes DEF Graph, GivenKept
  <2> QED  BY <2>1 DEF Graph, Ordered, Kids
<1>6. Unprocessed(node) \in Seq(1 .. K)
  <2>1. Len(Kids(node)) \in Nat /\ DOMAIN Kids(node) = 1 .. Len(Kids(node))
    BY <1>5
  <2>2. Unprocessed(node) \in Seq(ToSet(Kids(node)))
    BY <2>1, MissingKids DEF Unprocessed
  <2>3. ToSet(Kids(node)) \subseteq 1 .. node - 1
    BY <1>5, Members
  <2>4. ToSet(Kids(node)) \subseteq 1 .. K
    BY <1>4, <2>3, Sizes
  <2> QED  BY <2>2, <2>4, SeqMonotonic
<1>7. queue' \in Seq(1 .. K) /\ emitted' \in Seq(1 .. K)
  BY <1>2, <1>4, <1>6, ConcatProperties
<1> QED  BY <1>2, <1>3, <1>7 DEF RewriteInv, Phases, Rewriting, Done

(* The target has been found, and its rewriting starts. *)
LEMMA FoundStep ==
  ASSUME Graph, Phases, Found
  PROVE  RewriteInv'
<1>1. PICK node : node = Last(queue)
  OBVIOUS
<1>2. /\ phase = "find" /\ queue # <<>> /\ queue \in Seq(1 .. K)
      /\ heap[node].name = target.slot /\ subnode' = node
      /\ UNCHANGED <<heap, bound, target, result>>
      /\ root = K /\ bound = <<>> /\ Len(heap) = B
  BY <1>1 DEF Found, Phases
<1>3. node \in 1 .. K
  BY <1>1, <1>2, FrontMembers
<1>4. heap[node].name = node /\ heap[node].kind = Kinds[node]
  <2>1. heap[node] = NewNode(node, heap[node].kids)
    BY <1>3 DEF Graph, GivenKept
  <2> QED  BY <2>1 DEF NewNode
<1>5. CASE heap[node].kind # target.kind
  BY <1>1, <1>5 DEF Found, RewriteInv
<1>6. CASE heap[node].kind = target.kind
  <2>1. /\ phase' = "replace" /\ root' = root /\ queue' = Kids(root)
        /\ emitted' = <<>> /\ replacements' = <<>>
    BY <1>1, <1>6 DEF Found, Mutate
  <2>2. Graph'
    <3>1. GivenKept' /\ Ordered(heap)' /\ Bound'
      BY <1>2, <2>1 DEF Graph, GivenKept, Ordered, Bound
    <3>2. ASSUME NEW i, SourceNode(i) PROVE SourceNode(i)'
      BY <1>2, <2>1, <3>2 DEF SourceNode, Lower
    <3>3. Source'
      BY <1>2, <2>1, <3>2 DEF Graph, Source, Lower
    <3>4. Subnode'
      BY <1>2, <1>3, <1>4, <1>6, <2>1 DEF Subnode
    <3> QED  BY <3>1, <3>3, <3>4 DEF Graph
  <2>3. (Graph /\ emitted = <<>> /\ replacements = <<>> /\ queue = Kids(root) /\ Base = Len(heap)
          => Walk /\ Copies(Len(heap)))'
    BY FreshWalk, PTL
  <2>4. Base' = Len(heap)' /\ queue' = Kids(root)'
    BY <1>2, <2>1 DEF Base, Kids
  <2>5. Walk' /\ Copies(Len(heap))'
    BY <2>1, <2>2, <2>3, <2>4
  <2>6. subnode' # 0
    BY <1>2, <1>3
  <2> QED  BY <2>1, <2>2, <2>5, <2>6 DEF RewriteInv, Phases, Rewriting, Done
<1> QED  BY <1>5, <1>6

-----------------------------------------------------------------------------
(* The invariant. *)

(* The heap of an initial state. *)
LEMMA GivenInit ==
  ASSUME Init
  PROVE  GivenKept /\ Ordered(heap) /\ Len(heap) = B
<1>1. PICK kids \in [1 .. K -> BoundedSeq(1 .. K - 1, MaxKids)] :
        /\ \A i \in 1 .. K : kids[i] \in KidSeqs(i)
        /\ heap = [i \in 1 .. K |-> NewNode(i, kids[i])] \o Caller
  BY DEF Init
<1>2. ASSUME NEW i \in 1 .. K
      PROVE  /\ kids[i] \in Seq(1 .. i - 1)
             /\ kids[i] \in Seq(Nat)
             /\ Kinds[i] = "ScalarArgument" => kids[i] = <<>>
  <2>1. kids[i] \in KidSeqs(i)
    BY <1>1
  <2>2. kids[i] \in Seq(1 .. i - 1)
    <3>1. CASE Kinds[i] = "ScalarArgument"
      BY <2>1, <3>1 DEF KidSeqs
    <3>2. CASE Kinds[i] # "ScalarArgument"
      <4>1. PICK m \in 0 .. MaxKids : kids[i] \in [1 .. m -> 1 .. i - 1]
        BY <2>1, <3>2 DEF KidSeqs, BoundedSeq, SeqOf
      <4> QED  BY <4>1, GraphAssumption
    <3> QED  BY <3>1, <3>2
  <2>3. 1 .. i - 1 \subseteq Nat
    OBVIOUS
  <2> QED  BY <2>1, <2>2, <2>3, SeqMonotonic DEF KidSeqs
<1> DEFINE own == [i \in 1 .. K |-> NewNode(i, kids[i])]
<1>3. \A i \in 1 .. K : NewNode(i, kids[i]) \in Node
  <2>1. \A i \in 1 .. K : Kinds[i] \in STRING
    BY GraphAssumption DEF K
  <2> QED  BY <1>2, <2>1 DEF NewNode, Node
<1>4. own \in Seq(Node) /\ Len(own) = K /\ \A i \in 1 .. K : own[i] = NewNode(i, kids[i])
  BY <1>3, Sizes
<1>5. Caller \in Seq(Node)
  <2>1. Caller \in [1 .. Len(Caller) -> Node]
    BY Sizes, GraphAssumption
  <2> QED  BY <2>1, Sizes
<1> HIDE DEF own
<1>6. /\ heap \in Seq(Node) /\ Len(heap) = K + Len(Caller)
      /\ \A i \in 1 .. K + Len(Caller) : heap[i] = IF i <= K THEN own[i] ELSE Caller[i - K]
  <2>1. heap = own \o Caller
    BY <1>1 DEF own
  <2> QED  BY <2>1, <1>4, <1>5, ConcatProperties
<1>7. \A i \in 1 .. K : heap[i] = NewNode(i, kids[i])
  BY <1>4, <1>6, Sizes
<1>8. ASSUME NEW i \in 1 .. Len(Caller) PROVE heap[K + i] = Caller[i]
  <2>1. K + i \in 1 .. K + Len(Caller) /\ ~(K + i <= K) /\ (K + i) - K = i
    BY Sizes
  <2> QED  BY <1>6, <2>1
<1>9. ASSUME NEW i \in 1 .. K PROVE heap[i].kids = kids[i]
  <2>1. heap[i] = NewNode(i, kids[i])
    BY <1>7
  <2> QED  BY <2>1 DEF NewNode
<1>10. GivenKept
  <2>1. \A i \in Signature : heap[i].kids = <<>>
    BY <1>2, <1>9, GraphAssumption
  <2> QED  BY <1>6, <1>7, <1>8, <1>9, <2>1, Sizes DEF GivenKept, B
<1>11. ASSUME NEW i \in DOMAIN heap PROVE heap[i].kids \in Seq(1 .. i - 1)
  <2>1. i \in 1 .. K + Len(Caller)
    BY <1>6
  <2>2. CASE i <= K
    BY <2>1, <2>2, <1>2, <1>9, Sizes
  <2>3. CASE i > K
    <3>1. i - K \in 1 .. Len(Caller) /\ i = K + (i - K)
      BY <2>1, <2>3, Sizes
    <3>2. heap[i] = Caller[i - K]
      BY <3>1, <1>8
    <3> DEFINE S == K + 1 .. K + (i - K) - 1
    <3>3. heap[i].kids \in Seq(S)
      BY <3>1, <3>2, Sizes
    <3>4. S \subseteq 1 .. i - 1
      BY <3>1, Sizes
    <3> HIDE DEF S
    <3> QED  BY <3>3, <3>4, SeqMonotonic
  <2> QED  BY <2>1, <2>2, <2>3, Sizes
<1> QED  BY <1>6, <1>10, <1>11 DEF Ordered, B

(* At first there is the graph of the callee. *)
LEMMA InitInv == Init => RewriteInv
<1> SUFFICES ASSUME Init PROVE RewriteInv
  OBVIOUS
<1>1. GivenKept /\ Ordered(heap) /\ Len(heap) = B
  BY GivenInit
<1>2. /\ phase = "start" /\ root = K /\ bound = <<>> /\ subnode = 0 /\ queue = <<>>
      /\ emitted = <<>>
  BY DEF Init
<1>3. /\ Lower + 1 = 1 /\ 1 .. K \subseteq DOMAIN heap /\ K \in 1 .. K /\ K \in DOMAIN heap
      /\ \A i \in 1 .. K : 1 .. i - 1 \subseteq 1 .. K
  BY <1>1, <1>2, Sizes DEF Lower, GivenKept
<1>4. ASSUME NEW i \in 1 .. K
      PROVE  /\ heap[i].name = i /\ heap[i].kind = Kinds[i] /\ heap[i].prefix = 0
             /\ heap[i].modified = FALSE
             /\ heap[i].kids \in Seq(1 .. i - 1)
  <2>1. heap[i] = NewNode(i, heap[i].kids)
    BY <1>1 DEF GivenKept
  <2> QED  BY <2>1, <1>1, <1>3 DEF NewNode, Ordered
<1>5. ASSUME NEW i \in 1 .. K PROVE SourceNode(i)
  <2>1. ToSet(heap[i].kids) \subseteq 1 .. i - 1
    BY <1>4, Members
  <2>2. \A k \in ToSet(heap[i].kids) : heap[k].name = k
    BY <2>1, <1>3, <1>4
  <2>3. {heap[k].name : k \in ToSet(heap[i].kids)} = ToSet(heap[i].kids)
    BY <2>2
  <2>4. heap[heap[i].name] = heap[i] /\ \A j \in 1 .. K : heap[j].name = heap[i].name => j = i
    BY <1>4
  <2> QED  BY <1>2, <1>3, <1>4, <2>3, <2>4 DEF SourceNode
<1>6. Source
  BY <1>2, <1>3, <1>4, <1>5 DEF Source
<1>7. Bound /\ Subnode
  BY <1>2, Sizes DEF Bound, Subnode
<1> QED  BY <1>1, <1>2, <1>6, <1>7 DEF RewriteInv, Graph, Phases, Rewriting, Done

(* Every step preserves the invariant. *)
LEMMA StepInv == RewriteInv /\ [Next]_vars => RewriteInv'
<1> SUFFICES ASSUME RewriteInv, [Next]_vars PROVE RewriteInv'
  OBVIOUS
<1>1. CASE phase = "error"
  BY <1>1 DEF RewriteInv, Next, Skip, Descend, Emit, EmitRoot, Call, Apply, Search, Found,
              NotFound, Rewriting, vars
<1>2. CASE phase # "error"
  <2>1. Graph /\ Phases
    BY <1>2 DEF RewriteInv
  <2>2. CASE Skip
    BY <2>1, <2>2, SkipStep DEF RewriteInv
  <2>3. CASE Descend
    BY <2>1, <2>3, DescendStep DEF RewriteInv
  <2>4. CASE Emit
    BY <2>1, <2>4, EmitStep DEF RewriteInv
  <2>5. CASE EmitRoot
    BY <2>1, <2>5, EmitRootStep
  <2>6. CASE Call
    BY <2>1, <2>6, CallStep
  <2>7. CASE Apply
    BY <2>1, <2>7, ApplyStep
  <2>8. CASE Search
    BY <2>1, <2>8, SearchStep
  <2>9. CASE Found
    BY <2>1, <2>9, FoundStep
  <2>10. CASE NotFound
    BY <2>10 DEF NotFound, RewriteInv
  <2>11. CASE UNCHANGED vars
    <3>1. Graph'
      BY <2>1, <2>11, GraphUnchanged DEF vars
    <3>2. Walk' = Walk /\ Copies(Len(heap))' = Copies(Len(heap))
          /\ Copies(Len(heap) - 1)' = Copies(Len(heap) - 1)
          /\ IsCopy(heap[result], root)' = IsCopy(heap[result], root)
      BY <2>11 DEF vars, Walk, Reachable, Kids, Emitted, Copies, Base, IsCopy
    <3>3. Phases'
      BY <2>1, <2>11, <3>2 DEF vars, Phases, Rewriting, Done, Base
    <3> QED  BY <3>1, <3>3 DEF RewriteInv
  <2> QED  BY <2>2, <2>3, <2>4, <2>5, <2>6, <2>7, <2>8, <2>9, <2>10, <2>11 DEF Next
<1> QED  BY <1>1, <1>2

(* The invariant holds in every state of a rewriting. *)
THEOREM RewriteInvariance == Spec => []RewriteInv
BY InitInv, StepInv, PTL DEF Spec

-----------------------------------------------------------------------------
(* The new tree. *)

(* The inputs that were exchanged for nodes of the caller. *)
Input(e) == root # K /\ heap[e].kind = "ScalarArgument"

(* The new node for every node of the tree. *)
Rep == [e \in Reachable(root) |-> IF e = root THEN result ELSE replacements[e]]

Built == Base + 1 .. Len(heap)

(* The nodes of the caller that the new tree keeps. *)
KeptNodes ==
  {j \in K + 1 .. B : \E e \in Reachable(root) :
                        Input(e) /\ \E k \in ToSet(Kids(bound[heap[e].name])) : j \in Reachable(k)}

(* The new nodes are in one-to-one correspondence with the tree. *)
LEMMA RepFacts ==
  ASSUME RewriteInv, Done
  PROVE  /\ \A e \in Reachable(root) : Rep[e] \in Built /\ IsCopy(heap[Rep[e]], e)
         /\ \A e, f \in Reachable(root) : Rep[e] = Rep[f] => e = f
         /\ \A i \in Built : \E e \in Reachable(root) : Rep[e] = i
         /\ \A e \in Reachable(root) : \A k \in ToSet(Kids(e)) :
              k \in Reachable(root) /\ Rep[k] = replacements[k]
         /\ root \in Reachable(root) /\ Rep[root] = result
<1>1. Graph /\ Phases
  BY DEF RewriteInv, Done
<1>2. /\ Walk /\ queue = <<>> /\ Len(heap) > Base /\ Copies(Len(heap) - 1)
      /\ result = Len(heap) /\ IsCopy(heap[result], root)
  BY <1>1 DEF Phases
<1>3. Reachable(root) = Emitted \cup {root} /\ root \notin Emitted
  BY <1>1, <1>2, EmittedTree, WalkInTree
<1>4. /\ Len(heap) \in Nat /\ Base \in Nat
      /\ Built = (Base + 1 .. Len(heap) - 1) \cup {result} /\ result \notin Base + 1 .. Len(heap) - 1
  BY <1>1, <1>2, Sizes DEF Graph, GivenKept, Source, Base, Built
<1>5. /\ Rep[root] = result
      /\ \A e \in Emitted : Rep[e] = replacements[e] /\ Rep[e] \in Base + 1 .. Len(heap) - 1
  BY <1>2, <1>3 DEF Rep, Copies
<1>6. \A e \in Reachable(root) : Rep[e] \in Built /\ IsCopy(heap[Rep[e]], e)
  BY <1>2, <1>3, <1>4, <1>5 DEF Copies
<1>7. \A e, f \in Reachable(root) : Rep[e] = Rep[f] => e = f
  BY <1>2, <1>3, <1>4, <1>5 DEF Copies
<1>8. \A i \in Built : \E e \in Reachable(root) : Rep[e] = i
  BY <1>2, <1>3, <1>4, <1>5 DEF Copies
<1>9. \A e \in Reachable(root) : \A k \in ToSet(Kids(e)) : k \in Reachable(root) \ {root}
  BY <1>1, TreeInSource DEF Graph
<1> QED  BY <1>3, <1>5, <1>6, <1>7, <1>8, <1>9

(* What an input was bound to. *)
LEMMA InputFacts ==
  ASSUME RewriteInv, Done, NEW e \in Reachable(root), Input(e)
  PROVE  /\ heap[e].name \in Signature /\ heap[e].name \in DOMAIN bound
         /\ bound[heap[e].name] \in K + 1 .. B
         /\ bound[heap[e].name] \in DOMAIN heap
         /\ heap[Rep[e]] = heap[bound[heap[e].name]]
         /\ Kids(e) = <<>>
<1>1. Graph /\ e \in Lower + 1 .. root
  BY TreeInSource DEF RewriteInv, Done, Graph
<1>2. SourceNode(e)
  BY <1>1 DEF Graph, Source
<1>3. heap[e].name \in Signature
  BY <1>2, GraphAssumption DEF SourceNode, Input
<1>4. heap[e].name \in DOMAIN bound /\ bound[heap[e].name] \in K + 1 .. B
  BY <1>1, <1>3 DEF Graph, Bound, Input
<1>5. bound[heap[e].name] \in DOMAIN heap
  BY <1>1, <1>4, Sizes DEF Graph, GivenKept
<1>6. heap[Rep[e]] = heap[bound[heap[e].name]]
  BY RepFacts DEF IsCopy, Input
<1>7. Kids(e) = <<>>
  <2>1. ToSet(heap[heap[e].name].kids) = {}
    BY <1>1, <1>3 DEF Graph, GivenKept, ToSet
  <2>2. ToSet(heap[e].kids) = {}
    BY <1>2, <2>1 DEF SourceNode
  <2>3. heap[e].kids \in Seq(Lower + 1 .. e - 1)
    BY <1>2 DEF SourceNode
  <2> QED  BY <2>2, <2>3, NoMembers DEF Kids
<1> QED  BY <1>3, <1>4, <1>5, <1>6, <1>7

(* The kids of a node that was copied are the copies of its kids. *)
LEMMA CopiedKids ==
  ASSUME RewriteInv, Done, NEW e \in Reachable(root), ~Input(e)
  PROVE  ToSet(Kids(Rep[e])) = {Rep[k] : k \in ToSet(Kids(e))}
<1>1. Kids(Rep[e]) = [j \in DOMAIN Kids(e) |-> replacements[Kids(e)[j]]]
  BY RepFacts DEF IsCopy, Input, Kids
<1>2. ToSet(Kids(Rep[e])) = {replacements[k] : k \in ToSet(Kids(e))}
  BY <1>1 DEF ToSet
<1>3. \A k \in ToSet(Kids(e)) : Rep[k] = replacements[k]
  BY RepFacts
<1> QED  BY <1>2, <1>3

(* The new tree consists of new nodes, and of what the nodes that were     *)
(* given as arguments need.                                                *)
LEMMA NewUpper ==
  ASSUME RewriteInv, Done
  PROVE  New \subseteq Built \cup KeptNodes
<1>1. IsHeap(heap) /\ Graph
  BY HeapIsHeap DEF RewriteInv, Done, Graph, GivenKept
<1>2. ASSUME NEW i \in Built, NEW k \in ToSet(Kids(i)) PROVE k \in Built \cup KeptNodes
  <2>1. PICK e \in Reachable(root) : Rep[e] = i
    BY RepFacts
  <2>2. CASE ~Input(e)
    BY <1>2, <2>1, <2>2, CopiedKids, RepFacts
  <2>3. CASE Input(e)
    <3> DEFINE b == bound[heap[e].name]
    <3>1. b \in K + 1 .. B /\ b \in DOMAIN heap /\ Kids(i) = Kids(b)
      BY <2>1, <2>3, InputFacts DEF Kids
    <3> HIDE DEF b
    <3>2. k \in K + 1 .. B
      <4>1. b - K \in 1 .. Len(Caller) /\ b = K + (b - K)
        BY <3>1, Sizes DEF B
      <4>2. heap[b] = Caller[b - K]
        BY <4>1, <1>1 DEF Graph, GivenKept
      <4> DEFINE S == K + 1 .. K + (b - K) - 1
      <4>3. Kids(b) \in Seq(S)
        BY <4>1, <4>2, Sizes DEF Kids
      <4>4. S \subseteq K + 1 .. B
        BY <3>1, Sizes
      <4> HIDE DEF S
      <4> QED  BY <3>1, <4>3, <4>4, Members
    <3>3. k \in DOMAIN heap
      BY <3>2, <1>1, Sizes DEF Graph, GivenKept
    <3>4. k \in Reachable(k)
      BY <3>3, <1>1, BelowClosed DEF Reachable
    <3> QED  BY <2>3, <3>1, <3>2, <3>4 DEF KeptNodes, b
  <2> QED  BY <2>2, <2>3
<1>3. ASSUME NEW i \in KeptNodes, NEW c \in ToSet(Kids(i)) PROVE c \in KeptNodes
  <2>a. PICK e \in Reachable(root) :
          Input(e) /\ \E k \in ToSet(Kids(bound[heap[e].name])) : i \in Reachable(k)
    BY DEF KeptNodes
  <2>b. PICK k \in ToSet(Kids(bound[heap[e].name])) : i \in Reachable(k)
    BY <2>a
  <2>1. Input(e) /\ i \in Reachable(k)
    BY <2>a, <2>b
  <2>2. bound[heap[e].name] \in DOMAIN heap
    BY <2>1, InputFacts
  <2>3. k \in DOMAIN heap
    <3>1. k \in 1 .. bound[heap[e].name] - 1
      BY <1>1, <2>1, <2>2, KidsOlder DEF Kids, IsHeap
    <3> QED  BY <3>1, <2>2, <1>1 DEF IsHeap
  <2>4. i \in DOMAIN heap /\ i \in K + 1 .. B
    BY <1>1, Sizes DEF KeptNodes, Graph, GivenKept
  <2>5. c \in Reachable(k)
    BY <2>1, <2>3, <2>4, <1>1, BelowClosed DEF Reachable, Closed, Kids
  <2>6. c \in K + 1 .. B
    <3>1. i - K \in 1 .. Len(Caller) /\ i = K + (i - K)
      BY <2>4, Sizes DEF B
    <3>2. heap[i] = Caller[i - K]
      BY <3>1, <1>1 DEF Graph, GivenKept
    <3> DEFINE S == K + 1 .. K + (i - K) - 1
    <3>3. Kids(i) \in Seq(S)
      BY <3>1, <3>2, Sizes DEF Kids
    <3>4. S \subseteq K + 1 .. B
      BY <2>4, Sizes
    <3> HIDE DEF S
    <3> QED  BY <3>3, <3>4, Members
  <2> QED  BY <2>1, <2>5, <2>6 DEF KeptNodes
<1>4. Closed(heap, Built \cup KeptNodes)
  BY <1>2, <1>3 DEF Closed, Kids
<1>5. result \in Built /\ result \in DOMAIN heap
  <2>1. result \in Built
    BY RepFacts
  <2>2. Base \in Nat
    BY <1>1, Sizes DEF Graph, Source, Base, IsHeap
  <2> QED  BY <2>1, <2>2, <1>1 DEF Built, IsHeap
<1> QED  BY <1>1, <1>4, <1>5, BelowLeast DEF New, Reachable

(* Every node of the tree has its copy in the new one. *)
LEMMA NewLower ==
  ASSUME RewriteInv, Done
  PROVE  \A e \in Reachable(root) : Rep[e] \in New
<1>1. IsHeap(heap) /\ Graph /\ root \in DOMAIN heap
  BY HeapIsHeap DEF RewriteInv, Done, Graph, GivenKept, Source
<1>2. result \in Built /\ Base \in Nat /\ Built \subseteq DOMAIN heap
  <2>1. result \in Built
    BY RepFacts
  <2>2. Base \in Nat
    BY <1>1, Sizes DEF Graph, Source, Base, IsHeap
  <2> QED  BY <2>1, <2>2, <1>1 DEF Built, IsHeap
<1>3. result \in New /\ Closed(heap, New)
  BY <1>1, <1>2, BelowClosed DEF New, Reachable
<1> DEFINE C == {e \in Reachable(root) : Rep[e] \in New}
<1>4. ASSUME NEW e \in C, NEW k \in ToSet(Kids(e)) PROVE k \in C
  <2>1. ~Input(e)
    <3>1. SUFFICES ASSUME Input(e) PROVE FALSE
      OBVIOUS
    <3>2. Kids(e) = <<>>
      BY <3>1, InputFacts
    <3> QED  BY <3>2 DEF ToSet
  <2>2. Rep[k] \in ToSet(Kids(Rep[e]))
    BY <2>1, CopiedKids
  <2>3. Rep[e] \in DOMAIN heap
    BY <1>2, RepFacts
  <2>4. Rep[k] \in New
    BY <1>3, <2>2, <2>3 DEF Closed, Kids
  <2> QED  BY <2>4, RepFacts
<1>5. Closed(heap, C)
  BY <1>4 DEF Closed, Kids
<1>6. root \in C
  BY <1>3, RepFacts
<1>7. Reachable(root) \subseteq C
  <2> HIDE DEF C
  <2> QED  BY <1>1, <1>5, <1>6, BelowLeast DEF Reachable
<1> QED  BY <1>7

(* What the copies are. *)
LEMMA BuiltFacts ==
  ASSUME RewriteInv, Done, NEW e \in Reachable(root)
  PROVE  /\ heap[e].name \in 1 .. K /\ heap[e].kind = Kinds[heap[e].name]
         /\ ~Input(e) =>
              /\ heap[Rep[e]].name = heap[e].name
              /\ heap[Rep[e]].kind = heap[e].kind
              /\ heap[Rep[e]].prefix = IF subnode = 0 THEN 1 ELSE 0
              /\ heap[Rep[e]].modified = (e = subnode)
<1>1. e \in Lower + 1 .. root /\ Graph
  BY TreeInSource DEF RewriteInv, Done, Graph
<1>2. SourceNode(e)
  BY <1>1 DEF Graph, Source
<1>3. IsCopy(heap[Rep[e]], e)
  BY RepFacts
<1> QED  BY <1>2, <1>3 DEF SourceNode, IsCopy, Input

(* The nodes of the caller. *)
LEMMA CallerFacts ==
  ASSUME RewriteInv, Done, NEW i \in K + 1 .. B
  PROVE  /\ i \in DOMAIN heap
         /\ heap[i].prefix = 0 /\ heap[i].name \in Nat /\ heap[i].name > K
         /\ \A j \in K + 1 .. B : heap[j].name = heap[i].name => j = i
<1>1. \A j \in K + 1 .. B : j - K \in 1 .. Len(Caller) /\ j = K + (j - K)
  BY Sizes DEF B
<1>2. \A j \in 1 .. Len(Caller) : heap[K + j] = Caller[j]
  BY DEF RewriteInv, Done, Graph, GivenKept
<1>3. \A j \in K + 1 .. B : heap[j] = Caller[j - K]
  BY <1>1, <1>2
<1>4. /\ Caller[i - K] \in [name : Nat, prefix : {0}, kind : STRING, modified : {FALSE},
                            kids : Seq(Nat)]
      /\ Caller[i - K].name > K
  <2>1. i - K \in 1 .. Len(Caller) /\ i - K \in DOMAIN Caller
    BY <1>1, Sizes
  <2> QED  BY <2>1, GraphAssumption, ElementOfSeq
<1>5. heap[i].prefix = 0 /\ heap[i].name \in Nat /\ heap[i].name > K
  BY <1>3, <1>4
<1>6. ASSUME NEW j \in K + 1 .. B, heap[j].name = heap[i].name PROVE j = i
  <2>1. j - K = i - K
    BY <1>1, <1>3, <1>6, GraphAssumption
  <2> QED  BY <1>1, <2>1
<1>7. i \in DOMAIN heap
  BY Sizes DEF RewriteInv, Done, Graph, GivenKept
<1> QED  BY <1>5, <1>6, <1>7

(* Nothing of the old graph is in a tree that mutated_tree() has built,    *)
(* whatever the graph, the order of its kids and the caller.               *)
THEOREM RewritingLeavesNothingBehind == Spec => []NothingLeftBehind
<1>1. RewriteInv => NothingLeftBehind
  <2> SUFFICES ASSUME RewriteInv, Done PROVE New \cap (1 .. K) = {}
    BY DEF NothingLeftBehind
  <2>1. New \subseteq Built \cup KeptNodes
    BY NewUpper
  <2>2. Base \in Nat /\ Base >= K
    BY Sizes DEF RewriteInv, Done, Graph, GivenKept, Source, Base
  <2>3. Built \cap (1 .. K) = {} /\ KeptNodes \cap (1 .. K) = {}
    BY <2>2, Sizes DEF Built, KeptNodes
  <2> QED  BY <2>1, <2>3
<1> QED  BY <1>1, RewriteInvariance, PTL

(* call_protocol() leaves no input of the nested protocol unbound, and     *)
(* gives the prefix to the nested nodes and to no others.                  *)
THEOREM CallsBindArguments == Spec => []ArgumentsBound
<1>1. RewriteInv => ArgumentsBound
  <2> SUFFICES ASSUME RewriteInv, Done, subnode = 0, NEW i \in New
               PROVE  IF heap[i].name <= K
                        THEN heap[i].kind # "ScalarArgument" /\ heap[i].prefix = 1
                        ELSE heap[i].prefix = 0
    BY DEF ArgumentsBound
  <2>1. i \in Built \cup KeptNodes
    BY NewUpper
  <2>2. root # K
    BY DEF RewriteInv, Done, Phases
  <2>3. ASSUME NEW b \in K + 1 .. B, heap[i] = heap[b]
        PROVE  ~(heap[i].name <= K) /\ heap[i].prefix = 0
    BY <2>3, CallerFacts, Sizes
  <2>4. CASE i \in KeptNodes
    BY <2>3, <2>4 DEF KeptNodes
  <2>5. CASE i \in Built
    <3>1. PICK e \in Reachable(root) : Rep[e] = i
      BY <2>5, RepFacts
    <3>2. CASE Input(e)
      BY <2>3, <3>1, <3>2, InputFacts
    <3>3. CASE ~Input(e)
      <4>1. heap[i].name \in 1 .. K /\ heap[i].kind = heap[e].kind /\ heap[i].prefix = 1
        BY <3>1, <3>3, BuiltFacts
      <4>2. heap[e].kind # "ScalarArgument"
        BY <2>2, <3>3 DEF Input
      <4> QED  BY <4>1, <4>2, Sizes
    <3> QED  BY <3>2, <3>3
  <2> QED  BY <2>1, <2>4, <2>5
<1> QED  BY <1>1, RewriteInvariance, PTL

(* Replacement::apply() changes the node it names, and no other. *)
THEOREM ReplacementsHitTheirTarget == Spec => []OnlyTargetModified
<1>1. RewriteInv => OnlyTargetModified
  <2> SUFFICES ASSUME RewriteInv, Done, subnode # 0, NEW i \in New
               PROVE  heap[i].modified <=> /\ heap[i].name = target.slot
                                           /\ heap[i].kind = target.kind
    BY DEF OnlyTargetModified
  <2>1. /\ root = K /\ subnode \in 1 .. K
        /\ target.slot = subnode /\ target.kind = Kinds[subnode]
    BY Sizes DEF RewriteInv, Done, Graph, Subnode
  <2>2. \A e : ~Input(e)
    BY <2>1 DEF Input
  <2>3. i \in Built
    BY <2>2, NewUpper DEF KeptNodes
  <2>4. PICK e \in Reachable(root) : Rep[e] = i
    BY <2>3, RepFacts
  <2>5. /\ heap[i].name = heap[e].name /\ heap[i].kind = Kinds[heap[e].name]
        /\ heap[i].modified = (e = subnode)
    BY <2>2, <2>4, BuiltFacts
  <2>6. heap[e].name = e
    <3>1. e \in 1 .. K
      BY <2>1, TreeInSource, Sizes DEF RewriteInv, Done, Graph, Lower
    <3>2. heap[e] = NewNode(e, heap[e].kids)
      BY <3>1 DEF RewriteInv, Done, Graph, GivenKept
    <3> QED  BY <3>2 DEF NewNode
  <2> QED  BY <2>1, <2>5, <2>6
<1> QED  BY <1>1, RewriteInvariance, PTL

-----------------------------------------------------------------------------
(* Which slots the new tree has. *)

(* The tree has a node for every given one that the graph uses, and for no *)
(* other.                                                                  *)
LEMMA TreeNames ==
  ASSUME Graph
  PROVE  /\ \A e \in Reachable(root) : heap[e].name \in Reachable(K)
         /\ \A x \in Reachable(K) : \E e \in Reachable(root) : heap[e].name = x
<1>1. /\ IsHeap(heap) /\ root \in DOMAIN heap /\ heap[root].name = K
      /\ K \in DOMAIN heap /\ 1 .. K \subseteq DOMAIN heap
  BY HeapIsHeap, Sizes DEF Graph, GivenKept, Source
<1>2. /\ root \in Reachable(root) /\ Reachable(root) \subseteq Lower + 1 .. root
      /\ Lower + 1 .. root \subseteq DOMAIN heap
      /\ \A i \in Reachable(root) : ToSet(heap[i].kids) \subseteq Reachable(root)
  BY TreeInSource DEF Graph, Kids
<1>3. \A i \in Lower + 1 .. root :
        /\ heap[i].name \in 1 .. K
        /\ {heap[k].name : k \in ToSet(heap[i].kids)} = ToSet(heap[heap[i].name].kids)
  BY DEF Graph, Source, SourceNode
<1>4. K \in Reachable(K) /\ Closed(heap, Reachable(K)) /\ Reachable(K) \subseteq 1 .. K
  BY <1>1, BelowClosed DEF Reachable
<1>5. \A e \in Reachable(root) : heap[e].name \in Reachable(K)
  <2> DEFINE C == {e \in Reachable(root) : heap[e].name \in Reachable(K)}
  <2>1. ASSUME NEW e \in C, NEW k \in ToSet(heap[e].kids) PROVE k \in C
    <3>1. heap[k].name \in ToSet(heap[heap[e].name].kids)
      BY <1>2, <1>3
    <3>2. heap[e].name \in Reachable(K) /\ heap[e].name \in DOMAIN heap
      BY <1>1, <1>2, <1>3
    <3> QED  BY <1>2, <1>4, <3>1, <3>2 DEF Closed
  <2>2. Closed(heap, C) /\ root \in C
    BY <1>1, <1>2, <1>4, <2>1 DEF Closed
  <2>3. Reachable(root) \subseteq C
    <3> HIDE DEF C
    <3> QED  BY <1>1, <2>2, BelowLeast DEF Reachable
  <2> QED  BY <2>3
<1>6. \A x \in Reachable(K) : \E e \in Reachable(root) : heap[e].name = x
  <2> DEFINE C == {x \in 1 .. K : \E e \in Reachable(root) : heap[e].name = x}
  <2>1. ASSUME NEW x \in C, NEW k \in ToSet(heap[x].kids) PROVE k \in C
    <3>1. PICK e \in Reachable(root) : heap[e].name = x
      OBVIOUS
    <3>2. PICK c \in ToSet(heap[e].kids) : heap[c].name = k
      BY <1>2, <1>3, <3>1
    <3>3. c \in Reachable(root) /\ heap[c].name \in 1 .. K
      BY <1>2, <1>3
    <3> QED  BY <3>2, <3>3
  <2>2. Closed(heap, C) /\ K \in C
    <3>1. Closed(heap, C)
      BY <2>1 DEF Closed
    <3>2. K \in 1 .. K
      BY Sizes
    <3> QED  BY <1>1, <1>2, <3>1, <3>2
  <2>3. Reachable(K) \subseteq C
    <3> HIDE DEF C
    <3> QED  BY <1>1, <2>2, BelowLeast DEF Reachable
  <2> QED  BY <2>3
<1> QED  BY <1>5, <1>6

(* The nodes of the tree have different names. *)
LEMMA TreeNamesDiffer ==
  ASSUME Graph, NEW e \in Reachable(root), NEW f \in Reachable(root),
         heap[e].name = heap[f].name
  PROVE  e = f
BY TreeInSource DEF Graph, Source, SourceNode

(* An input that is bound, and used, is in the tree. *)
LEMMA UsedInputs ==
  ASSUME RewriteInv, Done, NEW x \in DOMAIN bound \cap Reachable(K)
  PROVE  \E e \in Reachable(root) : heap[e].name = x /\ Input(e)
<1>1. Graph /\ Phases /\ DOMAIN bound \subseteq Signature
  BY DEF RewriteInv, Done, Graph, Bound
<1>2. root # K
  <2>1. SUFFICES ASSUME root = K PROVE FALSE
    OBVIOUS
  <2>2. bound = <<>>
    BY <1>1, <2>1 DEF Phases, Graph, Bound
  <2> QED  BY <2>2
<1>3. PICK e \in Reachable(root) : heap[e].name = x
  BY <1>1, TreeNames
<1>4. heap[e].kind = Kinds[x] /\ Kinds[x] = "ScalarArgument"
  BY <1>1, <1>3, BuiltFacts, GraphAssumption
<1> QED  BY <1>2, <1>3, <1>4 DEF Input

(* Two inputs whose nodes are not apart put a slot twice into the tree. *)
LEMMA NotApart ==
  ASSUME RewriteInv, Done,
         NEW x \in DOMAIN bound \cap Reachable(K), NEW y \in DOMAIN bound \cap Reachable(K),
         x # y, bound[y] \in Reachable(bound[x])
  PROVE  \E i, j \in New : i # j /\ Slot(heap[i]) = Slot(heap[j])
<1>1. PICK e \in Reachable(root) : heap[e].name = x /\ Input(e)
  BY UsedInputs
<1>2. PICK f \in Reachable(root) : heap[f].name = y /\ Input(f)
  BY UsedInputs
<1>3. /\ bound[x] \in DOMAIN heap /\ heap[Rep[e]] = heap[bound[x]] /\ bound[x] \in K + 1 .. B
      /\ bound[y] \in DOMAIN heap /\ heap[Rep[f]] = heap[bound[y]] /\ bound[y] \in K + 1 .. B
  BY <1>1, <1>2, InputFacts
<1>4. Rep[e] \in New /\ Rep[f] \in New /\ Rep[e] # Rep[f] /\ Rep[f] \in Built /\ Rep[e] \in Built
  BY <1>1, <1>2, NewLower, RepFacts
<1>5. CASE bound[x] = bound[y]
  BY <1>3, <1>4, <1>5
<1>6. CASE bound[x] # bound[y]
  <2>1. IsHeap(heap) /\ Base \in Nat /\ Base >= B /\ Built \subseteq DOMAIN heap
    <3>1. Graph /\ IsHeap(heap)
      BY HeapIsHeap DEF RewriteInv, Done, Graph, GivenKept
    <3>2. Base \in Nat /\ Base >= B
      BY <3>1, Sizes DEF Graph, Source, Base, IsHeap
    <3> QED  BY <3>1, <3>2 DEF Built, IsHeap
  <2>2. PICK k \in ToSet(heap[bound[x]].kids) : bound[y] \in Reachable(k)
    BY <1>3, <1>6, <2>1, BelowClosed DEF Reachable
  <2>3. k \in New
    <3>1. Closed(heap, New)
      <4>1. result \in DOMAIN heap
        BY <2>1, RepFacts
      <4> QED  BY <2>1, <4>1, BelowClosed DEF New, Reachable
    <3> QED  BY <1>3, <1>4, <2>1, <2>2, <3>1 DEF Closed
  <2>4. Reachable(k) \subseteq New
    <3>1. result \in DOMAIN heap
      BY <2>1, RepFacts
    <3> QED  BY <2>1, <2>3, <3>1, BelowClosed DEF New, Reachable
  <2>5. bound[y] \in New
    BY <2>2, <2>4
  <2>6. bound[y] # Rep[f]
    BY <1>3, <1>4, <2>1, Sizes DEF Built
  <2> QED  BY <1>3, <1>4, <2>5, <2>6
<1> QED  BY <1>5, <1>6

(* If the nodes of the inputs are apart, slots differ. *)
LEMMA Apart ==
  ASSUME RewriteInv, Done, BoundApart, NEW i \in New, NEW j \in New,
         Slot(heap[i]) = Slot(heap[j])
  PROVE  i = j
<1>1. /\ i \in Built \cup KeptNodes /\ j \in Built \cup KeptNodes
      /\ heap[i].name = heap[j].name
  BY NewUpper DEF Slot
<1>2. Graph /\ IsHeap(heap)
  BY HeapIsHeap DEF RewriteInv, Done, Graph, GivenKept
(* An input of the nested protocol that was bound. *)
<1>3. ASSUME NEW e \in Reachable(root), Input(e)
      PROVE  /\ heap[e].name \in DOMAIN bound \cap Reachable(K)
             /\ bound[heap[e].name] \in K + 1 .. B
             /\ heap[Rep[e]] = heap[bound[heap[e].name]]
  BY <1>2, <1>3, InputFacts, TreeNames
(* A node that was given as an argument is not kept as well. *)
<1>4. ASSUME NEW e \in Reachable(root), Input(e) PROVE bound[heap[e].name] \notin KeptNodes
  <2> DEFINE x == heap[e].name
  <2>1. SUFFICES ASSUME bound[x] \in KeptNodes PROVE FALSE
    OBVIOUS
  <2>2. PICK f \in Reachable(root) :
          Input(f) /\ \E k \in ToSet(Kids(bound[heap[f].name])) : bound[x] \in Reachable(k)
    BY <2>1 DEF KeptNodes
  <2> DEFINE y == heap[f].name
  <2>3. PICK k \in ToSet(heap[bound[y]].kids) : bound[x] \in Reachable(k)
    BY <2>2 DEF Kids
  <2>4. /\ x \in DOMAIN bound \cap Reachable(K) /\ y \in DOMAIN bound \cap Reachable(K)
        /\ bound[y] \in DOMAIN heap /\ bound[y] \in K + 1 .. B
    BY <1>3, <1>4, <2>2, InputFacts
  <2> HIDE DEF x, y
  <2>5. k \in 1 .. bound[y] - 1 /\ k \in DOMAIN heap
    <3>1. k \in 1 .. bound[y] - 1
      BY <1>2, <2>3, <2>4, KidsOlder DEF IsHeap
    <3> QED  BY <3>1, <2>4, <1>2 DEF IsHeap
  <2>6. bound[x] \in Reachable(bound[y])
    BY <1>2, <2>3, <2>4, <2>5, BelowClosed DEF Reachable, Closed
  <2>7. x = y
    BY <2>4, <2>6 DEF BoundApart
  <2>8. bound[x] \in 1 .. k
    BY <1>2, <2>3, <2>5, BelowClosed DEF Reachable
  <2> QED  BY <2>4, <2>5, <2>7, <2>8, Sizes
(* A kept node has its slot alone. *)
<1>5. ASSUME NEW p \in KeptNodes, NEW q \in Built \cup KeptNodes, heap[q].name = heap[p].name
      PROVE  q = p
  <2>1. p \in K + 1 .. B
    BY DEF KeptNodes
  <2>2. CASE q \in KeptNodes
    BY <2>1, <2>2, <1>5, CallerFacts DEF KeptNodes
  <2>3. CASE q \in Built
    <3>1. PICK e \in Reachable(root) : Rep[e] = q
      BY <2>3, RepFacts
    <3>2. CASE Input(e)
      <4>1. bound[heap[e].name] = p
        BY <2>1, <3>1, <3>2, <1>3, <1>5, CallerFacts
      <4> QED  BY <3>2, <4>1, <1>4
    <3>3. CASE ~Input(e)
      <4>1. heap[q].name \in 1 .. K
        BY <3>1, <3>3, BuiltFacts
      <4> QED  BY <2>1, <4>1, <1>5, CallerFacts, Sizes
    <3> QED  BY <3>2, <3>3
  <2> QED  BY <2>2, <2>3
<1>6. CASE i \in KeptNodes \/ j \in KeptNodes
  BY <1>1, <1>5, <1>6
<1>7. CASE i \in Built /\ j \in Built
  <2>1. PICK e \in Reachable(root) : Rep[e] = i
    BY <1>7, RepFacts
  <2>2. PICK f \in Reachable(root) : Rep[f] = j
    BY <1>7, RepFacts
  <2>3. heap[e].name = heap[f].name
    <3>1. CASE Input(e) /\ Input(f)
      <4> DEFINE x == heap[e].name
                 y == heap[f].name
      <4>1. bound[x] = bound[y] /\ bound[x] \in DOMAIN heap
        BY <1>1, <1>3, <2>1, <2>2, <3>1, CallerFacts
      <4>2. bound[y] \in Reachable(bound[x])
        BY <1>2, <4>1, BelowClosed DEF Reachable
      <4>3. x \in DOMAIN bound \cap Reachable(K) /\ y \in DOMAIN bound \cap Reachable(K)
        BY <1>3, <3>1
      <4> QED  BY <4>2, <4>3 DEF BoundApart
    <3>2. CASE ~Input(e) /\ ~Input(f)
      BY <1>1, <2>1, <2>2, <3>2, BuiltFacts
    <3>3. ASSUME NEW g \in Reachable(root), NEW h \in Reachable(root), Input(g), ~Input(h)
          PROVE  heap[Rep[g]].name # heap[Rep[h]].name
      <4>1. heap[Rep[g]].name \in Nat /\ heap[Rep[g]].name > K
        BY <1>3, <3>3, CallerFacts
      <4>2. heap[Rep[h]].name \in 1 .. K
        BY <3>3, BuiltFacts
      <4> QED  BY <4>1, <4>2, Sizes
    <3> QED  BY <1>1, <2>1, <2>2, <3>1, <3>2, <3>3
  <2> QED  BY <1>2, <2>1, <2>2, <2>3, TreeNamesDiffer
<1> QED  BY <1>1, <1>6, <1>7

(* Rewriting keeps one node for every slot if the nodes that the used      *)
(* inputs are bound to are apart, for every graph and caller.              *)
THEOREM SharingIsKept == Spec => []SharingKept
<1>1. RewriteInv => SharingKept
  BY Apart DEF SharingKept, OneNodePerSlot
<1> QED  BY <1>1, RewriteInvariance, PTL

(* It makes a second node whenever they are not: mutated_tree() copies the *)
(* caller's node for every input that is bound to it, also when the graph  *)
(* has the node itself, as the kid of another.                             *)
THEOREM SharedArgumentsAreCopied == Spec => [](Done /\ OneNodePerSlot => BoundApart)
<1>1. RewriteInv => (Done /\ OneNodePerSlot => BoundApart)
  BY NotApart DEF BoundApart, OneNodePerSlot
<1> QED  BY <1>1, RewriteInvariance, PTL
=============================================================================
