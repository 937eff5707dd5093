----------------------------- MODULE Dispersal -----------------------------
(***************************************************************************)
(* What the reliable broadcast protocol does with the shards of one value  *)
(* (the callbacks of ayatori-rbc/src/protocol.rs over sharding.rs and      *)
(* merkle_tree.rs): the sender encodes the value and hashes the shards     *)
(* into a tree, receivers echo the shards whose branch verifies at the     *)
(* index of the destination, one checks the root with n - f echos, and     *)
(* then others assemble the value from any n - 2f.  Module Rbc takes from  *)
(* here which roots stand for one value, and when assembling it fails.     *)
(*                                                                         *)
(* A faulty sender uses any shards, indices and accepted scheme below one  *)
(* root.  A faulty receiver echoes the value message addressed to any      *)
(* other.  Receivers are 0 .. n - 1, their indices in the sorted set.      *)
(***************************************************************************)
EXTENDS Sharding, MerkleTree, Functions

CONSTANTS
  Systems,  \* pairs of a number of receivers and of tolerated faults
  Sizes,    \* the sizes of the values that a correct sender serializes
  Schemes,  \* the systems with a faulty sender, and its schemes
  Data      \* the contents of a faulty sender's shards

(* BuildData::new() refuses more faults than that; the fields of a scheme  *)
(* are unsigned.                                                           *)
ASSUME SystemsAssumption ==
  /\ \A s \in Systems : s \in Nat \X Nat /\ 2 * s[2] < s[1]
  /\ Sizes \subseteq Nat
  /\ \A s \in Schemes : s[2] \in [original_shards : Nat, recovery_shards : Nat,
                                   shard_size : Nat, padding : Nat]

(* The numbers of original and recovery shards that the coder is used for. *)
Codes == {<<s[1] - 2 * s[2], 2 * s[2]>> : s \in Systems}
         \cup {<<s[2].original_shards, s[2].recovery_shards>> : s \in Schemes}

(* The coder, which is external, keeps its promise; shards are bytes. *)
ASSUME CoderAssumption ==
  /\ \A c \in Codes : c[2] > 0 => IsCode(c[1], c[2])
  /\ Data \subseteq Seq(Byte)

VARIABLES
  system,   \* <<n, f>>
  phase,    \* "start", "failed", "sent"
  honest,   \* whether the sender is correct
  value,    \* the bytes of a correct sender's value
  scheme, leaves,
  got,      \* receiver -> the leaf accepted in a message for it, or -1
  checked,  \* what interpolate_and_check_root() has returned
  outputs   \* what has come of finalize() for which shards

vars == <<system, phase, honest, value, scheme, leaves, got, checked, outputs>>

n == system[1]
f == system[2]

NoScheme == [original_shards |-> 0, recovery_shards |-> 0, shard_size |-> 0,
             padding |-> 0]

Init ==
  /\ system \in Systems
  /\ phase = "start"
  /\ honest \in BOOLEAN
  /\ value = <<>>
  /\ scheme = NoScheme
  /\ leaves = <<>>
  /\ got = [i \in 0 .. n - 1 |-> -1]
  /\ checked = "no"
  /\ outputs = {}

(* process_echo() accepts leaf j in a value message for receiver i, no     *)
(* matter who has echoed it.                                               *)
Accepts(tree, items, i, j) == Verify(Branch(tree, j), i, items[j + 1])

(* The leaves that are accepted in messages for the receivers: at most one *)
(* for each, since no two shards are equal.                                *)
Accepted(tree, items) ==
  [i \in 0 .. n - 1 |->
     LET fit == {j \in 0 .. Len(items) - 1 : Accepts(tree, items, i, j)}
     IN IF fit = {} THEN -1 ELSE CHOOSE j \in fit : TRUE]

(* make_shards(), make_merkle_tree(), make_value_message(). *)
Disperse(size) ==
  LET bytes == [i \in 1 .. size |-> i % Prime]
      threshold == n - 2 * f
      new == NewScheme(size, n, threshold)
  IN /\ phase = "start" /\ honest
     /\ value' = bytes
     /\ IF NewSetOk(bytes, n, threshold)
          THEN /\ phase' = "sent"
               /\ scheme' = new
               /\ leaves' = NewSet(new, bytes)
               /\ got' = Accepted(NewTree(leaves'), leaves')
          ELSE phase' = "failed" /\ UNCHANGED <<scheme, leaves, got>>
     /\ UNCHANGED <<system, honest, checked, outputs>>

(* The shards of a faulty sender: any contents, perhaps one shard short,   *)
(* perhaps with the places of two of them exchanged.                       *)
Forged(s, data, i, j) ==
  LET k == s.original_shards
      Place(x) == IF x = i THEN j ELSE IF x = j THEN i ELSE x
      Shard(x) == [data |-> data[x],
                   kind |-> IF Place(x) <= k THEN "Original" ELSE "Recovery",
                   idx |-> IF Place(x) <= k THEN Place(x) - 1 ELSE Place(x) - k - 1]
  IN [x \in DOMAIN data |-> Shard(x)]

DisperseFaulty(s) ==
  /\ phase = "start" /\ ~honest
  /\ SchemeOk(s)
  /\ \E missing \in 0 .. 1 :
     \E data \in [1 .. s.original_shards + s.recovery_shards - missing -> Data] :
     \E i, j \in DOMAIN data : i <= j /\ leaves' = Forged(s, data, i, j)
  /\ got' = Accepted(NewTree(leaves'), leaves')
  /\ phase' = "sent"
  /\ scheme' = s
  /\ UNCHANGED <<system, honest, value, checked, outputs>>

(* The receivers that hold a message that others accept. *)
Echoing == {i \in 0 .. n - 1 : got[i] # -1}

(* Receivers' echos: whose message each of them has echoed.  All but f     *)
(* echo their own.                                                         *)
Echos ==
  {e \in UNION {[S -> Echoing] : S \in SUBSET (0 .. n - 1)} :
     Cardinality({i \in DOMAIN e : e[i] # i}) <= f}

(* The shards in these echos, by receiver. *)
Echoed(e) == [i \in DOMAIN e |-> leaves[got[e[i]] + 1]]

(* The root is checked with one shard for each destination of n - f echos. *)
Destinations == {Range(e) : e \in {x \in Echos : Cardinality(DOMAIN x) >= n - f}}

ByDestination(D) == Echoed([d \in D |-> d])

(* Mutation: what was interpolated is not compared with the root. *)
CheckRootUncompared(D) ==
  /\ phase = "sent" /\ checked = "no"
  /\ checked' = IF Interpolate(scheme, ByDestination(D)) = {} THEN "error" ELSE "ok"
  /\ UNCHANGED <<system, phase, honest, value, scheme, leaves, got, outputs>>

(* interpolate_and_check_root() *)
CheckRoot(D) ==
  /\ phase = "sent" /\ checked = "no"
  /\ IF Interpolate(scheme, ByDestination(D)) = {}
       THEN checked' = "error"
       ELSE \E all \in Interpolate(scheme, ByDestination(D)) :
              checked' = IF Root(NewTree(all)) = Root(NewTree(leaves))
                           THEN "ok" ELSE "mismatch"
  /\ UNCHANGED <<system, phase, honest, value, scheme, leaves, got, outputs>>

(* What has come of finalize() for these shards: whether one of them was   *)
(* given twice, whether the scheme asks for more, and the value if it has  *)
(* not failed.                                                             *)
Twice(shards) == \E i, j \in DOMAIN shards : i # j /\ shards[i] = shards[j]

TooFew(shards) == Cardinality(DOMAIN shards) < scheme.original_shards

Result(shards, found) ==
  [twice |-> Twice(shards), few |-> TooFew(shards), value |-> found]

(* finalize() takes the shards of all collected echos. *)
Finalize(e) ==
  /\ checked = "ok"
  /\ Cardinality(DOMAIN e) >= n - 2 * f
  /\ LET values == Assemble(scheme, Echoed(e))
     IN \E found \in (IF values = {} THEN {{}} ELSE {{v} : v \in values}) :
          outputs' = outputs \cup {Result(Echoed(e), found)}
  /\ UNCHANGED <<system, phase, honest, value, scheme, leaves, got, checked>>

Next ==
  \/ \E size \in Sizes : Disperse(size)
  \/ \E s \in Schemes : system = s[1] /\ DisperseFaulty(s[2])
  \/ checked = "no" /\ \E D \in Destinations : CheckRoot(D)
  \/ checked = "ok" /\ \E e \in Echos : Finalize(e)

Spec == Init /\ [][Next]_vars

-----------------------------------------------------------------------------
Values == UNION {o.value : o \in outputs}

(* Once a root has passed the check, every large enough set of shards      *)
(* below it assembles to the same value, whatever the sender hashed and    *)
(* whichever messages receivers echo: the check of one receiver speaks for *)
(* all of them.  Not so for a scheme without recovery shards.              *)
OneValue == scheme.recovery_shards > 0 => Cardinality(Values) <= 1

(* Decoded::new() says that "at this point all the originals are accounted *)
(* for": no value comes of fewer shards than the scheme has originals.     *)
OriginalsAccounted == \A o \in outputs : o.few => o.value = {}

(* A correct sender's value survives: unless it is empty or its shards are *)
(* too large for the wire format it can be sharded, its shards are never   *)
(* found inconsistent, and whichever of them are at hand they give back    *)
(* the serialized value without its padding, or nothing if a faulty        *)
(* receiver has echoed a message that another one has echoed too.          *)
Recovered ==
  honest => /\ phase = "failed" => \/ value = <<>>
                                   \/ ShardSize(Len(value), n - 2 * f) > WireMax
            /\ checked \in {"no", "ok"}
            /\ \A o \in outputs : IF o.value = {} THEN o.twice ELSE o.value = {value}

(* A shard can be claimed for one receiver only: the branch of a correct   *)
(* sender's leaf verifies at the index of that leaf and at no other.       *)
BranchesSeparate ==
  honest /\ phase = "sent" =>
    LET tree == NewTree(leaves)
    IN \A i, j \in 0 .. n - 1 : Accepts(tree, leaves, i, j) <=> i = j

(* finalize() has no way to report anybody, and fails for shards below a   *)
(* checked root exactly if it is given one of them twice, or fewer than    *)
(* the scheme asks for.  Both can be: the code compares the sender's       *)
(* scheme with no number of its own, a tree that is smaller than the       *)
(* number of receivers gives two of them one shard, and a receiver may     *)
(* echo the shard of another one.                                          *)
AssemblyFails ==
  scheme.recovery_shards > 0 =>
    \A o \in outputs : o.value = {} <=> o.twice \/ o.few

(* The conversion of a scheme to its wire format cannot fail for a value   *)
(* that has been sharded, if half of the range is enough for the number of *)
(* original shards: no field is out of its range.                          *)
SchemeFits ==
  honest /\ phase = "sent" /\ 2 * scheme.original_shards <= WireMax + 1 =>
    \A field \in DOMAIN scheme : scheme[field] <= WireMax
=============================================================================
