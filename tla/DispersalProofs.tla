-------------------------- MODULE DispersalProofs --------------------------
(***************************************************************************)
(* The arithmetic of schemes, for values of every size and any range of    *)
(* the wire format; the Merkle tree over any number of shards: whose shard *)
(* a branch proves it to be, and which shards a root stands for; and, from *)
(* what the Reed-Solomon coder promises, that a checked root stands for    *)
(* one value, and a correct sender's root for the value it has sent.       *)
(***************************************************************************)
EXTENDS Dispersal, FiniteSetTheorems, WellFoundedInduction, TLAPS

(* The shards that hold a value, rounded up. *)
LEMMA RoundedUp ==
  ASSUME NEW size \in Nat, NEW t \in Nat \ {0},
         NEW q, q = (size + t - 1) \div t
  PROVE  q \in Nat /\ q * t >= size /\ q * t < size + t
<1>1. size + t - 1 \in Nat
  OBVIOUS
<1>2. q \in Nat /\ q * t <= size + t - 1 /\ size + t - 1 < (q + 1) * t
  BY <1>1
<1> QED  BY <1>2

(* The originals hold the value, the coder gets shards of even size, and   *)
(* less than two bytes of every original are padding.                      *)
FitsValue(s, size, total, t) ==
  /\ s.original_shards = t /\ s.recovery_shards = total - t
  /\ s.shard_size = ShardSize(size, t)
  /\ s.shard_size \in Nat /\ s.shard_size % 2 = 0
  /\ s.padding = PaddedSize(s) - size
  /\ s.padding \in 0 .. 2 * t - 1

(* Scheme::new() makes such a scheme. *)
LEMMA NewSchemeFits ==
  ASSUME NEW size \in Nat, NEW total \in Nat, NEW t \in Nat \ {0}, t <= total
  PROVE  FitsValue(NewScheme(size, total, t), size, total, t)
<1> DEFINE s == NewScheme(size, total, t)
           q == (size + t - 1) \div t
<1>1. q \in Nat /\ q * t >= size /\ q * t < size + t
  BY RoundedUp
<1> HIDE DEF q
<1>2. ShardSize(size, t) = q + (q % 2)
  BY DEF ShardSize, q
<1>3. q % 2 \in 0 .. 1 /\ (q + (q % 2)) % 2 = 0
  BY <1>1
<1>4. s = [original_shards |-> t, recovery_shards |-> total - t,
           shard_size |-> q + (q % 2), padding |-> (q + (q % 2)) * t - size]
  BY <1>2 DEF NewScheme
<1>5. (q + (q % 2)) * t - size \in 0 .. 2 * t - 1
  <2>1. CASE q % 2 = 0
    BY <1>1, <2>1
  <2>2. CASE q % 2 = 1
    <3>1. (q + 1) * t = q * t + t
      BY <1>1
    <3> QED  BY <1>1, <2>2, <3>1
  <2> QED  BY <1>3, <2>1, <2>2
<1>6. PaddedSize(s) = (q + (q % 2)) * t
  <2> HIDE DEF s
  <2> QED  BY <1>1, <1>3, <1>4 DEF PaddedSize
<1> HIDE DEF s
<1>7. FitsValue(s, size, total, t)
  BY <1>1, <1>2, <1>3, <1>4, <1>5, <1>6 DEF FitsValue
<1> QED  BY <1>7 DEF s

(* A function on an initial segment of the numbers is a sequence. *)
LEMMA FunctionIsSeq ==
  ASSUME NEW a \in Nat, NEW S, NEW u \in [1 .. a -> S]
  PROVE  u \in Seq(S) /\ Len(u) = a
OBVIOUS

(* A row of the scheme's size. *)
LEMMA RowLength ==
  ASSUME NEW a \in Nat, NEW u, u = [b \in 1 .. a |-> u[b]]
  PROVE  Len(u) = a
<1>1. u \in [1 .. a -> {u[b] : b \in 1 .. a}]
  OBVIOUS
<1> QED  BY <1>1, FunctionIsSeq

(* new_set(): every shard has the size of the scheme, and a kind and index *)
(* among the originals or among the recovery shards.                       *)
LEMMA ShardsOfSet ==
  ASSUME NEW s, NEW bytes, s.original_shards \in Nat, s.recovery_shards \in Nat,
         s.shard_size \in Nat,
         NEW i \in 1 .. s.original_shards + s.recovery_shards
  PROVE  /\ Len(NewSet(s, bytes)[i].data) = s.shard_size
         /\ NewSet(s, bytes)[i].idx
              = IF i <= s.original_shards THEN i - 1 ELSE i - s.original_shards - 1
         /\ NewSet(s, bytes)[i].kind
              = IF i <= s.original_shards THEN "Original" ELSE "Recovery"
         /\ Len(NewSet(s, bytes)) = s.original_shards + s.recovery_shards
<1> DEFINE t == s.original_shards
           r == s.recovery_shards
           chunks == Chunks(s, bytes)
           Given == [k \in 1 .. Len(chunks) |->
                       [data |-> chunks[k], kind |-> "Original", idx |-> k - 1]]
           Column(j) == Extrapolate([p \in 0 .. Len(chunks) - 1 |-> chunks[p + 1]],
                                    s.shard_size, Len(chunks) + j - 1)
           Extra == [j \in 1 .. r |->
                       [data |-> Column(j), kind |-> "Recovery", idx |-> j - 1]]
           Shards == {Given[k] : k \in 1 .. t} \cup {Extra[k] : k \in 1 .. r}
<1>1. NewSet(s, bytes) = Given \o Extra
  BY DEF NewSet, Encode
<1>2. Len(chunks) = t
  <2>1. chunks = [k \in 1 .. t |-> chunks[k]]
    BY DEF Chunks
  <2> QED  BY <2>1, RowLength
<1>3. ASSUME NEW k \in 1 .. t PROVE Len(chunks[k]) = s.shard_size
  <2>1. chunks[k] = [b \in 1 .. s.shard_size |-> chunks[k][b]]
    BY DEF Chunks
  <2> QED  BY <2>1, RowLength
<1>4. ASSUME NEW j PROVE Len(Column(j)) = s.shard_size
  <2>1. Column(j) = [b \in 1 .. s.shard_size |-> Column(j)[b]]
    BY DEF Extrapolate
  <2> QED  BY <2>1, RowLength
<1> HIDE DEF chunks, Column
<1>5. Given \in [1 .. t -> Shards] /\ Extra \in [1 .. r -> Shards]
  BY <1>2
<1>6. NewSet(s, bytes)[i] = IF i <= t THEN Given[i] ELSE Extra[i - t]
  <2>1. t \in Nat /\ r \in Nat /\ i \in 1 .. t + r
    OBVIOUS
  <2> HIDE DEF Given, Extra, Shards, t, r
  <2>2. Given \in Seq(Shards) /\ Len(Given) = t
    BY <1>5, <2>1, FunctionIsSeq
  <2>3. Extra \in Seq(Shards) /\ Len(Extra) = r
    BY <1>5, <2>1, FunctionIsSeq
  <2>4. CASE i <= t
    <3>1. i \in 1 .. Len(Given)
      BY <2>1, <2>2, <2>4
    <3>2. (Given \o Extra)[i] = Given[i]
      BY <2>2, <2>3, <3>1
    <3> QED  BY <1>1, <2>4, <3>2
  <2>5. CASE ~(i <= t)
    <3>1. i \in Len(Given) + 1 .. Len(Given) + Len(Extra) /\ i - Len(Given) = i - t
      BY <2>1, <2>2, <2>3, <2>5
    <3>2. (Given \o Extra)[i] = Extra[i - Len(Given)]
      BY <2>2, <2>3, <3>1
    <3> QED  BY <1>1, <2>2, <2>5, <3>2
  <2> QED  BY <2>4, <2>5
<1>9. Len(NewSet(s, bytes)) = t + r
  <2>1. t \in Nat /\ r \in Nat
    OBVIOUS
  <2> HIDE DEF Given, Extra, Shards, t, r
  <2>2. Given \in Seq(Shards) /\ Len(Given) = t
    BY <1>5, <2>1, FunctionIsSeq
  <2>3. Extra \in Seq(Shards) /\ Len(Extra) = r
    BY <1>5, <2>1, FunctionIsSeq
  <2>4. Len(Given \o Extra) = Len(Given) + Len(Extra)
    BY <2>2, <2>3
  <2> QED  BY <1>1, <2>2, <2>3, <2>4, Zenon
<1>7. CASE i <= t
  BY <1>2, <1>3, <1>6, <1>7, <1>9
<1>8. CASE i > t
  <2>1. i - t \in 1 .. r
    BY <1>8
  <2>2. NewSet(s, bytes)[i] = Extra[i - t]
    BY <1>6, <1>8
  <2> QED  BY <1>4, <1>8, <1>9, <2>1, <2>2
<1> QED  BY <1>7, <1>8

-----------------------------------------------------------------------------
(* The number of receivers fits the wire format. *)
SystemsFit == \A s \in Systems : s[1] <= WireMax

(* The part of Recovered about sharding: make_shards() fails only for an   *)
(* empty value and for one whose shards are too large for the wire format. *)
ShardingFails ==
  honest /\ phase = "failed" =>
    value = <<>> \/ ShardSize(Len(value), n - 2 * f) > WireMax

(* The scheme that a correct sender has sent is the one for its value, and *)
(* its shards were accepted.                                               *)
SchemeMade ==
  honest /\ phase = "sent" =>
    /\ \E size \in Sizes : scheme = NewScheme(size, n, n - 2 * f)
    /\ scheme.shard_size <= WireMax

(* The inductive invariant behind SchemeFits and ShardingFails. *)
FitInv == system \in Systems /\ SchemeMade /\ ShardingFails

(* The parties of a system, of which fewer than half can be faulty. *)
LEMMA SystemFacts ==
  ASSUME system \in Systems
  PROVE  /\ n \in Nat /\ f \in Nat
         /\ n - 2 * f \in Nat \ {0} /\ n - 2 * f <= n
BY SystemsAssumption DEF n, f

(* new_set() fails only if the scheme or one of the shards is refused. *)
LEMMA NewSetVerdict ==
  ASSUME SystemsFit, system \in Systems, NEW size \in Nat, NEW bytes, Len(bytes) = size
  PROVE  NewSetOk(bytes, n, n - 2 * f)
           <=> size > 0 /\ ShardSize(size, n - 2 * f) <= WireMax
<1> DEFINE t == n - 2 * f
           s == NewScheme(size, n, t)
<1>1. n \in Nat /\ t \in Nat \ {0} /\ t <= n
  BY SystemFacts
<1>2. n <= WireMax /\ WireMax \in Nat
  BY FieldAssumption DEF SystemsFit, n
<1> HIDE DEF t
<1>3. FitsValue(s, size, n, t)
  BY <1>1, NewSchemeFits
<1> HIDE DEF s
<1>4. SchemeOk(s) <=> size > 0
  <2>1. PaddedSize(s) = t * s.shard_size /\ PaddedSize(s) \in Nat
    BY <1>1, <1>3 DEF PaddedSize, FitsValue
  <2> QED  BY <1>1, <1>3, <2>1 DEF SchemeOk, FitsValue
<1>5. ASSUME NEW i \in 1 .. n
      PROVE  ShardOk(NewSet(s, bytes)[i]) <=> s.shard_size <= WireMax
  <2>1. s.original_shards + s.recovery_shards = n /\ n - t \in Nat
    BY <1>1, <1>3 DEF FitsValue
  <2>2. /\ Len(NewSet(s, bytes)[i].data) = s.shard_size
        /\ NewSet(s, bytes)[i].idx = IF i <= t THEN i - 1 ELSE i - t - 1
    BY <1>1, <1>3, <2>1, ShardsOfSet DEF FitsValue
  <2>3. NewSet(s, bytes)[i].idx <= WireMax
    BY <1>1, <1>2, <2>2
  <2> QED  BY <2>2, <2>3 DEF ShardOk
<1>6. NewSetOk(bytes, n, t) <=> SchemeOk(s) /\ \A i \in 1 .. n : ShardOk(NewSet(s, bytes)[i])
  BY <1>1 DEF NewSetOk, s
<1>7. (\A i \in 1 .. n : ShardOk(NewSet(s, bytes)[i])) <=> s.shard_size <= WireMax
  <2>1. 1 \in 1 .. n
    BY <1>1
  <2> QED  BY <1>5, <2>1
<1> QED  BY <1>3, <1>4, <1>6, <1>7 DEF t, FitsValue

(* A correct sender makes a scheme that fits. *)
LEMMA FitDisperse ==
  ASSUME SystemsFit, FitInv, NEW size \in Sizes, Disperse(size)
  PROVE  FitInv'
<1> DEFINE bytes == [i \in 1 .. size |-> i % Prime]
<1>1. size \in Nat
  BY SystemsAssumption
<1>2. Len(bytes) = size /\ (size = 0 => bytes = <<>>)
  BY <1>1, RowLength
<1> HIDE DEF bytes
<1>3. system' = system /\ system \in Systems /\ value' = bytes
  BY DEF Disperse, FitInv, bytes
<1>4. CASE NewSetOk(bytes, n, n - 2 * f)
  <2>1. phase' = "sent" /\ scheme' = NewScheme(size, n, n - 2 * f)
    BY <1>4 DEF Disperse, bytes
  <2>2. ShardSize(size, n - 2 * f) <= WireMax
    BY <1>1, <1>2, <1>3, <1>4, NewSetVerdict
  <2>3. scheme'.shard_size <= WireMax
    BY <2>1, <2>2 DEF NewScheme
  <2> QED  BY <1>1, <1>3, <2>1, <2>3 DEF FitInv, SchemeMade, ShardingFails, n, f
<1>5. CASE ~NewSetOk(bytes, n, n - 2 * f)
  <2>1. phase' = "failed"
    BY <1>5 DEF Disperse, bytes
  <2>2. size = 0 \/ ~(ShardSize(size, n - 2 * f) <= WireMax)
    BY <1>1, <1>2, <1>3, <1>5, NewSetVerdict
  <2>3. ShardSize(size, n - 2 * f) \in Nat /\ WireMax \in Nat
    <3>1. FitsValue(NewScheme(size, n, n - 2 * f), size, n, n - 2 * f)
      BY <1>1, <1>3, SystemFacts, NewSchemeFits
    <3> QED  BY <3>1, FieldAssumption DEF FitsValue
  <2>4. value' = <<>> \/ ShardSize(Len(value'), n - 2 * f) > WireMax
    BY <1>2, <1>3, <2>2, <2>3
  <2> QED  BY <1>3, <2>1, <2>4 DEF FitInv, SchemeMade, ShardingFails, n, f
<1> QED  BY <1>4, <1>5

(* Every step keeps the invariant. *)
LEMMA FitStep ==
  ASSUME SystemsFit, FitInv, [Next]_vars
  PROVE  FitInv'
<1>1. ASSUME NEW size \in Sizes, Disperse(size) PROVE FitInv'
  BY <1>1, FitDisperse
<1>2. ASSUME NEW s, DisperseFaulty(s) PROVE FitInv'
  BY <1>2 DEF DisperseFaulty, FitInv, SchemeMade, ShardingFails
<1>3. ASSUME UNCHANGED <<system, phase, honest, value, scheme>> PROVE FitInv'
  BY <1>3 DEF FitInv, SchemeMade, ShardingFails, n, f
<1>4. ASSUME NEW S, CheckRoot(S) \/ Finalize(S) PROVE FitInv'
  BY <1>3, <1>4 DEF CheckRoot, Finalize
<1> QED  BY <1>1, <1>2, <1>3, <1>4 DEF Next, vars

(* Every behaviour keeps the invariant. *)
LEMMA FitInvariance == SystemsFit => (Spec => []FitInv)
<1> SUFFICES ASSUME SystemsFit PROVE Spec => []FitInv
  OBVIOUS
<1>1. Init => FitInv
  BY DEF Init, FitInv, SchemeMade, ShardingFails
<1>2. FitInv /\ [Next]_vars => FitInv'
  BY FitStep
<1> QED  BY <1>1, <1>2, PTL DEF Spec

(* The conversion of a correct sender's scheme to its wire format does not *)
(* panic (From<Scheme> for WireScheme of sharding.rs), whatever the size   *)
(* of the value, if the receivers can be numbered in that format.          *)
THEOREM SchemesFit == SystemsFit => (Spec => []SchemeFits)
<1> SUFFICES ASSUME SystemsFit PROVE Spec => []SchemeFits
  OBVIOUS
<1>1. FitInv => SchemeFits
  <2> SUFFICES ASSUME FitInv, honest, phase = "sent",
                      2 * scheme.original_shards <= WireMax + 1
               PROVE  \A field \in DOMAIN scheme : scheme[field] <= WireMax
    BY DEF SchemeFits
  <2> DEFINE t == n - 2 * f
  <2>1. n \in Nat /\ t \in Nat \ {0} /\ t <= n /\ n <= WireMax /\ WireMax \in Nat
    BY SystemFacts, FieldAssumption DEF FitInv, SystemsFit, n
  <2>2. PICK size \in Sizes : scheme = NewScheme(size, n, t)
    BY DEF FitInv, SchemeMade
  <2>3. scheme.shard_size <= WireMax
    BY DEF FitInv, SchemeMade
  <2> HIDE DEF t
  <2>4. /\ scheme.original_shards = t /\ scheme.recovery_shards = n - t
        /\ scheme.padding \in 0 .. 2 * t - 1
    <3>1. FitsValue(scheme, size, n, t)
      BY <2>1, <2>2, NewSchemeFits, SystemsAssumption
    <3> QED  BY <3>1 DEF FitsValue
  <2>5. DOMAIN scheme = {"original_shards", "recovery_shards", "shard_size", "padding"}
    BY <2>2 DEF NewScheme
  <2>6. /\ scheme.original_shards <= WireMax /\ scheme.recovery_shards <= WireMax
        /\ scheme.padding <= WireMax
    BY <2>1, <2>4
  <2> QED  BY <2>3, <2>5, <2>6
<1> QED  BY <1>1, FitInvariance, PTL

(* Every other value can be sharded: make_shards() of a correct sender     *)
(* fails only for an empty value and for one with shards that are too      *)
(* large, which is the first part of Recovered.                            *)
THEOREM OnlyUnfitValuesFail == SystemsFit => (Spec => []ShardingFails)
<1> SUFFICES ASSUME SystemsFit PROVE Spec => []ShardingFails
  OBVIOUS
<1>1. FitInv => ShardingFails
  BY DEF FitInv
<1> QED  BY <1>1, FitInvariance, PTL

-----------------------------------------------------------------------------
(* The Merkle tree.  The provers do induction over numbers only by way of  *)
(* the smallest member of a set.                                           *)

(* A set of numbers has a smallest member. *)
LEMMA SmallestMember ==
  ASSUME NEW T, T \subseteq Nat, T # {}
  PROVE  \E x \in T : \A y \in T : x <= y
<1> DEFINE Less == {p \in Nat \X Nat : p[1] < p[2]}
<1>1. IsWellFoundedOn(Less, Nat)
  BY NatLessThanWellFounded DEF OpToRel
<1>2. PICK x \in T : \A y \in T : ~(<<y, x>> \in Less)
  <2> HIDE DEF Less
  <2> QED  BY <1>1, WFMin
<1>3. ASSUME NEW y \in T PROVE x <= y
  <2>1. x \in Nat /\ y \in Nat /\ ~(<<y, x>> \in Less)
    BY <1>2
  <2> QED  BY <2>1
<1> QED  BY <1>3

(* Powers of two: the number of subsets of a set tells how they grow. *)
LEMMA PowerStep ==
  ASSUME NEW k \in Nat
  PROVE  2^k \in Nat /\ 2^(k + 1) = 2 * 2^k
<1> DEFINE A == 1 .. k
           C == 1 .. k + 1
           F == [S \in SUBSET A |-> S \cup {k + 1}]
           With == {S \in SUBSET C : k + 1 \in S}
<1>1. IsFiniteSet(A) /\ Cardinality(A) = k /\ IsFiniteSet(C) /\ Cardinality(C) = k + 1
  BY FS_Interval
<1>2. /\ IsFiniteSet(SUBSET A) /\ Cardinality(SUBSET A) = 2^k
      /\ IsFiniteSet(SUBSET C) /\ Cardinality(SUBSET C) = 2^(k + 1)
  <2> HIDE DEF A, C
  <2> QED  BY <1>1, FS_SUBSET
<1>3. 2^k \in Nat
  <2> HIDE DEF A, C
  <2> QED  BY <1>2, FS_CardinalityType
<1>4. C = A \cup {k + 1} /\ k + 1 \notin A
  OBVIOUS
<1>5. F \in Bijection(SUBSET A, With)
  <2> HIDE DEF A, C
  <2>1. F \in [SUBSET A -> With]
    BY <1>4
  <2>2. ASSUME NEW S \in SUBSET A, NEW U \in SUBSET A, F[S] = F[U] PROVE S = U
    BY <1>4, <2>2
  <2>3. ASSUME NEW U \in With PROVE \E S \in SUBSET A : F[S] = U
    <3>1. U \ {k + 1} \in SUBSET A /\ F[U \ {k + 1}] = U
      BY <1>4
    <3> QED  BY <3>1
  <2> HIDE DEF F, With
  <2> QED  BY <2>1, <2>2, <2>3 DEF Bijection, Injection, Surjection, IsInjective
<1>6. IsFiniteSet(With) /\ Cardinality(With) = 2^k
  <2> HIDE DEF A, F, With
  <2>1. ExistsBijection(SUBSET A, With)
    BY <1>5 DEF ExistsBijection
  <2> QED  BY <1>2, <2>1, FS_Bijection
<1>7. SUBSET C = (SUBSET A) \cup With /\ (SUBSET A) \cap With = {}
  <2> HIDE DEF A, C
  <2> QED  BY <1>4
<1>8. Cardinality(SUBSET C) = 2^k + 2^k - Cardinality({})
  <2> HIDE DEF A, C, With
  <2> QED  BY <1>2, <1>6, <1>7, FS_Union
<1> QED  BY <1>2, <1>3, <1>8, FS_EmptySet

(* 1 << k is positive, and k is below it. *)
LEMMA PowerPositive ==
  ASSUME NEW k \in Nat
  PROVE  2^k \in Nat \ {0} /\ 2^k > k
<1> DEFINE T == {m \in Nat : ~(2^m \in Nat \ {0} /\ 2^m > m)}
<1>1. SUFFICES ASSUME T # {} PROVE FALSE
  BY DEF T
<1>2. PICK m \in T : \A y \in T : m <= y
  <2>1. T \subseteq Nat
    OBVIOUS
  <2> HIDE DEF T
  <2> QED  BY <1>1, <2>1, SmallestMember
<1>3. m # 0
  <2>1. 2^0 = 1
    OBVIOUS
  <2>2. 2^0 \in Nat \ {0} /\ 2^0 > 0
    BY <2>1
  <2>3. 0 \notin T
    BY <2>2, Zenon
  <2> QED  BY <1>2, <2>3
<1>4. m - 1 \in Nat /\ m - 1 \notin T /\ (m - 1) + 1 = m
  BY <1>2, <1>3
<1>5. 2^((m - 1) + 1) = 2 * 2^(m - 1)
  BY <1>4, PowerStep
<1> QED  BY <1>2, <1>4, <1>5

(* (1 << a) * (1 << b) = 1 << (a + b). *)
LEMMA PowerSum ==
  ASSUME NEW a \in Nat, NEW b \in Nat
  PROVE  2^(a + b) = 2^a * 2^b
<1> DEFINE T == {m \in Nat : ~(2^(a + m) = 2^a * 2^m)}
<1>1. SUFFICES ASSUME T # {} PROVE FALSE
  BY DEF T
<1>2. PICK m \in T : \A y \in T : m <= y
  <2>1. T \subseteq Nat
    OBVIOUS
  <2> HIDE DEF T
  <2> QED  BY <1>1, <2>1, SmallestMember
<1>3. m # 0
  <2>1. 2^0 = 1
    OBVIOUS
  <2>2. 2^a \in Nat
    BY PowerStep
  <2>3. 2^a * 1 = 2^a /\ a + 0 = a
    BY <2>2
  <2>4. 2^(a + 0) = 2^a * 2^0
    BY <2>1, <2>3, Zenon
  <2>5. 0 \notin T
    BY <2>4, Zenon
  <2> QED  BY <1>2, <2>5
<1>4. m - 1 \in Nat /\ m - 1 \notin T /\ (m - 1) + 1 = m /\ a + (m - 1) \in Nat
      /\ (a + (m - 1)) + 1 = a + m
  BY <1>2, <1>3
<1>5. 2^((m - 1) + 1) = 2 * 2^(m - 1)
  BY <1>4, PowerStep
<1>6. 2^((a + (m - 1)) + 1) = 2 * 2^(a + (m - 1))
  BY <1>4, PowerStep
<1>7. 2^(a + (m - 1)) = 2^a * 2^(m - 1)
  BY <1>4
<1>8. 2^a \in Nat /\ 2^(m - 1) \in Nat
  BY <1>4, PowerStep
<1>9. ASSUME NEW x \in Nat, NEW y \in Nat PROVE 2 * (x * y) = x * (2 * y)
  OBVIOUS
<1> QED  BY <1>2, <1>4, <1>5, <1>6, <1>7, <1>8, <1>9

(* Integer division. *)
LEMMA Quotient ==
  ASSUME NEW x \in Nat, NEW D \in Nat \ {0}, NEW e, e = x \div D
  PROVE  e \in Nat /\ e * D <= x /\ x < (e + 1) * D
OBVIOUS

(* A quotient is bounded by the multiples around its numerator. *)
LEMMA QuotientUnique ==
  ASSUME NEW x \in Nat, NEW D \in Nat \ {0}, NEW e \in Nat, NEW h \in Nat,
         e * D <= x, x < h * D + D
  PROVE  e <= h
<1>1. SUFFICES ASSUME h < e PROVE FALSE
  OBVIOUS
<1>2. PICK c \in Nat : e = h + 1 + c
  <2>1. e - h - 1 \in Nat /\ e = h + 1 + (e - h - 1)
    BY <1>1
  <2> QED  BY <2>1
<1>3. e * D = (h * D + D) + c * D
  BY <1>2
<1>4. c * D >= 0 /\ h * D \in Nat
  OBVIOUS
<1> QED  BY <1>3, <1>4

(* Halving a place, as the climb from level to level does. *)
LEMMA Halves ==
  ASSUME NEW q \in Nat
  PROVE  /\ q \div 2 \in Nat
         /\ q % 2 \in {0, 1}
         /\ q = 2 * (q \div 2) + (q % 2)
OBVIOUS

(* One shift more halves what is left. *)
LEMMA ShiftStep ==
  ASSUME NEW x \in Nat, NEW k \in Nat
  PROVE  /\ x \div 2^k \in Nat
         /\ x \div 2^(k + 1) = (x \div 2^k) \div 2
<1>1. PICK P \in Nat \ {0} : P = 2^k
  BY PowerPositive
<1>2. 2^(k + 1) = 2 * P
  BY <1>1, PowerStep
<1> DEFINE q == x \div P
           h == q \div 2
           e == x \div (2 * P)
<1>3. q \in Nat /\ q * P <= x /\ x < (q + 1) * P
  <2> HIDE DEF q
  <2> QED  BY Quotient DEF q
<1>4. e \in Nat /\ e * (2 * P) <= x /\ x < (e + 1) * (2 * P)
  <2>1. 2 * P \in Nat \ {0}
    OBVIOUS
  <2> QED  BY <2>1, Quotient
<1>5. h \in Nat /\ (q = 2 * h \/ q = 2 * h + 1)
  BY <1>3, Halves
<1> HIDE DEF q, h, e
<1>6. h * (2 * P) <= x /\ x < h * (2 * P) + 2 * P
  <2>1. CASE q = 2 * h
    <3>1. q * P = h * (2 * P) /\ (q + 1) * P = h * (2 * P) + P
      BY <1>5, <2>1
    <3> QED  BY <1>3, <3>1
  <2>2. CASE q = 2 * h + 1
    <3>1. q * P = h * (2 * P) + P /\ (q + 1) * P = h * (2 * P) + 2 * P
      BY <1>5, <2>2
    <3> QED  BY <1>3, <1>5, <3>1
  <2> QED  BY <1>5, <2>1, <2>2
<1>7. (e + 1) * (2 * P) = e * (2 * P) + 2 * P
  BY <1>4
<1>8. e <= h /\ h <= e
  <2>1. PICK D \in Nat \ {0} : D = 2 * P
    OBVIOUS
  <2>2. h * D <= x /\ x < h * D + D /\ e * D <= x /\ x < e * D + D
    BY <1>4, <1>6, <1>7, <2>1
  <2> QED  BY <1>4, <1>5, <2>1, <2>2, QuotientUnique
<1>9. e = h
  BY <1>4, <1>5, <1>8
<1> QED  BY <1>1, <1>2, <1>3, <1>9 DEF q, h, e

(* The tree has a leaf for every item. *)
LEMMA LevelsFacts ==
  ASSUME NEW count \in Nat \ {0}
  PROVE  Levels(count) \in Nat \ {0} /\ 2^(Levels(count) - 1) >= count
<1> DEFINE T == {l \in 0 .. count : 2^l >= count}
<1>1. count \in T
  BY PowerPositive
<1>2. PICK l \in T : \A y \in T : l <= y
  <2>1. T \subseteq Nat /\ T # {}
    BY <1>1
  <2> HIDE DEF T
  <2> QED  BY <2>1, SmallestMember
<1>3. \A m \in 0 .. l - 1 : 2^m < count
  <2> TAKE m \in 0 .. l - 1
  <2>1. m \in 0 .. count /\ m \notin T /\ 2^m \in Nat
    BY <1>2, PowerPositive
  <2> QED  BY <2>1
<1>4. \E c \in 0 .. count : 2^c >= count /\ \A m \in 0 .. c - 1 : 2^m < count
  BY <1>2, <1>3
<1> DEFINE c == CHOOSE c \in 0 .. count : 2^c >= count /\ \A m \in 0 .. c - 1 : 2^m < count
<1>5. c \in 0 .. count /\ 2^c >= count
  BY <1>4
<1>6. Levels(count) = 1 + c
  BY DEF Levels
<1> HIDE DEF c
<1>7. Levels(count) - 1 = c
  BY <1>5, <1>6
<1> QED  BY <1>5, <1>6, <1>7

(* The levels follow each other in the list of nodes. *)
LEMMA Offsets ==
  ASSUME NEW L \in Nat, NEW l \in 0 .. L - 1
  PROVE  /\ LevelOffset(L, l) \in Nat
         /\ LevelOffset(L, l + 1) = LevelOffset(L, l) + 2^(L - 1 - l)
<1>1. /\ L - l \in Nat /\ l \in Nat /\ l + 1 \in Nat /\ L - (l + 1) \in Nat /\ L - 1 - l \in Nat
      /\ (L - l) + l = L /\ (L - (l + 1)) + (l + 1) = L /\ L - (l + 1) = L - 1 - l
      /\ (L - 1 - l) + 1 = L - l
  OBVIOUS
<1>2. 2^(L - l) = 2 * 2^(L - 1 - l)
  BY <1>1, PowerStep
<1>3. 2^L = 2^(L - l) * 2^l /\ 2^L = 2^(L - (l + 1)) * 2^(l + 1)
  BY <1>1, PowerSum
<1>4. PICK a \in Nat, b \in Nat \ {0}, c \in Nat \ {0}, d \in Nat \ {0} :
        a = 2^(L - 1 - l) /\ b = 2^l /\ c = 2^(l + 1) /\ d = 2^(L - l)
  BY <1>1, PowerPositive
<1>5. LevelOffset(L, l) = d * (b - 1) /\ LevelOffset(L, l + 1) = a * (c - 1)
  BY <1>1, <1>4 DEF LevelOffset
<1>6. d = 2 * a /\ d * b = a * c
  BY <1>1, <1>2, <1>3, <1>4
<1>7. d * (b - 1) = d * b - d /\ a * (c - 1) = a * c - a /\ d * (b - 1) \in Nat
  BY <1>4
<1> QED  BY <1>4, <1>5, <1>6, <1>7

(* The first level starts at the first node. *)
LEMMA OffsetZero ==
  ASSUME NEW L \in Nat
  PROVE  LevelOffset(L, 0) = 0
<1>1. 2^0 = 1 /\ 2^L \in Nat /\ L - 0 = L
  BY PowerStep
<1>2. LevelOffset(L, 0) = 2^L * (2^0 - 1)
  BY <1>1 DEF LevelOffset
<1>3. 2^0 - 1 = 0
  BY <1>1
<1>4. 2^L * 0 = 0
  BY <1>1
<1> QED  BY <1>2, <1>3, <1>4, Zenon

(* The offsets of the levels, the one after the last included. *)
LEMMA OffsetsGrow ==
  ASSUME NEW L \in Nat, NEW a \in 0 .. L, NEW b \in a .. L
  PROVE  LevelOffset(L, a) \in Nat /\ LevelOffset(L, a) <= LevelOffset(L, b)
<1> DEFINE T == {m \in a .. L : ~(LevelOffset(L, a) <= LevelOffset(L, m))}
<1>1. ASSUME NEW m \in 0 .. L PROVE LevelOffset(L, m) \in Nat
  <2>1. CASE m = 0
    BY <2>1, OffsetZero
  <2>2. CASE m # 0
    <3>1. m - 1 \in 0 .. L - 1 /\ (m - 1) + 1 = m /\ L - 1 - (m - 1) \in Nat
      BY <2>2
    <3>2. LevelOffset(L, (m - 1) + 1) = LevelOffset(L, m - 1) + 2^(L - 1 - (m - 1))
      BY <3>1, Offsets
    <3> QED  BY <3>1, <3>2, Offsets, PowerStep
  <2> QED  BY <2>1, <2>2
<1>2. SUFFICES ASSUME T # {} PROVE FALSE
  BY <1>1 DEF T
<1>3. PICK m \in T : \A y \in T : m <= y
  <2>1. T \subseteq Nat
    OBVIOUS
  <2> HIDE DEF T
  <2> QED  BY <1>2, <2>1, SmallestMember
<1>4. m # a
  BY <1>1, <1>3
<1>5. m - 1 \in a .. L /\ m - 1 \in 0 .. L - 1 /\ m - 1 \notin T /\ (m - 1) + 1 = m
      /\ L - 1 - (m - 1) \in Nat
  BY <1>3, <1>4
<1>6. LevelOffset(L, (m - 1) + 1) = LevelOffset(L, m - 1) + 2^(L - 1 - (m - 1))
  BY <1>5, Offsets
<1>7. 2^(L - 1 - (m - 1)) \in Nat
  BY <1>5, PowerStep
<1>8. LevelOffset(L, a) \in Nat /\ LevelOffset(L, m - 1) \in Nat
  BY <1>1, <1>5
<1> QED  BY <1>3, <1>5, <1>6, <1>7, <1>8

(* The level of a position, and where its children are. *)
LevelOf(L, pos) == CHOOSE level \in 0 .. L - 1 :
                     pos \in LevelOffset(L, level) .. LevelOffset(L, level + 1) - 1

Under(L, pos) ==
  LevelOffset(L, LevelOf(L, pos) - 1) + 2 * (pos - LevelOffset(L, LevelOf(L, pos)))

Positions(L) == 0 .. LevelOffset(L, L) - 1

(* Every position is on the level that LevelOf() gives. *)
LEMMA LevelExists ==
  ASSUME NEW L \in Nat, NEW pos \in Positions(L)
  PROVE  /\ LevelOf(L, pos) \in 0 .. L - 1
         /\ pos \in LevelOffset(L, LevelOf(L, pos)) .. LevelOffset(L, LevelOf(L, pos) + 1) - 1
<1> DEFINE T == {l \in 0 .. L - 1 : pos < LevelOffset(L, l + 1)}
<1>1. L # 0
  BY OffsetZero DEF Positions
<1>2. L - 1 \in T
  <2>1. (L - 1) + 1 = L /\ L - 1 \in 0 .. L - 1
    BY <1>1
  <2>2. LevelOffset(L, L) \in Nat
    BY OffsetsGrow
  <2>3. pos < LevelOffset(L, (L - 1) + 1)
    BY <2>1, <2>2 DEF Positions
  <2> QED  BY <2>1, <2>3
<1>3. PICK l \in T : \A y \in T : l <= y
  <2>1. T \subseteq Nat /\ T # {}
    BY <1>2
  <2> HIDE DEF T
  <2> QED  BY <2>1, SmallestMember
<1>4. LevelOffset(L, l) <= pos
  <2>1. CASE l = 0
    BY <2>1, OffsetZero DEF Positions
  <2>2. CASE l # 0
    <3>1. l - 1 \in 0 .. L - 1 /\ l - 1 \notin T /\ (l - 1) + 1 = l /\ l \in 0 .. L
      BY <1>3, <2>2
    <3>2. LevelOffset(L, l) \in Nat
      BY <3>1, OffsetsGrow
    <3>3. ~(pos < LevelOffset(L, (l - 1) + 1))
      BY <3>1
    <3> QED  BY <3>1, <3>2, <3>3 DEF Positions
  <2> QED  BY <2>1, <2>2
<1>5. LevelOffset(L, l) \in Nat /\ LevelOffset(L, l + 1) \in Nat
  BY <1>3, OffsetsGrow
<1>6. l \in 0 .. L - 1 /\ pos \in LevelOffset(L, l) .. LevelOffset(L, l + 1) - 1
  BY <1>3, <1>4, <1>5 DEF Positions
<1> QED  BY <1>6, Zenon DEF LevelOf

(* Position p of level l. *)
LEMMA PositionInLevel ==
  ASSUME NEW L \in Nat, NEW l \in 0 .. L - 1, NEW p \in 0 .. 2^(L - 1 - l) - 1
  PROVE  /\ LevelOffset(L, l) + p \in Positions(L)
         /\ LevelOf(L, LevelOffset(L, l) + p) = l
<1> DEFINE pos == LevelOffset(L, l) + p
           m == LevelOf(L, pos)
<1>1. /\ LevelOffset(L, l) \in Nat /\ LevelOffset(L, l + 1) = LevelOffset(L, l) + 2^(L - 1 - l)
      /\ 2^(L - 1 - l) \in Nat
  BY Offsets, PowerStep
<1>2. LevelOffset(L, l + 1) \in Nat /\ LevelOffset(L, l + 1) <= LevelOffset(L, L)
      /\ LevelOffset(L, L) \in Nat
  BY OffsetsGrow
<1>3. pos \in Positions(L)
  BY <1>1, <1>2 DEF Positions
<1>4. m \in 0 .. L - 1 /\ pos \in LevelOffset(L, m) .. LevelOffset(L, m + 1) - 1
  <2> HIDE DEF pos
  <2> QED  BY <1>3, LevelExists DEF m
<1> HIDE DEF m
<1>5. LevelOffset(L, m) \in Nat /\ LevelOffset(L, m + 1) \in Nat
  BY <1>4, OffsetsGrow
<1>6. ~(m < l)
  <2>1. SUFFICES ASSUME m < l PROVE FALSE
    OBVIOUS
  <2>2. LevelOffset(L, m + 1) <= LevelOffset(L, l)
    <3>1. m + 1 \in 0 .. L /\ l \in m + 1 .. L
      BY <1>4, <2>1
    <3> QED  BY <3>1, OffsetsGrow
  <2> QED  BY <1>1, <1>4, <1>5, <2>2
<1>7. ~(l < m)
  <2>1. SUFFICES ASSUME l < m PROVE FALSE
    OBVIOUS
  <2>2. LevelOffset(L, l + 1) <= LevelOffset(L, m)
    <3>1. l + 1 \in 0 .. L /\ m \in l + 1 .. L
      BY <1>4, <2>1
    <3> QED  BY <3>1, OffsetsGrow
  <2> QED  BY <1>1, <1>4, <1>5, <2>2
<1>8. m = l
  BY <1>4, <1>6, <1>7
<1> QED  BY <1>3, <1>8 DEF m

(* The children of a node precede it in the list. *)
LEMMA UnderOlder ==
  ASSUME NEW L \in Nat, NEW pos \in Positions(L), LevelOf(L, pos) # 0
  PROVE  Under(L, pos) \in 0 .. pos - 1 /\ Under(L, pos) + 1 \in 0 .. pos - 1
<1>1. PICK l \in 0 .. L - 1 : l = LevelOf(L, pos)
  BY LevelExists
<1>2. l # 0 /\ l - 1 \in 0 .. L - 1 /\ (l - 1) + 1 = l /\ L - 1 - l \in Nat
      /\ (L - 1 - l) + 1 = L - 1 - (l - 1)
  BY <1>1
<1>3. pos \in LevelOffset(L, l) .. LevelOffset(L, l + 1) - 1
  BY <1>1, LevelExists
<1>4. /\ LevelOffset(L, l) \in Nat /\ LevelOffset(L, l - 1) \in Nat
      /\ LevelOffset(L, l + 1) = LevelOffset(L, l) + 2^(L - 1 - l)
      /\ LevelOffset(L, (l - 1) + 1) = LevelOffset(L, l - 1) + 2^(L - 1 - (l - 1))
  BY <1>2, Offsets
<1>5. 2^(L - 1 - l) \in Nat \ {0} /\ 2^((L - 1 - l) + 1) = 2 * 2^(L - 1 - l)
  BY <1>2, PowerStep, PowerPositive
<1>6. PICK a \in Nat \ {0}, o \in Nat, u \in Nat :
        a = 2^(L - 1 - l) /\ o = LevelOffset(L, l) /\ u = LevelOffset(L, l - 1)
  BY <1>4, <1>5
<1>7. o = u + 2 * a /\ pos \in o .. o + a - 1
  BY <1>2, <1>3, <1>4, <1>5, <1>6
<1>8. Under(L, pos) = u + 2 * (pos - o)
  BY <1>1, <1>6 DEF Under
<1> QED  BY <1>6, <1>7, <1>8

(* The equation that the list of nodes is a solution of. *)
TreeEquation(items, L, g, N) ==
  g = [pos \in 0 .. N - 1 |->
         IF LevelOf(L, pos) = 0
           THEN Leaf(items, pos)
           ELSE FromNodes(g[Under(L, pos)], g[Under(L, pos) + 1])]

(* There is a function that satisfies the equation of the tree, built up   *)
(* by positions.                                                           *)
LEMMA TreeExists ==
  ASSUME NEW items, NEW L \in Nat, NEW N \in Nat, N = LevelOffset(L, L)
  PROVE  \E g : TreeEquation(items, L, g, N)
<1> DEFINE T == {m \in 0 .. N : ~ \E g : TreeEquation(items, L, g, m)}
<1>1. SUFFICES ASSUME T # {} PROVE FALSE
  BY DEF T
<1>2. PICK m \in T : \A y \in T : m <= y
  <2>1. T \subseteq Nat
    OBVIOUS
  <2> HIDE DEF T
  <2> QED  BY <1>1, <2>1, SmallestMember
<1>3. CASE m = 0
  <2> DEFINE g == [pos \in 0 .. 0 - 1 |-> 0]
  <2>1. \A pos \in 0 .. 0 - 1 : FALSE
    OBVIOUS
  <2>2. TreeEquation(items, L, g, 0)
    BY <2>1, Zenon DEF TreeEquation
  <2> QED  BY <1>2, <1>3, <2>2
<1>4. CASE m # 0
  <2>1. m \in 1 .. N /\ m - 1 \in 0 .. N /\ m - 1 \notin T
    BY <1>2, <1>4
  <2>2. PICK w : TreeEquation(items, L, w, m - 1)
    BY <2>1
  <2> DEFINE node(h, pos) == IF LevelOf(L, pos) = 0
                                THEN Leaf(items, pos)
                                ELSE FromNodes(h[Under(L, pos)], h[Under(L, pos) + 1])
             g == [pos \in 0 .. m - 1 |-> IF pos = m - 1 THEN node(w, pos) ELSE w[pos]]
  <2>3. \A pos \in 0 .. (m - 1) - 1 : w[pos] = node(w, pos)
    BY <2>2, Zenon DEF TreeEquation
  <2>4. \A pos \in 0 .. (m - 1) - 1 : g[pos] = w[pos]
    BY <2>1
  <2>5. g[m - 1] = node(w, m - 1)
    <3>1. m - 1 \in 0 .. m - 1
      BY <2>1
    <3> QED  BY <3>1, Zenon DEF g
  <2>6. ASSUME NEW pos \in 0 .. m - 1 PROVE node(g, pos) = node(w, pos)
    <3> HIDE DEF g
    <3>1. ASSUME LevelOf(L, pos) # 0
          PROVE  g[Under(L, pos)] = w[Under(L, pos)] /\ g[Under(L, pos) + 1] = w[Under(L, pos) + 1]
      <4>1. pos \in Positions(L)
        BY <2>1 DEF Positions
      <4>2. Under(L, pos) \in 0 .. pos - 1 /\ Under(L, pos) + 1 \in 0 .. pos - 1
        BY <3>1, <4>1, UnderOlder
      <4>3. Under(L, pos) \in 0 .. (m - 1) - 1 /\ Under(L, pos) + 1 \in 0 .. (m - 1) - 1
        BY <2>1, <4>2
      <4> QED  BY <2>4, <4>3
    <3> QED  BY <3>1
  <2>7. ASSUME NEW pos \in 0 .. m - 1 PROVE g[pos] = node(g, pos)
    <3>1. node(g, pos) = node(w, pos)
      BY <2>6
    <3> HIDE DEF g, node
    <3>2. CASE pos = m - 1
      BY <2>5, <3>1, <3>2
    <3>3. CASE pos # m - 1
      <4>1. pos \in 0 .. (m - 1) - 1
        BY <2>1, <3>3
      <4> QED  BY <2>3, <2>4, <3>1, <4>1
    <3> QED  BY <3>2, <3>3
  <2>8. g = [pos \in 0 .. m - 1 |-> node(g, pos)]
    <3>1. g = [pos \in 0 .. m - 1 |-> g[pos]]
      BY Zenon DEF g
    <3> HIDE DEF g, node
    <3> QED  BY <3>1, <2>7, Zenon
  <2> HIDE DEF g
  <2>9. TreeEquation(items, L, g, m)
    BY <2>8, Zenon DEF TreeEquation
  <2> QED  BY <1>2, <2>9
<1> QED  BY <1>3, <1>4

(* Every position in the list has what MerkleTree::new() puts there. *)
LEMMA NodesDef ==
  ASSUME NEW items, NEW L \in Nat, NEW pos \in Positions(L)
  PROVE  Nodes(items, L)[pos]
           = IF LevelOf(L, pos) = 0
               THEN Leaf(items, pos)
               ELSE FromNodes(Nodes(items, L)[Under(L, pos)], Nodes(items, L)[Under(L, pos) + 1])
<1>1. LevelOffset(L, L) \in Nat
  BY OffsetsGrow
<1>2. PICK g : TreeEquation(items, L, g, LevelOffset(L, L))
  BY <1>1, TreeExists
<1>3. TreeEquation(items, L, Nodes(items, L), LevelOffset(L, L))
  BY <1>2, Zenon DEF TreeEquation, Nodes, LevelOf, Under
<1> QED  BY <1>3, Zenon DEF TreeEquation, Positions

(* The node at place p of level l. *)
At(items, L, l, p) == Nodes(items, L)[LevelOffset(L, l) + p]

(* The nodes of the tree: leaves, and hashes of two nodes of the level     *)
(* below.                                                                  *)
LEMMA TreeNodes ==
  ASSUME NEW items, NEW L \in Nat, NEW l \in 0 .. L - 1, NEW p \in 0 .. 2^(L - 1 - l) - 1
  PROVE  At(items, L, l, p) = IF l = 0 THEN Leaf(items, p)
                              ELSE FromNodes(At(items, L, l - 1, 2 * p), At(items, L, l - 1, 2 * p + 1))
<1> DEFINE pos == LevelOffset(L, l) + p
<1>1. pos \in Positions(L) /\ LevelOf(L, pos) = l
  BY PositionInLevel
<1>2. LevelOffset(L, l) \in Nat /\ p \in Int
  <2>1. 2^(L - 1 - l) \in Nat
    BY PowerStep
  <2> QED  BY <2>1, Offsets
<1>3. CASE l = 0
  <2>1. pos = p
    BY <1>2, <1>3, OffsetZero
  <2> QED  BY <1>1, <1>3, <2>1, NodesDef DEF At
<1>4. CASE l # 0
  <2>1. LevelOffset(L, l - 1) \in Nat
    <3>1. l - 1 \in 0 .. L - 1
      BY <1>4
    <3> QED  BY <3>1, Offsets
  <2>2. Under(L, pos) = LevelOffset(L, l - 1) + 2 * p
    <3>1. pos - LevelOffset(L, l) = p
      BY <1>2
    <3> QED  BY <1>1, <3>1 DEF Under
  <2>3. Under(L, pos) + 1 = LevelOffset(L, l - 1) + (2 * p + 1)
    BY <1>2, <2>1, <2>2
  <2> HIDE DEF pos
  <2>4. Nodes(items, L)[pos]
          = FromNodes(Nodes(items, L)[Under(L, pos)], Nodes(items, L)[Under(L, pos) + 1])
    BY <1>1, <1>4, NodesDef
  <2> QED  BY <1>4, <2>2, <2>3, <2>4 DEF At, pos
<1> QED  BY <1>3, <1>4

(* The root is the only node of the last level. *)
LEMMA RootAt ==
  ASSUME NEW items, NEW L \in Nat \ {0}
  PROVE  Nodes(items, L)[LevelOffset(L, L) - 1] = At(items, L, L - 1, 0)
<1>1. L - 1 \in 0 .. L - 1 /\ (L - 1) + 1 = L /\ L - 1 - (L - 1) = 0 /\ 2^0 = 1
  OBVIOUS
<1>2. /\ LevelOffset(L, L - 1) \in Nat
      /\ LevelOffset(L, (L - 1) + 1) = LevelOffset(L, L - 1) + 2^(L - 1 - (L - 1))
  BY <1>1, Offsets
<1>3. LevelOffset(L, L) = LevelOffset(L, L - 1) + 1
  <2>1. LevelOffset(L, L) = LevelOffset(L, L - 1) + 2^0
    BY <1>1, <1>2, Zenon
  <2> QED  BY <1>1, <2>1, Zenon
<1>4. LevelOffset(L, L) - 1 = LevelOffset(L, L - 1) + 0
  BY <1>2, <1>3
<1> QED  BY <1>4, Zenon DEF At

(* The place of the node above leaf j in level l. *)
Place(j, l) == j \div 2^l

(* The places that a leaf climbs through, one on each level. *)
LEMMA Places ==
  ASSUME NEW L \in Nat \ {0}, NEW j \in 0 .. 2^(L - 1) - 1
  PROVE  /\ Place(j, 0) = j
         /\ \A l \in 0 .. L - 1 : Place(j, l) \in 0 .. 2^(L - 1 - l) - 1
         /\ \A l \in Nat : /\ Place(j, l) \in Nat
                           /\ Place(j, l + 1) = Place(j, l) \div 2
                           /\ Place(j, l) % 2 \in {0, 1}
                           /\ Place(j, l) = 2 * Place(j, l + 1) + (Place(j, l) % 2)
<1>1. j \in Nat
  <2>1. 2^(L - 1) \in Nat
    BY PowerStep
  <2> QED  BY <2>1
<1>2. Place(j, 0) = j
  <2>1. 2^0 = 1
    OBVIOUS
  <2>2. j \div 1 = j
    BY <1>1
  <2> QED  BY <2>1, <2>2, Zenon DEF Place
<1>3. ASSUME NEW l \in Nat
      PROVE  /\ Place(j, l) \in Nat
             /\ Place(j, l + 1) = Place(j, l) \div 2
             /\ Place(j, l) % 2 \in {0, 1}
             /\ Place(j, l) = 2 * Place(j, l + 1) + (Place(j, l) % 2)
  <2>1. Place(j, l) \in Nat /\ Place(j, l + 1) = Place(j, l) \div 2
    BY <1>1, ShiftStep DEF Place
  <2> QED  BY <2>1, Halves
<1>4. \A l \in 0 .. L - 1 : Place(j, l) \in 0 .. 2^(L - 1 - l) - 1
  <2> DEFINE T == {l \in 0 .. L - 1 : ~(Place(j, l) \in 0 .. 2^(L - 1 - l) - 1)}
  <2>1. SUFFICES ASSUME T # {} PROVE FALSE
    BY DEF T
  <2>2. PICK l \in T : \A y \in T : l <= y
    <3>1. T \subseteq Nat
      OBVIOUS
    <3> HIDE DEF T
    <3> QED  BY <2>1, <3>1, SmallestMember
  <2>3. l # 0
    <3>1. L - 1 - 0 = L - 1
      OBVIOUS
    <3>2. 0 \notin T
      BY <1>2, <3>1
    <3> QED  BY <2>2, <3>2
  <2>4. l - 1 \in 0 .. L - 1 /\ l - 1 \notin T /\ l - 1 \in Nat /\ (l - 1) + 1 = l
        /\ L - 1 - l \in Nat /\ (L - 1 - l) + 1 = L - 1 - (l - 1)
    BY <2>2, <2>3
  <2>5. Place(j, l - 1) \in 0 .. 2^(L - 1 - (l - 1)) - 1
    BY <2>4
  <2>6. 2^(L - 1 - l) \in Nat /\ 2^((L - 1 - l) + 1) = 2 * 2^(L - 1 - l)
    BY <2>4, PowerStep
  <2>7. PICK x \in Nat, y \in Nat, b \in {0, 1} :
          x = Place(j, l - 1) /\ y = Place(j, l) /\ x = 2 * y + b
    <3>1. l \in Nat
      BY <2>2
    <3>2. /\ Place(j, l - 1) \in Nat /\ Place(j, l) \in Nat /\ Place(j, l - 1) % 2 \in {0, 1}
          /\ Place(j, l - 1) = 2 * Place(j, l) + (Place(j, l - 1) % 2)
      BY <1>3, <2>4, <3>1
    <3> QED  BY <3>2
  <2>8. x < 2 * 2^(L - 1 - l)
    BY <2>4, <2>5, <2>6, <2>7
  <2>9. y < 2^(L - 1 - l)
    BY <2>6, <2>7, <2>8
  <2> QED  BY <2>2, <2>6, <2>7, <2>9
<1> QED  BY <1>2, <1>3, <1>4

(* Equal bits make equal indices. *)
LEMMA SameBits ==
  ASSUME NEW L \in Nat \ {0}, NEW i \in 0 .. 2^(L - 1) - 1, NEW j \in 0 .. 2^(L - 1) - 1,
         \A m \in 0 .. L - 2 : Place(i, m) % 2 = Place(j, m) % 2
  PROVE  i = j
<1> DEFINE T == {m \in 0 .. L - 1 : Place(i, m) = Place(j, m)}
<1>1. L - 1 \in T
  <2>1. L - 1 \in 0 .. L - 1 /\ L - 1 - (L - 1) = 0 /\ 2^0 - 1 = 0
    OBVIOUS
  <2>2. /\ Place(i, L - 1) \in 0 .. 2^(L - 1 - (L - 1)) - 1
        /\ Place(j, L - 1) \in 0 .. 2^(L - 1 - (L - 1)) - 1
    BY <2>1, Places
  <2>3. Place(i, L - 1) \in 0 .. 0 /\ Place(j, L - 1) \in 0 .. 0
    BY <2>1, <2>2, Zenon
  <2> QED  BY <2>1, <2>3
<1>2. PICK m \in T : \A y \in T : m <= y
  <2>1. T \subseteq Nat /\ T # {}
    BY <1>1
  <2> HIDE DEF T
  <2> QED  BY <2>1, SmallestMember
<1>3. m = 0
  <2>1. SUFFICES ASSUME m # 0 PROVE FALSE
    OBVIOUS
  <2>2. m - 1 \in 0 .. L - 2 /\ m - 1 \in 0 .. L - 1 /\ m - 1 \in Nat /\ (m - 1) + 1 = m
        /\ m - 1 \notin T
    BY <1>2, <2>1
  <2>3. /\ Place(i, m - 1) = 2 * Place(i, (m - 1) + 1) + (Place(i, m - 1) % 2)
        /\ Place(j, m - 1) = 2 * Place(j, (m - 1) + 1) + (Place(j, m - 1) % 2)
    BY <2>2, Places
  <2>4. Place(i, m) = Place(j, m) /\ Place(i, m - 1) % 2 = Place(j, m - 1) % 2
    BY <1>2, <2>2
  <2>5. Place(i, m - 1) = Place(j, m - 1)
    BY <2>2, <2>3, <2>4, Zenon
  <2> QED  BY <2>2, <2>5
<1> QED  BY <1>2, <1>3, Places

(* No two items are equal. *)
Distinct(items) == \A a, b \in 1 .. Len(items) : items[a] = items[b] => a = b

(* The hashes of different inputs are different. *)
LEMMA SameNodes ==
  ASSUME NEW a, NEW b, NEW c, NEW d, FromNodes(a, b) = FromNodes(c, d)
  PROVE  a = c /\ b = d
BY DEF FromNodes

(* Hashes of values are distinct, and none is the padding. *)
LEMMA Hashes ==
  ASSUME NEW a, NEW b
  PROVE  (FromValue(a) = FromValue(b) => a = b) /\ FromValue(a) # Padding
<1>1. FromValue(a) = FromValue(b) => a = b
  BY DEF FromValue
<1>2. FromValue(a) # Padding
  BY DEF FromValue, Padding
<1> QED  BY <1>1, <1>2

(* A node above leaf j equals no other node of its level. *)
LEMMA NoTwin ==
  ASSUME NEW items, Len(items) \in Nat, Distinct(items),
         NEW L \in Nat \ {0}, Len(items) <= 2^(L - 1), NEW j \in 0 .. Len(items) - 1,
         NEW l \in 0 .. L - 1, NEW q \in 0 .. 2^(L - 1 - l) - 1,
         At(items, L, l, Place(j, l)) = At(items, L, l, q)
  PROVE  q = Place(j, l)
<1> DEFINE Twins(m) == {c \in 0 .. 2^(L - 1 - m) - 1 :
                          At(items, L, m, Place(j, m)) = At(items, L, m, c) /\ c # Place(j, m)}
           T == {m \in 0 .. L - 1 : Twins(m) # {}}
<1>0. 2^(L - 1) \in Nat /\ j \in 0 .. 2^(L - 1) - 1
  <2>1. 2^(L - 1) \in Nat
    BY PowerStep
  <2> QED  BY <2>1
<1>1. SUFFICES ASSUME T # {} PROVE FALSE
  <2>1. q # Place(j, l) => q \in Twins(l)
    OBVIOUS
  <2> HIDE DEF Twins
  <2> QED  BY <2>1
<1>2. PICK m \in T : \A y \in T : m <= y
  <2>1. T \subseteq Nat
    OBVIOUS
  <2> HIDE DEF T
  <2> QED  BY <1>1, <2>1, SmallestMember
<1>3. PICK c \in 0 .. 2^(L - 1 - m) - 1 :
        At(items, L, m, Place(j, m)) = At(items, L, m, c) /\ c # Place(j, m)
  BY <1>2
<1>4. Place(j, m) \in 0 .. 2^(L - 1 - m) - 1
  BY <1>0, <1>2, Places
<1>5. CASE m = 0
  <2>1. L - 1 - 0 = L - 1 /\ Place(j, 0) = j
    BY <1>0, Places
  <2>2. Leaf(items, j) = Leaf(items, c) /\ c # j /\ c \in Nat
    <3>1. At(items, L, m, Place(j, m)) = Leaf(items, Place(j, m)) /\ At(items, L, m, c) = Leaf(items, c)
      <4>1. m \in 0 .. L - 1
        BY <1>2
      <4> HIDE DEF T
      <4> QED  BY <1>3, <1>4, <1>5, <4>1, TreeNodes
    <3>2. c \in Nat
      BY <1>0, <1>3, <1>5, <2>1
    <3> QED  BY <1>3, <1>5, <2>1, <3>1, <3>2
  <2>3. Leaf(items, j) = FromValue(items[j + 1])
    BY DEF Leaf
  <2>4. c < Len(items)
    BY <2>2, <2>3, Hashes DEF Leaf
  <2>5. items[j + 1] = items[c + 1]
    BY <2>2, <2>3, <2>4, Hashes DEF Leaf
  <2>6. j + 1 \in 1 .. Len(items) /\ c + 1 \in 1 .. Len(items) /\ j + 1 # c + 1
    BY <2>2, <2>4
  <2> QED  BY <2>5, <2>6 DEF Distinct
<1>6. CASE m # 0
  <2>1. m - 1 \in 0 .. L - 1 /\ m - 1 \in Nat /\ m - 1 \notin T /\ (m - 1) + 1 = m
        /\ L - 1 - m \in Nat /\ (L - 1 - m) + 1 = L - 1 - (m - 1)
    BY <1>2, <1>6
  <2>2. 2^(L - 1 - m) \in Nat /\ 2^(L - 1 - (m - 1)) = 2 * 2^(L - 1 - m)
    BY <2>1, PowerStep
  <2>3. PICK x \in Nat, b \in {0, 1} : x = Place(j, m) /\ Place(j, m - 1) = 2 * x + b
    <3>1. m \in Nat
      BY <1>2
    <3>2. /\ Place(j, m) \in Nat /\ Place(j, m - 1) % 2 \in {0, 1}
          /\ Place(j, m - 1) = 2 * Place(j, (m - 1) + 1) + (Place(j, m - 1) % 2)
      BY <1>0, <2>1, <3>1, Places
    <3>3. Place(j, m - 1) = 2 * Place(j, m) + (Place(j, m - 1) % 2)
      BY <2>1, <3>2
    <3> QED  BY <3>2, <3>3
  <2>4. c \in Nat /\ c < 2^(L - 1 - m) /\ c # x
    BY <1>3, <2>2, <2>3
  <2>5. 2 * c + b \in 0 .. 2^(L - 1 - (m - 1)) - 1 /\ 2 * c + b # 2 * x + b
    BY <2>2, <2>3, <2>4
  <2>6. /\ At(items, L, m, x) = FromNodes(At(items, L, m - 1, 2 * x), At(items, L, m - 1, 2 * x + 1))
        /\ At(items, L, m, c) = FromNodes(At(items, L, m - 1, 2 * c), At(items, L, m - 1, 2 * c + 1))
    BY <1>2, <1>3, <1>4, <1>6, <2>3, TreeNodes
  <2>7. /\ At(items, L, m - 1, 2 * x) = At(items, L, m - 1, 2 * c)
        /\ At(items, L, m - 1, 2 * x + 1) = At(items, L, m - 1, 2 * c + 1)
    <3>1. At(items, L, m, x) = At(items, L, m, c)
      BY <1>3, <2>3
    <3>2. FromNodes(At(items, L, m - 1, 2 * x), At(items, L, m - 1, 2 * x + 1))
            = FromNodes(At(items, L, m - 1, 2 * c), At(items, L, m - 1, 2 * c + 1))
      BY <2>6, <3>1, Zenon
    <3> QED  BY <3>2, SameNodes
  <2>8. At(items, L, m - 1, 2 * x + b) = At(items, L, m - 1, 2 * c + b)
    <3>1. CASE b = 0
      <4>1. 2 * x + b = 2 * x /\ 2 * c + b = 2 * c
        BY <2>3, <2>4, <3>1
      <4> QED  BY <2>7, <4>1
    <3>2. CASE b = 1
      BY <2>7, <3>2
    <3> QED  BY <2>3, <3>1, <3>2
  <2>9. 2 * c + b \in Twins(m - 1)
    BY <2>3, <2>5, <2>8
  <2> HIDE DEF Twins
  <2> QED  BY <2>1, <2>9
<1> QED  BY <1>5, <1>6

(* The equation that the loop of verify() solves. *)
ClimbEquation(nodes, idx, item, g, N) ==
  g = [l \in 0 .. N |->
         IF l = 0
           THEN FromValue(item)
           ELSE IF (idx \div 2^(l - 1)) % 2 = 0
                  THEN FromNodes(g[l - 1], nodes[l])
                  ELSE FromNodes(nodes[l], g[l - 1])]

(* There is a function that satisfies the equation of the climb. *)
LEMMA ClimbExists ==
  ASSUME NEW nodes, NEW idx, NEW item, NEW N \in Nat
  PROVE  \E g : ClimbEquation(nodes, idx, item, g, N)
<1> DEFINE T == {m \in 0 .. N : ~ \E g : ClimbEquation(nodes, idx, item, g, m)}
           next(h, l) == IF (idx \div 2^(l - 1)) % 2 = 0
                           THEN FromNodes(h[l - 1], nodes[l])
                           ELSE FromNodes(nodes[l], h[l - 1])
<1>1. SUFFICES ASSUME T # {} PROVE FALSE
  BY DEF T
<1>2. PICK m \in T : \A y \in T : m <= y
  <2>1. T \subseteq Nat
    OBVIOUS
  <2> HIDE DEF T
  <2> QED  BY <1>1, <2>1, SmallestMember
<1>3. CASE m = 0
  <2> DEFINE g == [l \in 0 .. 0 |-> FromValue(item)]
  <2>1. \A l \in 0 .. 0 : l = 0
    OBVIOUS
  <2>2. ClimbEquation(nodes, idx, item, g, 0)
    BY <2>1, Zenon DEF ClimbEquation
  <2> QED  BY <1>2, <1>3, <2>2
<1>4. CASE m # 0
  <2>1. m \in 1 .. N /\ m - 1 \in 0 .. N /\ m - 1 \notin T
    BY <1>2, <1>4
  <2>2. PICK w : ClimbEquation(nodes, idx, item, w, m - 1)
    BY <2>1
  <2> DEFINE g == [l \in 0 .. m |-> IF l = m THEN next(w, m) ELSE w[l]]
  <2>3. \A l \in 0 .. m - 1 : w[l] = IF l = 0 THEN FromValue(item) ELSE next(w, l)
    BY <2>2, Zenon DEF ClimbEquation
  <2>4. \A l \in 0 .. m - 1 : g[l] = w[l]
    BY <2>1
  <2>5. g[m] = next(w, m)
    <3>1. m \in 0 .. m
      BY <2>1
    <3> QED  BY <3>1, Zenon DEF g
  <2>6. ASSUME NEW l \in 1 .. m PROVE next(g, l) = next(w, l)
    <3>1. l - 1 \in 0 .. m - 1
      BY <2>1
    <3>2. g[l - 1] = w[l - 1]
      BY <2>4, <3>1
    <3> HIDE DEF g
    <3> QED  BY <3>2, Zenon
  <2>7. ASSUME NEW l \in 0 .. m
        PROVE  g[l] = IF l = 0 THEN FromValue(item) ELSE next(g, l)
    <3> HIDE DEF g, next
    <3>1. CASE l = m
      <4>1. l \in 1 .. m /\ l # 0
        BY <2>1, <3>1
      <4> QED  BY <2>5, <2>6, <3>1, <4>1
    <3>2. CASE l # m
      <4>1. l \in 0 .. m - 1 /\ (l # 0 => l \in 1 .. m)
        BY <2>1, <3>2
      <4> QED  BY <2>3, <2>4, <2>6, <4>1
    <3> QED  BY <3>1, <3>2
  <2>8. g = [l \in 0 .. m |-> IF l = 0 THEN FromValue(item) ELSE next(g, l)]
    <3>1. g = [l \in 0 .. m |-> g[l]]
      BY Zenon DEF g
    <3> HIDE DEF g, next
    <3> QED  BY <3>1, <2>7, Zenon
  <2> HIDE DEF g
  <2>9. ClimbEquation(nodes, idx, item, g, m)
    BY <2>8, Zenon DEF ClimbEquation
  <2> QED  BY <1>2, <2>9
<1> QED  BY <1>3, <1>4

(* So the climb does: it hashes the value, then with the branch node of    *)
(* each level.                                                             *)
LEMMA ClimbDef ==
  ASSUME NEW branch, NEW idx, NEW item, Len(branch.nodes) \in Nat,
         NEW l \in 0 .. Len(branch.nodes)
  PROVE  Climb(branch, idx, item)[l]
           = IF l = 0
               THEN FromValue(item)
               ELSE IF Place(idx, l - 1) % 2 = 0
                      THEN FromNodes(Climb(branch, idx, item)[l - 1], branch.nodes[l])
                      ELSE FromNodes(branch.nodes[l], Climb(branch, idx, item)[l - 1])
<1>1. PICK g : ClimbEquation(branch.nodes, idx, item, g, Len(branch.nodes))
  BY ClimbExists
<1>2. ClimbEquation(branch.nodes, idx, item, Climb(branch, idx, item), Len(branch.nodes))
  BY <1>1, Zenon DEF ClimbEquation, Climb
<1> QED  BY <1>2, Zenon DEF ClimbEquation, Place

(* MerkleTree::branch(): the siblings of the nodes above leaf j. *)
LEMMA BranchNodes ==
  ASSUME NEW items, NEW L \in Nat \ {0}, L = Levels(Len(items)), NEW j
  PROVE  LET branch == Branch(NewTree(items), j)
         IN /\ Len(branch.nodes) = L - 1
            /\ \A l \in 1 .. L - 1 : branch.nodes[l] = At(items, L, l - 1, Sibling(Place(j, l - 1)))
            /\ branch.root = At(items, L, L - 1, 0)
<1> DEFINE tree == NewTree(items)
           siblings == [l \in 1 .. L - 1 |-> At(items, L, l - 1, Sibling(Place(j, l - 1)))]
<1>1. tree.levels = L /\ tree.nodes = Nodes(items, L)
  BY DEF NewTree
<1> HIDE DEF tree
<1>2. Branch(tree, j) = [nodes |-> siblings, root |-> Root(tree)]
  BY <1>1 DEF Branch, At, Place
<1>3. Root(tree) = At(items, L, L - 1, 0)
  BY <1>1, RootAt DEF Root
<1>4. Len(siblings) = L - 1
  <2>1. L - 1 \in Nat /\ siblings = [l \in 1 .. L - 1 |-> siblings[l]]
    OBVIOUS
  <2> HIDE DEF siblings
  <2> QED  BY <2>1, RowLength
<1>5. \A l \in 1 .. L - 1 : siblings[l] = At(items, L, l - 1, Sibling(Place(j, l - 1)))
  OBVIOUS
<1> HIDE DEF siblings
<1>6. Branch(tree, j).nodes = siblings /\ Branch(tree, j).root = Root(tree)
  BY <1>2
<1> QED  BY <1>3, <1>4, <1>5, <1>6 DEF tree

(* After l levels the loop is at the node above leaf j exactly if the bits *)
(* of the index so far are those of j.                                     *)
LEMMA ClimbBits ==
  ASSUME NEW items, Len(items) \in Nat, Distinct(items),
         NEW L \in Nat \ {0}, L = Levels(Len(items)), Len(items) <= 2^(L - 1),
         NEW j \in 0 .. Len(items) - 1, NEW i \in 0 .. 2^(L - 1) - 1,
         NEW l \in 0 .. L - 1
  PROVE  Climb(Branch(NewTree(items), j), i, items[j + 1])[l] = At(items, L, l, Place(j, l))
           <=> \A m \in 0 .. l - 1 : Place(i, m) % 2 = Place(j, m) % 2
<1> DEFINE branch == Branch(NewTree(items), j)
           up == Climb(branch, i, items[j + 1])
           Agree(c) == \A m \in 0 .. c - 1 : Place(i, m) % 2 = Place(j, m) % 2
           T == {c \in 0 .. L - 1 : ~(up[c] = At(items, L, c, Place(j, c)) <=> Agree(c))}
<1>1. j \in 0 .. 2^(L - 1) - 1
  <2>1. 2^(L - 1) \in Nat
    BY PowerStep
  <2> QED  BY <2>1
<1>2. /\ Len(branch.nodes) = L - 1
      /\ \A c \in 1 .. L - 1 : branch.nodes[c] = At(items, L, c - 1, Sibling(Place(j, c - 1)))
  BY BranchNodes
<1> HIDE DEF branch
<1>3. \A c \in 0 .. L - 1 :
        up[c] = IF c = 0
                  THEN FromValue(items[j + 1])
                  ELSE IF Place(i, c - 1) % 2 = 0
                         THEN FromNodes(up[c - 1], branch.nodes[c])
                         ELSE FromNodes(branch.nodes[c], up[c - 1])
  <2>1. Len(branch.nodes) \in Nat
    BY <1>2
  <2> QED  BY <1>2, <2>1, ClimbDef
<1> HIDE DEF up
<1>4. SUFFICES ASSUME T # {} PROVE FALSE
  BY DEF branch, up
<1>5. PICK c \in T : \A y \in T : c <= y
  <2>1. T \subseteq Nat
    OBVIOUS
  <2> HIDE DEF T
  <2> QED  BY <1>4, <2>1, SmallestMember
<1>6. c \in 0 .. L - 1 /\ ~(up[c] = At(items, L, c, Place(j, c)) <=> Agree(c))
  BY <1>5
<1> HIDE DEF T
<1>7. Place(j, c) \in 0 .. 2^(L - 1 - c) - 1
  BY <1>1, <1>6, Places
<1>8. CASE c = 0
  <2>1. Agree(0)
    OBVIOUS
  <2>2. up[0] = FromValue(items[j + 1])
    <3>1. 0 \in 0 .. L - 1
      BY <1>6, <1>8
    <3> QED  BY <1>3, <3>1, Zenon
  <2>3. At(items, L, 0, Place(j, 0)) = Leaf(items, Place(j, 0)) /\ Place(j, 0) = j
    <3>1. At(items, L, c, Place(j, c)) = Leaf(items, Place(j, c))
      BY <1>6, <1>7, <1>8, TreeNodes
    <3> QED  BY <1>1, <1>8, <3>1, Places
  <2>4. Leaf(items, j) = FromValue(items[j + 1])
    BY DEF Leaf
  <2> HIDE DEF Agree
  <2> QED  BY <1>6, <1>8, <2>1, <2>2, <2>3, <2>4
<1>9. CASE c # 0
  <2>1. /\ c \in 1 .. L - 1 /\ c - 1 \in 0 .. L - 1 /\ c - 1 \in Nat /\ (c - 1) + 1 = c
        /\ c - 1 \notin T /\ L - 1 - c \in Nat /\ (L - 1 - c) + 1 = L - 1 - (c - 1)
    <3> HIDE DEF Agree
    <3> QED  BY <1>5, <1>6, <1>9
  <2> DEFINE x == Place(j, c - 1)
             y == Place(j, c)
             own == At(items, L, c - 1, x)
             other == At(items, L, c - 1, Sibling(x))
  <2>2. up[c - 1] = own <=> Agree(c - 1)
    BY <2>1 DEF T
  <2>3. Agree(c) <=> Agree(c - 1) /\ Place(i, c - 1) % 2 = x % 2
    <3>1. /\ \A m \in 0 .. c - 1 : m \in 0 .. (c - 1) - 1 \/ m = c - 1
          /\ \A m \in 0 .. (c - 1) - 1 : m \in 0 .. c - 1
          /\ c - 1 \in 0 .. c - 1
      BY <2>1
    <3> HIDE DEF x
    <3> QED  BY <3>1, Zenon DEF x
  <2> HIDE DEF Agree
  <2>4. x \in Nat /\ x % 2 \in {0, 1} /\ x = 2 * y + (x % 2) /\ y \in Nat
    <3>1. /\ x \in Nat /\ x % 2 \in {0, 1} /\ x = 2 * Place(j, (c - 1) + 1) + (x % 2)
          /\ y \in Nat
      <4>1. c \in Nat
        BY <2>1
      <4> QED  BY <1>1, <2>1, <4>1, Places
    <3> QED  BY <2>1, <3>1
  <2>5. Place(i, c - 1) % 2 \in {0, 1}
    BY <2>1, Places
  <2>6. At(items, L, c, y) = FromNodes(At(items, L, c - 1, 2 * y), At(items, L, c - 1, 2 * y + 1))
    BY <1>6, <1>7, <1>9, TreeNodes
  <2>7. branch.nodes[c] = other
    BY <1>2, <2>1
  <2>8. up[c] = IF Place(i, c - 1) % 2 = 0 THEN FromNodes(up[c - 1], other)
                                           ELSE FromNodes(other, up[c - 1])
    BY <1>3, <1>6, <1>9, <2>7
  <2>9. other # own
    <3>1. SUFFICES ASSUME own = other PROVE FALSE
      OBVIOUS
    <3>2. x \in 0 .. 2^(L - 1 - (c - 1)) - 1
      BY <1>1, <2>1, Places
    <3>3. 2^(L - 1 - c) \in Nat /\ 2^(L - 1 - (c - 1)) = 2 * 2^(L - 1 - c)
      BY <2>1, PowerStep
    <3>4. y < 2^(L - 1 - c)
      BY <1>7, <3>3
    <3>5. Sibling(x) \in 0 .. 2^(L - 1 - (c - 1)) - 1 /\ Sibling(x) # x
      <4> HIDE DEF x, y
      <4>1. CASE x % 2 = 0
        <5>1. Sibling(x) = x + 1 /\ x = 2 * y
          BY <2>4, <4>1 DEF Sibling
        <5> QED  BY <2>4, <3>3, <3>4, <5>1
      <4>2. CASE x % 2 = 1
        <5>1. Sibling(x) = x - 1 /\ x = 2 * y + 1
          BY <2>4, <4>2 DEF Sibling
        <5> QED  BY <2>4, <3>3, <3>4, <5>1
      <4> QED  BY <2>4, <4>1, <4>2
    <3>6. PICK q \in 0 .. 2^(L - 1 - (c - 1)) - 1 : q = Sibling(x)
      BY <3>5
    <3>7. At(items, L, c - 1, Place(j, c - 1)) = At(items, L, c - 1, q)
      BY <3>1, <3>6
    <3>8. q = Place(j, c - 1)
      BY <2>1, <3>7, NoTwin
    <3> QED  BY <3>5, <3>6, <3>8
  <2>10. At(items, L, c, y) = IF x % 2 = 0 THEN FromNodes(own, other) ELSE FromNodes(other, own)
    <3>1. CASE x % 2 = 0
      <4>1. x = 2 * y /\ Sibling(x) = 2 * y + 1
        <5> HIDE DEF x, y
        <5> QED  BY <2>4, <3>1 DEF Sibling
      <4> HIDE DEF x, y
      <4> QED  BY <2>6, <3>1, <4>1
    <3>2. CASE x % 2 = 1
      <4>1. x = 2 * y + 1 /\ Sibling(x) = 2 * y
        <5> HIDE DEF x, y
        <5> QED  BY <2>4, <3>2 DEF Sibling
      <4> HIDE DEF x, y
      <4> QED  BY <2>6, <3>2, <4>1
    <3> QED  BY <2>4, <3>1, <3>2
  <2> HIDE DEF x, y, own, other
  <2>11. up[c] = At(items, L, c, y) <=> up[c - 1] = own /\ Place(i, c - 1) % 2 = x % 2
    <3>1. CASE Place(i, c - 1) % 2 = x % 2
      <4>1. CASE x % 2 = 0
        BY <2>8, <2>10, <3>1, <4>1, SameNodes
      <4>2. CASE x % 2 # 0
        BY <2>8, <2>10, <3>1, <4>2, SameNodes
      <4> QED  BY <4>1, <4>2
    <3>2. CASE Place(i, c - 1) % 2 # x % 2
      <4>1. CASE x % 2 = 0
        <5>1. up[c] = FromNodes(other, up[c - 1]) /\ At(items, L, c, y) = FromNodes(own, other)
          BY <2>5, <2>8, <2>10, <3>2, <4>1
        <5> QED  BY <2>9, <3>2, <5>1, SameNodes
      <4>2. CASE x % 2 = 1
        <5>1. up[c] = FromNodes(up[c - 1], other) /\ At(items, L, c, y) = FromNodes(other, own)
          BY <2>5, <2>8, <2>10, <3>2, <4>2
        <5> QED  BY <2>9, <3>2, <5>1, SameNodes
      <4> QED  BY <2>4, <4>1, <4>2
    <3> QED  BY <3>1, <3>2
  <2> QED  BY <1>6, <2>2, <2>3, <2>11 DEF y
<1> QED  BY <1>8, <1>9

(* A branch verifies at the index of its leaf, and at no other index that  *)
(* the tree has a place for.                                               *)
LEMMA VerifyExactly ==
  ASSUME NEW items, Len(items) \in Nat \ {0}, Distinct(items),
         NEW j \in 0 .. Len(items) - 1, NEW i \in 0 .. 2^(Levels(Len(items)) - 1) - 1
  PROVE  Verify(Branch(NewTree(items), j), i, items[j + 1]) <=> i = j
<1> DEFINE L == Levels(Len(items))
           branch == Branch(NewTree(items), j)
           up == Climb(branch, i, items[j + 1])
<1>1. L \in Nat \ {0} /\ Len(items) <= 2^(L - 1) /\ 2^(L - 1) \in Nat
  <2>1. L \in Nat \ {0} /\ 2^(L - 1) >= Len(items)
    BY LevelsFacts
  <2>2. 2^(L - 1) \in Nat
    BY <2>1, PowerStep
  <2> HIDE DEF L
  <2> QED  BY <2>1, <2>2
<1>2. j \in 0 .. 2^(L - 1) - 1
  <2> HIDE DEF L
  <2> QED  BY <1>1
<1>3. Len(branch.nodes) = L - 1 /\ branch.root = At(items, L, L - 1, 0)
  BY <1>1, BranchNodes
<1>4. Verify(branch, i, items[j + 1]) <=> up[L - 1] = At(items, L, L - 1, 0)
  BY <1>3 DEF Verify
<1>5. Place(j, L - 1) = 0
  <2> HIDE DEF L
  <2>1. L - 1 \in 0 .. L - 1 /\ L - 1 - (L - 1) = 0 /\ 2^0 - 1 = 0
    BY <1>1
  <2>2. Place(j, L - 1) \in 0 .. 2^(L - 1 - (L - 1)) - 1
    BY <1>1, <1>2, <2>1, Places
  <2>3. Place(j, L - 1) \in 0 .. 0
    BY <2>1, <2>2, Zenon
  <2> QED  BY <2>3
<1>6. up[L - 1] = At(items, L, L - 1, Place(j, L - 1))
        <=> \A m \in 0 .. (L - 1) - 1 : Place(i, m) % 2 = Place(j, m) % 2
  <2>1. L - 1 \in 0 .. L - 1
    BY <1>1
  <2> QED  BY <1>1, <2>1, ClimbBits
<1> HIDE DEF up, branch
<1>7. (L - 1) - 1 = L - 2
  BY <1>1
<1>8. Verify(branch, i, items[j + 1]) <=> \A m \in 0 .. L - 2 : Place(i, m) % 2 = Place(j, m) % 2
  BY <1>4, <1>5, <1>6, <1>7, Zenon
<1>9. (\A m \in 0 .. L - 2 : Place(i, m) % 2 = Place(j, m) % 2) => i = j
  <2>1. i \in 0 .. 2^(L - 1) - 1
    BY DEF L
  <2> HIDE DEF L
  <2> QED  BY <1>1, <1>2, <2>1, SameBits
<1> QED  BY <1>8, <1>9 DEF branch

-----------------------------------------------------------------------------
(* The shards of a correct sender are all different. *)
LEMMA NewSetDistinct ==
  ASSUME NEW s, NEW bytes, s.original_shards \in Nat \ {0}, s.recovery_shards \in Nat,
         s.shard_size \in Nat
  PROVE  /\ Len(NewSet(s, bytes)) = s.original_shards + s.recovery_shards
         /\ Distinct(NewSet(s, bytes))
<1> DEFINE t == s.original_shards
           all == NewSet(s, bytes)
<1>1. \A i \in 1 .. t + s.recovery_shards :
        /\ all[i].idx = IF i <= t THEN i - 1 ELSE i - t - 1
        /\ all[i].kind = IF i <= t THEN "Original" ELSE "Recovery"
        /\ Len(all) = t + s.recovery_shards
  BY ShardsOfSet
<1> HIDE DEF all
<1>2. Len(all) = t + s.recovery_shards
  <2>1. 1 \in 1 .. t + s.recovery_shards
    OBVIOUS
  <2> QED  BY <1>1, <2>1
<1>3. ASSUME NEW a \in 1 .. Len(all), NEW b \in 1 .. Len(all), all[a] = all[b]
      PROVE  a = b
  <2>1. /\ all[a].idx = all[b].idx /\ all[a].kind = all[b].kind
        /\ all[a].idx = IF a <= t THEN a - 1 ELSE a - t - 1
        /\ all[b].idx = IF b <= t THEN b - 1 ELSE b - t - 1
        /\ all[a].kind = IF a <= t THEN "Original" ELSE "Recovery"
        /\ all[b].kind = IF b <= t THEN "Original" ELSE "Recovery"
    BY <1>1, <1>2, <1>3
  <2>2. (a <= t) <=> (b <= t)
    BY <2>1
  <2>3. t \in Nat /\ a \in Nat /\ b \in Nat
    BY <1>2
  <2>4. a - 1 = b - 1 \/ a - t - 1 = b - t - 1
    BY <2>1, <2>2, Zenon
  <2> HIDE DEF t
  <2> QED  BY <2>3, <2>4
<1> QED  BY <1>2, <1>3 DEF Distinct, all

(* So are those of a faulty one, whatever their contents. *)
LEMMA ForgedDistinct ==
  ASSUME NEW s, s.original_shards \in Nat, NEW c \in Nat, NEW data \in [1 .. c -> Data],
         NEW i \in 1 .. c, NEW j \in 1 .. c
  PROVE  Len(Forged(s, data, i, j)) = c /\ Distinct(Forged(s, data, i, j))
<1> DEFINE k == s.original_shards
           Put(x) == IF x = i THEN j ELSE IF x = j THEN i ELSE x
           all == Forged(s, data, i, j)
<1>1. all = [x \in 1 .. c |->
               [data |-> data[x],
                kind |-> IF Put(x) <= k THEN "Original" ELSE "Recovery",
                idx |-> IF Put(x) <= k THEN Put(x) - 1 ELSE Put(x) - k - 1]]
  BY DEF Forged
<1>2. \A x \in 1 .. c : Put(x) \in 1 .. c
  OBVIOUS
<1>3. \A x, y \in 1 .. c : Put(x) = Put(y) => x = y
  OBVIOUS
<1> HIDE DEF all, Put
<1>4. Len(all) = c
  <2>1. all = [x \in 1 .. c |-> all[x]]
    BY <1>1
  <2> QED  BY <2>1, RowLength
<1>5. ASSUME NEW x \in 1 .. c, NEW y \in 1 .. c, all[x] = all[y]
      PROVE  x = y
  <2>1. /\ all[x].idx = IF Put(x) <= k THEN Put(x) - 1 ELSE Put(x) - k - 1
        /\ all[y].idx = IF Put(y) <= k THEN Put(y) - 1 ELSE Put(y) - k - 1
        /\ all[x].kind = IF Put(x) <= k THEN "Original" ELSE "Recovery"
        /\ all[y].kind = IF Put(y) <= k THEN "Original" ELSE "Recovery"
    BY <1>1
  <2>2. all[x].idx = all[y].idx /\ all[x].kind = all[y].kind
    BY <1>5
  <2>3. (Put(x) <= k) <=> (Put(y) <= k)
    BY <2>1, <2>2
  <2>4. Put(x) \in 1 .. c /\ Put(y) \in 1 .. c
    BY <1>2
  <2>5. Put(x) = Put(y)
    BY <2>1, <2>2, <2>3, <2>4
  <2> QED  BY <1>3, <2>5
<1> QED  BY <1>4, <1>5 DEF Distinct, all

(* The inductive invariant behind BranchesSeparate and OwnLeaf. *)
LeafInv ==
  /\ system \in Systems
  /\ phase = "sent" =>
       /\ Len(leaves) \in Nat \ {0}
       /\ Distinct(leaves)
       /\ honest => Len(leaves) = n
       /\ got = Accepted(NewTree(leaves), leaves)

(* The tree has a place for every receiver. *)
RoomForAll == n <= 2^(Levels(Len(leaves)) - 1)

(* A receiver accepts no shard but the one in its own place, from correct  *)
(* and faulty senders alike, if the tree has a place for every receiver.   *)
OwnLeaf ==
  phase = "sent" /\ RoomForAll => \A i \in 0 .. n - 1 : got[i] \in {-1, i}

(* A correct sender gives out the branches of its own tree. *)
LEMMA LeafDisperse ==
  ASSUME LeafInv, NEW size \in Sizes, Disperse(size)
  PROVE  LeafInv'
<1> DEFINE bytes == [i \in 1 .. size |-> i % Prime]
           t == n - 2 * f
           new == NewScheme(size, n, t)
<1>1. system' = system /\ system \in Systems /\ n' = n
  BY DEF Disperse, LeafInv, n
<1>2. CASE NewSetOk(bytes, n, t)
  <2>1. phase' = "sent" /\ leaves' = NewSet(new, bytes)
        /\ got' = Accepted(NewTree(leaves'), leaves')
    BY <1>2 DEF Disperse
  <2>2. n \in Nat /\ t \in Nat \ {0} /\ t <= n
    BY <1>1, SystemFacts
  <2>3. FitsValue(new, size, n, t)
    <3> HIDE DEF t
    <3> QED  BY <2>2, NewSchemeFits, SystemsAssumption
  <2> HIDE DEF new, bytes, t
  <2>4. /\ new.original_shards \in Nat \ {0} /\ new.recovery_shards \in Nat
        /\ new.shard_size \in Nat /\ new.original_shards + new.recovery_shards = n
        /\ n \in Nat \ {0}
    BY <2>2, <2>3 DEF FitsValue
  <2>5. Len(leaves') = n /\ Distinct(leaves')
    BY <2>1, <2>4, NewSetDistinct
  <2>6. got' = Accepted(NewTree(leaves), leaves)'
    BY <1>1, <2>1 DEF Accepted
  <2> QED  BY <1>1, <2>1, <2>4, <2>5, <2>6 DEF LeafInv, Distinct
<1>3. CASE ~NewSetOk(bytes, n, t)
  <2>1. phase' = "failed"
    BY <1>3 DEF Disperse
  <2> QED  BY <1>1, <2>1 DEF LeafInv
<1> QED  BY <1>2, <1>3

(* The shards of a faulty sender are the leaves of one tree too. *)
LEMMA LeafFaulty ==
  ASSUME LeafInv, NEW s \in Schemes, DisperseFaulty(s[2])
  PROVE  LeafInv'
<1> DEFINE k == s[2].original_shards
           r == s[2].recovery_shards
<1>1. system' = system /\ system \in Systems /\ n' = n /\ phase' = "sent"
      /\ honest' = FALSE /\ k # 0
  BY DEF DisperseFaulty, LeafInv, n, SchemeOk
<1>2. k \in Nat \ {0} /\ r \in Nat
  BY <1>1, SystemsAssumption
<1>3. PICK missing \in 0 .. 1 :
        \E data \in [1 .. k + r - missing -> Data] :
        \E i, j \in DOMAIN data : i <= j /\ leaves' = Forged(s[2], data, i, j)
  BY DEF DisperseFaulty
<1>4. PICK data \in [1 .. k + r - missing -> Data] :
        \E i, j \in DOMAIN data : i <= j /\ leaves' = Forged(s[2], data, i, j)
  BY <1>3
<1>5. PICK i \in DOMAIN data, j \in DOMAIN data : leaves' = Forged(s[2], data, i, j)
  BY <1>4
<1>6. PICK c \in Nat : c = k + r - missing
  BY <1>2
<1>7. data \in [1 .. c -> Data] /\ i \in 1 .. c /\ j \in 1 .. c /\ c # 0
  BY <1>4, <1>5, <1>6
<1>8. Len(leaves') = c /\ Distinct(leaves')
  BY <1>2, <1>5, <1>7, ForgedDistinct
<1>9. got' = Accepted(NewTree(leaves), leaves)'
  BY <1>1 DEF DisperseFaulty, Accepted
<1> QED  BY <1>1, <1>7, <1>8, <1>9 DEF LeafInv, Distinct

(* Every behaviour keeps the invariant. *)
LEMMA LeafInvariance == Spec => []LeafInv
<1>1. Init => LeafInv
  BY DEF Init, LeafInv
<1>2. LeafInv /\ [Next]_vars => LeafInv'
  <2> SUFFICES ASSUME LeafInv, [Next]_vars PROVE LeafInv'
    OBVIOUS
  <2>1. ASSUME UNCHANGED <<system, phase, honest, leaves, got>> PROVE LeafInv'
    BY <2>1 DEF LeafInv, n, Accepted, Accepts, Distinct
  <2>2. ASSUME NEW S, CheckRoot(S) \/ Finalize(S) PROVE LeafInv'
    BY <2>1, <2>2 DEF CheckRoot, Finalize
  <2> QED  BY <2>1, <2>2, LeafDisperse, LeafFaulty DEF Next, vars
<1> QED  BY <1>1, <1>2, PTL DEF Spec

(* For every number of receivers: the branch that make_value_message()     *)
(* sends verifies at the index of its receiver (process_echo() accepts it) *)
(* and at no other, so that a shard can be claimed for one receiver only.  *)
THEOREM ShardsHaveOneOwner == Spec => []BranchesSeparate
<1>1. LeafInv => BranchesSeparate
  <2> SUFFICES ASSUME LeafInv, honest, phase = "sent",
                      NEW i \in 0 .. n - 1, NEW j \in 0 .. n - 1
               PROVE  Accepts(NewTree(leaves), leaves, i, j) <=> i = j
    BY DEF BranchesSeparate
  <2>1. /\ Len(leaves) = n /\ n \in Nat \ {0} /\ Distinct(leaves)
    BY DEF LeafInv
  <2>2. n <= 2^(Levels(n) - 1) /\ 2^(Levels(n) - 1) \in Nat
    <3>1. Levels(n) \in Nat \ {0} /\ 2^(Levels(n) - 1) >= n
      BY <2>1, LevelsFacts
    <3>2. 2^(Levels(n) - 1) \in Nat
      BY <3>1, PowerStep
    <3> QED  BY <2>1, <3>1, <3>2
  <2>3. i \in 0 .. 2^(Levels(Len(leaves)) - 1) - 1 /\ j \in 0 .. Len(leaves) - 1
    BY <2>1, <2>2
  <2> QED  BY <2>1, <2>3, VerifyExactly DEF Accepts
<1> QED  BY <1>1, LeafInvariance, PTL

(* Receivers hold shards of their own leaf. *)
LEMMA OwnPlaces ==
  ASSUME LeafInv
  PROVE  OwnLeaf
<1> SUFFICES ASSUME LeafInv, phase = "sent", RoomForAll, NEW i \in 0 .. n - 1
             PROVE  got[i] \in {-1, i}
  BY DEF OwnLeaf
<1> DEFINE fit == {j \in 0 .. Len(leaves) - 1 : Accepts(NewTree(leaves), leaves, i, j)}
<1>1. Len(leaves) \in Nat \ {0} /\ Distinct(leaves) /\ n \in Nat
  BY SystemFacts DEF LeafInv
<1>2. i \in 0 .. 2^(Levels(Len(leaves)) - 1) - 1
  <2>0. Levels(Len(leaves)) \in Nat \ {0}
    BY <1>1, LevelsFacts
  <2>1. Levels(Len(leaves)) - 1 \in Nat
    BY <2>0
  <2>2. 2^(Levels(Len(leaves)) - 1) \in Nat
    BY <2>1, PowerStep
  <2> QED  BY <1>1, <2>2 DEF RoomForAll
<1>3. \A j \in fit : j = i
  BY <1>1, <1>2, VerifyExactly DEF Accepts
<1>4. got[i] = IF fit = {} THEN -1 ELSE CHOOSE j \in fit : TRUE
  BY DEF LeafInv, Accepted
<1> HIDE DEF fit
<1>5. fit # {} => (CHOOSE j \in fit : TRUE) \in fit
  BY Zenon
<1> QED  BY <1>3, <1>4, <1>5

(* For every number of receivers and every faulty sender: below a tree     *)
(* with a place for every receiver no two of them hold the same shard.     *)
(* The condition is needed, as MerkleBranch::verify() ignores the bits of  *)
(* the index above the levels of the branch.                               *)
THEOREM ReceiversHoldTheirOwn == Spec => []OwnLeaf
<1>1. LeafInv => OwnLeaf
  BY OwnPlaces
<1> QED  BY <1>1, LeafInvariance, PTL

-----------------------------------------------------------------------------
(* A root, and the items below it. *)

(* Two trees are equal from the root down to the leaves of the first. *)
SameTree(a, La, b, Lb) ==
  \A d \in 0 .. La - 1 : \A p \in 0 .. 2^d - 1 :
    At(a, La, La - 1 - d, p) = At(b, Lb, Lb - 1 - d, p)

(* They are if their roots are equal. *)
LEMMA SameBelow ==
  ASSUME NEW a, NEW b, NEW La \in Nat \ {0}, NEW Lb \in Nat \ {0}, La <= Lb,
         At(a, La, La - 1, 0) = At(b, Lb, Lb - 1, 0)
  PROVE  SameTree(a, La, b, Lb)
<1> DEFINE Same(c) == \A q \in 0 .. 2^c - 1 : At(a, La, La - 1 - c, q) = At(b, Lb, Lb - 1 - c, q)
           T == {c \in 0 .. La - 1 : ~Same(c)}
<1>1. SUFFICES ASSUME T # {} PROVE FALSE
  <2>1. SUFFICES \A d \in 0 .. La - 1 : Same(d)
    BY DEF SameTree
  <2> HIDE DEF Same
  <2> QED  BY <2>1
<1>2. PICK c \in T : \A y \in T : c <= y
  <2>1. T \subseteq Nat
    OBVIOUS
  <2> HIDE DEF T
  <2> QED  BY <1>1, <2>1, SmallestMember
<1>3. c \in 0 .. La - 1 /\ ~Same(c)
  BY <1>2
<1> HIDE DEF T
<1>4. c # 0
  <2>1. 2^0 - 1 = 0 /\ La - 1 - 0 = La - 1 /\ Lb - 1 - 0 = Lb - 1
    OBVIOUS
  <2>2. \A q \in 0 .. 0 : q = 0
    OBVIOUS
  <2>3. Same(0)
    BY <2>1, <2>2, Zenon
  <2> QED  BY <1>3, <2>3
<1>5. c - 1 \in 0 .. La - 1 /\ c - 1 \notin T /\ c - 1 \in Nat /\ (c - 1) + 1 = c
  <2> HIDE DEF Same
  <2> QED  BY <1>2, <1>3, <1>4
<1>6. Same(c - 1)
  BY <1>5 DEF T
<1>7. PICK q \in 0 .. 2^c - 1 : At(a, La, La - 1 - c, q) # At(b, Lb, Lb - 1 - c, q)
  BY <1>3
<1>8. 2^(c - 1) \in Nat /\ 2^c = 2 * 2^(c - 1)
  BY <1>5, PowerStep
<1>9. PICK h \in Nat, r \in {0, 1} : q = 2 * h + r
  <2>1. q \in Nat
    BY <1>7, <1>8
  <2> QED  BY <2>1, Halves
<1>10. h \in 0 .. 2^(c - 1) - 1
  BY <1>7, <1>8, <1>9
<1>11. At(a, La, La - 1 - (c - 1), h) = At(b, Lb, Lb - 1 - (c - 1), h)
  BY <1>6, <1>10
<1>12. ASSUME NEW x, NEW L \in Nat, L >= La
       PROVE  At(x, L, L - 1 - (c - 1), h)
                = FromNodes(At(x, L, L - 1 - c, 2 * h), At(x, L, L - 1 - c, 2 * h + 1))
  <2> DEFINE m == L - 1 - (c - 1)
  <2>1. m \in 0 .. L - 1 /\ m # 0 /\ L - 1 - m = c - 1 /\ m - 1 = L - 1 - c
    BY <1>3, <1>4, <1>12
  <2> HIDE DEF m
  <2>2. h \in 0 .. 2^(L - 1 - m) - 1
    BY <1>10, <2>1
  <2>3. At(x, L, m, h) = FromNodes(At(x, L, m - 1, 2 * h), At(x, L, m - 1, 2 * h + 1))
    BY <1>12, <2>1, <2>2, TreeNodes
  <2> QED  BY <2>1, <2>3 DEF m
<1>13. /\ At(a, La, La - 1 - (c - 1), h)
            = FromNodes(At(a, La, La - 1 - c, 2 * h), At(a, La, La - 1 - c, 2 * h + 1))
       /\ At(b, Lb, Lb - 1 - (c - 1), h)
            = FromNodes(At(b, Lb, Lb - 1 - c, 2 * h), At(b, Lb, Lb - 1 - c, 2 * h + 1))
  BY <1>12
<1>14. FromNodes(At(a, La, La - 1 - c, 2 * h), At(a, La, La - 1 - c, 2 * h + 1))
         = FromNodes(At(b, Lb, Lb - 1 - c, 2 * h), At(b, Lb, Lb - 1 - c, 2 * h + 1))
  BY <1>11, <1>13, Zenon
<1>15. /\ At(a, La, La - 1 - c, 2 * h) = At(b, Lb, Lb - 1 - c, 2 * h)
       /\ At(a, La, La - 1 - c, 2 * h + 1) = At(b, Lb, Lb - 1 - c, 2 * h + 1)
  BY <1>14, SameNodes
<1>16. q = 2 * h \/ q = 2 * h + 1
  BY <1>9
<1> QED  BY <1>7, <1>15, <1>16, Zenon

(* Trees with equal roots have the same number of levels. *)
LEMMA SameLevels ==
  ASSUME NEW a, NEW b, Len(a) \in Nat \ {0}, NEW La \in Nat \ {0}, NEW Lb \in Nat \ {0}, La <= Lb,
         At(a, La, La - 1, 0) = At(b, Lb, Lb - 1, 0)
  PROVE  La = Lb
<1>1. SUFFICES ASSUME La # Lb PROVE FALSE
  OBVIOUS
<1> DEFINE m == Lb - La
<1>2. La - 1 \in 0 .. La - 1 /\ La - 1 - (La - 1) = 0 /\ Lb - 1 - (La - 1) = m
  OBVIOUS
<1>3. m \in 0 .. Lb - 1 /\ m # 0
  BY <1>1
<1>4. ASSUME NEW k \in Nat PROVE 0 \in 0 .. 2^k - 1
  <2>1. 2^k \in Nat \ {0}
    BY PowerPositive
  <2> QED  BY <2>1
<1>5. At(a, La, 0, 0) = At(b, Lb, m, 0)
  <2>1. At(a, La, La - 1 - (La - 1), 0) = At(b, Lb, Lb - 1 - (La - 1), 0)
    <3>1. PICK d \in 0 .. La - 1 : d = La - 1
      BY <1>2
    <3>2. 0 \in 0 .. 2^d - 1
      BY <1>4
    <3>3. SameTree(a, La, b, Lb)
      BY SameBelow
    <3>4. At(a, La, La - 1 - d, 0) = At(b, Lb, Lb - 1 - d, 0)
      BY <3>2, <3>3, Zenon DEF SameTree
    <3> QED  BY <3>1, <3>4
  <2> QED  BY <1>2, <2>1
<1>6. At(a, La, 0, 0) = FromValue(a[0 + 1])
  <2>1. 0 \in 0 .. La - 1 /\ 0 \in 0 .. 2^(La - 1 - 0) - 1
    BY <1>4
  <2>2. At(a, La, 0, 0) = Leaf(a, 0)
    BY <2>1, TreeNodes
  <2> QED  BY <2>2 DEF Leaf
<1>7. At(b, Lb, m, 0) = FromNodes(At(b, Lb, m - 1, 2 * 0), At(b, Lb, m - 1, 2 * 0 + 1))
  <2>1. Lb - 1 - m \in Nat
    OBVIOUS
  <2>2. 0 \in 0 .. 2^(Lb - 1 - m) - 1
    BY <1>4, <2>1
  <2> HIDE DEF m
  <2> QED  BY <1>3, <2>2, TreeNodes
<1>8. \A x, y, z : FromValue(x) # FromNodes(y, z)
  BY DEF FromValue, FromNodes
<1> QED  BY <1>5, <1>6, <1>7, <1>8, Zenon

(* A root stands for one sequence of items. *)
LEMMA SameRoot ==
  ASSUME NEW a, NEW b, Len(a) \in Nat \ {0}, Len(b) \in Nat \ {0},
         Root(NewTree(a)) = Root(NewTree(b))
  PROVE  Len(a) = Len(b) /\ \A i \in 1 .. Len(a) : a[i] = b[i]
<1> DEFINE La == Levels(Len(a))
           Lb == Levels(Len(b))
<1>1. /\ La \in Nat \ {0} /\ 2^(La - 1) >= Len(a)
      /\ Lb \in Nat \ {0} /\ 2^(Lb - 1) >= Len(b)
  BY LevelsFacts
<1>2. ASSUME NEW x, NEW L \in Nat \ {0}, L = Levels(Len(x))
      PROVE  Root(NewTree(x)) = At(x, L, L - 1, 0)
  <2>1. NewTree(x).levels = L /\ NewTree(x).nodes = Nodes(x, L)
    BY <1>2 DEF NewTree
  <2> QED  BY <2>1, RootAt DEF Root
<1>3. At(a, La, La - 1, 0) = At(b, Lb, Lb - 1, 0)
  BY <1>1, <1>2
<1> HIDE DEF La, Lb
<1>4. La = Lb
  <2>1. La <= Lb \/ Lb <= La
    BY <1>1
  <2> QED  BY <1>1, <1>3, <2>1, SameLevels
<1>5. 2^(La - 1) \in Nat
  BY <1>1, PowerStep
<1>6. ASSUME NEW p \in 0 .. 2^(La - 1) - 1 PROVE Leaf(a, p) = Leaf(b, p)
  <2>1. La - 1 \in 0 .. La - 1 /\ La - 1 - (La - 1) = 0 /\ 0 \in 0 .. La - 1 /\ La - 1 - 0 = La - 1
    BY <1>1
  <2>2. At(a, La, La - 1 - (La - 1), p) = At(b, La, La - 1 - (La - 1), p)
    <3>1. PICK d \in 0 .. La - 1 : d = La - 1
      BY <2>1
    <3>2. La <= La /\ At(a, La, La - 1, 0) = At(b, La, La - 1, 0) /\ p \in 0 .. 2^d - 1
      BY <1>1, <1>3, <1>4, <3>1
    <3>3. SameTree(a, La, b, La)
      BY <1>1, <3>2, SameBelow
    <3>4. At(a, La, La - 1 - d, p) = At(b, La, La - 1 - d, p)
      BY <3>2, <3>3, Zenon DEF SameTree
    <3> QED  BY <3>1, <3>4
  <2>3. ASSUME NEW x PROVE At(x, La, 0, p) = Leaf(x, p)
    <3>1. p \in 0 .. 2^(La - 1 - 0) - 1
      BY <2>1
    <3> QED  BY <1>1, <2>1, <3>1, TreeNodes
  <2> QED  BY <2>1, <2>2, <2>3
<1>7. ASSUME NEW p \in 0 .. 2^(La - 1) - 1
      PROVE  (p < Len(a) <=> p < Len(b)) /\ (p < Len(a) => a[p + 1] = b[p + 1])
  <2>1. Leaf(a, p) = Leaf(b, p)
    BY <1>6
  <2>2. CASE p < Len(a) /\ p < Len(b)
    BY <2>1, <2>2, Hashes DEF Leaf
  <2>3. CASE p < Len(a) /\ ~(p < Len(b))
    BY <2>1, <2>3, Hashes DEF Leaf
  <2>4. CASE ~(p < Len(a)) /\ p < Len(b)
    BY <2>1, <2>4, Hashes DEF Leaf
  <2> QED  BY <2>2, <2>3, <2>4
<1>8. Len(a) = Len(b)
  <2>1. Len(a) < Len(b) => FALSE
    <3>1. SUFFICES ASSUME Len(a) < Len(b) PROVE FALSE
      OBVIOUS
    <3>2. Len(a) \in 0 .. 2^(La - 1) - 1
      BY <1>1, <1>4, <1>5, <3>1
    <3> QED  BY <1>7, <3>1, <3>2
  <2>2. Len(b) < Len(a) => FALSE
    <3>1. SUFFICES ASSUME Len(b) < Len(a) PROVE FALSE
      OBVIOUS
    <3>2. Len(b) \in 0 .. 2^(La - 1) - 1
      BY <1>1, <1>4, <1>5, <3>1
    <3> QED  BY <1>7, <3>1, <3>2
  <2> QED  BY <2>1, <2>2
<1>9. ASSUME NEW i \in 1 .. Len(a) PROVE a[i] = b[i]
  <2>1. i - 1 \in 0 .. 2^(La - 1) - 1 /\ i - 1 < Len(a) /\ (i - 1) + 1 = i
    BY <1>1, <1>5
  <2> QED  BY <1>7, <2>1
<1> QED  BY <1>8, <1>9

-----------------------------------------------------------------------------
(* The coder, from what it promises: any k shards give back all of them.  *)

(* A scheme that new_inner() accepts, and what is sharded under it. *)
SchemeType == [original_shards : Nat \ {0}, recovery_shards : Nat, shard_size : Nat, padding : Nat]

ChunksOf(s) == [1 .. s.original_shards -> [1 .. s.shard_size -> Byte]]

(* Encoded::new_inner(): the originals, then what the coder computes. *)
LEMMA EncodeShards ==
  ASSUME NEW s, s.recovery_shards \in Nat, NEW chunks, NEW t \in Nat, Len(chunks) = t
  PROVE  /\ Len(Encode(s, chunks)) = t + s.recovery_shards
         /\ \A i \in 1 .. t + s.recovery_shards :
              Encode(s, chunks)[i]
                = IF i <= t
                    THEN [data |-> chunks[i], kind |-> "Original", idx |-> i - 1]
                    ELSE [data |-> Extrapolate([p \in 0 .. t - 1 |-> chunks[p + 1]],
                                               s.shard_size, i - 1),
                          kind |-> "Recovery", idx |-> i - t - 1]
<1> DEFINE r == s.recovery_shards
           Given == [k \in 1 .. t |->
                       [data |-> chunks[k], kind |-> "Original", idx |-> k - 1]]
           Column(x) == Extrapolate([p \in 0 .. t - 1 |-> chunks[p + 1]], s.shard_size, x)
           Extra == [j \in 1 .. r |->
                       [data |-> Column(t + j - 1), kind |-> "Recovery", idx |-> j - 1]]
           Shards == {Given[k] : k \in 1 .. t} \cup {Extra[k] : k \in 1 .. r}
<1>1. Encode(s, chunks) = Given \o Extra
  BY DEF Encode
<1> HIDE DEF Column
<1>2. Given \in [1 .. t -> Shards] /\ Extra \in [1 .. r -> Shards]
  OBVIOUS
<1>3. t \in Nat /\ r \in Nat
  OBVIOUS
<1>4. \A k \in 1 .. t : Given[k] = [data |-> chunks[k], kind |-> "Original", idx |-> k - 1]
  OBVIOUS
<1>5. \A j \in 1 .. r :
        Extra[j] = [data |-> Column(t + j - 1), kind |-> "Recovery", idx |-> j - 1]
  OBVIOUS
<1> HIDE DEF Given, Extra, Shards, r
<1>6. Given \in Seq(Shards) /\ Len(Given) = t
  BY <1>2, <1>3, FunctionIsSeq
<1>7. Extra \in Seq(Shards) /\ Len(Extra) = r
  BY <1>2, <1>3, FunctionIsSeq
<1>8. Len(Given \o Extra) = t + r
  <2>1. Len(Given \o Extra) = Len(Given) + Len(Extra)
    BY <1>6, <1>7
  <2> QED  BY <1>6, <1>7, <2>1, Zenon
<1>9. ASSUME NEW i \in 1 .. t + r
      PROVE  (Given \o Extra)[i] = IF i <= t THEN Given[i] ELSE Extra[i - t]
  <2>1. CASE i <= t
    <3>1. i \in 1 .. Len(Given)
      BY <1>3, <1>6, <2>1
    <3>2. (Given \o Extra)[i] = Given[i]
      BY <1>6, <1>7, <3>1
    <3> QED  BY <2>1, <3>2
  <2>2. CASE ~(i <= t)
    <3>1. i \in Len(Given) + 1 .. Len(Given) + Len(Extra) /\ i - Len(Given) = i - t
      BY <1>3, <1>6, <1>7, <2>2
    <3>2. (Given \o Extra)[i] = Extra[i - Len(Given)]
      BY <1>6, <1>7, <3>1
    <3> QED  BY <2>2, <3>1, <3>2
  <2> QED  BY <2>1, <2>2
<1>10. ASSUME NEW i \in 1 .. t + r
       PROVE  (Given \o Extra)[i]
                = IF i <= t THEN [data |-> chunks[i], kind |-> "Original", idx |-> i - 1]
                  ELSE [data |-> Column(i - 1), kind |-> "Recovery", idx |-> i - t - 1]
  <2>1. CASE i <= t
    <3>1. i \in 1 .. t
      BY <1>3, <2>1
    <3> QED  BY <1>4, <1>9, <2>1, <3>1, Zenon
  <2>2. CASE ~(i <= t)
    <3>1. i - t \in 1 .. r /\ t + (i - t) - 1 = i - 1
      BY <1>3, <2>2
    <3>2. Extra[i - t] = [data |-> Column(i - 1), kind |-> "Recovery", idx |-> i - t - 1]
      BY <1>5, <3>1
    <3> QED  BY <1>9, <2>2, <3>2, Zenon
  <2> QED  BY <2>1, <2>2
<1>11. \A i \in 1 .. t + r :
         Encode(s, chunks)[i]
           = IF i <= t THEN [data |-> chunks[i], kind |-> "Original", idx |-> i - 1]
             ELSE [data |-> Column(i - 1), kind |-> "Recovery", idx |-> i - t - 1]
  BY <1>1, <1>10, Zenon
<1> QED  BY <1>1, <1>8, <1>11, Zenon DEF r, Column

(* The bytes of the originals in one column, and the shard that the code   *)
(* puts at point x.                                                        *)
Word(s, chunks, b) == [p \in 0 .. s.original_shards - 1 |-> chunks[p + 1][b]]

CodeAt(s, chunks, x) == [b \in 1 .. s.shard_size |-> Symbol(Word(s, chunks, b), x)]

(* The coder keeps its promise under this scheme. *)
Coded(s) == s.recovery_shards # 0 /\ IsCode(s.original_shards, s.recovery_shards)

(* The bytes that a coder works on together. *)
LEMMA WordType ==
  ASSUME NEW s \in SchemeType, NEW chunks \in ChunksOf(s), NEW b \in 1 .. s.shard_size
  PROVE  Word(s, chunks, b) \in [0 .. s.original_shards - 1 -> Byte]
<1>1. s.original_shards \in Nat
  BY DEF SchemeType
<1>2. ASSUME NEW p \in 0 .. s.original_shards - 1 PROVE chunks[p + 1][b] \in Byte
  <2>1. p + 1 \in 1 .. s.original_shards
    BY <1>1
  <2>2. chunks[p + 1] \in [1 .. s.shard_size -> Byte]
    BY <2>1 DEF ChunksOf
  <2> QED  BY <2>2
<1> QED  BY <1>2 DEF Word

(* The codeword holds the originals as they are. *)
LEMMA CodeOriginal ==
  ASSUME NEW s \in SchemeType, Coded(s), NEW chunks \in ChunksOf(s),
         NEW i \in 1 .. s.original_shards
  PROVE  CodeAt(s, chunks, i - 1) = chunks[i]
<1> DEFINE k == s.original_shards
<1>1. k \in Nat /\ i - 1 \in 0 .. k - 1 /\ (i - 1) + 1 = i
  BY DEF SchemeType
<1>2. chunks[i] \in [1 .. s.shard_size -> Byte]
  BY DEF ChunksOf
<1>3. ASSUME NEW b \in 1 .. s.shard_size
      PROVE  Symbol(Word(s, chunks, b), i - 1) = chunks[i][b]
  <2>1. Symbol(Word(s, chunks, b), i - 1) = Word(s, chunks, b)[i - 1]
    BY <1>1, WordType DEF Coded, IsCode
  <2>2. Word(s, chunks, b)[i - 1] = chunks[(i - 1) + 1][b]
    BY <1>1, Zenon DEF Word
  <2> QED  BY <1>1, <2>1, <2>2
<1> QED  BY <1>2, <1>3 DEF CodeAt

(* Encoding makes the shards of a codeword, each at its own point. *)
LEMMA EncodeCode ==
  ASSUME NEW s \in SchemeType, Coded(s), NEW chunks \in ChunksOf(s),
         NEW i \in 1 .. s.original_shards + s.recovery_shards
  PROVE  LET shard == Encode(s, chunks)[i]
         IN /\ shard.data = CodeAt(s, chunks, i - 1)
            /\ shard.kind = IF i <= s.original_shards THEN "Original" ELSE "Recovery"
            /\ shard.idx = IF i <= s.original_shards THEN i - 1 ELSE i - s.original_shards - 1
<1> DEFINE k == s.original_shards
           r == s.recovery_shards
<1>1. k \in Nat /\ r \in Nat /\ s.shard_size \in Nat
  BY DEF SchemeType
<1>2. Len(chunks) = k
  BY <1>1, FunctionIsSeq DEF ChunksOf
<1>3. Encode(s, chunks)[i]
        = IF i <= k
            THEN [data |-> chunks[i], kind |-> "Original", idx |-> i - 1]
            ELSE [data |-> Extrapolate([p \in 0 .. k - 1 |-> chunks[p + 1]],
                                       s.shard_size, i - 1),
                  kind |-> "Recovery", idx |-> i - k - 1]
  BY <1>1, <1>2, EncodeShards
<1>4. CASE i <= k
  <2>1. i \in 1 .. k /\ i - 1 \in 0 .. k - 1 /\ (i - 1) + 1 = i
    BY <1>1, <1>4
  <2>4. CodeAt(s, chunks, i - 1) = chunks[i]
    BY <2>1, CodeOriginal
  <2> QED  BY <1>3, <1>4, <2>4
<1>5. CASE ~(i <= k)
  <2> DEFINE known == [p \in 0 .. k - 1 |-> chunks[p + 1]]
  <2>1. Extrapolate(known, s.shard_size, i - 1) = CodeAt(s, chunks, i - 1)
    <3>1. DOMAIN known = 0 .. k - 1
      OBVIOUS
    <3>2. \A b \in 1 .. s.shard_size : [p \in DOMAIN known |-> known[p][b]] = Word(s, chunks, b)
      BY DEF Word
    <3> HIDE DEF known
    <3> QED  BY <3>2, Zenon DEF Extrapolate, CodeAt
  <2> QED  BY <1>3, <1>5, <2>1
<1> QED  BY <1>4, <1>5

(* Every finite set has subsets of all smaller sizes. *)
LEMMA SubsetOfSize ==
  ASSUME NEW S, IsFiniteSet(S), NEW k \in Nat, k <= Cardinality(S)
  PROVE  \E K \in SUBSET S : Cardinality(K) = k
<1> DEFINE T == {c \in Nat : k <= c /\ \E K \in SUBSET S : Cardinality(K) = c}
<1>1. Cardinality(S) \in T
  BY FS_CardinalityType
<1>2. PICK c \in T : \A y \in T : c <= y
  <2>1. T \subseteq Nat /\ T # {}
    BY <1>1
  <2> HIDE DEF T
  <2> QED  BY <2>1, SmallestMember
<1>3. PICK K \in SUBSET S : Cardinality(K) = c
  BY <1>2
<1>4. c = k
  <2>1. SUFFICES ASSUME c # k PROVE FALSE
    OBVIOUS
  <2>2. c \in Nat /\ c - 1 \in Nat /\ k <= c - 1 /\ c # 0
    BY <1>2, <2>1
  <2>3. IsFiniteSet(K)
    BY <1>3, FS_Subset
  <2>4. K # {}
    BY <1>3, <2>2, FS_EmptySet
  <2>5. PICK e \in K : TRUE
    BY <2>4
  <2>6. Cardinality(K \ {e}) = c - 1 /\ K \ {e} \in SUBSET S
    BY <1>3, <2>3, <2>5, FS_RemoveElement
  <2>7. c - 1 \in T
    BY <2>2, <2>6
  <2>8. c <= c - 1
    BY <1>2, <2>7
  <2> QED  BY <2>2, <2>8
<1> QED  BY <1>3, <1>4

(* Any k shards of a codeword determine it at every point. *)
LEMMA CodeFromAny ==
  ASSUME NEW s \in SchemeType, Coded(s), NEW chunks \in ChunksOf(s),
         NEW K \in SUBSET (0 .. s.original_shards + s.recovery_shards - 1),
         Cardinality(K) = s.original_shards,
         NEW part, part = [p \in K |-> CodeAt(s, chunks, p)],
         NEW x \in 0 .. s.original_shards + s.recovery_shards - 1
  PROVE  Extrapolate(part, s.shard_size, x) = CodeAt(s, chunks, x)
<1> DEFINE k == s.original_shards
           r == s.recovery_shards
<1>1. ASSUME NEW b \in 1 .. s.shard_size
      PROVE  Symbol([p \in DOMAIN part |-> part[p][b]], x) = Symbol(Word(s, chunks, b), x)
  <2>1. PICK word \in [0 .. k - 1 -> Byte] : word = Word(s, chunks, b)
    BY WordType
  <2>2. [p \in DOMAIN part |-> part[p][b]] = [p \in K |-> Symbol(word, p)]
    BY <2>1 DEF CodeAt
  <2>3. K \in kSubset(k, 0 .. k + r - 1)
    BY DEF kSubset
  <2>4. Symbol([p \in K |-> Symbol(word, p)], x) = Symbol(word, x)
    BY <2>3 DEF Coded, IsCode
  <2> QED  BY <2>1, <2>2, <2>4, Zenon
<1> QED  BY <1>1, Zenon DEF Extrapolate, CodeAt

(* The decoder restores the missing originals of a codeword, and nothing   *)
(* else.                                                                   *)
LEMMA RestoredCode ==
  ASSUME NEW s \in SchemeType, Coded(s), NEW chunks \in ChunksOf(s),
         NEW K \in SUBSET (0 .. s.original_shards + s.recovery_shards - 1),
         s.original_shards <= Cardinality(K),
         NEW known, known = [p \in K |-> CodeAt(s, chunks, p)]
  PROVE  Restored(s, known)
           = {[x \in (0 .. s.original_shards - 1) \ K |-> CodeAt(s, chunks, x)]}
<1> DEFINE k == s.original_shards
           r == s.recovery_shards
           base == CHOOSE T \in kSubset(k, DOMAIN known) : TRUE
           AtPoint(x) == Extrapolate([p \in base |-> known[p]], s.shard_size, x)
           missing == (0 .. k - 1) \ DOMAIN known
           garbled == {b \in 1 .. s.shard_size :
                         \E x \in DOMAIN known \ base : known[x][b] # AtPoint(x)[b]}
           Column(g, x) == [b \in 1 .. s.shard_size |->
                              IF b \in garbled THEN g[x][b] ELSE AtPoint(x)[b]]
           whole == [x \in missing |-> CodeAt(s, chunks, x)]
<1>1. Restored(s, known)
        = {[x \in missing |-> Column(g, x)] : g \in [missing -> [garbled -> Byte]]}
  BY DEF Restored
<1>2. k \in Nat /\ r \in Nat /\ DOMAIN known = K
  BY DEF SchemeType
<1>3. base \in SUBSET K /\ Cardinality(base) = k
  <2>1. IsFiniteSet(K)
    <3>1. IsFiniteSet(0 .. k + r - 1)
      <4>1. 0 \in Int /\ k + r - 1 \in Int
        BY <1>2
      <4> QED  BY <4>1, FS_Interval
    <3> QED  BY <3>1, FS_Subset
  <2>2. \E T \in SUBSET K : Cardinality(T) = k
    <3> HIDE DEF k
    <3> QED  BY <1>2, <2>1, SubsetOfSize DEF k
  <2>3. kSubset(k, DOMAIN known) # {}
    BY <1>2, <2>2 DEF kSubset
  <2>4. base \in kSubset(k, DOMAIN known)
    BY <2>3, Zenon
  <2> HIDE DEF base
  <2> QED  BY <1>2, <2>4 DEF kSubset
<1> HIDE DEF base
<1>4. ASSUME NEW x \in 0 .. k + r - 1 PROVE AtPoint(x) = CodeAt(s, chunks, x)
  <2>1. [p \in base |-> known[p]] = [p \in base |-> CodeAt(s, chunks, p)]
    BY <1>3
  <2>2. base \in SUBSET (0 .. k + r - 1)
    BY <1>3
  <2> QED  BY <1>3, <2>1, <2>2, CodeFromAny
<1> HIDE DEF AtPoint
<1>5. garbled = {}
  <2>1. ASSUME NEW x \in K PROVE known[x] = AtPoint(x)
    BY <1>4
  <2> QED  BY <1>2, <2>1
<1> HIDE DEF garbled
<1>6. ASSUME NEW g, NEW x \in missing PROVE Column(g, x) = CodeAt(s, chunks, x)
  <2>1. x \in 0 .. k + r - 1
    BY <1>2
  <2>2. AtPoint(x) = CodeAt(s, chunks, x)
    BY <1>4, <2>1
  <2> QED  BY <1>5, <2>2 DEF CodeAt
<1> HIDE DEF Column
<1>7. ASSUME NEW g PROVE [x \in missing |-> Column(g, x)] = whole
  BY <1>6
<1>8. [missing -> [garbled -> Byte]] # {}
  <2>1. [y \in {} |-> 0] \in [{} -> Byte]
    OBVIOUS
  <2>2. [x \in missing |-> [y \in {} |-> 0]] \in [missing -> [{} -> Byte]]
    BY <2>1
  <2> QED  BY <1>5, <2>2
<1> HIDE DEF missing, whole
<1>9. Restored(s, known) = {whole}
  BY <1>1, <1>7, <1>8
<1> QED  BY <1>2, <1>9 DEF whole, missing

(* Shards of a codeword, those of the receivers in S. *)
PartOf(s, chunks, S, g, shards) ==
  /\ g \in [S -> 0 .. s.original_shards + s.recovery_shards - 1]
  /\ DOMAIN shards = S
  /\ \A p \in S : shards[p] = Encode(s, chunks)[g[p] + 1]

(* They are at the points of their leaves. *)
LEMMA PartShards ==
  ASSUME NEW s \in SchemeType, Coded(s), NEW chunks \in ChunksOf(s), NEW S, NEW g, NEW shards,
         PartOf(s, chunks, S, g, shards), NEW p \in S
  PROVE  /\ shards[p].data = CodeAt(s, chunks, g[p])
         /\ shards[p].kind = "Original" <=> g[p] < s.original_shards
         /\ shards[p].idx = IF g[p] < s.original_shards THEN g[p] ELSE g[p] - s.original_shards
         /\ Point(s, shards[p]) = g[p]
<1> DEFINE k == s.original_shards
           r == s.recovery_shards
           i == g[p] + 1
<1>1. k \in Nat /\ r \in Nat
  BY DEF SchemeType
<1>2. g[p] \in 0 .. k + r - 1
  BY DEF PartOf
<1>3. i \in 1 .. k + r /\ i - 1 = g[p] /\ (i <= k <=> g[p] < k) /\ i - k - 1 = g[p] - k
  BY <1>1, <1>2
<1>4. shards[p] = Encode(s, chunks)[i]
  BY DEF PartOf
<1> HIDE DEF i
<1>5. /\ shards[p].data = CodeAt(s, chunks, i - 1)
      /\ shards[p].kind = IF i <= k THEN "Original" ELSE "Recovery"
      /\ shards[p].idx = IF i <= k THEN i - 1 ELSE i - k - 1
  BY <1>3, <1>4, EncodeCode
<1> HIDE DEF k, r
<1>6. CASE g[p] < k
  <2>1. shards[p].kind = "Original" /\ shards[p].idx = g[p]
    BY <1>3, <1>5, <1>6
  <2> QED  BY <1>2, <1>3, <1>5, <1>6, <2>1 DEF Point, k
<1>7. CASE ~(g[p] < k)
  <2>1. shards[p].kind = "Recovery" /\ shards[p].idx = g[p] - k
    BY <1>3, <1>5, <1>7
  <2>2. (g[p] - k) + k = g[p]
    BY <1>1, <1>2
  <2>3. "Recovery" # "Original"
    OBVIOUS
  <2> QED  BY <1>3, <1>5, <1>7, <2>1, <2>2, <2>3 DEF Point, k
<1> QED  BY <1>6, <1>7 DEF k

(* The decoder gives back the chunks of a codeword, whichever of its       *)
(* shards it gets.                                                         *)
LEMMA DecodeCode ==
  ASSUME NEW s \in SchemeType, Coded(s), NEW chunks \in ChunksOf(s),
         NEW S \in SUBSET Nat, IsFiniteSet(S), NEW g, NEW shards,
         PartOf(s, chunks, S, g, shards), Decodable(s, shards)
  PROVE  Decoded(s, shards) = {chunks}
<1> DEFINE k == s.original_shards
           r == s.recovery_shards
           senders(idx) == {p \in DOMAIN shards : shards[p].kind = "Original" /\ shards[p].idx = idx}
           originals == {shards[p].idx : p \in {q \in DOMAIN shards : shards[q].kind = "Original"}}
           given == [idx \in originals |-> shards[Max(senders(idx))].data]
           known == [x \in {Point(s, shards[p]) : p \in DOMAIN shards} |->
                       shards[CHOOSE p \in DOMAIN shards : Point(s, shards[p]) = x].data]
           Filled(rest) == [i \in 1 .. k |-> IF i - 1 \in originals THEN given[i - 1] ELSE rest[i - 1]]
           K == {g[p] : p \in S}
           whole == [x \in (0 .. k - 1) \ K |-> CodeAt(s, chunks, x)]
<1>1. Decoded(s, shards) = {Filled(rest) : rest \in Restored(s, known)}
  BY DEF Decoded, Coded
<1>2. k \in Nat /\ r \in Nat /\ DOMAIN shards = S /\ g \in [S -> 0 .. k + r - 1]
  BY DEF SchemeType, PartOf
<1>3. \A p \in S : /\ shards[p].data = CodeAt(s, chunks, g[p])
                   /\ shards[p].kind = "Original" <=> g[p] < k
                   /\ shards[p].idx = IF g[p] < k THEN g[p] ELSE g[p] - k
                   /\ Point(s, shards[p]) = g[p]
  BY PartShards
<1>4. \A p, q \in S : g[p] = g[q] => p = q
  BY <1>2, <1>3 DEF Decodable
<1>5. K \in SUBSET (0 .. k + r - 1) /\ k <= Cardinality(K)
  <2>1. g \in Bijection(S, K)
    <3>1. g \in [S -> K] /\ \A x \in K : \E p \in S : g[p] = x
      BY <1>2
    <3> HIDE DEF K
    <3> QED  BY <1>4, <3>1 DEF Bijection, Injection, Surjection, IsInjective
  <2>2. Cardinality(K) = Cardinality(S)
    <3> HIDE DEF K
    <3> QED  BY <2>1, FS_Bijection DEF ExistsBijection
  <2>3. k <= Cardinality(S)
    <3>1. Cardinality(S) >= k
      BY <1>2 DEF Decodable
    <3> QED  BY <1>2, <3>1, FS_CardinalityType
  <2> QED  BY <1>2, <2>2, <2>3
<1>6. known = [x \in K |-> CodeAt(s, chunks, x)]
  <2>1. {Point(s, shards[p]) : p \in DOMAIN shards} = K
    BY <1>2, <1>3
  <2>2. ASSUME NEW x \in K
        PROVE  shards[CHOOSE p \in DOMAIN shards : Point(s, shards[p]) = x].data = CodeAt(s, chunks, x)
    <3>1. \E p \in DOMAIN shards : Point(s, shards[p]) = x
      BY <1>2, <1>3
    <3>2. PICK p : p = CHOOSE q \in DOMAIN shards : Point(s, shards[q]) = x
      OBVIOUS
    <3>3. p \in DOMAIN shards /\ Point(s, shards[p]) = x
      BY <3>1, <3>2, Zenon
    <3>4. shards[p].data = CodeAt(s, chunks, x)
      BY <1>2, <1>3, <3>3
    <3> QED  BY <3>2, <3>4
  <2> HIDE DEF K
  <2> QED  BY <2>1, <2>2
<1>7. Restored(s, known) = {whole}
  <2> HIDE DEF known, K
  <2> QED  BY <1>5, <1>6, RestoredCode DEF whole
<1>8. originals = K \cap (0 .. k - 1)
  <2>1. ASSUME NEW x \in originals PROVE x \in K \cap (0 .. k - 1)
    <3>1. PICK p \in S : shards[p].kind = "Original" /\ x = shards[p].idx
      BY <1>2, <2>1
    <3>2. g[p] < k /\ x = g[p] /\ g[p] \in 0 .. k + r - 1
      BY <1>2, <1>3, <3>1
    <3> QED  BY <1>2, <3>2
  <2>2. ASSUME NEW x \in K \cap (0 .. k - 1) PROVE x \in originals
    <3>1. PICK p \in S : x = g[p]
      BY <2>2
    <3>2. g[p] < k
      BY <1>2, <2>2, <3>1
    <3>3. shards[p].kind = "Original" /\ shards[p].idx = x
      BY <1>3, <3>1, <3>2
    <3> QED  BY <1>2, <3>3
  <2> QED  BY <2>1, <2>2
<1>9. ASSUME NEW x \in originals PROVE given[x] = CodeAt(s, chunks, x)
  <2>1. PICK p \in S : x = g[p] /\ g[p] < k
    BY <1>2, <1>8
  <2>2. senders(x) = {p}
    <3>1. p \in senders(x)
      BY <1>2, <1>3, <2>1
    <3>2. ASSUME NEW q \in senders(x) PROVE q = p
      <4>1. q \in S /\ g[q] = x
        BY <1>2, <1>3, <3>2
      <4> QED  BY <1>4, <2>1, <4>1
    <3> QED  BY <3>1, <3>2
  <2>3. Max({p}) = p
    <3>1. p \in Nat
      OBVIOUS
    <3>2. p \in {p} /\ \A y \in {p} : p >= y
      BY <3>1
    <3>3. (CHOOSE q \in {p} : \A y \in {p} : q >= y) \in {p}
      BY <3>2, Zenon
    <3> QED  BY <3>3 DEF Max
  <2>4. given[x] = shards[Max(senders(x))].data
    BY Zenon
  <2> HIDE DEF given, senders
  <2> QED  BY <1>3, <2>1, <2>2, <2>3, <2>4
<1> HIDE DEF given, originals
<1>10. Filled(whole) = chunks
  <2>1. ASSUME NEW i \in 1 .. k
        PROVE  (IF i - 1 \in originals THEN given[i - 1] ELSE whole[i - 1]) = chunks[i]
    <3>1. CodeAt(s, chunks, i - 1) = chunks[i]
      BY CodeOriginal
    <3>2. i - 1 \in 0 .. k - 1
      BY <1>2
    <3>3. CASE i - 1 \in originals
      BY <1>9, <3>1, <3>3
    <3>4. CASE i - 1 \notin originals
      <4>1. i - 1 \in (0 .. k - 1) \ K
        BY <1>8, <3>2, <3>4
      <4> HIDE DEF K
      <4> QED  BY <3>1, <3>4, <4>1
    <3> QED  BY <3>3, <3>4
  <2>2. chunks = [i \in 1 .. k |-> chunks[i]]
    BY DEF ChunksOf
  <2> HIDE DEF whole
  <2> QED  BY <2>1, <2>2
<1> HIDE DEF Filled, whole, known
<1> QED  BY <1>1, <1>7, <1>10

(* Different shards of a codeword, if there are enough of them, are what   *)
(* the decoder asks for.                                                   *)
LEMMA PartDecodable ==
  ASSUME NEW s \in SchemeType, Coded(s), NEW chunks \in ChunksOf(s), NEW S, NEW g, NEW shards,
         PartOf(s, chunks, S, g, shards),
         \A p, q \in S : g[p] = g[q] => p = q,
         Cardinality(S) >= s.original_shards
  PROVE  Decodable(s, shards)
<1> DEFINE k == s.original_shards
           r == s.recovery_shards
<1>1. k \in Nat /\ r \in Nat /\ s.shard_size \in Nat /\ DOMAIN shards = S
  BY DEF SchemeType, PartOf
<1>2. ASSUME NEW p \in S
      PROVE  /\ Len(shards[p].data) = s.shard_size
             /\ shards[p].idx < (IF shards[p].kind = "Original" THEN k ELSE r)
             /\ Point(s, shards[p]) = g[p]
  <2>1. g[p] \in 0 .. k + r - 1
    BY DEF PartOf
  <2>2. /\ shards[p].data = CodeAt(s, chunks, g[p])
        /\ shards[p].kind = "Original" <=> g[p] < k
        /\ shards[p].idx = IF g[p] < k THEN g[p] ELSE g[p] - k
        /\ Point(s, shards[p]) = g[p]
    BY PartShards
  <2>3. Len(CodeAt(s, chunks, g[p])) = s.shard_size
    <3>1. CodeAt(s, chunks, g[p]) = [b \in 1 .. s.shard_size |-> CodeAt(s, chunks, g[p])[b]]
      BY DEF CodeAt
    <3> QED  BY <1>1, <3>1, RowLength
  <2> HIDE DEF k, r
  <2>4. CASE g[p] < k
    BY <2>2, <2>3, <2>4
  <2>5. CASE ~(g[p] < k)
    <3>1. g[p] - k < r
      BY <1>1, <2>1, <2>5 DEF k, r
    <3> QED  BY <2>2, <2>3, <2>5, <3>1
  <2> QED  BY <2>4, <2>5
<1> QED  BY <1>1, <1>2 DEF Decodable

(* The chunks that the decoder returns have the size of the scheme, no     *)
(* matter what the shards hold.                                            *)
LEMMA DecodedSize ==
  ASSUME NEW s \in SchemeType, s.recovery_shards # 0, NEW shards, DOMAIN shards \subseteq Nat,
         \A p \in DOMAIN shards : shards[p].idx \in Nat,
         NEW chunks \in Decoded(s, shards)
  PROVE  /\ Decodable(s, shards)
         /\ chunks = [i \in 1 .. s.original_shards |-> chunks[i]]
         /\ \A i \in 1 .. s.original_shards : Len(chunks[i]) = s.shard_size
<1> DEFINE k == s.original_shards
           senders(idx) == {p \in DOMAIN shards : shards[p].kind = "Original" /\ shards[p].idx = idx}
           originals == {shards[p].idx : p \in {q \in DOMAIN shards : shards[q].kind = "Original"}}
           given == [idx \in originals |-> shards[Max(senders(idx))].data]
           Points == {Point(s, shards[p]) : p \in DOMAIN shards}
           known == [x \in Points |->
                       shards[CHOOSE p \in DOMAIN shards : Point(s, shards[p]) = x].data]
           Filled(rest) == [i \in 1 .. k |-> IF i - 1 \in originals THEN given[i - 1] ELSE rest[i - 1]]
<1>1. Decodable(s, shards)
  BY DEF Decoded
<1>2. chunks \in {Filled(rest) : rest \in Restored(s, known)}
  BY <1>1 DEF Decoded
<1>3. k \in Nat /\ s.shard_size \in Nat
  BY DEF SchemeType
<1>4. ASSUME NEW x \in originals PROVE Len(given[x]) = s.shard_size
  <2>1. PICK p \in DOMAIN shards : shards[p].kind = "Original" /\ shards[p].idx = x
    OBVIOUS
  <2>2. senders(x) = {p}
    <3>1. ASSUME NEW q \in senders(x) PROVE q = p
      <4>1. Point(s, shards[q]) = Point(s, shards[p])
        BY <2>1, <3>1 DEF Point
      <4> QED  BY <1>1, <4>1 DEF Decodable
    <3> QED  BY <2>1, <3>1
  <2>3. Max({p}) = p
    <3>1. p \in Nat
      OBVIOUS
    <3>2. p \in {p} /\ \A y \in {p} : p >= y
      BY <3>1
    <3>3. (CHOOSE q \in {p} : \A y \in {p} : q >= y) \in {p}
      BY <3>2, Zenon
    <3> QED  BY <3>3 DEF Max
  <2>4. given[x] = shards[Max(senders(x))].data
    BY Zenon
  <2>5. Len(shards[p].data) = s.shard_size
    BY <1>1 DEF Decodable
  <2> HIDE DEF given, senders
  <2> QED  BY <2>2, <2>3, <2>4, <2>5
<1>5. PICK rest \in Restored(s, known) : chunks = Filled(rest)
  <2> HIDE DEF Filled, known
  <2> QED  BY <1>2
<1>6. ASSUME NEW i \in 1 .. k, i - 1 \notin originals PROVE Len(rest[i - 1]) = s.shard_size
  <2>1. i - 1 \in (0 .. k - 1) \ Points
    <3>1. ASSUME NEW p \in DOMAIN shards, Point(s, shards[p]) = i - 1 PROVE FALSE
      <4>1. CASE shards[p].kind = "Original"
        <5>1. shards[p].idx = i - 1
          BY <3>1, <4>1 DEF Point
        <5> QED  BY <1>6, <4>1, <5>1
      <4>2. CASE shards[p].kind # "Original"
        <5>1. shards[p].idx + k = i - 1 /\ shards[p].idx \in Nat
          BY <3>1, <4>2 DEF Point
        <5> QED  BY <1>3, <5>1
      <4> QED  BY <4>1, <4>2
    <3> QED  BY <1>3, <3>1
  <2>2. DOMAIN known = Points
    OBVIOUS
  <2> HIDE DEF known, Points
  <2>3. rest[i - 1] = [b \in 1 .. s.shard_size |-> rest[i - 1][b]]
    <3> DEFINE base == CHOOSE T \in kSubset(k, DOMAIN known) : TRUE
               AtPoint(x) == Extrapolate([p \in base |-> known[p]], s.shard_size, x)
               missing == (0 .. k - 1) \ DOMAIN known
               garbled == {b \in 1 .. s.shard_size :
                             \E x \in DOMAIN known \ base : known[x][b] # AtPoint(x)[b]}
               Byte1(g, x, b) == IF b \in garbled THEN g[x][b] ELSE AtPoint(x)[b]
               Column(g, x) == [b \in 1 .. s.shard_size |-> Byte1(g, x, b)]
    <3>1. Restored(s, known)
            = {[x \in missing |-> Column(g, x)] : g \in [missing -> [garbled -> Byte]]}
      BY DEF Restored
    <3>2. i - 1 \in missing
      BY <2>1, <2>2
    <3> HIDE DEF missing, garbled, AtPoint, Byte1
    <3>3. PICK g : rest = [x \in missing |-> Column(g, x)]
      <4> HIDE DEF Column
      <4> QED  BY <1>5, <3>1
    <3>4. rest[i - 1] = Column(g, i - 1)
      <4> HIDE DEF Column
      <4> QED  BY <3>2, <3>3
    <3> QED  BY <3>4
  <2> QED  BY <1>3, <2>3, RowLength
<1> HIDE DEF given, originals, known
<1>7. chunks = [i \in 1 .. k |-> chunks[i]]
  BY <1>5
<1>8. ASSUME NEW i \in 1 .. k PROVE Len(chunks[i]) = s.shard_size
  <2>1. chunks[i] = IF i - 1 \in originals THEN given[i - 1] ELSE rest[i - 1]
    BY <1>5
  <2> QED  BY <1>4, <1>6, <2>1
<1> QED  BY <1>1, <1>7, <1>8

-----------------------------------------------------------------------------
(* What is below the root: the chunks that the first leaves hold. *)
Originals == [i \in 1 .. scheme.original_shards |-> leaves[i].data]

(* The leaves are the shards of those chunks; nothing is known of them     *)
(* under a scheme without recovery shards.                                 *)
WellCoded ==
  scheme.recovery_shards # 0 =>
    /\ Originals \in ChunksOf(scheme)
    /\ Len(leaves) = scheme.original_shards + scheme.recovery_shards
    /\ \A i \in 1 .. Len(leaves) : leaves[i] = Encode(scheme, Originals)[i]

(* What a sender may hash: shards with bytes, numbered from zero. *)
Hashed ==
  /\ scheme \in SchemeType
  /\ scheme.recovery_shards # 0 => Coded(scheme)
  /\ \A i \in 1 .. Len(leaves) : /\ leaves[i].idx \in Nat
                                 /\ i <= scheme.original_shards => leaves[i].data \in Seq(Byte)

(* The value below the root. *)
Below == Joined(scheme, OriginalSize(scheme), Originals)

(* The inductive invariant behind OneValue and AssemblyFails: a root that  *)
(* passes the check is the root of one codeword.                           *)
CodeInv ==
  /\ phase = "sent" => Hashed
  /\ phase # "sent" => checked = "no" /\ scheme = NoScheme
  /\ checked = "ok" => WellCoded
  /\ checked # "ok" => outputs = {}
  /\ scheme.recovery_shards # 0 =>
       \A o \in outputs : o.value = IF o.twice \/ o.few THEN {} ELSE {Below}

(* A receiver echoes a leaf of the tree. *)
LEMMA EchoedLeaf ==
  ASSUME LeafInv, phase = "sent", NEW i \in Echoing
  PROVE  i \in 0 .. n - 1 /\ got[i] \in 0 .. Len(leaves) - 1
<1> DEFINE fit == {j \in 0 .. Len(leaves) - 1 : Accepts(NewTree(leaves), leaves, i, j)}
<1>1. i \in 0 .. n - 1 /\ got[i] # -1
  BY DEF Echoing
<1>2. got[i] = IF fit = {} THEN -1 ELSE CHOOSE j \in fit : TRUE
  BY <1>1 DEF LeafInv, Accepted
<1>3. fit \subseteq 0 .. Len(leaves) - 1
  OBVIOUS
<1> HIDE DEF fit
<1>4. fit # {} => (CHOOSE j \in fit : TRUE) \in fit
  BY Zenon
<1> QED  BY <1>1, <1>2, <1>3, <1>4

(* The receivers are finitely many numbers. *)
LEMMA ReceiversFinite ==
  ASSUME LeafInv, NEW S \in SUBSET (0 .. n - 1)
  PROVE  S \in SUBSET Nat /\ IsFiniteSet(S)
<1>1. n \in Nat
  BY SystemFacts DEF LeafInv
<1>2. IsFiniteSet(0 .. n - 1)
  <2>1. 0 \in Int /\ n - 1 \in Int
    BY <1>1
  <2> QED  BY <2>1, FS_Interval
<1>3. IsFiniteSet(S)
  BY <1>2, FS_Subset
<1>4. S \in SUBSET Nat
  BY <1>1
<1> QED  BY <1>3, <1>4

(* Receivers echo messages that others accept. *)
LEMMA EchosFacts ==
  ASSUME LeafInv, NEW e \in Echos
  PROVE  /\ DOMAIN e \in SUBSET (0 .. n - 1)
         /\ DOMAIN e \in SUBSET Nat /\ IsFiniteSet(DOMAIN e)
         /\ e \in [DOMAIN e -> Echoing]
<1>1. PICK S \in SUBSET (0 .. n - 1) : e \in [S -> Echoing]
  BY DEF Echos
<1>2. DOMAIN e = S
  BY <1>1
<1> QED  BY <1>1, <1>2, ReceiversFinite

(* Even if f of n - f receivers echo the messages of others, there are     *)
(* echos for n - 2f destinations.                                          *)
LEMMA DestinationsFacts ==
  ASSUME LeafInv, NEW D \in Destinations
  PROVE  /\ D \in SUBSET Echoing /\ D \in SUBSET (0 .. n - 1)
         /\ D \in SUBSET Nat /\ IsFiniteSet(D)
         /\ Cardinality(D) >= n - 2 * f /\ D # {}
<1>1. PICK e \in Echos : D = Range(e) /\ Cardinality(DOMAIN e) >= n - f
  BY DEF Destinations
<1> DEFINE S == DOMAIN e
           other == {i \in S : e[i] # i}
           own == {i \in S : e[i] = i}
<1>2. S \in SUBSET (0 .. n - 1) /\ IsFiniteSet(S) /\ e \in [S -> Echoing]
  BY EchosFacts
<1>3. D \in SUBSET Echoing /\ own \in SUBSET D
  BY <1>1, <1>2 DEF Range
<1>4. D \in SUBSET (0 .. n - 1)
  BY <1>3 DEF Echoing
<1>5. D \in SUBSET Nat /\ IsFiniteSet(D)
  BY <1>4, ReceiversFinite
<1>6. Cardinality(other) <= f
  BY DEF Echos
<1>7. n \in Nat /\ f \in Nat /\ n - 2 * f \in Nat \ {0}
  BY SystemFacts DEF LeafInv
<1>8. Cardinality(own) = Cardinality(S) - Cardinality(other)
  <2>1. own = S \ other /\ S \cap other = other
    OBVIOUS
  <2> HIDE DEF own, other, S
  <2> QED  BY <1>2, <2>1, FS_Difference
<1>9. Cardinality(own) <= Cardinality(D)
  <2> HIDE DEF own
  <2> QED  BY <1>3, <1>5, FS_Subset
<1>10. /\ Cardinality(S) \in Nat /\ Cardinality(other) \in Nat
       /\ Cardinality(own) \in Nat /\ Cardinality(D) \in Nat
  <2>1. IsFiniteSet(other) /\ IsFiniteSet(own)
    BY <1>2, FS_Subset
  <2> HIDE DEF own, other, S
  <2> QED  BY <1>2, <1>5, <2>1, FS_CardinalityType
<1>11. Cardinality(D) >= n - 2 * f
  <2> HIDE DEF own, other
  <2> QED  BY <1>1, <1>6, <1>7, <1>8, <1>9, <1>10
<1>12. D # {}
  BY <1>7, <1>11, FS_EmptySet
<1> QED  BY <1>3, <1>4, <1>5, <1>11, <1>12

(* The decoder refuses to take a shard twice. *)
LEMMA TwiceRefused ==
  ASSUME NEW s, s.recovery_shards # 0, NEW shards, Twice(shards)
  PROVE  Decoded(s, shards) = {}
<1>1. ~Decodable(s, shards)
  BY DEF Twice, Decodable
<1> QED  BY <1>1 DEF Decoded

(* It asks for as many as the scheme has originals. *)
LEMMA TooFewRefused ==
  ASSUME scheme \in SchemeType, scheme.recovery_shards # 0, NEW shards,
         IsFiniteSet(DOMAIN shards), TooFew(shards)
  PROVE  Decoded(scheme, shards) = {}
<1>1. scheme.original_shards \in Nat /\ Cardinality(DOMAIN shards) \in Nat
  BY FS_CardinalityType DEF SchemeType
<1>2. ~Decodable(scheme, shards)
  BY <1>1 DEF TooFew, Decodable
<1> QED  BY <1>2 DEF Decoded

(* interpolate_and_check_root(): the shards that it encodes again are the  *)
(* ones below the root.                                                    *)
LEMMA CheckedWell ==
  ASSUME LeafInv, CodeInv, phase = "sent", NEW S \in SUBSET Nat,
         NEW e \in [S -> Echoing], NEW chunks \in Decoded(scheme, Echoed(e)),
         Root(NewTree(Encode(scheme, chunks))) = Root(NewTree(leaves))
  PROVE  WellCoded
<1> DEFINE k == scheme.original_shards
           r == scheme.recovery_shards
           all == Encode(scheme, chunks)
           t == Len(chunks)
<1>0. SUFFICES ASSUME r # 0 PROVE WellCoded
  BY DEF WellCoded
<1>1. /\ scheme \in SchemeType /\ k \in Nat \ {0} /\ r \in Nat
      /\ Len(leaves) \in Nat \ {0}
  BY DEF CodeInv, Hashed, SchemeType, LeafInv
<1>2. /\ DOMAIN Echoed(e) = S
      /\ \A p \in S : Echoed(e)[p].idx \in Nat
  <2>1. DOMAIN Echoed(e) = S
    BY DEF Echoed
  <2>2. ASSUME NEW p \in S PROVE Echoed(e)[p].idx \in Nat
    <3>1. got[e[p]] \in 0 .. Len(leaves) - 1
      BY EchoedLeaf
    <3>2. got[e[p]] + 1 \in 1 .. Len(leaves)
      BY <1>1, <3>1
    <3> QED  BY <3>2 DEF Echoed, CodeInv, Hashed
  <2> QED  BY <2>1, <2>2
<1>3. t \in Nat \ {0} /\ t = k
  <2>1. chunks = [i \in 1 .. k |-> chunks[i]]
    BY <1>0, <1>1, <1>2, DecodedSize
  <2>2. Len(chunks) = k
    <3> HIDE DEF k
    <3> QED  BY <1>1, <2>1, RowLength
  <2> QED  BY <1>1, <2>2
<1>4. /\ Len(all) = t + r
      /\ \A i \in 1 .. t + r :
           all[i] = IF i <= t
                      THEN [data |-> chunks[i], kind |-> "Original", idx |-> i - 1]
                      ELSE [data |-> Extrapolate([p \in 0 .. t - 1 |-> chunks[p + 1]],
                                                 scheme.shard_size, i - 1),
                            kind |-> "Recovery", idx |-> i - t - 1]
  <2>1. t \in Nat
    BY <1>3
  <2> QED  BY <1>1, <2>1, EncodeShards
<1>5. Root(NewTree(all)) = Root(NewTree(leaves))
  OBVIOUS
<1> HIDE DEF all, t
<1>6. Len(all) = Len(leaves) /\ \A i \in 1 .. Len(all) : all[i] = leaves[i]
  <2>1. Len(all) \in Nat \ {0}
    BY <1>1, <1>3, <1>4
  <2> QED  BY <1>1, <1>5, <2>1, SameRoot
<1> QED
  <2>1. /\ chunks = [i \in 1 .. k |-> chunks[i]]
        /\ \A i \in 1 .. k : Len(chunks[i]) = scheme.shard_size
    BY <1>0, <1>1, <1>2, DecodedSize
  <2>2. ASSUME NEW i \in 1 .. k
        PROVE  chunks[i] = leaves[i].data /\ chunks[i] \in [1 .. scheme.shard_size -> Byte]
    <3>1. i \in 1 .. t + r /\ i <= t /\ all[i] = leaves[i] /\ i \in 1 .. Len(leaves)
      BY <1>1, <1>3, <1>4, <1>6
    <3>2. all[i] = [data |-> chunks[i], kind |-> "Original", idx |-> i - 1]
      BY <1>4, <3>1
    <3>3. chunks[i] = leaves[i].data
      BY <3>1, <3>2
    <3>4. leaves[i].data \in Seq(Byte) /\ Len(leaves[i].data) = scheme.shard_size
      <4>1. Hashed
        BY DEF CodeInv
      <4>2. i <= scheme.original_shards
        OBVIOUS
      <4>3. leaves[i].data \in Seq(Byte)
        BY <3>1, <4>1, <4>2, Zenon DEF Hashed
      <4>4. Len(leaves[i].data) = scheme.shard_size
        BY <2>1, <3>3, Zenon
      <4> QED  BY <4>3, <4>4
    <3>5. leaves[i].data \in [1 .. scheme.shard_size -> Byte]
      BY <3>4
    <3> QED  BY <3>3, <3>5
  <2>3. chunks = Originals
    BY <2>1, <2>2 DEF Originals
  <2>4. Originals \in ChunksOf(scheme)
    BY <2>2 DEF Originals, ChunksOf
  <2> QED  BY <1>3, <1>4, <1>6, <2>3, <2>4 DEF WellCoded, all

(* A value in rows of the scheme's size, padded with zeros. *)
LEMMA ChunksType ==
  ASSUME NEW s \in SchemeType, NEW bytes \in Seq(Byte)
  PROVE  Chunks(s, bytes) \in ChunksOf(s)
<1>1. s.original_shards \in Nat /\ s.shard_size \in Nat /\ Len(bytes) \in Nat /\ 0 \in Byte
  BY FieldAssumption DEF SchemeType, Byte
<1>2. ASSUME NEW i \in 1 .. s.original_shards, NEW b \in 1 .. s.shard_size
      PROVE  (IF (i - 1) * s.shard_size + b <= Len(bytes)
                THEN bytes[(i - 1) * s.shard_size + b] ELSE 0) \in Byte
  <2> DEFINE at == (i - 1) * s.shard_size + b
  <2>1. at \in Nat \ {0}
    <3>1. (i - 1) * s.shard_size \in Nat
      <4>1. i - 1 \in Nat
        BY <1>1
      <4> QED  BY <1>1, <4>1
    <3> QED  BY <1>1, <3>1
  <2> HIDE DEF at
  <2>2. at <= Len(bytes) => bytes[at] \in Byte
    BY <1>1, <2>1
  <2>3. (IF at <= Len(bytes) THEN bytes[at] ELSE 0) \in Byte
    BY <1>1, <2>2
  <2> QED  BY <2>3 DEF at
<1> DEFINE Entry(i, b) == IF (i - 1) * s.shard_size + b <= Len(bytes)
                            THEN bytes[(i - 1) * s.shard_size + b] ELSE 0
<1>3. Chunks(s, bytes) = [i \in 1 .. s.original_shards |->
                            [b \in 1 .. s.shard_size |-> Entry(i, b)]]
  BY DEF Chunks
<1>4. \A i \in 1 .. s.original_shards : \A b \in 1 .. s.shard_size : Entry(i, b) \in Byte
  BY <1>2
<1> HIDE DEF Entry
<1> QED  BY <1>3, <1>4 DEF ChunksOf

(* The originals are encoded as they are. *)
LEMMA EncodeOriginal ==
  ASSUME NEW s \in SchemeType, NEW chunks \in ChunksOf(s), NEW i \in 1 .. s.original_shards
  PROVE  /\ Encode(s, chunks)[i].data = chunks[i]
         /\ Encode(s, chunks)[i].kind = "Original"
         /\ Encode(s, chunks)[i].idx = i - 1
<1> DEFINE k == s.original_shards
<1>1. k \in Nat
  BY DEF SchemeType
<1>2. Len(chunks) = k /\ s.recovery_shards \in Nat
  BY <1>1, FunctionIsSeq DEF ChunksOf, SchemeType
<1>3. i \in 1 .. k + s.recovery_shards /\ i <= k
  BY <1>1, <1>2
<1>4. \A j \in 1 .. k + s.recovery_shards :
        Encode(s, chunks)[j]
          = IF j <= k
              THEN [data |-> chunks[j], kind |-> "Original", idx |-> j - 1]
              ELSE [data |-> Extrapolate([p \in 0 .. k - 1 |-> chunks[p + 1]],
                                         s.shard_size, j - 1),
                    kind |-> "Recovery", idx |-> j - k - 1]
  <2> HIDE DEF k
  <2> QED  BY <1>1, <1>2, EncodeShards
<1>5. Encode(s, chunks)[i] = [data |-> chunks[i], kind |-> "Original", idx |-> i - 1]
  BY <1>3, <1>4, Zenon
<1> QED  BY <1>5

(* What a correct sender disperses. *)
LEMMA DispersedShards ==
  ASSUME system \in Systems, NEW size \in Nat,
         NEW bytes \in Seq(Byte), NEW s, s = NewScheme(size, n, n - 2 * f)
  PROVE  /\ s \in SchemeType /\ s.original_shards = n - 2 * f /\ s.recovery_shards = 2 * f
         /\ s.recovery_shards # 0 => Coded(s)
         /\ Chunks(s, bytes) \in ChunksOf(s)
         /\ Len(NewSet(s, bytes)) = n
         /\ \A i \in 1 .. n : NewSet(s, bytes)[i].idx \in Nat
         /\ \A i \in 1 .. n - 2 * f : NewSet(s, bytes)[i].data = Chunks(s, bytes)[i]
<1> DEFINE t == n - 2 * f
           all == NewSet(s, bytes)
<1>1. n \in Nat /\ f \in Nat /\ t \in Nat \ {0} /\ t <= n
  BY SystemFacts
<1>2. FitsValue(s, size, n, t)
  <2> HIDE DEF t
  <2> QED  BY <1>1, NewSchemeFits DEF t
<1>3. s \in SchemeType
  <2>1. /\ s.original_shards = t /\ s.recovery_shards = n - t
        /\ s.shard_size \in Nat /\ s.padding \in Nat
    <3> HIDE DEF t
    <3> QED  BY <1>1, <1>2 DEF FitsValue
  <2>2. n - t \in Nat
    BY <1>1
  <2>3. s = [original_shards |-> s.original_shards, recovery_shards |-> s.recovery_shards,
             shard_size |-> s.shard_size, padding |-> s.padding]
    BY DEF NewScheme
  <2> HIDE DEF t
  <2> QED  BY <1>1, <2>1, <2>2, <2>3 DEF SchemeType
<1>4. s.original_shards = t /\ s.recovery_shards = 2 * f /\ s.shard_size \in Nat
  <2>1. n - t = 2 * f
    BY <1>1
  <2> HIDE DEF t
  <2> QED  BY <1>2, <2>1 DEF FitsValue
<1>5. s.recovery_shards # 0 => Coded(s)
  <2>1. <<t, 2 * f>> \in Codes
    BY DEF Codes, n, f
  <2>2. 2 * f # 0 => 2 * f > 0
    BY <1>1
  <2> HIDE DEF t
  <2>3. 2 * f > 0 => IsCode(t, 2 * f)
    BY <2>1, CoderAssumption
  <2> QED  BY <1>4, <2>2, <2>3 DEF Coded
<1>6. Chunks(s, bytes) \in ChunksOf(s)
  BY <1>3, ChunksType
<1>7. t + 2 * f = n
  BY <1>1
<1>8. ASSUME NEW i \in 1 .. n
      PROVE  /\ Len(all) = n
             /\ all[i].idx \in Nat
  <2>1. /\ all[i].idx = IF i <= t THEN i - 1 ELSE i - t - 1
        /\ Len(all) = s.original_shards + s.recovery_shards
    <3>1. i \in 1 .. s.original_shards + s.recovery_shards
      BY <1>4, <1>7
    <3>2. s.original_shards \in Nat /\ s.recovery_shards \in Nat
      BY <1>1, <1>4
    <3> HIDE DEF t
    <3> QED  BY <1>4, <3>1, <3>2, ShardsOfSet
  <2> HIDE DEF all
  <2> QED  BY <1>1, <1>4, <1>7, <2>1
<1>9. ASSUME NEW i \in 1 .. t PROVE all[i].data = Chunks(s, bytes)[i]
  <2>1. i \in 1 .. s.original_shards
    BY <1>4
  <2>2. Encode(s, Chunks(s, bytes))[i].data = Chunks(s, bytes)[i]
    BY <1>3, <1>6, <2>1, EncodeOriginal
  <2> QED  BY <2>2 DEF NewSet
<1>10. 1 \in 1 .. n
  BY <1>1
<1> HIDE DEF all
<1> QED  BY <1>3, <1>4, <1>5, <1>6, <1>8, <1>9, <1>10 DEF all, t

(* The bytes of a correct sender's value. *)
LEMMA ValueBytes ==
  ASSUME NEW size \in Nat, NEW bytes, bytes = [i \in 1 .. size |-> i % Prime]
  PROVE  bytes \in Seq(Byte) /\ Len(bytes) = size
<1>1. Prime \in Nat /\ Prime > 1
  BY FieldAssumption
<1>2. \A i \in 1 .. size : i % Prime \in Byte
  BY <1>1 DEF Byte
<1>3. bytes \in [1 .. size -> Byte]
  BY <1>2
<1> QED  BY <1>3, FunctionIsSeq

(* What a correct sender encodes is a code word. *)
LEMMA CodeDisperse ==
  ASSUME LeafInv, CodeInv, NEW size \in Sizes, Disperse(size)
  PROVE  CodeInv'
<1> DEFINE bytes == [i \in 1 .. size |-> i % Prime]
           t == n - 2 * f
           new == NewScheme(size, n, t)
<1>1. /\ checked = "no" /\ outputs = {} /\ scheme = NoScheme
      /\ checked' = "no" /\ outputs' = {}
  BY DEF Disperse, CodeInv
<1>3. CASE NewSetOk(bytes, n, t)
  <2>1. phase' = "sent" /\ scheme' = new /\ leaves' = NewSet(new, bytes)
    BY <1>3 DEF Disperse
  <2>2. size \in Nat /\ bytes \in Seq(Byte) /\ system \in Systems
    BY ValueBytes, SystemsAssumption DEF LeafInv
  <2> HIDE DEF bytes, new
  <2>3. /\ new \in SchemeType /\ new.original_shards = t
        /\ new.recovery_shards # 0 => Coded(new)
        /\ Chunks(new, bytes) \in ChunksOf(new)
        /\ Len(leaves') = n
        /\ \A i \in 1 .. n : leaves'[i].idx \in Nat
        /\ \A i \in 1 .. t : leaves'[i].data = Chunks(new, bytes)[i]
    BY <2>1, <2>2, DispersedShards DEF new
  <2>4. n \in Nat /\ t \in Nat /\ new.shard_size \in Nat
    BY <2>2, <2>3, SystemFacts DEF SchemeType
  <2> HIDE DEF t
  <2>5. ASSUME NEW i \in 1 .. n, i <= t PROVE leaves'[i].data \in Seq(Byte)
    <3>1. i \in 1 .. t
      BY <2>4, <2>5
    <3>2. Chunks(new, bytes)[i] \in [1 .. new.shard_size -> Byte]
      BY <2>3, <3>1 DEF ChunksOf
    <3> QED  BY <2>3, <2>4, <3>1, <3>2, FunctionIsSeq
  <2>6. Hashed'
    BY <2>1, <2>3, <2>5 DEF Hashed
  <2> QED  BY <1>1, <2>1, <2>6 DEF CodeInv
<1>4. CASE ~NewSetOk(bytes, n, t)
  <2>1. phase' = "failed" /\ scheme' = NoScheme
    BY <1>1, <1>4 DEF Disperse
  <2>2. NoScheme.recovery_shards = 0
    BY DEF NoScheme
  <2> QED  BY <1>1, <2>1, <2>2 DEF CodeInv, NoScheme
<1> QED  BY <1>3, <1>4

(* What a faulty sender gives out says nothing of a code word yet. *)
LEMMA CodeFaulty ==
  ASSUME LeafInv, CodeInv, NEW s \in Schemes, DisperseFaulty(s[2])
  PROVE  CodeInv'
<1> DEFINE k == s[2].original_shards
           r == s[2].recovery_shards
<1>1. /\ checked' = "no" /\ outputs' = {}
      /\ phase' = "sent" /\ scheme' = s[2] /\ k # 0
  BY DEF DisperseFaulty, CodeInv, SchemeOk
<1>3. k \in Nat \ {0} /\ r \in Nat /\ s[2] \in SchemeType
  BY <1>1, SystemsAssumption DEF SchemeType
<1>4. r # 0 => Coded(s[2])
  <2>1. <<k, r>> \in Codes
    BY DEF Codes
  <2>2. r # 0 => r > 0
    BY <1>3
  <2> QED  BY <2>1, <2>2, CoderAssumption DEF Coded
<1>5. PICK missing \in 0 .. 1 :
        \E data \in [1 .. k + r - missing -> Data] :
        \E i, j \in DOMAIN data : i <= j /\ leaves' = Forged(s[2], data, i, j)
  BY DEF DisperseFaulty
<1>6. PICK data \in [1 .. k + r - missing -> Data] :
        \E i, j \in DOMAIN data : i <= j /\ leaves' = Forged(s[2], data, i, j)
  BY <1>5
<1>7. PICK i \in DOMAIN data, j \in DOMAIN data : leaves' = Forged(s[2], data, i, j)
  BY <1>6
<1>8. PICK c \in Nat : c = k + r - missing
  BY <1>3
<1>9. data \in [1 .. c -> Data] /\ i \in 1 .. c /\ j \in 1 .. c
  BY <1>6, <1>7, <1>8
<1>10. Len(leaves') = c
  BY <1>3, <1>7, <1>9, ForgedDistinct
<1>11. ASSUME NEW x \in 1 .. c
       PROVE  leaves'[x].idx \in Nat /\ leaves'[x].data \in Seq(Byte)
  <2> DEFINE Put == IF x = i THEN j ELSE IF x = j THEN i ELSE x
  <2>1. leaves'[x] = [data |-> data[x],
                      kind |-> IF Put <= k THEN "Original" ELSE "Recovery",
                      idx |-> IF Put <= k THEN Put - 1 ELSE Put - k - 1]
    BY <1>7, <1>9 DEF Forged
  <2>2. Put \in 1 .. c
    BY <1>9
  <2> HIDE DEF Put
  <2>3. (IF Put <= k THEN Put - 1 ELSE Put - k - 1) \in Nat
    BY <1>3, <1>8, <2>2
  <2>4. data[x] \in Seq(Byte)
    BY <1>9, CoderAssumption
  <2> QED  BY <2>1, <2>3, <2>4
<1>12. Hashed'
  BY <1>1, <1>3, <1>4, <1>10, <1>11 DEF Hashed
<1> QED  BY <1>1, <1>12 DEF CodeInv

(* A root is checked by encoding again what was decoded. *)
LEMMA CodeCheck ==
  ASSUME LeafInv, CodeInv, NEW D \in Destinations, CheckRoot(D)
  PROVE  CodeInv'
<1>1. /\ phase = "sent" /\ phase' = "sent" /\ checked = "no"
      /\ system' = system /\ scheme' = scheme /\ leaves' = leaves
      /\ outputs' = {}
  BY DEF CheckRoot, CodeInv
<1>2. Hashed'
  BY <1>1 DEF CodeInv, Hashed
<1>3. PICK e \in [D -> Echoing] : e = [d \in D |-> d] /\ ByDestination(D) = Echoed(e)
  <2>1. D \in SUBSET Echoing
    BY DestinationsFacts
  <2> QED  BY <2>1 DEF ByDestination
<1>4. checked' = "ok" => WellCoded
  <2>1. SUFFICES ASSUME checked' = "ok" PROVE WellCoded
    OBVIOUS
  <2>2. PICK all \in Interpolate(scheme, Echoed(e)) : Root(NewTree(all)) = Root(NewTree(leaves))
    <3>1. ~(Interpolate(scheme, Echoed(e)) = {})
      BY <1>3, <2>1 DEF CheckRoot
    <3>2. \E all \in Interpolate(scheme, Echoed(e)) :
            checked' = IF Root(NewTree(all)) = Root(NewTree(leaves)) THEN "ok" ELSE "mismatch"
      BY <1>3, <3>1 DEF CheckRoot
    <3> QED  BY <2>1, <3>2
  <2>3. PICK chunks \in Decoded(scheme, Echoed(e)) : all = Encode(scheme, chunks)
    BY <2>2 DEF Interpolate
  <2>4. Root(NewTree(Encode(scheme, chunks))) = Root(NewTree(leaves))
    BY <2>2, <2>3
  <2>5. D \in SUBSET Nat
    BY DestinationsFacts
  <2> QED  BY <1>1, <2>4, <2>5, CheckedWell
<1>5. checked' = "ok" => WellCoded'
  BY <1>1, <1>4 DEF WellCoded, Originals
<1> QED  BY <1>1, <1>2, <1>5 DEF CodeInv

(* What receivers echo below a checked root are shards of its codeword. *)
LEMMA EchoedPart ==
  ASSUME LeafInv, CodeInv, phase = "sent", WellCoded, scheme.recovery_shards # 0,
         NEW S, NEW e \in [S -> Echoing], NEW g, g = [p \in S |-> got[e[p]]]
  PROVE  PartOf(scheme, Originals, S, g, Echoed(e))
<1>1. /\ Len(leaves) = scheme.original_shards + scheme.recovery_shards
      /\ \A i \in 1 .. Len(leaves) : leaves[i] = Encode(scheme, Originals)[i]
      /\ Len(leaves) \in Nat
  BY DEF WellCoded, LeafInv
<1>2. ASSUME NEW p \in S
      PROVE  /\ got[e[p]] \in 0 .. Len(leaves) - 1
             /\ Echoed(e)[p] = Encode(scheme, Originals)[got[e[p]] + 1]
  <2>1. got[e[p]] \in 0 .. Len(leaves) - 1
    BY EchoedLeaf
  <2>2. got[e[p]] + 1 \in 1 .. Len(leaves)
    BY <1>1, <2>1
  <2>3. Echoed(e)[p] = leaves[got[e[p]] + 1]
    BY DEF Echoed
  <2>4. leaves[got[e[p]] + 1] = Encode(scheme, Originals)[got[e[p]] + 1]
    BY <1>1, <2>2, Zenon
  <2> QED  BY <2>1, <2>3, <2>4
<1>3. g \in [S -> 0 .. scheme.original_shards + scheme.recovery_shards - 1]
  <2>1. \A p \in S : got[e[p]] \in 0 .. scheme.original_shards + scheme.recovery_shards - 1
    <3>1. \A p \in S : got[e[p]] \in 0 .. Len(leaves) - 1
      BY <1>2
    <3>2. Len(leaves) - 1 = scheme.original_shards + scheme.recovery_shards - 1
      <4>1. scheme.original_shards \in Nat /\ scheme.recovery_shards \in Nat
        BY DEF CodeInv, Hashed, SchemeType
      <4> QED  BY <1>1, <4>1
    <3> QED  BY <3>1, <3>2
  <2> QED  BY <2>1
<1>4. DOMAIN Echoed(e) = S
  BY DEF Echoed
<1>5. \A p \in S : Echoed(e)[p] = Encode(scheme, Originals)[g[p] + 1]
  BY <1>2
<1> QED  BY <1>3, <1>4, <1>5 DEF PartOf

(* finalize() after a successful check: it fails for a shard that is given *)
(* twice and for too few shards, and otherwise has the one value below the *)
(* root.                                                                   *)
LEMMA FinalValue ==
  ASSUME LeafInv, CodeInv, phase = "sent", WellCoded, scheme.recovery_shards # 0,
         NEW S \in SUBSET Nat, IsFiniteSet(S), NEW e \in [S -> Echoing]
  PROVE  Decoded(scheme, Echoed(e))
           = IF Twice(Echoed(e)) \/ TooFew(Echoed(e)) THEN {} ELSE {Originals}
<1>1. /\ scheme \in SchemeType /\ Coded(scheme) /\ Originals \in ChunksOf(scheme)
      /\ DOMAIN Echoed(e) = S
  BY DEF CodeInv, Hashed, WellCoded, Echoed
<1>2. CASE Twice(Echoed(e))
  BY <1>2, TwiceRefused
<1>3. CASE TooFew(Echoed(e))
  BY <1>1, <1>3, TooFewRefused
<1>4. CASE ~Twice(Echoed(e)) /\ ~TooFew(Echoed(e))
  <2>1. PICK g : g = [p \in S |-> got[e[p]]]
    OBVIOUS
  <2>2. PartOf(scheme, Originals, S, g, Echoed(e))
    BY <2>1, EchoedPart
  <2>3. ASSUME NEW p \in S, NEW q \in S, g[p] = g[q] PROVE p = q
    <3>1. Echoed(e)[p] = Echoed(e)[q]
      BY <2>1, <2>3 DEF Echoed
    <3> QED  BY <1>1, <1>4, <3>1 DEF Twice
  <2>4. Cardinality(S) >= scheme.original_shards
    <3>1. Cardinality(S) \in Nat /\ scheme.original_shards \in Nat
      BY <1>1, FS_CardinalityType DEF SchemeType
    <3> QED  BY <1>1, <1>4, <3>1 DEF TooFew
  <2>5. Decodable(scheme, Echoed(e))
    BY <1>1, <2>2, <2>3, <2>4, PartDecodable
  <2>6. Decoded(scheme, Echoed(e)) = {Originals}
    BY <1>1, <2>2, <2>5, DecodeCode
  <2> QED  BY <1>4, <2>6
<1> QED  BY <1>2, <1>3, <1>4

(* Chunks of the scheme have the size of the scheme. *)
LEMMA ChunksRight ==
  ASSUME NEW s \in SchemeType, NEW chunks \in ChunksOf(s)
  PROVE  RightSize(s, chunks)
<1>1. s.shard_size \in Nat
  BY DEF SchemeType
<1>2. ASSUME NEW i \in DOMAIN chunks PROVE Len(chunks[i]) = s.shard_size
  <2>1. chunks[i] \in [1 .. s.shard_size -> Byte]
    BY DEF ChunksOf
  <2> QED  BY <1>1, <2>1, FunctionIsSeq
<1> QED  BY <1>2 DEF RightSize

(* A value is assembled from a checked root. *)
LEMMA CodeFinalize ==
  ASSUME LeafInv, CodeInv, NEW e \in Echos, Finalize(e)
  PROVE  CodeInv'
<1> DEFINE V(c) == Joined(scheme, OriginalSize(scheme), c)
           shards == Echoed(e)
<1>1. /\ checked = "ok" /\ checked' = "ok" /\ phase' = phase /\ system' = system
      /\ scheme' = scheme /\ leaves' = leaves
  BY DEF Finalize
<1>2. phase = "sent" /\ WellCoded
  BY <1>1 DEF CodeInv
<1>3. Hashed' /\ WellCoded' /\ Below' = Below
  BY <1>1, <1>2 DEF CodeInv, Hashed, WellCoded, Originals, Below
<1>4. ASSUME scheme.recovery_shards # 0, NEW o \in outputs'
      PROVE  o.value = IF o.twice \/ o.few THEN {} ELSE {Below}
  <2>1. CASE o \in outputs
    BY <1>4, <2>1 DEF CodeInv
  <2>2. CASE o \notin outputs
    <3>1. Decoded(scheme, shards) = IF Twice(shards) \/ TooFew(shards) THEN {} ELSE {Originals}
      BY <1>2, <1>4, EchosFacts, FinalValue
    <3>2. RightSize(scheme, Originals)
      BY <1>2, <1>4, ChunksRight DEF CodeInv, Hashed, WellCoded
    <3>3. Assemble(scheme, shards)
            = {V(c) : c \in {x \in Decoded(scheme, shards) : RightSize(scheme, x)}}
      BY DEF Assemble
    <3>4. V(Originals) = Below
      BY DEF Below
    <3>5. PICK found \in (IF Assemble(scheme, shards) = {}
                            THEN {{}} ELSE {{v} : v \in Assemble(scheme, shards)}) :
            o = Result(shards, found)
      BY <2>2 DEF Finalize
    <3>6. o.value = found /\ o.twice = Twice(shards) /\ o.few = TooFew(shards)
      BY <3>5 DEF Result
    <3> HIDE DEF V, shards
    <3>7. Assemble(scheme, shards) = IF Twice(shards) \/ TooFew(shards) THEN {} ELSE {Below}
      BY <3>1, <3>2, <3>3, <3>4
    <3>8. found = IF Twice(shards) \/ TooFew(shards) THEN {} ELSE {Below}
      BY <3>7
    <3> QED  BY <3>6, <3>8
  <2> QED  BY <2>1, <2>2
<1> QED  BY <1>1, <1>2, <1>3, <1>4 DEF CodeInv

(* Every behaviour keeps the invariant. *)
LEMMA CodeInvariance == Spec => []CodeInv
<1>1. Init => CodeInv
  BY DEF Init, CodeInv, NoScheme
<1>2. LeafInv /\ CodeInv /\ [Next]_vars => CodeInv'
  <2> SUFFICES ASSUME LeafInv, CodeInv, [Next]_vars PROVE CodeInv'
    OBVIOUS
  <2>1. ASSUME UNCHANGED vars PROVE CodeInv'
    BY <2>1 DEF vars, CodeInv, Hashed, WellCoded, Originals, Below
  <2> QED  BY <2>1, CodeDisperse, CodeFaulty, CodeCheck, CodeFinalize DEF Next
<1> QED  BY <1>1, <1>2, LeafInvariance, PTL DEF Spec

(* For every number of receivers, every scheme and all shards of a faulty  *)
(* sender: from a root that one receiver has checked                       *)
(* (interpolate_and_check_root()), assemble() gives all of them the same   *)
(* value, whichever shards they have.                                      *)
THEOREM CheckedRootsHaveOneValue == Spec => []OneValue
<1>1. CodeInv => OneValue
  <2> SUFFICES ASSUME CodeInv, scheme.recovery_shards > 0 PROVE Cardinality(Values) <= 1
    BY DEF OneValue
  <2>1. \A o \in outputs : o.value \subseteq {Below}
    <3>1. scheme.recovery_shards # 0
      OBVIOUS
    <3> QED  BY <3>1 DEF CodeInv
  <2>2. Values = {} \/ Values = {Below}
    BY <2>1 DEF Values
  <2>3. Cardinality({}) = 0 /\ Cardinality({Below}) = 1
    BY FS_EmptySet, FS_Singleton, Zenon
  <2> QED  BY <2>2, <2>3
<1> QED  BY <1>1, CodeInvariance, PTL

(* For every number of receivers, every scheme with recovery shards and    *)
(* all shards of a faulty sender, and whichever messages receivers echo:   *)
(* finalize() fails for a checked root exactly if two of its shards are    *)
(* the same or the scheme asks for more than it has.                       *)
THEOREM CheckedRootsAssemble == Spec => []AssemblyFails
<1>1. CodeInv => AssemblyFails
  <2> SUFFICES ASSUME CodeInv, scheme.recovery_shards > 0, NEW o \in outputs
               PROVE  o.value = {} <=> o.twice \/ o.few
    BY DEF AssemblyFails
  <2>1. o.value = IF o.twice \/ o.few THEN {} ELSE {Below}
    <3>1. scheme.recovery_shards # 0
      OBVIOUS
    <3> QED  BY <3>1 DEF CodeInv
  <2> QED  BY <2>1
<1> QED  BY <1>1, CodeInvariance, PTL

-----------------------------------------------------------------------------
(* Quotient and remainder. *)
LEMMA Division ==
  ASSUME NEW x \in Nat, NEW D \in Nat \ {0}
  PROVE  \E q \in Nat, m \in 0 .. D - 1 : q = x \div D /\ m = x % D /\ x = q * D + m
<1>1. PICK q : q = x \div D
  OBVIOUS
<1>2. PICK m : m = x % D
  OBVIOUS
<1>3. q \in Nat
  BY <1>1
<1>4. m \in 0 .. D - 1
  BY <1>2
<1>5. x = q * D + m
  BY <1>1, <1>2
<1> QED  BY <1>1, <1>2, <1>3, <1>4, <1>5

(* Multiplication distributes over addition. *)
LEMMA Distributes ==
  ASSUME NEW a \in Nat, NEW b \in Nat, NEW c \in Nat
  PROVE  (a + b) * c = a * c + b * c /\ b * c \in Nat
OBVIOUS

(* The row of a byte and its place there. *)
InRows(k, w, at) ==
  \E q, m \in Nat : /\ q = (at - 1) \div w /\ m = (at - 1) % w
                    /\ q < k /\ m < w /\ q * w + (1 + m) = at

(* A position in the joined chunks has a chunk and a place in it. *)
LEMMA RowAndColumn ==
  ASSUME NEW k \in Nat, NEW w \in Nat, NEW at \in Nat \ {0}, at <= k * w
  PROVE  InRows(k, w, at)
<1>1. w # 0
  <2>1. w = 0 => k * w = 0
    OBVIOUS
  <2> QED  BY <2>1
<1>2. PICK x \in Nat : x = at - 1
  OBVIOUS
<1>3. PICK q \in Nat, m \in 0 .. w - 1 : q = x \div w /\ m = x % w /\ x = q * w + m
  BY <1>1, Division
<1>4. x = q * w + m
  BY <1>3
<1>5. q < k
  <2>1. SUFFICES ASSUME k <= q PROVE FALSE
    OBVIOUS
  <2>2. PICK d \in Nat : q = k + d
    <3>1. q - k \in Nat /\ q = k + (q - k)
      BY <2>1
    <3> QED  BY <3>1
  <2>3. q * w = k * w + d * w /\ d * w \in Nat
    BY <2>2, Distributes
  <2>4. k * w \in Nat
    OBVIOUS
  <2> QED  BY <1>2, <1>4, <2>3, <2>4
<1>6. q * w \in Nat
  OBVIOUS
<1>7. q * w + (1 + m) = at /\ m \in Nat /\ m < w
  BY <1>2, <1>4, <1>6
<1>8. q = (at - 1) \div w /\ m = (at - 1) % w
  BY <1>2, <1>3
<1> QED  BY <1>5, <1>7, <1>8 DEF InRows

(* The rows of a value, joined again and cut to its size, are the value. *)
LEMMA JoinedChunks ==
  ASSUME NEW s \in SchemeType, NEW bytes \in Seq(Byte),
         s.padding = PaddedSize(s) - Len(bytes), Len(bytes) <= PaddedSize(s)
  PROVE  Joined(s, OriginalSize(s), Chunks(s, bytes)) = bytes
<1> DEFINE k == s.original_shards
           w == s.shard_size
           size == Len(bytes)
<1>1. k \in Nat /\ w \in Nat /\ size \in Nat /\ k * w \in Nat
  BY DEF SchemeType
<1>2. OriginalSize(s) = size
  BY <1>1 DEF OriginalSize, PaddedSize
<1>3. Len(Chunks(s, bytes)) = k
  BY <1>1, ChunksType, FunctionIsSeq DEF ChunksOf
<1>4. ASSUME NEW at \in 1 .. size
      PROVE  Joined(s, size, Chunks(s, bytes))[at] = bytes[at]
  <2>1. at \in Nat \ {0} /\ at <= k * w /\ at <= size
    BY <1>1 DEF PaddedSize
  <2>2. PICK q, m \in Nat : /\ q = (at - 1) \div w /\ m = (at - 1) % w
                            /\ q < k /\ m < w /\ q * w + (1 + m) = at
    <3> HIDE DEF k, w
    <3>1. InRows(k, w, at)
      BY <1>1, <2>1, RowAndColumn, Zenon
    <3> QED  BY <3>1, Zenon DEF InRows
  <2>3. q < k /\ m < w /\ q * w + (1 + m) = at
    BY <2>2
  <2>4. (at - 1) \div w = q /\ (at - 1) % w = m
    BY <2>2
  <2>5. Joined(s, size, Chunks(s, bytes))[at] = Chunks(s, bytes)[1 + q][1 + m]
    <3>1. 1 + q <= Len(Chunks(s, bytes))
      BY <1>1, <1>3, <2>3
    <3>2. Joined(s, size, Chunks(s, bytes))[at]
            = IF 1 + ((at - 1) \div w) <= Len(Chunks(s, bytes))
                THEN Chunks(s, bytes)[1 + ((at - 1) \div w)][1 + ((at - 1) % w)] ELSE 0
      BY DEF Joined
    <3> QED  BY <2>4, <3>1, <3>2, Zenon
  <2>6. 1 + q \in 1 .. k /\ 1 + m \in 1 .. w /\ ((1 + q) - 1) * w + (1 + m) = at
    <3>1. (1 + q) - 1 = q
      OBVIOUS
    <3>2. 1 + q \in 1 .. k /\ 1 + m \in 1 .. w
      BY <1>1, <2>3
    <3>3. ((1 + q) - 1) * w + (1 + m) = q * w + (1 + m)
      BY <3>1, Zenon
    <3> QED  BY <2>3, <3>2, <3>3, Zenon
  <2>7. Chunks(s, bytes)[1 + q][1 + m]
          = IF ((1 + q) - 1) * w + (1 + m) <= size
              THEN bytes[((1 + q) - 1) * w + (1 + m)] ELSE 0
    BY <2>6 DEF Chunks
  <2> QED  BY <2>1, <2>5, <2>6, <2>7, Zenon
<1>5. Joined(s, size, Chunks(s, bytes))
        = [at \in 1 .. size |-> Joined(s, size, Chunks(s, bytes))[at]]
  BY DEF Joined
<1>6. bytes = [at \in 1 .. size |-> bytes[at]]
  OBVIOUS
<1> QED  BY <1>2, <1>4, <1>5, <1>6

(* The numbers below a. *)
LEMMA Segment ==
  ASSUME NEW a \in Nat
  PROVE  IsFiniteSet(0 .. a - 1) /\ Cardinality(0 .. a - 1) = a
<1>1. 0 \in Int /\ a - 1 \in Int
  OBVIOUS
<1>2. /\ IsFiniteSet(0 .. a - 1)
      /\ Cardinality(0 .. a - 1) = IF 0 > a - 1 THEN 0 ELSE (a - 1) - 0 + 1
  BY <1>1, FS_Interval
<1> QED  BY <1>2

(* Without recovery shards: all originals, in the order of their index. *)
AllOriginals(s, chunks, shards) ==
  /\ DOMAIN shards = 0 .. s.original_shards - 1
  /\ \A p \in DOMAIN shards :
       shards[p].data = chunks[p + 1] /\ shards[p].kind = "Original" /\ shards[p].idx = p

(* They are what is returned. *)
LEMMA DecodeAll ==
  ASSUME NEW s \in SchemeType, s.recovery_shards = 0, NEW chunks \in ChunksOf(s), NEW shards,
         AllOriginals(s, chunks, shards)
  PROVE  Decoded(s, shards) = {chunks}
<1> USE DEF AllOriginals
<1> DEFINE k == s.original_shards
           senders(idx) == {p \in DOMAIN shards : shards[p].kind = "Original" /\ shards[p].idx = idx}
           originals == {shards[p].idx : p \in {q \in DOMAIN shards : shards[q].kind = "Original"}}
           given == [idx \in originals |-> shards[Max(senders(idx))].data]
           Ranked(i) == CHOOSE idx \in originals : Cardinality({o \in originals : o < idx}) = i - 1
<1>1. Decoded(s, shards) = {[i \in 1 .. Cardinality(originals) |-> given[Ranked(i)]]}
  BY DEF Decoded
<1>2. k \in Nat
  BY DEF SchemeType
<1>3. originals = 0 .. k - 1
  OBVIOUS
<1>4. Cardinality(originals) = k
  <2> HIDE DEF k
  <2>2. Cardinality(0 .. k - 1) = k
    BY <1>2, Segment
  <2> HIDE DEF originals
  <2> QED  BY <1>3, <2>2
<1>5. ASSUME NEW x \in originals PROVE given[x] = chunks[x + 1]
  <2>1. x \in DOMAIN shards /\ x \in Nat
    <3>1. x \in 0 .. k - 1
      BY <1>3
    <3> QED  BY <1>2, <3>1
  <2>2. senders(x) = {x}
    BY <2>1
  <2>3. Max({x}) = x
    <3>1. x \in {x} /\ \A y \in {x} : x >= y
      BY <2>1
    <3>2. (CHOOSE q \in {x} : \A y \in {x} : q >= y) \in {x}
      BY <3>1, Zenon
    <3> QED  BY <3>2 DEF Max
  <2>4. given[x] = shards[Max(senders(x))].data
    BY Zenon
  <2> HIDE DEF given, senders
  <2> QED  BY <2>1, <2>2, <2>3, <2>4
<1> HIDE DEF given, originals
<1>6. ASSUME NEW x \in originals PROVE Cardinality({o \in originals : o < x}) = x
  <2>1. x \in Nat /\ {o \in originals : o < x} = 0 .. x - 1
    BY <1>2, <1>3
  <2>3. Cardinality(0 .. x - 1) = x
    BY <2>1, Segment
  <2> QED  BY <2>1, <2>3
<1>7. ASSUME NEW i \in 1 .. k PROVE Ranked(i) = i - 1
  <2>1. i - 1 \in originals
    BY <1>2, <1>3
  <2>2. \E idx \in originals : Cardinality({o \in originals : o < idx}) = i - 1
    BY <1>6, <2>1
  <2>3. Ranked(i) \in originals /\ Cardinality({o \in originals : o < Ranked(i)}) = i - 1
    BY <2>2, Zenon
  <2> HIDE DEF Ranked
  <2> QED  BY <1>6, <2>3
<1> HIDE DEF Ranked
<1>8. ASSUME NEW i \in 1 .. k PROVE given[Ranked(i)] = chunks[i]
  <2>1. i - 1 \in originals /\ (i - 1) + 1 = i
    BY <1>2, <1>3
  <2>2. given[i - 1] = chunks[(i - 1) + 1]
    BY <1>5, <2>1
  <2> QED  BY <1>7, <2>1, <2>2
<1>9. chunks = [i \in 1 .. k |-> chunks[i]]
  BY DEF ChunksOf
<1>10. [i \in 1 .. Cardinality(originals) |-> given[Ranked(i)]] = chunks
  BY <1>4, <1>8, <1>9
<1> QED  BY <1>1, <1>10

(* What a correct sender has dispersed: the shards of its value. *)
Dispersed ==
  /\ value \in Seq(Byte)
  /\ scheme = NewScheme(Len(value), n, n - 2 * f)
  /\ leaves = NewSet(scheme, value)

(* The inductive invariant behind the rest of Recovered. *)
ValueInv ==
  honest /\ phase = "sent" =>
    /\ Dispersed
    /\ checked \in {"no", "ok"}
    /\ \A o \in outputs : IF o.value = {} THEN o.twice ELSE o.value = {value}

(* Nobody's message is echoed twice; everyone echoes its own. *)
NobodyTwice(e) == \A p, q \in DOMAIN e : e[p] = e[q] => p = q

EveryoneOwn(e) == \A p \in DOMAIN e : e[p] = p

(* Any n - 2f different shards of a correct sender decode to the chunks of *)
(* its value.                                                              *)
LEMMA HonestDecoded ==
  ASSUME LeafInv, honest, phase = "sent", Dispersed,
         NEW S \in SUBSET (0 .. n - 1), Cardinality(S) >= n - 2 * f,
         NEW e \in [S -> Echoing],
         NobodyTwice(e), f = 0 => EveryoneOwn(e)
  PROVE  Decoded(scheme, Echoed(e)) = {Chunks(scheme, value)}
<1> DEFINE t == n - 2 * f
<1>1. PICK chunks : chunks = Chunks(scheme, value)
  OBVIOUS
<1>2. n \in Nat /\ f \in Nat /\ t \in Nat \ {0} /\ Len(leaves) = n /\ system \in Systems
  BY SystemFacts DEF LeafInv
<1>3. /\ scheme \in SchemeType /\ scheme.original_shards = t /\ scheme.recovery_shards = 2 * f
      /\ scheme.recovery_shards # 0 => Coded(scheme)
      /\ chunks \in ChunksOf(scheme)
  BY <1>1, <1>2, DispersedShards DEF Dispersed
<1>4. S \in SUBSET Nat /\ IsFiniteSet(S) /\ S \in SUBSET (0 .. n - 1)
  BY ReceiversFinite
<1>5. ASSUME NEW p \in Echoing PROVE got[p] = p /\ p \in 0 .. n - 1
  <2>1. RoomForAll
    <3>1. Levels(n) \in Nat \ {0} /\ 2^(Levels(n) - 1) >= n
      <4>1. n \in Nat \ {0}
        BY <1>2
      <4> QED  BY <4>1, LevelsFacts
    <3>2. 2^(Levels(n) - 1) \in Nat
      BY <3>1, PowerStep
    <3>3. n <= 2^(Levels(n) - 1)
      BY <1>2, <3>1, <3>2
    <3> QED  BY <1>2, <3>3 DEF RoomForAll
  <2>2. p \in 0 .. n - 1 /\ got[p] # -1
    BY DEF Echoing
  <2> QED  BY <2>1, <2>2, OwnPlaces DEF OwnLeaf
<1>6. /\ DOMAIN Echoed(e) = S
      /\ \A p \in S : Echoed(e)[p] = Encode(scheme, chunks)[e[p] + 1]
  <2>1. leaves = Encode(scheme, chunks)
    BY <1>1 DEF Dispersed, NewSet
  <2>2. DOMAIN Echoed(e) = S /\ \A p \in S : Echoed(e)[p] = leaves[got[e[p]] + 1]
    BY DEF Echoed
  <2>3. \A p \in S : e[p] \in Echoing
    OBVIOUS
  <2> QED  BY <1>5, <2>1, <2>2, <2>3
<1>7. CASE f # 0
  <2>1. Coded(scheme)
    <3>1. 2 * f # 0
      BY <1>2, <1>7
    <3> QED  BY <1>3, <3>1
  <2>2. PartOf(scheme, chunks, S, e, Echoed(e))
    <3>1. t + 2 * f = n
      BY <1>2
    <3>2. 0 .. scheme.original_shards + scheme.recovery_shards - 1 = 0 .. n - 1
      <4>1. scheme.original_shards + scheme.recovery_shards = n
        BY <1>3, <3>1
      <4>2. scheme.original_shards \in Nat /\ scheme.recovery_shards \in Nat
        BY <1>2, <1>3
      <4>3. scheme.original_shards + scheme.recovery_shards - 1 = n - 1
        BY <1>2, <4>1, <4>2
      <4> QED  BY <4>3
    <3>3. e \in [S -> 0 .. n - 1]
      BY <1>5
    <3>4. \A p \in S : Echoed(e)[p] = Encode(scheme, chunks)[e[p] + 1]
      BY <1>6
    <3>5. e \in [S -> 0 .. scheme.original_shards + scheme.recovery_shards - 1]
      BY <3>2, <3>3, Zenon
    <3> QED  BY <1>6, <3>4, <3>5 DEF PartOf
  <2>3. Decodable(scheme, Echoed(e))
    <3>1. \A p, q \in S : e[p] = e[q] => p = q
      BY DEF NobodyTwice
    <3>2. Cardinality(S) >= scheme.original_shards
      BY <1>3
    <3> QED  BY <1>3, <2>1, <2>2, <3>1, <3>2, PartDecodable
  <2>4. Decoded(scheme, Echoed(e)) = {chunks}
    BY <1>3, <1>4, <2>1, <2>2, <2>3, DecodeCode
  <2> QED  BY <1>1, <2>4
<1>8. CASE f = 0
  <2>1. t = n /\ scheme.recovery_shards = 0 /\ scheme.original_shards = n
    BY <1>2, <1>3, <1>8
  <2>2. S = 0 .. n - 1
    <3>1. IsFiniteSet(0 .. n - 1) /\ Cardinality(0 .. n - 1) = n
      BY <1>2, Segment
    <3>2. Cardinality(S) <= Cardinality(0 .. n - 1)
      BY <1>4, <3>1, FS_Subset
    <3>3. Cardinality(S) \in Nat /\ Cardinality(S) >= n
      BY <1>4, <2>1, FS_CardinalityType
    <3>4. Cardinality(0 .. n - 1) = Cardinality(S)
      BY <1>2, <3>1, <3>2, <3>3
    <3> QED  BY <1>4, <3>1, <3>4, FS_Subset
  <2>3. ASSUME NEW p \in S
        PROVE  /\ Echoed(e)[p].data = chunks[p + 1] /\ Echoed(e)[p].kind = "Original"
               /\ Echoed(e)[p].idx = p
    <3>1. p + 1 \in 1 .. scheme.original_shards /\ (p + 1) - 1 = p
      BY <1>2, <2>1, <2>2
    <3>2. PICK i : i = p + 1
      OBVIOUS
    <3>3. /\ Encode(scheme, chunks)[i].data = chunks[i]
          /\ Encode(scheme, chunks)[i].kind = "Original"
          /\ Encode(scheme, chunks)[i].idx = i - 1
      BY <1>3, <3>1, <3>2, EncodeOriginal
    <3>4. Echoed(e)[p] = Encode(scheme, chunks)[i]
      BY <1>6, <1>8, <3>2 DEF EveryoneOwn
    <3> QED  BY <3>1, <3>2, <3>3, <3>4
  <2>4. DOMAIN Echoed(e) = 0 .. scheme.original_shards - 1
    BY <1>6, <2>1, <2>2
  <2>5. PICK shards : shards = Echoed(e)
    OBVIOUS
  <2>6. AllOriginals(scheme, chunks, shards)
    BY <1>6, <2>3, <2>4, <2>5 DEF AllOriginals
  <2>7. Decoded(scheme, shards) = {chunks}
    <3>1. scheme \in SchemeType /\ scheme.recovery_shards = 0 /\ chunks \in ChunksOf(scheme)
      BY <1>3, <2>1
    <3> QED  BY <2>6, <3>1, DecodeAll
  <2> QED  BY <1>1, <2>5, <2>7
<1> QED  BY <1>7, <1>8

(* A correct sender has encoded its value. *)
LEMMA ValueDisperse ==
  ASSUME LeafInv, CodeInv, NEW size \in Sizes, Disperse(size)
  PROVE  ValueInv'
<1> DEFINE bytes == [i \in 1 .. size |-> i % Prime]
<1>1. size \in Nat /\ bytes \in Seq(Byte) /\ Len(bytes) = size
  <2>1. size \in Nat
    BY SystemsAssumption
  <2> QED  BY <2>1, ValueBytes
<1>2. /\ checked' = "no" /\ outputs' = {} /\ system' = system /\ value' = bytes
  BY DEF Disperse, CodeInv
<1>3. CASE NewSetOk(bytes, n, n - 2 * f)
  <2>1. scheme' = NewScheme(size, n, n - 2 * f) /\ leaves' = NewSet(scheme', bytes)
    BY <1>3 DEF Disperse
  <2> HIDE DEF bytes
  <2>2. n' = n /\ f' = f
    BY <1>2 DEF n, f
  <2>3. Dispersed'
    BY <1>1, <1>2, <2>1, <2>2 DEF Dispersed
  <2> QED  BY <1>2, <2>3 DEF ValueInv
<1>4. CASE ~NewSetOk(bytes, n, n - 2 * f)
  <2>1. phase' = "failed"
    BY <1>4 DEF Disperse
  <2> QED  BY <2>1 DEF ValueInv
<1> QED  BY <1>3, <1>4

(* The shards of its root decode to that value. *)
LEMMA ValueCheck ==
  ASSUME LeafInv, ValueInv, NEW D \in Destinations, CheckRoot(D)
  PROVE  ValueInv'
<1>1. /\ phase = "sent" /\ phase' = "sent" /\ system' = system /\ honest' = honest
      /\ value' = value /\ scheme' = scheme /\ leaves' = leaves /\ outputs' = outputs
  BY DEF CheckRoot
<1>2. SUFFICES ASSUME honest PROVE ValueInv'
  BY <1>1 DEF ValueInv
<1>3. /\ Dispersed /\ Dispersed'
      /\ \A o \in outputs' : IF o.value = {} THEN o.twice ELSE o.value = {value'}
  BY <1>1, <1>2 DEF ValueInv, Dispersed, n, f
<1>4. Interpolate(scheme, ByDestination(D)) = {leaves}
  <2>1. PICK e \in [D -> Echoing] : e = [d \in D |-> d] /\ ByDestination(D) = Echoed(e)
    BY DestinationsFacts DEF ByDestination
  <2>2. Decoded(scheme, Echoed(e)) = {Chunks(scheme, value)}
    BY <1>1, <1>2, <1>3, <2>1, DestinationsFacts, HonestDecoded DEF NobodyTwice, EveryoneOwn
  <2>3. Interpolate(scheme, Echoed(e)) = {Encode(scheme, Chunks(scheme, value))}
    BY <2>2 DEF Interpolate
  <2> QED  BY <1>3, <2>1, <2>3 DEF Dispersed, NewSet
<1>5. checked' = "ok"
  BY <1>4 DEF CheckRoot
<1> QED  BY <1>3, <1>5 DEF ValueInv

(* So that is what is assembled from different shards. *)
LEMMA HonestAssembled ==
  ASSUME LeafInv, honest, phase = "sent", Dispersed,
         NEW shards, Decoded(scheme, shards) = {Chunks(scheme, value)}
  PROVE  Assemble(scheme, shards) = {value}
<1>1. n \in Nat /\ n - 2 * f \in Nat \ {0} /\ n - 2 * f <= n /\ system \in Systems
  BY SystemFacts DEF LeafInv
<1>2. value \in Seq(Byte) /\ Len(value) \in Nat /\ scheme = NewScheme(Len(value), n, n - 2 * f)
  BY DEF Dispersed
<1>3. /\ FitsValue(scheme, Len(value), n, n - 2 * f)
      /\ scheme \in SchemeType /\ Chunks(scheme, value) \in ChunksOf(scheme)
  BY <1>1, <1>2, NewSchemeFits, DispersedShards
<1>4. RightSize(scheme, Chunks(scheme, value))
  BY <1>3, ChunksRight
<1>5. Assemble(scheme, shards) = {Joined(scheme, OriginalSize(scheme), Chunks(scheme, value))}
  BY <1>4 DEF Assemble
<1>6. scheme.padding = PaddedSize(scheme) - Len(value) /\ Len(value) <= PaddedSize(scheme)
  <2>1. scheme.padding = PaddedSize(scheme) - Len(value) /\ scheme.padding \in Nat
    BY <1>1, <1>3 DEF FitsValue
  <2>2. PaddedSize(scheme) \in Nat
    BY <1>3 DEF PaddedSize, SchemeType
  <2> QED  BY <1>2, <2>1, <2>2
<1>7. Joined(scheme, OriginalSize(scheme), Chunks(scheme, value)) = value
  BY <1>2, <1>3, <1>6, JoinedChunks
<1> QED  BY <1>5, <1>7

(* Without faulty receivers everyone echoes its own message. *)
LEMMA NobodyRepeats ==
  ASSUME LeafInv, f = 0, NEW e \in Echos
  PROVE  EveryoneOwn(e)
<1> DEFINE other == {i \in DOMAIN e : e[i] # i}
<1>1. Cardinality(other) <= 0
  BY DEF Echos
<1>2. IsFiniteSet(other)
  BY EchosFacts, FS_Subset
<1>3. other = {}
  <2> HIDE DEF other
  <2> QED  BY <1>1, <1>2, FS_CardinalityType, FS_EmptySet
<1> QED  BY <1>3 DEF EveryoneOwn

(* A correct sender's value comes out, or a shard has come in twice. *)
LEMMA ValueFinalize ==
  ASSUME LeafInv, CodeInv, ValueInv, NEW e \in Echos, Finalize(e)
  PROVE  ValueInv'
<1> DEFINE shards == Echoed(e)
<1>1. /\ phase' = phase /\ system' = system /\ honest' = honest /\ checked = "ok"
      /\ value' = value /\ scheme' = scheme /\ leaves' = leaves /\ checked' = "ok"
      /\ Cardinality(DOMAIN e) >= n - 2 * f
  BY DEF Finalize
<1>2. phase = "sent"
  BY <1>1 DEF CodeInv
<1>3. SUFFICES ASSUME honest PROVE ValueInv'
  BY <1>1 DEF ValueInv
<1>4. Dispersed /\ Dispersed'
  BY <1>1, <1>2, <1>3 DEF ValueInv, Dispersed, n, f
<1>5. \/ Assemble(scheme, shards) = {value}
      \/ Assemble(scheme, shards) = {} /\ Twice(shards)
  <2>1. CASE NobodyTwice(e)
    <3>1. Decoded(scheme, shards) = {Chunks(scheme, value)}
      BY <1>1, <1>2, <1>3, <1>4, <2>1, EchosFacts, NobodyRepeats, HonestDecoded
    <3> QED  BY <1>2, <1>3, <1>4, <3>1, HonestAssembled
  <2>2. CASE ~NobodyTwice(e)
    <3>1. Twice(shards)
      BY <2>2 DEF NobodyTwice, Twice, Echoed
    <3>2. f # 0
      BY <2>2, NobodyRepeats DEF NobodyTwice, EveryoneOwn
    <3>3. scheme.recovery_shards # 0
      <4>1. n \in Nat /\ f \in Nat /\ system \in Systems
        BY SystemFacts DEF LeafInv
      <4>2. scheme.recovery_shards = 2 * f
        BY <1>4, <4>1, DispersedShards DEF Dispersed
      <4> QED  BY <3>2, <4>1, <4>2
    <3>4. Decoded(scheme, shards) = {}
      BY <3>1, <3>3, TwiceRefused
    <3> QED  BY <3>1, <3>4 DEF Assemble
  <2> QED  BY <2>1, <2>2
<1>6. ASSUME NEW o \in outputs' PROVE IF o.value = {} THEN o.twice ELSE o.value = {value}
  <2>1. CASE o \in outputs
    BY <1>2, <1>3, <2>1 DEF ValueInv
  <2>2. CASE o \notin outputs
    <3>1. PICK found \in (IF Assemble(scheme, shards) = {}
                            THEN {{}} ELSE {{v} : v \in Assemble(scheme, shards)}) :
            o = Result(shards, found)
      BY <2>2 DEF Finalize
    <3>2. o.value = found /\ o.twice = Twice(shards)
      BY <3>1 DEF Result
    <3> HIDE DEF shards
    <3> QED  BY <1>5, <3>1, <3>2
  <2> QED  BY <2>1, <2>2
<1> QED  BY <1>1, <1>4, <1>6 DEF ValueInv

(* Every behaviour keeps the invariant. *)
LEMMA ValueInvariance == Spec => []ValueInv
<1>1. Init => ValueInv
  BY DEF Init, ValueInv
<1>2. LeafInv /\ CodeInv /\ ValueInv /\ [Next]_vars => ValueInv'
  <2> SUFFICES ASSUME LeafInv, CodeInv, ValueInv, [Next]_vars PROVE ValueInv'
    OBVIOUS
  <2>1. ASSUME UNCHANGED vars PROVE ValueInv'
    BY <2>1 DEF vars, ValueInv, Dispersed, n, f
  <2>2. ASSUME NEW s, DisperseFaulty(s) PROVE ValueInv'
    BY <2>2 DEF DisperseFaulty, ValueInv
  <2> QED  BY <2>1, <2>2, ValueDisperse, ValueCheck, ValueFinalize DEF Next
<1> QED  BY <1>1, <1>2, LeafInvariance, CodeInvariance, PTL DEF Spec

(* For values of every size and any number of receivers that the wire      *)
(* format can count: new_set() and assemble() are inverse to each other    *)
(* through the tree, the accepted branches, the check of the root and any  *)
(* n - 2f of the shards.                                                   *)
THEOREM ValuesAreRecovered == SystemsFit => (Spec => []Recovered)
<1> SUFFICES ASSUME SystemsFit PROVE Spec => []Recovered
  OBVIOUS
<1>1. FitInv /\ CodeInv /\ ValueInv => Recovered
  BY DEF FitInv, ShardingFails, CodeInv, ValueInv, Recovered
<1> QED  BY <1>1, FitInvariance, CodeInvariance, ValueInvariance, PTL
=============================================================================
