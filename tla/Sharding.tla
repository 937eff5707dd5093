------------------------------ MODULE Sharding ------------------------------
(***************************************************************************)
(* Erasure coding of a serialized value (ayatori-rbc/src/sharding.rs).  A  *)
(* byte is an element of a small prime field; the Reed-Solomon coder of    *)
(* the reed_solomon_simd crate is the systematic polynomial code over that *)
(* field, applied to every column of the shards: the originals are the     *)
(* values of a polynomial of degree below original_shards at the first     *)
(* points and the recovery shards its values at the points that follow.    *)
(***************************************************************************)
EXTENDS Integers, Sequences, FiniteSets, FiniteSetsExt

CONSTANTS
  Prime,    \* the number of byte values
  WireMax   \* u32::MAX

ASSUME FieldAssumption ==
  /\ Prime \in Nat /\ Prime > 1
  /\ \A a, b \in 2 .. Prime - 1 : a * b # Prime
  /\ WireMax \in Nat

Byte == 0 .. Prime - 1

-----------------------------------------------------------------------------
(* The originals hold the value; the coder needs shards of even size. *)
ShardSize(size, threshold) ==
  LET shardSize == (size + threshold - 1) \div threshold
  IN shardSize + (shardSize % 2)

(* Scheme::new(), whose threshold is positive and not above the total. *)
NewScheme(size, total, threshold) ==
  LET shardSize == ShardSize(size, threshold)
  IN [original_shards |-> threshold, recovery_shards |-> total - threshold,
      shard_size |-> shardSize, padding |-> shardSize * threshold - size]

PaddedSize(scheme) == scheme.original_shards * scheme.shard_size

OriginalSize(scheme) == PaddedSize(scheme) - scheme.padding

(* Scheme::new_inner() accepts the scheme: made here or received. *)
SchemeOk(scheme) ==
  /\ scheme.original_shards # 0
  /\ scheme.shard_size % 2 = 0
  /\ PaddedSize(scheme) > scheme.padding

(* Mutation: the size of a shard is not bounded. *)
ShardOkAnySize(shard) == shard.idx <= WireMax

(* Shard::new() accepts the shard. *)
ShardOk(shard) == Len(shard.data) <= WireMax /\ shard.idx <= WireMax

-----------------------------------------------------------------------------
(* The field and the code; the points of known[] are pairwise different. *)
InverseOf(a) == CHOOSE b \in Byte : (a * b) % Prime = 1

Lagrange(points, p, x) ==
  MapThenFoldSet(LAMBDA a, b : (a * b) % Prime, 1,
                 LAMBDA q : ((x - q) * InverseOf((p - q) % Prime)) % Prime,
                 LAMBDA s : CHOOSE q \in s : TRUE, points \ {p})

(* The symbol at point x of the codeword through those of word[]. *)
Symbol(word, x) ==
  MapThenSumSet(LAMBDA p : word[p] * Lagrange(DOMAIN word, p, x), DOMAIN word) % Prime

(* The shard at point x of the codeword through the known shards. *)
Extrapolate(known, size, x) ==
  [b \in 1 .. size |-> Symbol([p \in DOMAIN known |-> known[p][b]], x)]

(* What the coder promises for k originals and r recovery shards: any k of *)
(* the shards give back all of them.                                       *)
IsCode(k, r) ==
  \A word \in [0 .. k - 1 -> Byte] :
    /\ \A x \in 0 .. k - 1 : Symbol(word, x) = word[x]
    /\ \A K \in kSubset(k, 0 .. k + r - 1) :
         LET part == [p \in K |-> Symbol(word, p)]
         IN \A x \in 0 .. k + r - 1 : Symbol(part, x) = Symbol(word, x)

(* Encoded::new_inner(), from the original chunks it is given. *)
Encode(scheme, chunks) ==
  [i \in 1 .. Len(chunks) |->
     [data |-> chunks[i], kind |-> "Original", idx |-> i - 1]]
  \o [j \in 1 .. scheme.recovery_shards |->
        [data |-> Extrapolate([p \in 0 .. Len(chunks) - 1 |-> chunks[p + 1]],
                              scheme.shard_size, Len(chunks) + j - 1),
         kind |-> "Recovery", idx |-> j - 1]]

Point(scheme, shard) ==
  shard.idx + (IF shard.kind = "Original" THEN 0 ELSE scheme.original_shards)

(* ReedSolomonDecoder accepts the shards: of the right size, each in its   *)
(* range and given once, and enough of them.                               *)
Decodable(scheme, shards) ==
  /\ \A p \in DOMAIN shards :
       /\ Len(shards[p].data) = scheme.shard_size
       /\ shards[p].idx < (IF shards[p].kind = "Original"
                             THEN scheme.original_shards
                             ELSE scheme.recovery_shards)
  /\ \A p, q \in DOMAIN shards :
       p # q => Point(scheme, shards[p]) # Point(scheme, shards[q])
  /\ Cardinality(DOMAIN shards) >= scheme.original_shards

(* What the decoder may restore at the points of the missing originals:    *)
(* the codeword's bytes, or anything in the columns that no codeword       *)
(* explains.                                                               *)
Restored(scheme, known) ==
  LET base == CHOOSE T \in kSubset(scheme.original_shards, DOMAIN known) : TRUE
      At(x) == Extrapolate([p \in base |-> known[p]], scheme.shard_size, x)
      missing == (0 .. scheme.original_shards - 1) \ DOMAIN known
      garbled == {b \in 1 .. scheme.shard_size :
                    \E x \in DOMAIN known \ base : known[x][b] # At(x)[b]}
  IN {[x \in missing |->
         [b \in 1 .. scheme.shard_size |->
            IF b \in garbled THEN g[x][b] ELSE At(x)[b]]] :
      g \in [missing -> [garbled -> Byte]]}

(* Decoded::new() for shards by receiver: the chunks it may return, in the *)
(* order of their index, or nothing when it fails.  Without recovery       *)
(* shards it returns the originals that it was given, however few, and of  *)
(* several with one index the last.                                        *)
Decoded(scheme, shards) ==
  LET senders(idx) == {p \in DOMAIN shards : shards[p].kind = "Original" /\ shards[p].idx = idx}
      originals == {shards[p].idx : p \in {q \in DOMAIN shards : shards[q].kind = "Original"}}
      given == [idx \in originals |-> shards[Max(senders(idx))].data]
      known == [x \in {Point(scheme, shards[p]) : p \in DOMAIN shards} |->
                  shards[CHOOSE p \in DOMAIN shards : Point(scheme, shards[p]) = x].data]
      Ranked(i) == CHOOSE idx \in originals : Cardinality({o \in originals : o < idx}) = i - 1
  IN IF scheme.recovery_shards = 0
       THEN IF \E p \in DOMAIN shards : shards[p].kind # "Original"
              THEN {}
              ELSE {[i \in 1 .. Cardinality(originals) |-> given[Ranked(i)]]}
       ELSE IF ~Decodable(scheme, shards)
              THEN {}
              ELSE {[i \in 1 .. scheme.original_shards |->
                       IF i - 1 \in originals THEN given[i - 1] ELSE r[i - 1]] :
                    r \in Restored(scheme, known)}

-----------------------------------------------------------------------------
(* Bytes beyond the value are zero. *)
Chunks(scheme, bytes) ==
  [i \in 1 .. scheme.original_shards |->
     [b \in 1 .. scheme.shard_size |->
        LET at == (i - 1) * scheme.shard_size + b
        IN IF at <= Len(bytes) THEN bytes[at] ELSE 0]]

(* new_set(): the shards of a value under its scheme. *)
NewSet(scheme, bytes) == Encode(scheme, Chunks(scheme, bytes))

(* new_set() does not fail. *)
NewSetOk(bytes, total, threshold) ==
  /\ threshold # 0 /\ threshold <= total
  /\ LET scheme == NewScheme(Len(bytes), total, threshold)
     IN /\ SchemeOk(scheme)
        /\ \A i \in 1 .. total : ShardOk(NewSet(scheme, bytes)[i])

(* Mutation: the shards are not encoded again, the given ones are kept. *)
InterpolateGiven(scheme, shards) ==
  {[i \in 1 .. Len(chunks) + scheme.recovery_shards |->
      IF \E p \in DOMAIN shards : Point(scheme, shards[p]) = i - 1
        THEN shards[CHOOSE p \in DOMAIN shards : Point(scheme, shards[p]) = i - 1]
        ELSE Encode(scheme, chunks)[i]] :
   chunks \in Decoded(scheme, shards)}

(* interpolate(): the full sets of shards it may return, none if it fails. *)
Interpolate(scheme, shards) ==
  {Encode(scheme, chunks) : chunks \in Decoded(scheme, shards)}

(* The first bytes of a value that its chunks fill from the start; what    *)
(* they do not reach stays zero.                                           *)
Joined(scheme, size, chunks) ==
  [at \in 1 .. size |->
     LET chunk == 1 + ((at - 1) \div scheme.shard_size)
         byte == 1 + ((at - 1) % scheme.shard_size)
     IN IF chunk <= Len(chunks) THEN chunks[chunk][byte] ELSE 0]

(* The chunks to be joined have the size of the scheme.  The decoder has   *)
(* checked it; without recovery shards nothing has.                        *)
RightSize(scheme, chunks) ==
  \A i \in DOMAIN chunks :
    i <= scheme.original_shards => Len(chunks[i]) = scheme.shard_size

(* Mutation: the padding is not cut off. *)
AssemblePadded(scheme, shards) ==
  {Joined(scheme, PaddedSize(scheme), chunks) :
     chunks \in {c \in Decoded(scheme, shards) : RightSize(scheme, c)}}

(* assemble(): the serialized values it may return, none if it fails, or   *)
(* panics as it copies a chunk of another size.                            *)
Assemble(scheme, shards) ==
  {Joined(scheme, OriginalSize(scheme), chunks) :
     chunks \in {c \in Decoded(scheme, shards) : RightSize(scheme, c)}}
=============================================================================
