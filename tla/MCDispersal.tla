---------------------------- MODULE MCDispersal ----------------------------
(* Instances of Dispersal: a correct sender in several systems, and a       *)
(* faulty sender with schemes that need not fit the system.                *)
EXTENDS Dispersal

(* Thresholds 1 .. 4, with and without recovery shards. *)
MCSystems == {<<1, 0>>, <<3, 0>>, <<4, 0>>, <<3, 1>>, <<4, 1>>, <<5, 1>>, <<6, 1>>, <<5, 2>>}

SchemeOf(k, r) == [original_shards |-> k, recovery_shards |-> r,
                   shard_size |-> 2, padding |-> 1]

(* The right scheme, too many originals, too few shards, too many shards,  *)
(* none for recovery, one that new_inner() refuses, and one whose tree is  *)
(* too small for the receivers.                                            *)
MCSchemes ==
  {<<4, 1>>} \X {SchemeOf(2, 2), SchemeOf(3, 1), SchemeOf(1, 1), SchemeOf(2, 1),
                SchemeOf(2, 3), SchemeOf(3, 0),
                [SchemeOf(2, 2) EXCEPT !.shard_size = 0]}
  \cup {<<<<5, 1>>, SchemeOf(3, 1)>>}

(* Shards of the right size, and one that is shorter. *)
MCData == {<<0, 0>>, <<1, 0>>, <<1>>}
=============================================================================
