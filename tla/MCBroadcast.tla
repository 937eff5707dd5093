---------------------------- MODULE MCBroadcast ----------------------------
(***************************************************************************)
(* A broadcast round: every party broadcasts a value, checks the values it *)
(* receives and computes its output from a threshold of them.              *)
(***************************************************************************)
EXTENDS Verification

CONSTANT Faulty   \* the remote parties that may send anything

MCParties == {1, 2, 3}

MCMe == 1

Others == MCParties \ {MCMe}

MCOutput == "out"

MCNode ==
  [x       |-> scalar_argument(TRUE),
   my_x    |-> compute_scalar("UnattributableWithRng", <<"x">>),
   x_sign  |-> serialize_and_sign_bc("my_x"),
   x_sent  |-> send_bc("x_sign"),
   x_recv  |-> receive,
   x_des   |-> deserialize_and_check("x_recv", FALSE),
   x_check |-> compute_mapping("SenderAttributable", <<"x_des">>),
   xs      |-> collect("x_check", Others, 1),
   out     |-> with_dependency(
                 compute_scalar("ThirdPartyAttributable", <<"my_x", "xs">>),
                 <<"x_sent">>)]

MCPayloads == {"a", "junk"}

MCMalformed == {"junk"}

Signed(source, payload) ==
  [source |-> source, name |-> "x_recv", destination |-> None,
   session |-> TRUE, signature |-> TRUE, payload |-> payload]

(* Correct parties send one well-formed broadcast value; faulty ones may   *)
(* send another one, which does not deserialize; and someone outside the   *)
(* session may send a value too.                                           *)
HonestMessages == {<<Signed(p, "a")>> : p \in Others \ Faulty}

FaultyMessages ==
  UNION {{<<Signed(p, "a")>>, <<Signed(p, "junk")>>} : p \in Faulty}

Stranger == 4

MCMessage ==
  HonestMessages \cup FaultyMessages \cup {<<Signed(Stranger, "a")>>}

(* Tables for the constants that the code calculates from the graph. *)
MCPossibleIds == [x_recv |-> Others, x_des |-> Others, x_check |-> Others]

MCRank == [x |-> 1, my_x |-> 2, x_sign |-> 3, x_sent |-> 4, x_recv |-> 5,
           x_des |-> 6, x_check |-> 7, xs |-> 8, out |-> 9]

MCEscalated == {}

MCMessagesOf == [x_des |-> {"x_recv"}, x_check |-> {"x_recv"}]

ASSUME TablesAssumption ==
  /\ MCPossibleIds = PropagatedGroups
  /\ MCRank = RuleOrder
  /\ MCEscalated = EscalatedNodes
  /\ MCMessagesOf = EvidenceMessages
=============================================================================
