------------------------------ MODULE MCDirect ------------------------------
(***************************************************************************)
(* A round of direct messages: every party computes a share for each of    *)
(* the others and sends it to them, checks the shares it gets, and outputs *)
(* once it has sent and received everything.  A share is checked by a      *)
(* computation with a reveal, whose failure can be proved from the share   *)
(* and public data, and then with the private key, which cannot be shown   *)
(* to others: that failure is escalated.                                   *)
(***************************************************************************)
EXTENDS Verification

CONSTANT Faulty   \* the remote parties that may send anything

MCParties == {1, 2, 3}

MCMe == 2

Others == MCParties \ {MCMe}

MCOutput == "out"

MCNode ==
  [key      |-> scalar_argument(TRUE),
   pub      |-> scalar_argument(FALSE),
   share    |-> compute_mapping("UnattributableWithRng", <<"key">>),
   s_sign   |-> serialize_and_sign_dm("share"),
   s_sent   |-> send_dm("s_sign"),
   all_sent |-> send_all("s_sent", Others),
   s_recv   |-> receive,
   s_des    |-> deserialize_and_check("s_recv", TRUE),
   s_open   |-> compute_mapping_sender_fallible_with_reveal(
                  <<"key", "s_des">>, <<"s_des", "pub">>),
   s_check  |-> compute_mapping("SenderAttributable", <<"key", "s_open">>),
   shares   |-> collect("s_check", Others, 2),
   out      |-> with_dependency(compute_scalar("ThirdPartyAttributable", <<"shares">>),
                                <<"all_sent">>)]

MCPayloads == {"a", "b"}

Signed(source, destination, payload) ==
  [source |-> source, name |-> "s_recv", destination |-> destination,
   session |-> TRUE, signature |-> TRUE, payload |-> payload]

HonestMessages == {<<Signed(p, MCMe, "a")>> : p \in Others \ Faulty}

(* Faulty parties may send two different shares, a broadcast, and a value  *)
(* with a name that is not in the graph.                                   *)
FaultyMessages ==
  UNION {{<<Signed(p, MCMe, "a")>>, <<Signed(p, MCMe, "b")>>,
          <<Signed(p, None, "a")>>,
          <<[Signed(p, MCMe, "a") EXCEPT !.name = "unknown"]>>} : p \in Faulty}

MCMessage == HonestMessages \cup FaultyMessages

(* Tables for the constants that the code calculates from the graph. *)
MCPossibleIds ==
  [share |-> Others, s_sign |-> Others, s_sent |-> Others, s_recv |-> Others,
   s_des |-> Others, s_open |-> Others, s_check |-> Others]

MCRank == [key |-> 1, share |-> 2, s_sign |-> 3, s_sent |-> 4, all_sent |-> 5,
           pub |-> 6, s_recv |-> 7, s_des |-> 8, s_open |-> 9, s_check |-> 10,
           shares |-> 11, out |-> 12]

MCEscalated == {"share", "s_check"}

MCMessagesOf == [share |-> {}, s_des |-> {"s_recv"}, s_open |-> {"s_recv"},
                 s_check |-> {"s_recv"}]

ASSUME TablesAssumption ==
  /\ MCPossibleIds = PropagatedGroups
  /\ MCRank = RuleOrder
  /\ MCEscalated = EscalatedNodes
  /\ MCMessagesOf = EvidenceMessages
=============================================================================
