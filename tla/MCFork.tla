------------------------------- MODULE MCFork -------------------------------
(***************************************************************************)
(* Alternatives: a local decision forks the execution and a merge takes    *)
(* whichever branch was computed; the output also needs either a vote or a *)
(* certificate, whichever arrives first.  A message may carry both, and    *)
(* its values are preprocessed apart.                                      *)
(***************************************************************************)
EXTENDS Verification

MCParties == {1, 2, 3}

MCMe == 3

Others == MCParties \ {MCMe}

MCOutput == "out"

MCNode ==
  [data     |-> scalar_argument(FALSE),
   choice   |-> compute_scalar("Fork", <<"data">>),
   accept   |-> fork_left("choice"),
   reject   |-> fork_right("choice"),
   decision |-> merge_scalars("accept", "reject"),
   v_recv   |-> receive,
   v_des    |-> deserialize_and_check("v_recv", FALSE),
   votes    |-> collect("v_des", Others, 1),
   c_recv   |-> receive,
   c_des    |-> deserialize_and_check("c_recv", FALSE),
   c_check  |-> compute_mapping("ThirdPartyAttributable", <<"c_des", "data">>),
   cert     |-> collect("c_check", Others, 1),
   either   |-> merge_scalars("cert", "votes"),
   out      |-> compute_scalar("Unattributable", <<"decision", "either">>)]

Signed(source, name) ==
  [source |-> source, name |-> name, destination |-> None,
   session |-> TRUE, signature |-> TRUE, payload |-> "a"]

MCMessage ==
  {<<Signed(1, "v_recv")>>, <<Signed(2, "v_recv"), Signed(2, "c_recv")>>}

(* Tables for the constants that the code calculates from the graph. *)
MCPossibleIds == [m \in {"v_recv", "v_des", "c_recv", "c_des", "c_check"} |-> Others]

MCRank == [v_recv |-> 1, v_des |-> 2, votes |-> 3, data |-> 4, c_recv |-> 5,
           c_des |-> 6, c_check |-> 7, cert |-> 8, either |-> 9, choice |-> 10,
           reject |-> 11, accept |-> 12, decision |-> 13, out |-> 14]

MCMessagesOf == [v_des |-> {"v_recv"}, c_des |-> {"c_recv"}, c_check |-> {"c_recv"}]

ASSUME TablesAssumption ==
  /\ MCPossibleIds = PropagatedGroups
  /\ MCRank = RuleOrder
  /\ {} = EscalatedNodes
  /\ MCMessagesOf = EvidenceMessages
=============================================================================
