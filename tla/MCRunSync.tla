----------------------------- MODULE MCRunSync -----------------------------
(***************************************************************************)
(* Three nodes that exchange messages in two rounds, under every           *)
(* configuration of at most two rules for the values of the rounds.        *)
(***************************************************************************)
EXTENDS RunSync

AtMostTwo == {{x, y} : x, y \in Rules} \cup {{}}
=============================================================================
