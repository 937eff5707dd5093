----------------------------- MODULE MCRewrite -----------------------------
(* All graphs of five nodes, of which two are inputs, and a caller with two *)
(* nodes: an input of its own, and a node that uses it.                    *)
EXTENDS Rewrite

FiveKinds == <<"ScalarArgument", "ScalarArgument", "ComputeScalar",
               "ComputeMapping", "ComputeScalar">>

CallerNode(name, kind, kids) ==
  [name |-> name, prefix |-> 0, kind |-> kind, modified |-> FALSE,
   kids |-> kids]

TwoNodes == <<CallerNode(6, "ScalarArgument", <<>>),
              CallerNode(7, "ComputeScalar", <<6>>)>>
=============================================================================
