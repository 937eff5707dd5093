----------------------------- MODULE MCDevTokio -----------------------------
(***************************************************************************)
(* Instances of DevTokio, through channels of one place: sessions that     *)
(* need all messages, sessions that go on without some or fail, sessions   *)
(* that end early while others need them, and more messages than the       *)
(* channels hold.                                                          *)
(***************************************************************************)
EXTENDS DevTokio

Complete == [nodes |-> 3, rounds |-> 2, batch |-> 1, quorum |-> 2,
             broadcasts |-> TRUE, early |-> {}]

Hasty == [Complete EXCEPT !.rounds = 1, !.quorum = 1, !.early = {"error"}]

Abandoned == [Complete EXCEPT !.nodes = 2, !.quorum = 1, !.rounds = 3,
                              !.early = {"unfinishable", "report"}]

Flooded == [nodes |-> 2, rounds |-> 1, batch |-> 4, quorum |-> 1,
            broadcasts |-> FALSE, early |-> {"report"}]

MCRuns == {Complete, Hasty, Abandoned, Flooded}
=============================================================================
