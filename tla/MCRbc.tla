------------------------------- MODULE MCRbc -------------------------------
(***************************************************************************)
(* Instances of the reliable broadcast with three to five receivers.       *)
(* Interchangeable permutes the receivers other than the sender s, all of  *)
(* them correct where it is used.                                          *)
(*                                                                         *)
(* In SequentialSpec the sessions run under run_session(), which executes  *)
(* every task before it takes another message; since messages are delayed  *)
(* at will, that leaves out no order in which a receiver can learn         *)
(* anything.                                                               *)
(*                                                                         *)
(* TurnsSpec keeps of these the runs in which a receiver that has begun to *)
(* take messages goes on until it has taken those of all correct ones, in  *)
(* any order and among those of faulty ones; the receivers take turns in   *)
(* any order.                                                              *)
(*                                                                         *)
(* StagedSpec keeps of them the runs in which the sender is faulty and     *)
(* the faulty receivers favour an output: values come before echos and     *)
(* echos before ready messages, a receiver takes what the faulty ones send *)
(* before the rest, echos of its own root or for no receiver, and ready    *)
(* messages as long as it has not sent its own, and those of one receiver  *)
(* are not mixed with those of another until a collect fires.              *)
(***************************************************************************)
EXTENDS Rbc, TLC

CONSTANTS r1, r2, s

(* A value message of each dispersal for every receiver, and one for a     *)
(* destination that is not a receiver.                                     *)
Equivocation ==
  {ValueFor(q, root, TRUE) : q \in Receivers, root \in Root}
  \cup {ValueFor(Stranger, r1, TRUE)}

(* ... and a branch that does not verify its shard, and a message of       *)
(* another kind.                                                           *)
Inconsistency ==
  {ValueFor(q, root, TRUE) : q \in Receivers \ {s}, root \in Root}
  \cup {ValueFor(Stranger, r1, TRUE), ValueFor(s, r1, FALSE), OtherMessage}

Interchangeable == Permutations(Receivers \ {s})

HasTask(p) ==
  /\ Running(p)
  /\ \/ \E c \in {"to_check_root", "echos_to_finalize"} : EnoughEchos(p, c)
     \/ \E c \in {"to_send_ready", "readies_to_finalize"} : EnoughReadies(p, c)
     \/ Triggered(p)

SequentialNext ==
  IF \E p \in Correct : HasTask(p)
    THEN \E p \in Correct : Compute(p)
    ELSE \E p \in Correct : Receive(p) \/ Reject(p)

SequentialSpec == Init /\ [][SequentialNext]_vars

(* p has begun to take messages, and correct receivers have more for it. *)
Begun(p) ==
  /\ Running(p)
  /\ handled[p] # {} \/ heard[p] # {}
  /\ ~(Correct \subseteq handled[p] /\ ready \subseteq heard[p])

TurnsNext ==
  IF \E p \in Correct : HasTask(p)
    THEN \E p \in Correct : Compute(p)
    ELSE \/ \E p \in Correct : \E m \in Signed : ReceiveValue(p, m)
         \/ /\ \A p \in Correct : Running(p) => "value" \in fired[p]
            /\ \E p \in Correct : /\ \A q \in Correct \ {p} : ~Begun(q)
                                  /\ Receive(p) \/ Reject(p)

TurnsSpec == Init /\ [][TurnsNext]_vars

FairTurnsSpec == TurnsSpec /\ Fairness

(* p has messages for a collect, but not enough for the first one. *)
Midway(p) ==
  /\ Running(p)
  /\ \/ Cardinality(Echoing(p)) \in 1 .. Threshold("echos_to_finalize") - 1
     \/ Cardinality(readies[p]) \in 1 .. Threshold("to_send_ready") - 1

WaitsForEchos(p) == ~({"to_check_root", "echos_to_finalize"} \subseteq fired[p])

(* The next message from Receivers when those in `had` have been heard. *)
Upcoming(had) ==
  LET first == (Receivers \cap Faulty) \ had
  IN IF first # {} THEN first ELSE Correct \ had

ReceiveInStages(p) ==
  \/ /\ \A q \in Correct : Running(q) /\ handled[q] = {} /\ heard[q] = {}
     /\ \E m \in Signed : ReceiveValue(p, m)
  \/ /\ WaitsForEchos(p)
     /\ \A q \in Correct : heard[q] = {}
     /\ \E q \in Upcoming(handled[p]) : \E m \in Echoed(q) :
          /\ \/ m.dest = q /\ Matches(value[p], m)
             \/ m.dest = Stranger
          /\ ProcessEcho(p, q, m)
  \/ /\ p \notin ready
     /\ \E q \in Upcoming(heard[p]) : ReceiveReady(p, q)

StagedNext ==
  IF \E p \in Correct : HasTask(p)
    THEN \E p \in Correct : Compute(p)
    ELSE \E p \in Correct :
           (\A q \in Correct \ {p} : ~Midway(q)) /\ ReceiveInStages(p)

StagedSpec == Init /\ [][StagedNext]_vars
=============================================================================
