----------------------------- MODULE Dataflow -----------------------------
(***************************************************************************)
(* What a session promises, whatever rules and tasks it is made of: every  *)
(* slot of the graph is filled at most once and only from slots that are   *)
(* filled; a collect takes a quorum of filled elements; the session gives  *)
(* up for bans only when a collect that is not filled cannot get a quorum, *)
(* and does not go on unless each such collect still may, or already did.  *)
(***************************************************************************)
EXTENDS Nodes

CONSTANTS Names

VARIABLES scalars, elems, collected, banned, status

dataflowVars == <<scalars, elems, collected, banned, status>>

Stored(tag) == {e[2] : e \in {x \in elems : x[1] = tag}}

Init ==
  /\ scalars = Arguments
  /\ elems = {}
  /\ collected = [c \in CollectRules |-> {}]
  /\ banned = {}
  /\ status = "InProgress"

(* A merge needs one of its arguments, other nodes need all of them. *)
InputsFilled(t) ==
  IF t \in Merges THEN ScalarNeeds(t) \cap scalars # {}
                  ELSE ScalarNeeds(t) \subseteq scalars

Fill(t) ==
  /\ status = "InProgress"
  /\ t \notin scalars
  /\ scalars' = scalars \cup {t}
  /\ InputsFilled(t)
  /\ status' = IF t = Output THEN "ReachedOutput" ELSE status
  /\ UNCHANGED <<elems, banned>>

FillScalar(t) == Fill(t) /\ UNCHANGED collected

(* A collect takes the elements of some of the parties. *)
FillCollect(c, ids) ==
  /\ Fill(c)
  /\ ids \subseteq Stored(Values(c))
  /\ HasQuorum(c, ids)
  /\ collected' = [collected EXCEPT ![c] = ids]

FillElement(m, id) ==
  /\ status = "InProgress"
  /\ <<m, id>> \notin elems
  /\ elems' = elems \cup {<<m, id>>}
  /\ InputsFilled(m)
  /\ \A a \in ElementNeeds(m) : id \in Stored(a)
  /\ UNCHANGED <<scalars, collected, banned, status>>

(* The first value with this name from the party. *)
ReceiveElement(name, id) ==
  /\ status = "InProgress"
  /\ <<name, id>> \notin elems
  /\ elems' = elems \cup {<<name, id>>}
  /\ UNCHANGED <<scalars, collected, banned, status>>

Unfilled == CollectRules \ scalars

Ban(id) ==
  /\ status = "InProgress"
  /\ banned' = banned \cup {id}
  /\ \/ /\ \A c \in Unfilled : \/ IsQuorumPossible(c, banned')
                               \/ HasQuorum(c, Stored(Values(c)))
        /\ UNCHANGED status
     \/ /\ \E c \in Unfilled : ~IsQuorumPossible(c, banned')
        /\ status' = "Unfinishable"
  /\ UNCHANGED <<scalars, elems, collected>>

(* The user or a failed computation ends the session, or the user goes on  *)
(* after the output; only the output makes it a success.                   *)
End(outcome) ==
  /\ \/ /\ status = "InProgress"
        /\ outcome \in {"SpuriousError", "ManuallyTerminated"}
     \/ /\ status = "ReachedOutput"
        /\ Output \in scalars
        /\ outcome \in {"InProgress", "Success"}
  /\ status' = outcome
  /\ UNCHANGED <<scalars, elems, collected, banned>>

Next ==
  \/ \E t \in ScalarTags \ (Arguments \cup CollectRules) : FillScalar(t)
  \/ \E c \in CollectRules, ids \in SUBSET Parties : FillCollect(c, ids)
  \/ \E m \in MappingTags \ Receives, id \in Parties : FillElement(m, id)
  \/ \E name \in Names, id \in Parties : ReceiveElement(name, id)
  \/ \E id \in Parties : Ban(id)
  \/ \E outcome \in {"SpuriousError", "ManuallyTerminated", "InProgress",
                     "Success"} : End(outcome)

Spec == Init /\ [][Next]_dataflowVars
=============================================================================
