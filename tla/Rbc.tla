-------------------------------- MODULE Rbc --------------------------------
(***************************************************************************)
(* The reliable broadcast protocol (ayatori-rbc/src/protocol.rs): the      *)
(* sender disperses the shards of a value, every receiver echoes the shard *)
(* it got to all receivers, checks the dispersal with n - f echos, and     *)
(* announces with a ready message that the value can be assembled.         *)
(*                                                                         *)
(* A receiver is its session, one step per node of the graph that          *)
(* build() makes for it.  Messages are signed and may be delayed for ever. *)
(* A dispersal is named by its Merkle root, which here stands for the      *)
(* scheme too.  The root is in Sound when the shards below it are one      *)
(* codeword of a scheme with recovery shards: then all that decodes is one *)
(* value.  It is in Loose when the scheme has no recovery shards: then it  *)
(* may pass the check, and different echos give different values.  Any     *)
(* other root fails the check.  Module Dispersal shows this of the code.   *)
(*                                                                         *)
(* A faulty sender signs whatever is in SenderMessages.  A faulty receiver *)
(* may send every receiver another echo, of anything that the sender has   *)
(* signed for anyone, and ready whenever it likes, and it may be banned    *)
(* for a message that is malformed or contradicts another one.             *)
(***************************************************************************)
EXTENDS Integers, FiniteSets

CONSTANTS
  Receivers, Sender,
  MaxFaulty,       \* BuildData::max_faulty_parties
  Faulty,          \* the parties that need not follow the protocol
  Root,            \* the roots of dispersals
  Sound, Loose,    \* ... of codewords, and of shards without recovery
  SenderRoot,      \* the root of a correct sender's dispersal
  SenderMessages,  \* what a faulty sender may sign
  FaultyMessages,  \* the kinds of messages that faulty parties may send
  Stranger,        \* a destination that is not a receiver
  None

Correct == Receivers \ Faulty

N == Cardinality(Receivers)

(* What the sender signs: a value message for a destination, where ok says *)
(* that the branch verifies the shard at the index of that destination, or *)
(* something that does not deserialize as a value message.                 *)
Messages == [dest : Receivers \cup {Stranger, None}, root : Root \cup {None},
             ok : BOOLEAN]

ValueFor(p, root, ok) == [dest |-> p, root |-> root, ok |-> ok]

OtherMessage == [dest |-> None, root |-> None, ok |-> FALSE]

(* What a receiver stores of its value message, and that it has none yet. *)
Values == [root : Root \cup {None}, ok : BOOLEAN]

NoValue == [root |-> None, ok |-> FALSE]

(* BuildData::new() accepts the parameters; the rest describes the faults. *)
ASSUME BuildDataAssumption ==
  /\ IsFiniteSet(Receivers)
  /\ MaxFaulty \in Nat
  /\ N >= 2 * MaxFaulty + 1

ASSUME FaultAssumption ==
  /\ Sound \subseteq Root
  /\ Loose \subseteq Root \ Sound
  /\ SenderRoot \in Sound
  /\ SenderMessages \subseteq Messages
  /\ FaultyMessages \subseteq {"echo", "junk", "ready"}
  /\ None \notin Root \cup Receivers
  /\ Stranger \notin Receivers \cup {None}
  /\ Cardinality(Receivers \cap Faulty) <= MaxFaulty

VARIABLES
  value,     \* receiver -> the value message that it got and echoed, if any
  handled,   \* receiver -> the receivers whose echo it has processed
  echos,     \* receiver -> for whom the echos are that its collects count
  shards,    \* receiver -> the echos that finalize() is called with
  heard,     \* receiver -> the receivers whose ready message it has stored
  readies,   \* receiver -> the ready messages that its collects count
  fired,     \* receiver -> its collects that have fired
  ready,     \* the correct receivers that have sent ready
  banned,    \* receiver -> the parties its session has banned
  status, output

vars == <<value, handled, echos, shards, heard, readies, fired, ready, banned,
          status, output>>

Collects == {"value", "to_check_root", "to_send_ready", "echos_to_finalize",
             "readies_to_finalize"}

(* Mutation: one ready is enough to be convinced that a correct party is. *)
ThresholdOneReady(c) ==
  CASE c = "value" -> 1
    [] c = "to_check_root" -> N - MaxFaulty
    [] c = "to_send_ready" -> MaxFaulty
    [] c = "echos_to_finalize" -> N - 2 * MaxFaulty
    [] c = "readies_to_finalize" -> 2 * MaxFaulty + 1

(* Mutation: the root is checked with the echos of all receivers. *)
ThresholdAllEchos(c) ==
  CASE c = "value" -> 1
    [] c = "to_check_root" -> N
    [] c = "to_send_ready" -> MaxFaulty + 1
    [] c = "echos_to_finalize" -> N - 2 * MaxFaulty
    [] c = "readies_to_finalize" -> 2 * MaxFaulty + 1

(* Mutation: every receiver must be ready. *)
ThresholdAllReady(c) ==
  CASE c = "value" -> 1
    [] c = "to_check_root" -> N - MaxFaulty
    [] c = "to_send_ready" -> MaxFaulty + 1
    [] c = "echos_to_finalize" -> N - 2 * MaxFaulty
    [] c = "readies_to_finalize" -> N

Threshold(c) ==
  CASE c = "value" -> 1
    [] c = "to_check_root" -> N - MaxFaulty
    [] c = "to_send_ready" -> MaxFaulty + 1
    [] c = "echos_to_finalize" -> N - 2 * MaxFaulty
    [] c = "readies_to_finalize" -> 2 * MaxFaulty + 1

Group(c) == IF c = "value" THEN {Sender} ELSE Receivers

(* Receiver q -> the destination of the value message that q has echoed. *)
NoEchos == [q \in Receivers |-> None]

Init ==
  /\ value = [p \in Correct |-> NoValue]
  /\ handled = [p \in Correct |-> {}]
  /\ echos = [p \in Correct |-> NoEchos]
  /\ shards = [p \in Correct |-> NoEchos]
  /\ heard = [p \in Correct |-> {}]
  /\ readies = [p \in Correct |-> {}]
  /\ fired = [p \in Correct |-> {}]
  /\ ready = {}
  /\ banned = [p \in Correct |-> {}]
  /\ status = [p \in Correct |-> "InProgress"]
  /\ output = [p \in Correct |-> None]

Running(p) == status[p] = "InProgress"

(* The session of p stops, with all it has stored. *)
Drop(p) ==
  /\ handled' = [handled EXCEPT ![p] = {}]
  /\ echos' = [echos EXCEPT ![p] = NoEchos]
  /\ heard' = [heard EXCEPT ![p] = {}]
  /\ readies' = [readies EXCEPT ![p] = {}]
  /\ fired' = [fired EXCEPT ![p] = {}]

(* A computation of p returns a RuntimeError, which ends its session. *)
Fail(p) ==
  /\ status' = [status EXCEPT ![p] = "RuntimeError"]
  /\ Drop(p)

(* The session of p bans q, after its collects in `done` have fired and it *)
(* has looked at the echos of `seen`: a collect that has not fired no      *)
(* longer counts q, and the session is unfinishable when one of them       *)
(* cannot be satisfied any more.                                           *)
Ban(p, q, done, seen) ==
  /\ banned' = [banned EXCEPT ![p] = @ \cup {q}]
  /\ IF \E c \in Collects \ done :
          Cardinality(Group(c) \ banned'[p]) < Threshold(c)
       THEN /\ status' = [status EXCEPT ![p] = "Unfinishable"]
            /\ Drop(p)
       ELSE /\ handled' = [handled EXCEPT ![p] = seen]
            /\ echos' = [echos EXCEPT ![p] = [x \in Receivers |-> IF x = q THEN None ELSE @[x]]]
            /\ readies' = [readies EXCEPT ![p] = @ \ {q}]
            /\ fired' = [fired EXCEPT ![p] = done]
            /\ UNCHANGED <<heard, status>>

-----------------------------------------------------------------------------
(* What the sender has signed.  A correct one signs a value message for    *)
(* every receiver, all of one codeword and with branches that fit, and, if *)
(* it is a receiver itself, an echo and a ready message.                   *)
Signed ==
  IF Sender \in Faulty
    THEN SenderMessages
    ELSE {ValueFor(q, SenderRoot, TRUE) : q \in Receivers}
         \cup (IF Sender \in Receivers /\ (value[Sender] # NoValue \/ Sender \in ready)
                 THEN {OtherMessage} ELSE {})

(* What receiver q may have echoed: make_echo() takes the message that q   *)
(* got, a faulty receiver takes any message of the sender.                 *)
Echoed(q) ==
  IF q \in Correct
    THEN IF value[q] = NoValue THEN {} ELSE {ValueFor(q, value[q].root, value[q].ok)}
    ELSE IF "echo" \in FaultyMessages THEN Signed ELSE {}

(* The value message m arrives and is stored, which makes original_message *)
(* and lets the echo be made and broadcast.                                *)
ReceiveValue(p, m) ==
  /\ Running(p)
  /\ "value" \notin fired[p]
  /\ m.dest = p /\ m.root # None
  /\ value' = [value EXCEPT ![p] = [root |-> m.root, ok |-> m.ok]]
  /\ fired' = [fired EXCEPT ![p] = @ \cup {"value"}]
  /\ UNCHANGED <<handled, echos, shards, heard, readies, ready, banned, status,
                 output>>

(* p finds fault with a party for a message of its own: it does not        *)
(* deserialize, it contradicts an earlier one, or check_echo() fails.      *)
RejectMessage(p, q) ==
  /\ Running(p)
  /\ q \in Faulty \ banned[p]
  /\ "junk" \in FaultyMessages
  /\ Ban(p, q, fired[p], handled[p])
  /\ UNCHANGED <<value, shards, ready, output>>

(* Mutation: the root is not compared. *)
MatchesAnyRoot(own, m) == m.dest \in Receivers /\ m.ok

(* The checks of process_echo() on the echoed message: it is a value       *)
(* message with the root and the scheme of the receiver's own, addressed   *)
(* to a receiver, and its branch verifies at the index of that receiver,   *)
(* which need not be the one that has echoed it.                           *)
Matches(own, m) == m.root = own.root /\ m.dest \in Receivers /\ m.ok

(* process_echo() accepts the echo m of q, fails for a destination that it *)
(* does not know, or blames the sender.                                    *)
ProcessEcho(p, q, m) ==
  /\ Running(p)
  /\ q \notin handled[p]
  /\ "value" \in fired[p]
  /\ \/ /\ Matches(value[p], m)
        /\ handled' = [handled EXCEPT ![p] = @ \cup {q}]
        /\ echos' = [echos EXCEPT ![p][q] = m.dest]
        /\ UNCHANGED <<heard, readies, fired, banned, status>>
     \/ /\ m.root = value[p].root /\ m.dest = Stranger
        /\ Fail(p)
        /\ UNCHANGED banned
     \/ /\ ~Matches(value[p], m)
        /\ ~(m.root = value[p].root /\ m.dest = Stranger)
        /\ Ban(p, Sender, fired[p], handled[p] \cup {q})
  /\ UNCHANGED <<value, shards, ready, output>>

(* The receivers that p has an echo from, and whose shards they are. *)
Echoing(p) == {q \in Receivers : echos[p][q] # None}

Destinations(p) == {echos[p][q] : q \in Echoing(p)}

(* The collects of echos also depend on the party's own echo. *)
EnoughEchos(p, c) ==
  /\ Running(p)
  /\ c \notin fired[p]
  /\ "value" \in fired[p]
  /\ Cardinality(Echoing(p)) >= Threshold(c)

EnoughReadies(p, c) ==
  /\ Running(p)
  /\ c \notin fired[p]
  /\ Cardinality(readies[p]) >= Threshold(c)

Fire(p, c) ==
  /\ fired' = [fired EXCEPT ![p] = @ \cup {c}]
  /\ UNCHANGED <<handled, echos, heard, readies, banned, status>>

(* The scheme of a faulty sender need not fit the number of receivers, and *)
(* its value need not deserialize: any decoding of it may fail.  Of a      *)
(* correct sender's shards n - 2f are enough.                              *)
MayFail(different) == Sender \in Faulty \/ Cardinality(different) < N - 2 * MaxFaulty

(* interpolate_and_check_root() with the collected echos, one for each     *)
(* destination.  When it succeeds it triggers the ready message, when the  *)
(* root is another the sender is blamed, and when the decoder fails nobody *)
(* is.                                                                     *)
CheckRoot(p) ==
  /\ EnoughEchos(p, "to_check_root")
  /\ \/ /\ value[p].root \in Sound \cup Loose
        /\ Sender \in Faulty \/ ~MayFail(Destinations(p))
        /\ ready' = ready \cup {p}
        /\ Fire(p, "to_check_root")
     \/ /\ value[p].root \notin Sound
        /\ Ban(p, Sender, fired[p] \cup {"to_check_root"}, handled[p])
        /\ UNCHANGED ready
     \/ /\ MayFail(Destinations(p))
        /\ Fail(p)
        /\ UNCHANGED <<ready, banned>>
  /\ UNCHANGED <<value, shards, output>>

CollectEchosToFinalize(p) ==
  /\ EnoughEchos(p, "echos_to_finalize")
  /\ Fire(p, "echos_to_finalize")
  /\ shards' = [shards EXCEPT ![p] = echos[p]]
  /\ UNCHANGED <<value, ready, output>>

ReceiveReady(p, q) ==
  /\ Running(p)
  /\ q \notin heard[p]
  /\ q \in ready \/ (q \in Faulty /\ "ready" \in FaultyMessages)
  /\ heard' = [heard EXCEPT ![p] = @ \cup {q}]
  /\ readies' = [readies EXCEPT ![p] = @ \cup {q}]
  /\ UNCHANGED <<value, handled, echos, shards, fired, ready, banned, status,
                 output>>

(* The other trigger of the ready message. *)
CollectReadiesToSend(p) ==
  /\ EnoughReadies(p, "to_send_ready")
  /\ Fire(p, "to_send_ready")
  /\ ready' = ready \cup {p}
  /\ UNCHANGED <<value, shards, output>>

CollectReadiesToFinalize(p) ==
  /\ EnoughReadies(p, "readies_to_finalize")
  /\ Fire(p, "readies_to_finalize")
  /\ UNCHANGED <<value, shards, ready, output>>

(* Mutation: the output does not wait for the party's own ready message. *)
TriggeredWithoutReady(p) == "echos_to_finalize" \in fired[p]

(* The arguments and dependencies of the output node: finalize_trigger     *)
(* merges the two collects, so either of them is enough for it.            *)
Triggered(p) ==
  /\ "echos_to_finalize" \in fired[p]
  /\ fired[p] \cap {"echos_to_finalize", "readies_to_finalize"} # {}
  /\ p \in ready

(* Two of the collected echos are of one value message. *)
Repeated(e) == \E x, y \in Receivers : x # y /\ e[x] = e[y] /\ e[x] # None

Succeed(p, result) ==
  /\ output' = [output EXCEPT ![p] = result]
  /\ status' = [status EXCEPT ![p] = "Success"]
  /\ shards' = [shards EXCEPT ![p] = NoEchos]
  /\ Drop(p)

(* finalize() takes all collected shards, and the decoder refuses one that *)
(* is given twice.  The shards of a codeword give its value; others give   *)
(* something else.                                                         *)
Finalize(p) ==
  /\ Running(p)
  /\ Triggered(p)
  /\ \/ /\ value[p].root \in Sound
        /\ ~Repeated(shards[p])
        /\ Succeed(p, value[p].root)
     \/ /\ value[p].root \notin Sound
        /\ Succeed(p, p)
     \/ /\ Sender \in Faulty \/ Repeated(shards[p])
        /\ Fail(p)
        /\ UNCHANGED <<shards, output>>
  /\ UNCHANGED <<value, ready, banned>>

-----------------------------------------------------------------------------
Receive(p) ==
  \/ \E m \in Signed : ReceiveValue(p, m)
  \/ \E q \in Receivers : \E m \in Echoed(q) : ProcessEcho(p, q, m)
  \/ \E q \in Receivers : ReceiveReady(p, q)

Reject(p) == \E q \in Receivers \cup {Sender} : RejectMessage(p, q)

Compute(p) ==
  \/ CheckRoot(p)
  \/ CollectEchosToFinalize(p)
  \/ CollectReadiesToSend(p)
  \/ CollectReadiesToFinalize(p)
  \/ Finalize(p)

Next == \E p \in Correct : Receive(p) \/ Reject(p) \/ Compute(p)

Spec == Init /\ [][Next]_vars

-----------------------------------------------------------------------------
Statuses == {"InProgress", "Success", "Unfinishable", "RuntimeError"}

EchoMaps == [Receivers -> Receivers \cup {None}]

(* The type invariant: collects count receivers only. *)
TypeOK ==
  /\ value \in [Correct -> Values]
  /\ handled \in [Correct -> SUBSET Receivers]
  /\ echos \in [Correct -> EchoMaps]
  /\ shards \in [Correct -> EchoMaps]
  /\ heard \in [Correct -> SUBSET Receivers]
  /\ readies \in [Correct -> SUBSET Receivers]
  /\ fired \in [Correct -> SUBSET Collects]
  /\ ready \subseteq Correct
  /\ banned \in [Correct -> SUBSET (Receivers \cup {Sender})]
  /\ status \in [Correct -> Statuses]
  /\ output \in [Correct -> Root \cup Receivers \cup {None}]

(* The correct receivers that hold a value message of the given dispersal. *)
Holders(root) == {p \in Correct : value[p].root = root}

(* Correct receivers never output different values. *)
Agreement ==
  \A p, q \in Correct :
    status[p] = "Success" /\ status[q] = "Success" => output[p] = output[q]

(* Whatever dispersals a faulty sender hands out, and whatever faulty      *)
(* receivers echo to whom, the outputs of correct receivers are of one     *)
(* dispersal, and their values are equal if it has recovery shards.  A     *)
(* ready message names no root: that the readies for one dispersal do not  *)
(* release the output of another is left to the thresholds, and they keep  *)
(* it only if there are more than 3f correct receivers.                    *)
OneDispersal ==
  Cardinality(Correct) > 3 * MaxFaulty =>
    \A p, q \in Correct : status[p] = "Success" /\ status[q] = "Success" =>
      /\ value[p].root = value[q].root
      /\ value[p].root \in Sound => output[p] = output[q]

(* What that rests on, with any number of faulty receivers up to f: once a *)
(* correct receiver has sent ready, for its own check or for the readies   *)
(* of others, all correct receivers but f hold one dispersal that may pass *)
(* the check; and all but 2f hold the dispersal of an output.              *)
ReadyJustified ==
  /\ ready # {} =>
       \E root \in Sound \cup Loose :
         Cardinality(Holders(root)) >= Cardinality(Correct) - MaxFaulty
  /\ \A p \in Correct : status[p] = "Success" =>
       Cardinality(Holders(value[p].root)) >= Cardinality(Correct) - 2 * MaxFaulty

(* No output is assembled from the shards of a dispersal that would fail   *)
(* the check, although finalize() itself checks nothing and may be reached *)
(* without the receiver's own check.                                       *)
OutputsSound ==
  Cardinality(Correct) > 3 * MaxFaulty =>
    \A p \in Correct : status[p] = "Success" => value[p].root \in Sound \cup Loose

-----------------------------------------------------------------------------
(* The inductive invariant behind these.  A value message never changes,   *)
(* so the holders of a root only grow; the counted echos of correct        *)
(* receivers are of the receiver's own root, counted readies were sent.    *)
ValuesStored ==
  \A p \in Correct :
    /\ "value" \in fired[p] => value[p].root \in Root
    /\ Running(p) /\ "value" \notin fired[p] => value[p] = NoValue

EchosBacked ==
  \A p, q \in Correct : echos[p][q] # None =>
    value[p].root \in Root /\ value[q].root = value[p].root

ReadiesBacked == \A p \in Correct : readies[p] \subseteq ready \cup Faulty

CollectsBacked ==
  \A p \in Correct : "echos_to_finalize" \in fired[p] =>
    /\ value[p].root \in Root
    /\ Cardinality(Holders(value[p].root)) >= Cardinality(Correct) - 2 * MaxFaulty

OutputsBacked ==
  \A p \in Correct :
    IF status[p] = "Success"
      THEN /\ value[p].root \in Root
           /\ ready # {}
           /\ output[p] = IF value[p].root \in Sound THEN value[p].root ELSE p
      ELSE output[p] = None

IndInv ==
  /\ TypeOK
  /\ ValuesStored
  /\ EchosBacked
  /\ ReadiesBacked
  /\ CollectsBacked
  /\ OutputsBacked
  /\ ReadyJustified

-----------------------------------------------------------------------------
(* With a correct sender, and more than 3f receivers, nothing but the      *)
(* sender's value is output.  A session fails only if a faulty receiver    *)
(* has echoed a value message of another one, becomes unfinishable only if *)
(* the sender was banned, and bans the sender only if that is a receiver   *)
(* too, as otherwise nothing that it signs can be held against it.         *)
CorrectSenderDelivers ==
  Sender \notin Faulty /\ N > 3 * MaxFaulty =>
    \A p \in Correct :
      /\ output[p] \in {SenderRoot, None}
      /\ status[p] = "RuntimeError" =>
           \E q \in Receivers \cap Faulty : shards[p][q] \notin {q, None}
      /\ status[p] = "Unfinishable" => Sender \in banned[p]
      /\ Sender \in banned[p] => Sender \in Receivers

(* A third-party failure is "caused by a party other than the one from     *)
(* which the messages came from" (the book, on attributable failures): no  *)
(* receiver blames a correct sender for the echo of a faulty receiver.     *)
SenderNotBlamed ==
  Sender \notin Faulty => \A p \in Correct : Sender \notin banned[p]

(* A RuntimeError "indicates that there is either a problem with the       *)
(* environment, or there is a bug in the code" (entities/errors.rs): what  *)
(* a faulty receiver sends makes no session of the others fail with one.   *)
NoFailures ==
  Sender \notin Faulty => \A p \in Correct : status[p] # "RuntimeError"

(* Messages between correct parties arrive and sessions keep running: the  *)
(* sender's if it is correct, and the echos and readies of the receivers.  *)
Fairness ==
  \A p \in Correct :
    /\ WF_vars(Sender \notin Faulty /\ \E m \in Signed : ReceiveValue(p, m))
    /\ WF_vars(\E q \in Correct : \/ \E m \in Echoed(q) : ProcessEcho(p, q, m)
                                  \/ ReceiveReady(p, q))
    /\ WF_vars(Compute(p))

FairSpec == Spec /\ Fairness

(* A receiver of a correct sender's value comes to an end, however many    *)
(* messages of faulty receivers are missing or rejected, unless it was     *)
(* brought to ban the sender.  With CorrectSenderDelivers, the end is the  *)
(* output of that value or a failure for the echo of another's message.    *)
Delivery ==
  Sender \notin Faulty =>
    \A p \in Correct : <>(status[p] # "InProgress" \/ Sender \in banned[p])
=============================================================================
