----------------------------- MODULE RbcProofs -----------------------------
(***************************************************************************)
(* What the thresholds of the reliable broadcast are good for, for any     *)
(* number of receivers, whatever faulty parties sign, send and echo.       *)
(***************************************************************************)
EXTENDS Rbc, FiniteSetTheorems, TLAPS

C == Cardinality(Correct)

(* At most f of the receivers are faulty. *)
LEMMA Counts ==
  /\ N \in Nat /\ MaxFaulty \in Nat /\ N >= 2 * MaxFaulty + 1
  /\ C \in Nat /\ N - MaxFaulty <= C /\ C <= N
  /\ Cardinality(Receivers \cap Faulty) = N - C
<1>1. IsFiniteSet(Receivers)
  BY BuildDataAssumption
<1>2. N \in Nat
  BY <1>1, FS_CardinalityType DEF N
<1>3. C = N - Cardinality(Receivers \cap Faulty)
  BY <1>1, FS_Difference DEF N, C, Correct
<1>4. Cardinality(Receivers \cap Faulty) \in Nat
  BY <1>1, FS_Intersection, FS_CardinalityType
<1>5. C \in Nat
  BY <1>1, FS_Difference, FS_CardinalityType DEF C, Correct
<1> QED
  BY <1>2, <1>3, <1>4, <1>5, BuildDataAssumption, FaultAssumption

(* A set of receivers is finite, and larger than the sets it contains. *)
LEMMA ReceiverSets ==
  ASSUME NEW S \in SUBSET Receivers, NEW T \in SUBSET S
  PROVE  /\ IsFiniteSet(S) /\ IsFiniteSet(T)
         /\ Cardinality(S) \in Nat /\ Cardinality(T) \in Nat
         /\ Cardinality(T) <= Cardinality(S)
<1>1. IsFiniteSet(S)
  BY BuildDataAssumption, FS_Subset
<1>2. IsFiniteSet(T) /\ Cardinality(T) <= Cardinality(S)
  BY <1>1, FS_Subset
<1> QED
  BY <1>1, <1>2, FS_CardinalityType

(* Two disjoint sets of correct receivers have at most C members together. *)
LEMMA DisjointSets ==
  ASSUME NEW S \in SUBSET Correct, NEW T \in SUBSET Correct, S \cap T = {}
  PROVE  Cardinality(S) + Cardinality(T) <= C
<1>1. IsFiniteSet(S) /\ IsFiniteSet(T) /\ Correct \in SUBSET Receivers
  BY ReceiverSets DEF Correct
<1>2. Cardinality(S \cup T) = Cardinality(S) + Cardinality(T) - Cardinality({})
  BY <1>1, FS_Union
<1>3. S \cup T \in SUBSET Correct
  OBVIOUS
<1>4. Cardinality(S \cup T) <= C
  BY <1>1, <1>3, ReceiverSets DEF C
<1> QED
  BY <1>1, <1>2, <1>4, FS_EmptySet, FS_CardinalityType

(* All but k of the receivers include all but k of the correct ones. *)
LEMMA CorrectAmong ==
  ASSUME NEW S \in SUBSET Receivers, NEW k \in Int, Cardinality(S) >= N - k
  PROVE  Cardinality(S \cap Correct) \in Nat /\ Cardinality(S \cap Correct) >= C - k
<1>1. /\ IsFiniteSet(S)
      /\ Cardinality(S) \in Nat
      /\ Cardinality(S \cap Correct) \in Nat
      /\ Cardinality(S \cap Faulty) \in Nat
      /\ Cardinality(S \cap Faulty) <= Cardinality(Receivers \cap Faulty)
  BY ReceiverSets
<1>2. Cardinality(S \ Faulty) = Cardinality(S) - Cardinality(S \cap Faulty)
  BY <1>1, FS_Difference
<1>3. S \ Faulty = S \cap Correct
  BY DEF Correct
<1>4. Cardinality(S \cap Correct) = Cardinality(S) - Cardinality(S \cap Faulty)
  BY <1>2, <1>3
<1> DEFINE t == Cardinality(S \cap Faulty)
<1>5. t \in Nat /\ t <= N - C
  BY <1>1, Counts
<1> HIDE DEF t
<1>6. Cardinality(S) - t >= C - k
  BY <1>1, <1>5, Counts
<1> QED
  BY <1>1, <1>4, <1>6 DEF t

(* More readies than there are faulty receivers include a correct one's. *)
LEMMA SomeoneCorrect ==
  ASSUME NEW S \in SUBSET Receivers, Cardinality(S) >= MaxFaulty + 1
  PROVE  S \cap Correct # {}
<1>1. SUFFICES ASSUME S \subseteq Receivers \cap Faulty PROVE FALSE
  BY DEF Correct
<1>2. Cardinality(S) <= Cardinality(Receivers \cap Faulty)
  BY <1>1, ReceiverSets
<1> QED
  BY <1>2, Counts, ReceiverSets

-----------------------------------------------------------------------------
(* The sets of messages are what they say they are. *)
LEMMA SignedMessages == Signed \subseteq Messages
<1>1. \A q \in Receivers : ValueFor(q, SenderRoot, TRUE) \in Messages
  BY FaultAssumption DEF Messages, ValueFor
<1>2. OtherMessage \in Messages
  BY DEF Messages, OtherMessage
<1> QED
  BY <1>1, <1>2, FaultAssumption DEF Signed

LEMMA EchoedMessages ==
  ASSUME TypeOK, NEW q \in Receivers
  PROVE  Echoed(q) \subseteq Messages
<1>1. CASE q \in Correct
  <2>1. value[q] \in Values
    BY <1>1 DEF TypeOK
  <2>2. ValueFor(q, value[q].root, value[q].ok) \in Messages
    BY <2>1 DEF Values, Messages, ValueFor
  <2> QED
    BY <1>1, <2>2 DEF Echoed
<1>2. CASE q \notin Correct
  BY <1>2, SignedMessages DEF Echoed
<1> QED
  BY <1>1, <1>2

(* Enough echos of a root are held by as many correct receivers, but k. *)
LEMMA EchosHeld ==
  ASSUME TypeOK, EchosBacked, NEW p \in Correct, NEW k \in Int,
         Cardinality(Echoing(p)) >= N - k
  PROVE  Cardinality(Holders(value[p].root)) >= C - k
<1>1. Echoing(p) \in SUBSET Receivers
  BY DEF Echoing
<1>2. Echoing(p) \cap Correct \subseteq Holders(value[p].root)
  BY DEF Echoing, EchosBacked, Holders
<1>3. Holders(value[p].root) \in SUBSET Receivers
  BY DEF Holders, Correct
<1>4. Cardinality(Echoing(p) \cap Correct) <= Cardinality(Holders(value[p].root))
  BY <1>2, <1>3, ReceiverSets
<1>5. Cardinality(Holders(value[p].root)) \in Nat
  BY <1>3, ReceiverSets
<1> QED
  BY <1>1, <1>4, <1>5, CorrectAmong, Counts

(* When the value messages of dispersals do not change, a dispersal does   *)
(* not lose holders.                                                       *)
LEMMA HoldersGrow ==
  ASSUME NEW root \in Root,
         \A q \in Correct : value[q].root \in Root => value'[q] = value[q]
  PROVE  /\ Cardinality(Holders(root)) \in Nat
         /\ Cardinality(Holders(root)') \in Nat
         /\ Cardinality(Holders(root)) <= Cardinality(Holders(root)')
<1>1. Holders(root) \subseteq Holders(root)'
  BY DEF Holders
<1>2. Holders(root)' \in SUBSET Receivers
  BY DEF Holders, Correct
<1> QED
  BY <1>1, <1>2, ReceiverSets

-----------------------------------------------------------------------------
(* The initial state. *)
LEMMA InitIndInv == Init => IndInv
<1> SUFFICES ASSUME Init PROVE IndInv
  OBVIOUS
<1>1. NoEchos \in EchoMaps /\ \A q \in Receivers : NoEchos[q] = None
  BY DEF NoEchos, EchoMaps
<1>2. NoValue \in Values
  BY DEF NoValue, Values
<1>3. TypeOK
  BY <1>1, <1>2 DEF Init, TypeOK, Statuses
<1>4. EchosBacked
  BY <1>1 DEF Init, EchosBacked, Correct
<1> QED
  BY <1>3, <1>4 DEF Init, IndInv, ValuesStored, ReadiesBacked, CollectsBacked,
                   OutputsBacked, ReadyJustified, Running

(* The dispersal of p is held by enough for an output. *)
Held(p) == /\ value[p].root \in Root
           /\ Cardinality(Holders(value[p].root)) >= C - 2 * MaxFaulty

(* A dispersal that may pass the check is held by enough for a ready. *)
Vouched == \E root \in Sound \cup Loose : Cardinality(Holders(root)) >= C - MaxFaulty

(* Steps that store no value message and output nothing: echos are only    *)
(* counted when they are of the receiver's root, echos_to_finalize fires   *)
(* for a root that is held, and ready is sent for one that is vouched for. *)
LEMMA QuietStep ==
  ASSUME IndInv, TypeOK', UNCHANGED <<value, output>>,
         ready \subseteq ready', ready' # ready => Vouched,
         \A p \in Correct :
           /\ status'[p] = "InProgress" =>
                status[p] = "InProgress" /\ ("value" \in fired[p] => "value" \in fired'[p])
           /\ "value" \in fired'[p] => "value" \in fired[p]
           /\ status'[p] = "Success" <=> status[p] = "Success"
           /\ readies'[p] \subseteq readies[p] \cup ready \cup Faulty
           /\ "echos_to_finalize" \in fired'[p] => "echos_to_finalize" \in fired[p] \/ Held(p),
         \A p, q \in Correct : echos'[p][q] # None =>
           \/ echos[p][q] # None
           \/ value[p].root \in Root /\ value[q].root = value[p].root
  PROVE  IndInv'
<1> USE DEF IndInv
<1>1. ValuesStored'
  BY DEF ValuesStored, Running
<1>2. EchosBacked'
  BY DEF EchosBacked
<1>3. ReadiesBacked'
  BY DEF ReadiesBacked
<1>4. CollectsBacked'
  BY DEF CollectsBacked, Held, Holders, C
<1>5. OutputsBacked'
  BY DEF OutputsBacked
<1>6. ReadyJustified'
  BY DEF ReadyJustified, Vouched, Holders, C
<1> QED
  BY <1>1, <1>2, <1>3, <1>4, <1>5, <1>6

-----------------------------------------------------------------------------
(* A ban, whoever is banned: the collects of p only count less. *)
LEMMA BanStep ==
  ASSUME IndInv, NEW p \in Correct, Running(p),
         NEW q \in Receivers \cup {Sender},
         NEW done \in {fired[p], fired[p] \cup {"to_check_root"}},
         NEW seen \in SUBSET Receivers,
         Ban(p, q, done, seen), UNCHANGED <<value, shards, ready, output>>
  PROVE  IndInv'
<1>0. TypeOK /\ status[p] = "InProgress"
  BY DEF IndInv, Running
<1>1. NoEchos \in EchoMaps /\ \A x \in Receivers : NoEchos[x] = None
  BY DEF NoEchos, EchoMaps
<1> DEFINE without == [x \in Receivers |-> IF x = q THEN None ELSE echos[p][x]]
<1>2. echos \in [Correct -> EchoMaps]
  BY <1>0 DEF TypeOK
<1>3. without \in EchoMaps
  BY <1>2 DEF EchoMaps
<1>4. echos' \in {[echos EXCEPT ![p] = NoEchos], [echos EXCEPT ![p] = without]}
  BY DEF Ban, Drop
<1>5. echos' \in [Correct -> EchoMaps]
  BY <1>1, <1>2, <1>3, <1>4
<1>6. \A r, x \in Correct : echos'[r][x] # None => echos[r][x] # None
  <2> SUFFICES ASSUME NEW r \in Correct, NEW x \in Correct, echos'[r][x] # None
               PROVE  echos[r][x] # None
    OBVIOUS
  <2>1. x \in Receivers
    BY DEF Correct
  <2>2. CASE r = p
    <3>1. echos'[p] = NoEchos \/ echos'[p] = without
      BY <1>2, <1>4
    <3> QED
      BY <1>1, <2>1, <2>2, <3>1
  <2>3. CASE r # p
    BY <1>2, <1>4, <2>3
  <2> QED
    BY <2>2, <2>3
<1>7. TypeOK'
  <2>1. done \in SUBSET Collects
    BY <1>0 DEF TypeOK, Collects
  <2>2. /\ banned' \in [Correct -> SUBSET (Receivers \cup {Sender})]
        /\ fired' \in [Correct -> SUBSET Collects]
        /\ handled' \in [Correct -> SUBSET Receivers]
    <3>1. banned' = [banned EXCEPT ![p] = @ \cup {q}]
      BY DEF Ban
    <3>2. fired' \in {[fired EXCEPT ![p] = {}], [fired EXCEPT ![p] = done]}
      BY DEF Ban, Drop
    <3>3. handled' \in {[handled EXCEPT ![p] = {}], [handled EXCEPT ![p] = seen]}
      BY DEF Ban, Drop
    <3>4. /\ banned \in [Correct -> SUBSET (Receivers \cup {Sender})]
          /\ fired \in [Correct -> SUBSET Collects]
          /\ handled \in [Correct -> SUBSET Receivers]
      BY <1>0 DEF TypeOK
    <3>5. banned' \in [Correct -> SUBSET (Receivers \cup {Sender})]
      BY <3>1, <3>4
    <3>6. fired' \in [Correct -> SUBSET Collects]
      BY <2>1, <3>2, <3>4
    <3>7. handled' \in [Correct -> SUBSET Receivers]
      BY <3>3, <3>4
    <3> QED
      BY <3>5, <3>6, <3>7
  <2>3. status' \in {status, [status EXCEPT ![p] = "Unfinishable"]}
    BY DEF Ban
  <2>4. status' \in [Correct -> Statuses]
    BY <1>0, <2>3 DEF TypeOK, Statuses
  <2>5. readies' \in [Correct -> SUBSET Receivers] /\ heard' \in [Correct -> SUBSET Receivers]
    BY <1>0 DEF TypeOK, Ban, Drop
  <2> QED
    BY <1>0, <1>5, <2>2, <2>4, <2>5 DEF TypeOK
<1>8. \A r \in Correct :
        /\ status'[r] = "InProgress" =>
             status[r] = "InProgress" /\ ("value" \in fired[r] => "value" \in fired'[r])
        /\ "value" \in fired'[r] => "value" \in fired[r]
        /\ status'[r] = "Success" <=> status[r] = "Success"
        /\ readies'[r] \subseteq readies[r]
        /\ "echos_to_finalize" \in fired'[r] => "echos_to_finalize" \in fired[r]
  BY <1>0 DEF TypeOK, Ban, Drop
<1> QED
  BY <1>6, <1>7, <1>8, QuietStep

(* A failure drops all that p has stored. *)
LEMMA FailStep ==
  ASSUME IndInv, NEW p \in Correct, Running(p), Fail(p),
         UNCHANGED <<value, shards, ready, banned, output>>
  PROVE  IndInv'
<1>0. TypeOK /\ status[p] = "InProgress"
  BY DEF IndInv, Running
<1>1. NoEchos \in EchoMaps /\ \A x \in Receivers : NoEchos[x] = None
  BY DEF NoEchos, EchoMaps
<1>2. TypeOK'
  BY <1>0, <1>1 DEF TypeOK, Fail, Drop, Statuses
<1>3. \A r, x \in Correct : echos'[r][x] # None => echos[r][x] # None
  BY <1>0, <1>1 DEF TypeOK, Fail, Drop, Correct
<1>4. \A r \in Correct :
        /\ status'[r] = "InProgress" => status[r] = "InProgress" /\ fired'[r] = fired[r]
        /\ fired'[r] \subseteq fired[r] /\ readies'[r] \subseteq readies[r]
        /\ status'[r] = "Success" <=> status[r] = "Success"
  BY <1>0 DEF TypeOK, Fail, Drop
<1> QED
  BY <1>2, <1>3, <1>4, QuietStep

(* A collect fires: what it stands for must be backed. *)
LEMMA FireStep ==
  ASSUME IndInv, NEW p \in Correct, Running(p), NEW c \in Collects \ {"value"},
         Fire(p, c), UNCHANGED <<value, output>>,
         ready' \in {ready, ready \cup {p}}, ready' # ready => Vouched,
         shards' \in {shards, [shards EXCEPT ![p] = echos[p]]},
         c = "echos_to_finalize" => Held(p)
  PROVE  IndInv'
<1>0. TypeOK /\ status[p] = "InProgress"
  BY DEF IndInv, Running
<1>1. shards' \in [Correct -> EchoMaps]
  BY <1>0 DEF TypeOK
<1>2. TypeOK'
  BY <1>0, <1>1 DEF TypeOK, Fire
<1>3. /\ UNCHANGED <<echos, readies, status>>
      /\ \A r \in Correct :
           /\ fired[r] \subseteq fired'[r]
           /\ "value" \in fired'[r] => "value" \in fired[r]
           /\ "echos_to_finalize" \in fired'[r] => "echos_to_finalize" \in fired[r] \/ Held(r)
  BY <1>0 DEF TypeOK, Fire
<1> QED
  BY <1>2, <1>3, QuietStep

(* A value message is stored, and echoed from then on. *)
LEMMA ValueStep ==
  ASSUME IndInv, NEW p \in Correct, NEW m \in Signed, ReceiveValue(p, m)
  PROVE  IndInv'
<1> DEFINE Now(root) == {q \in Correct : value'[q].root = root}
<1>0. TypeOK /\ value[p] = NoValue /\ m \in Messages /\ m.root \in Root
  BY SignedMessages DEF IndInv, ReceiveValue, ValuesStored, Messages
<1>1. TypeOK'
  <2>1. [root |-> m.root, ok |-> m.ok] \in Values
    BY <1>0 DEF Messages, Values
  <2> QED
    BY <1>0, <2>1 DEF TypeOK, ReceiveValue, Collects
<1>2. /\ value \in [Correct -> Values] /\ fired \in [Correct -> SUBSET Collects]
      /\ value' = [value EXCEPT ![p] = [root |-> m.root, ok |-> m.ok]]
      /\ fired' = [fired EXCEPT ![p] = fired[p] \cup {"value"}]
      /\ UNCHANGED <<echos, readies, ready, status, output>>
  BY <1>0 DEF TypeOK, ReceiveValue
<1>3. \A q \in Correct : value[q].root \in Root => value'[q] = value[q]
  BY <1>0, <1>2, FaultAssumption DEF NoValue
<1>4. \A root \in Root : /\ Cardinality(Holders(root)) \in Nat
                         /\ Cardinality(Now(root)) \in Nat
                         /\ Cardinality(Holders(root)) <= Cardinality(Now(root))
  <2> SUFFICES ASSUME NEW root \in Root
               PROVE  /\ Cardinality(Holders(root)) \in Nat
                      /\ Cardinality(Now(root)) \in Nat
                      /\ Cardinality(Holders(root)) <= Cardinality(Now(root))
    OBVIOUS
  <2>1. Holders(root)' = Now(root)
    BY DEF Holders
  <2> QED
    BY <1>3, <2>1, HoldersGrow
<1> HIDE DEF Now
<1>5. ValuesStored'
  BY <1>0, <1>2 DEF IndInv, ValuesStored, Running
<1>6. EchosBacked'
  BY <1>2, <1>3 DEF IndInv, EchosBacked
<1>7. ReadiesBacked'
  BY <1>2 DEF IndInv, ReadiesBacked
<1>8. \A r \in Correct :
        value[r].root \in Root /\ Cardinality(Holders(value[r].root)) >= C - 2 * MaxFaulty =>
          value'[r].root \in Root /\ Cardinality(Now(value'[r].root)) >= C - 2 * MaxFaulty
  <2> SUFFICES ASSUME NEW r \in Correct, value[r].root \in Root,
                      Cardinality(Holders(value[r].root)) >= C - 2 * MaxFaulty
               PROVE  /\ value'[r].root \in Root
                      /\ Cardinality(Now(value'[r].root)) >= C - 2 * MaxFaulty
    OBVIOUS
  <2>1. value'[r] = value[r]
    BY <1>3
  <2> DEFINE root == value[r].root
  <2>2. root \in Root /\ Cardinality(Holders(root)) >= C - 2 * MaxFaulty /\ value'[r].root = root
    BY <2>1
  <2> HIDE DEF root
  <2>3. Cardinality(Now(root)) >= C - 2 * MaxFaulty
    BY <1>4, <2>2, Counts
  <2> QED
    BY <2>2, <2>3
<1>9. CollectsBacked'
  BY <1>2, <1>8 DEF IndInv, CollectsBacked, Holders, Now, C
<1>10. OutputsBacked'
  BY <1>2, <1>3 DEF IndInv, OutputsBacked
<1>11. ReadyJustified'
  <2>1. ready # {} =>
          \E root \in Sound \cup Loose : Cardinality(Now(root)) >= C - MaxFaulty
    <3> SUFFICES ASSUME ready # {}
                 PROVE  \E root \in Sound \cup Loose : Cardinality(Now(root)) >= C - MaxFaulty
      OBVIOUS
    <3>1. PICK root \in Sound \cup Loose : Cardinality(Holders(root)) >= C - MaxFaulty
      BY DEF IndInv, ReadyJustified, C
    <3>2. root \in Root
      BY FaultAssumption
    <3>3. Cardinality(Now(root)) >= C - MaxFaulty
      BY <1>4, <3>1, <3>2, Counts
    <3> QED
      BY <3>3
  <2>2. \A r \in Correct : status[r] = "Success" =>
          Cardinality(Now(value'[r].root)) >= C - 2 * MaxFaulty
    BY <1>8 DEF IndInv, OutputsBacked, ReadyJustified, C
  <2> QED
    BY <1>2, <2>1, <2>2 DEF ReadyJustified, Holders, Now, C
<1> QED
  BY <1>1, <1>5, <1>6, <1>7, <1>9, <1>10, <1>11 DEF IndInv

(* The output is of what the receiver holds, and the receiver is ready. *)
LEMMA SucceedStep ==
  ASSUME IndInv, NEW p \in Correct, Running(p), Triggered(p),
         NEW v, v = IF value[p].root \in Sound THEN value[p].root ELSE p,
         Succeed(p, v), UNCHANGED <<value, ready, banned>>
  PROVE  IndInv'
<1>0. /\ TypeOK /\ status[p] = "InProgress" /\ p \in ready
      /\ value[p].root \in Root
      /\ Cardinality(Holders(value[p].root)) >= C - 2 * MaxFaulty
  BY DEF IndInv, Running, Triggered, CollectsBacked, C
<1>1. NoEchos \in EchoMaps /\ \A x \in Receivers : NoEchos[x] = None
  BY DEF NoEchos, EchoMaps
<1>2. v \in Root \cup Receivers
  BY <1>0 DEF Correct
<1>3. TypeOK'
  BY <1>0, <1>1, <1>2 DEF TypeOK, Succeed, Drop, Statuses
<1>4. /\ \A r \in Correct : /\ readies'[r] \subseteq readies[r]
                            /\ fired'[r] \subseteq fired[r]
      /\ \A r \in Correct \ {p} : /\ fired'[r] = fired[r]
                                  /\ status'[r] = status[r]
                                  /\ output'[r] = output[r]
      /\ status'[p] = "Success" /\ output'[p] = v
  BY <1>0 DEF TypeOK, Succeed, Drop
<1>5. \A r, x \in Correct : echos'[r][x] # None => echos[r][x] # None
  BY <1>0, <1>1 DEF TypeOK, Succeed, Drop, Correct
<1>6. ValuesStored'
  BY <1>4 DEF IndInv, ValuesStored, Running
<1>7. EchosBacked' /\ ReadiesBacked'
  BY <1>4, <1>5 DEF IndInv, EchosBacked, ReadiesBacked
<1>8. CollectsBacked'
  BY <1>4 DEF IndInv, CollectsBacked, Holders
<1>9. OutputsBacked'
  BY <1>0, <1>4 DEF IndInv, OutputsBacked
<1>10. ReadyJustified'
  BY <1>0, <1>4 DEF IndInv, ReadyJustified, Holders, C
<1> QED
  BY <1>3, <1>6, <1>7, <1>8, <1>9, <1>10 DEF IndInv

-----------------------------------------------------------------------------
(* Every message that a receiver takes preserves the invariant. *)
LEMMA ReceiveStep ==
  ASSUME IndInv, NEW p \in Correct, Receive(p)
  PROVE  IndInv'
<1>0. TypeOK /\ p \in Receivers
  BY DEF IndInv, Correct
<1>1. ASSUME NEW q \in Receivers, NEW m \in Echoed(q), ProcessEcho(p, q, m)
      PROVE  IndInv'
  <2>0. /\ Running(p) /\ "value" \in fired[p] /\ handled[p] \cup {q} \in SUBSET Receivers
        /\ UNCHANGED <<value, shards, ready, output>>
    BY <1>0, <1>1 DEF ProcessEcho, TypeOK
  <2>1. CASE /\ Matches(value[p], m)
             /\ handled' = [handled EXCEPT ![p] = handled[p] \cup {q}]
             /\ echos' = [echos EXCEPT ![p][q] = m.dest]
             /\ UNCHANGED <<heard, readies, fired, banned, status>>
    <3>1. /\ m.dest \in Receivers /\ m.root = value[p].root /\ value[p].root \in Root
          /\ m.dest # None
      BY <2>0, <2>1, FaultAssumption DEF Matches, IndInv, ValuesStored
    <3>2. echos \in [Correct -> EchoMaps]
      BY <1>0 DEF TypeOK
    <3>3. echos' \in [Correct -> EchoMaps]
      BY <2>1, <3>1, <3>2 DEF EchoMaps
    <3>4. TypeOK'
      BY <1>0, <2>0, <2>1, <3>3 DEF TypeOK
    <3>5. \A r, x \in Correct : echos'[r][x] # None =>
            echos[r][x] # None \/ (r = p /\ x = q)
      BY <2>1, <3>2 DEF EchoMaps, Correct
    <3>6. q \in Correct => value[q].root = value[p].root
      BY <3>1, <1>1 DEF Echoed, ValueFor
    <3>7. \A r, x \in Correct : echos'[r][x] # None =>
            \/ echos[r][x] # None
            \/ value[r].root \in Root /\ value[x].root = value[r].root
      BY <3>1, <3>5, <3>6
    <3> QED
      BY <2>0, <2>1, <3>4, <3>7, QuietStep
  <2>2. CASE Fail(p) /\ UNCHANGED banned
    BY <2>0, <2>2, FailStep
  <2>3. CASE Ban(p, Sender, fired[p], handled[p] \cup {q})
    BY <2>0, <2>3, BanStep
  <2> QED
    BY <1>1, <2>1, <2>2, <2>3 DEF ProcessEcho
<1>2. ASSUME NEW q \in Receivers, ReceiveReady(p, q) PROVE IndInv'
  <2>1. TypeOK'
    BY <1>0, <1>2 DEF ReceiveReady, TypeOK
  <2>2. \A r \in Correct : readies'[r] \subseteq readies[r] \cup ready \cup Faulty
    BY <1>0, <1>2 DEF ReceiveReady, TypeOK
  <2> QED
    BY <1>2, <2>1, <2>2, QuietStep DEF ReceiveReady
<1> QED
  BY <1>1, <1>2, ValueStep DEF Receive

(* So does every computation. *)
LEMMA ComputeStep ==
  ASSUME IndInv, NEW p \in Correct, Compute(p)
  PROVE  IndInv'
<1>0. TypeOK /\ EchosBacked /\ ReadiesBacked /\ p \in Receivers
  BY DEF IndInv, Correct
<1>1. CASE CheckRoot(p)
  <2>0. /\ Running(p) /\ Cardinality(Echoing(p)) >= N - MaxFaulty
        /\ UNCHANGED <<value, shards, output>>
        /\ "to_check_root" \in Collects \ {"value"}
    BY <1>1 DEF CheckRoot, EnoughEchos, Threshold, Collects
  <2>1. CASE /\ value[p].root \in Sound \cup Loose
             /\ ready' = ready \cup {p}
             /\ Fire(p, "to_check_root")
    <3>1. Vouched
      BY <1>0, <2>0, <2>1, EchosHeld, Counts DEF Vouched
    <3> QED
      BY <2>0, <2>1, <3>1, FireStep
  <2>2. CASE /\ Ban(p, Sender, fired[p] \cup {"to_check_root"}, handled[p])
             /\ UNCHANGED ready
    <3>1. handled[p] \in SUBSET Receivers
      BY <1>0 DEF TypeOK
    <3> QED
      BY <2>0, <2>2, <3>1, BanStep
  <2>3. CASE Fail(p) /\ UNCHANGED <<ready, banned>>
    BY <2>0, <2>3, FailStep
  <2> QED
    BY <1>1, <2>1, <2>2, <2>3 DEF CheckRoot
<1>2. CASE CollectEchosToFinalize(p)
  <2>1. /\ Running(p) /\ Cardinality(Echoing(p)) >= N - 2 * MaxFaulty
        /\ "value" \in fired[p] /\ "echos_to_finalize" \in Collects \ {"value"}
    BY <1>2 DEF CollectEchosToFinalize, EnoughEchos, Threshold, Collects
  <2>2. Held(p)
    BY <1>0, <2>1, EchosHeld, Counts DEF Held, IndInv, ValuesStored
  <2> QED
    BY <1>2, <2>1, <2>2, FireStep DEF CollectEchosToFinalize
<1>3. CASE CollectReadiesToSend(p)
  <2>1. /\ Running(p) /\ Cardinality(readies[p]) >= MaxFaulty + 1
        /\ "to_send_ready" \in Collects \ {"value"}
    BY <1>3 DEF CollectReadiesToSend, EnoughReadies, Threshold, Collects
  <2>2. readies[p] \cap Correct # {}
    BY <1>0, <2>1, SomeoneCorrect DEF TypeOK
  <2>3. ready # {}
    BY <1>0, <2>2 DEF ReadiesBacked, Correct
  <2>4. Vouched
    BY <2>3 DEF IndInv, ReadyJustified, Vouched, C
  <2> QED
    BY <1>3, <2>1, <2>4, FireStep DEF CollectReadiesToSend
<1>4. CASE CollectReadiesToFinalize(p)
  BY <1>4, FireStep DEF CollectReadiesToFinalize, EnoughReadies, Collects
<1>5. CASE Finalize(p)
  <2>0. Running(p) /\ Triggered(p) /\ UNCHANGED <<value, ready, banned>>
    BY <1>5 DEF Finalize
  <2>1. CASE value[p].root \in Sound /\ Succeed(p, value[p].root)
    BY <2>0, <2>1, SucceedStep
  <2>2. CASE value[p].root \notin Sound /\ Succeed(p, p)
    BY <2>0, <2>2, SucceedStep
  <2>3. CASE Fail(p) /\ UNCHANGED <<shards, output>>
    BY <2>0, <2>3, FailStep
  <2> QED
    BY <1>5, <2>1, <2>2, <2>3 DEF Finalize
<1> QED
  BY <1>1, <1>2, <1>3, <1>4, <1>5 DEF Compute

(* The conjunction of the parts is inductive. *)
LEMMA NextIndInv == IndInv /\ [Next]_vars => IndInv'
<1> SUFFICES ASSUME IndInv, [Next]_vars PROVE IndInv'
  OBVIOUS
<1>1. ASSUME NEW p \in Correct, NEW q \in Receivers \cup {Sender}, RejectMessage(p, q)
      PROVE  IndInv'
  <2>1. handled[p] \in SUBSET Receivers
    BY DEF IndInv, TypeOK
  <2> QED
    BY <1>1, <2>1, BanStep DEF RejectMessage
<1>2. CASE UNCHANGED vars
  <2>1. TypeOK'
    BY <1>2 DEF IndInv, TypeOK, vars
  <2> QED
    BY <1>2, <2>1, QuietStep DEF vars
<1> QED
  BY <1>1, <1>2, ReceiveStep, ComputeStep DEF Next, Reject

-----------------------------------------------------------------------------
(* The sessions of all correct receivers keep their state well-formed,     *)
(* whatever faulty parties send (build(), protocol.rs).                    *)
THEOREM TypeCorrect == Spec => []TypeOK
<1> QED
  BY InitIndInv, NextIndInv, PTL DEF Spec, IndInv

(* A ready message of a correct receiver proves that all correct receivers *)
(* but f hold one dispersal that may pass the check, also when it was sent *)
(* for the readies of others (to_send_ready): by then a correct receiver   *)
(* had checked the root.  Faulty receivers may have echoed anything to     *)
(* anyone.                                                                 *)
THEOREM ReadyIsJustified == Spec => []ReadyJustified
<1> QED
  BY InitIndInv, NextIndInv, PTL DEF Spec, IndInv

(* With more than 3f correct receivers, those that hold the dispersal of   *)
(* an output and those that hold the one that is vouched for overlap.      *)
LEMMA OutputVouched ==
  ASSUME IndInv, C > 3 * MaxFaulty, NEW p \in Correct, status[p] = "Success",
         NEW root \in Sound \cup Loose, Cardinality(Holders(root)) >= C - MaxFaulty
  PROVE  value[p].root = root
<1>1. SUFFICES ASSUME value[p].root # root PROVE FALSE
  OBVIOUS
<1>2. Cardinality(Holders(value[p].root)) >= C - 2 * MaxFaulty
  BY DEF IndInv, ReadyJustified, C
<1>3. /\ Holders(value[p].root) \in SUBSET Correct
      /\ Holders(root) \in SUBSET Correct
      /\ Holders(value[p].root) \cap Holders(root) = {}
  BY <1>1 DEF Holders
<1>4. /\ Cardinality(Holders(value[p].root)) \in Nat
      /\ Cardinality(Holders(root)) \in Nat
      /\ Cardinality(Holders(value[p].root)) + Cardinality(Holders(root)) <= C
  BY <1>3, DisjointSets, ReceiverSets DEF Correct
<1> QED
  BY <1>2, <1>4, Counts

(* Some dispersal is vouched for when there is an output. *)
LEMMA SomeVouched ==
  ASSUME IndInv, NEW p \in Correct, status[p] = "Success"
  PROVE  \E root \in Sound \cup Loose : Cardinality(Holders(root)) >= C - MaxFaulty
BY DEF IndInv, OutputsBacked, ReadyJustified, C

(* The outputs of correct receivers are of one dispersal if there are more *)
(* than 3f of them, whatever a faulty sender hands out and faulty parties  *)
(* echo, to each receiver something else.  BuildData accepts any number of *)
(* receivers above 2f, where it does not hold.                             *)
THEOREM OutputsOfOneDispersal == Spec => []OneDispersal
<1>1. IndInv => OneDispersal
  <2> SUFFICES ASSUME IndInv, C > 3 * MaxFaulty, NEW p \in Correct, NEW q \in Correct,
                      status[p] = "Success", status[q] = "Success"
               PROVE  /\ value[p].root = value[q].root
                      /\ value[p].root \in Sound => output[p] = output[q]
    BY DEF OneDispersal, C
  <2>1. PICK root \in Sound \cup Loose : Cardinality(Holders(root)) >= C - MaxFaulty
    BY SomeVouched
  <2>2. value[p].root = root /\ value[q].root = root
    BY <2>1, OutputVouched
  <2> QED
    BY <2>2 DEF IndInv, OutputsBacked
<1> QED
  BY <1>1, InitIndInv, NextIndInv, PTL DEF Spec

(* Nothing is output but what is assembled from a dispersal that may pass  *)
(* the check, although finalize() does not compare its shards with a root. *)
THEOREM OutputsAreSound == Spec => []OutputsSound
<1>1. IndInv => OutputsSound
  <2> SUFFICES ASSUME IndInv, C > 3 * MaxFaulty, NEW p \in Correct, status[p] = "Success"
               PROVE  value[p].root \in Sound \cup Loose
    BY DEF OutputsSound, C
  <2> QED
    BY SomeVouched, OutputVouched
<1> QED
  BY <1>1, InitIndInv, NextIndInv, PTL DEF Spec

(* Agreement follows if no scheme without recovery shards is used, which   *)
(* the code does not refuse: correct receivers output one value if there   *)
(* are more than 3f of them.                                               *)
THEOREM ReceiversAgree ==
  Loose = {} /\ Cardinality(Correct) > 3 * MaxFaulty => (Spec => []Agreement)
<1> SUFFICES ASSUME Loose = {}, Cardinality(Correct) > 3 * MaxFaulty
             PROVE  Spec => []Agreement
  OBVIOUS
<1>1. OneDispersal /\ OutputsSound => Agreement
  BY DEF OneDispersal, OutputsSound, Agreement
<1> QED
  BY <1>1, OutputsOfOneDispersal, OutputsAreSound, PTL

-----------------------------------------------------------------------------
(* What a receiver stores of the value message of a correct sender. *)
SenderMessage == [root |-> SenderRoot, ok |-> TRUE]

(* A faulty receiver has echoed a value message of another one to p. *)
Misled(p) == \E q \in Receivers \cap Faulty : shards[p][q] \notin {q, None}

(* With a correct sender there is one dispersal, correct receivers echo    *)
(* what is addressed to them, and no bans but those of faulty receivers    *)
(* and of the sender make a session unfinishable.                          *)
DeliveryInv ==
  /\ \A p \in Correct : /\ value[p] \in {NoValue, SenderMessage}
                        /\ banned[p] \subseteq (Receivers \cap Faulty) \cup ({Sender} \cap Receivers)
                        /\ status[p] = "Unfinishable" => Sender \in banned[p]
                        /\ output[p] \in {SenderRoot, None}
                        /\ status[p] = "RuntimeError" => Misled(p)
  /\ \A p, q \in Correct : echos[p][q] \in {q, None} /\ shards[p][q] \in {q, None}

(* The receivers that are left when only faulty ones are banned satisfy    *)
(* every threshold of the protocol.                                        *)
LEMMA ThresholdsLeft ==
  ASSUME Sender \notin Faulty, N > 3 * MaxFaulty,
         NEW B \in SUBSET (Receivers \cap Faulty), NEW c \in Collects
  PROVE  ~(Cardinality(Group(c) \ B) < Threshold(c))
<1>1. Cardinality({Sender} \ B) = 1
  <2>1. {Sender} \ B = {Sender}
    OBVIOUS
  <2> QED
    BY <2>1, FS_Singleton
<1>2. Cardinality(Receivers \ B) \in Nat /\ Cardinality(Receivers \ B) >= N - MaxFaulty
  <2>1. Receivers \ B \in SUBSET Receivers /\ Correct \in SUBSET (Receivers \ B)
    BY DEF Correct
  <2>2. /\ Cardinality(Receivers \ B) \in Nat
        /\ Cardinality(Correct) <= Cardinality(Receivers \ B)
    BY <2>1, ReceiverSets
  <2> QED
    BY <2>2, Counts DEF C
<1>3. CASE c = "value"
  BY <1>1, <1>3 DEF Group, Threshold
<1>4. CASE c # "value"
  <2>1. Group(c) = Receivers
    BY <1>4 DEF Group
  <2>2. Threshold(c) \in Int /\ Threshold(c) <= N - MaxFaulty
    BY <1>4, Counts DEF Threshold, Collects
  <2> QED
    BY <1>2, <2>1, <2>2, Counts
<1> QED
  BY <1>3, <1>4

(* A session that bans a faulty receiver goes on. *)
LEMMA DeliveryBan ==
  ASSUME Sender \notin Faulty, N > 3 * MaxFaulty, IndInv, DeliveryInv,
         NEW p \in Correct, Running(p), NEW seen,
         NEW q \in (Receivers \cap Faulty) \cup ({Sender} \cap Receivers),
         Ban(p, q, fired[p], seen), UNCHANGED <<value, shards, output>>
  PROVE  DeliveryInv'
<1>0. TypeOK /\ status[p] = "InProgress"
  BY DEF IndInv, Running
<1>1. /\ banned' = [banned EXCEPT ![p] = banned[p] \cup {q}]
      /\ status' \in {status, [status EXCEPT ![p] = "Unfinishable"]}
      /\ echos' \in {[echos EXCEPT ![p] = NoEchos],
                    [echos EXCEPT ![p] = [x \in Receivers |-> IF x = q THEN None ELSE echos[p][x]]]}
  BY DEF Ban, Drop
<1>2. /\ banned \in [Correct -> SUBSET (Receivers \cup {Sender})]
      /\ status \in [Correct -> Statuses] /\ echos \in [Correct -> EchoMaps]
  BY <1>0 DEF TypeOK
<1>3. \A r \in Correct :
        banned'[r] \subseteq (Receivers \cap Faulty) \cup ({Sender} \cap Receivers)
  BY <1>1, <1>2 DEF DeliveryInv
<1>4. status'[p] = "Unfinishable" => Sender \in banned'[p]
  <2> SUFFICES ASSUME Sender \notin banned'[p] PROVE status'[p] # "Unfinishable"
    OBVIOUS
  <2>1. banned'[p] \in SUBSET (Receivers \cap Faulty)
    BY <1>3
  <2>2. UNCHANGED status
    BY <2>1, ThresholdsLeft DEF Ban
  <2> QED
    BY <1>0, <2>2
<1>5. \A r \in Correct : /\ status'[r] = "Unfinishable" => Sender \in banned'[r]
                         /\ status'[r] = "RuntimeError" => status[r] = "RuntimeError"
  BY <1>1, <1>2, <1>4 DEF DeliveryInv
<1>6. \A r, x \in Correct : echos'[r][x] \in {x, None}
  <2> SUFFICES ASSUME NEW r \in Correct, NEW x \in Correct PROVE echos'[r][x] \in {x, None}
    OBVIOUS
  <2>1. x \in Receivers
    BY DEF Correct
  <2>2. CASE r = p
    BY <1>1, <1>2, <2>1, <2>2 DEF NoEchos, DeliveryInv
  <2>3. CASE r # p
    BY <1>1, <1>2, <2>3 DEF DeliveryInv
  <2> QED
    BY <2>2, <2>3
<1>7. \A r \in Correct : Misled(r)' <=> Misled(r)
  BY DEF Misled
<1> QED
  BY <1>3, <1>5, <1>6, <1>7 DEF DeliveryInv

(* A step that bans nobody and ends no session. *)
LEMMA DeliveryKept ==
  ASSUME DeliveryInv, UNCHANGED <<banned, status, output>>,
         \A p \in Correct : /\ value'[p] \in {NoValue, SenderMessage}
                            /\ status[p] = "RuntimeError" => shards'[p] = shards[p],
         \A p, q \in Correct : echos'[p][q] \in {q, None} /\ shards'[p][q] \in {q, None}
  PROVE  DeliveryInv'
<1>1. \A p \in Correct : status'[p] = "RuntimeError" => Misled(p)'
  BY DEF DeliveryInv, Misled
<1> QED
  BY <1>1 DEF DeliveryInv

(* The messages that a receiver takes: a correct sender has signed nothing *)
(* for a stranger, and the echo of one of its value messages cannot be     *)
(* held against it.                                                        *)
LEMMA DeliveryReceive ==
  ASSUME Sender \notin Faulty, N > 3 * MaxFaulty, IndInv, DeliveryInv,
         NEW p \in Correct, Receive(p)
  PROVE  DeliveryInv'
<1>0. TypeOK /\ p \in Receivers
  BY DEF IndInv, Correct
<1>1. ASSUME NEW m \in Signed, ReceiveValue(p, m) PROVE DeliveryInv'
  <2>1. m.root = SenderRoot /\ m.ok = TRUE
    BY <1>1 DEF ReceiveValue, Signed, ValueFor, OtherMessage
  <2>2. value' = [value EXCEPT ![p] = SenderMessage]
    BY <1>1, <2>1 DEF ReceiveValue, SenderMessage
  <2>3. \A r \in Correct : value'[r] \in {NoValue, SenderMessage}
    BY <1>0, <2>2 DEF TypeOK, DeliveryInv
  <2> QED
    BY <1>1, <2>3, DeliveryKept DEF ReceiveValue, DeliveryInv
<1>2. ASSUME NEW q \in Receivers, NEW m \in Echoed(q), ProcessEcho(p, q, m)
      PROVE  DeliveryInv'
  <2>0. /\ Running(p) /\ "value" \in fired[p]
        /\ UNCHANGED <<value, shards, ready, output>>
    BY <1>2 DEF ProcessEcho
  <2>1. value[p] = SenderMessage
    BY <2>0, FaultAssumption DEF IndInv, ValuesStored, DeliveryInv, NoValue
  <2>2. CASE m = OtherMessage /\ Sender \in Receivers
    <3>1. Ban(p, Sender, fired[p], handled[p] \cup {q})
      BY <1>2, <2>1, <2>2, FaultAssumption
      DEF ProcessEcho, Matches, OtherMessage, SenderMessage
    <3> QED
      BY <2>0, <2>2, <3>1, DeliveryBan
  <2>3. ASSUME NEW x \in Receivers, m = ValueFor(x, SenderRoot, TRUE), q \in Correct => x = q
        PROVE  DeliveryInv'
    <3>1. Matches(value[p], m) /\ m.dest = x /\ x # Stranger
      BY <2>1, <2>3, FaultAssumption DEF Matches, ValueFor, SenderMessage
    <3>2. /\ echos' = [echos EXCEPT ![p][q] = x]
          /\ UNCHANGED <<heard, readies, fired, banned, status>>
      BY <1>2, <3>1 DEF ProcessEcho
    <3>3. \A r, y \in Correct : echos'[r][y] \in {y, None}
      BY <1>0, <2>3, <3>2 DEF TypeOK, EchoMaps, DeliveryInv, Correct
    <3> QED
      BY <2>0, <3>2, <3>3, DeliveryKept DEF DeliveryInv
  <2>4. \/ m = OtherMessage /\ Sender \in Receivers
        \/ \E x \in Receivers : m = ValueFor(x, SenderRoot, TRUE) /\ (q \in Correct => x = q)
    <3>1. CASE q \in Correct
      <4>1. value[q] = SenderMessage /\ m = ValueFor(q, value[q].root, value[q].ok)
        BY <1>2, <3>1 DEF Echoed, DeliveryInv
      <4>2. value[q].root = SenderRoot /\ value[q].ok = TRUE
        BY <4>1 DEF SenderMessage
      <4>3. m = ValueFor(q, SenderRoot, TRUE)
        BY <4>1, <4>2 DEF ValueFor
      <4> QED
        BY <4>3
    <3>2. CASE q \notin Correct
      BY <1>2, <3>2 DEF Echoed, Signed
    <3> QED
      BY <3>1, <3>2
  <2> QED
    BY <2>2, <2>3, <2>4
<1>3. ASSUME NEW q \in Receivers, ReceiveReady(p, q) PROVE DeliveryInv'
  BY <1>3, DeliveryKept DEF ReceiveReady, DeliveryInv
<1> QED
  BY <1>1, <1>2, <1>3 DEF Receive

(* The decoder has the shards that it needs: every correct receiver echoes *)
(* one of its own.                                                         *)
LEMMA EnoughShards ==
  ASSUME Sender \notin Faulty, IndInv, DeliveryInv, NEW p \in Correct,
         Cardinality(Echoing(p)) >= N - MaxFaulty
  PROVE  ~MayFail(Destinations(p))
<1>0. echos[p] \in EchoMaps
  BY DEF IndInv, TypeOK
<1>1. Echoing(p) \in SUBSET Receivers /\ Destinations(p) \in SUBSET Receivers
  BY <1>0 DEF Echoing, Destinations, EchoMaps
<1>2. /\ Cardinality(Echoing(p) \cap Correct) \in Nat
      /\ Cardinality(Echoing(p) \cap Correct) >= C - MaxFaulty
  BY <1>1, CorrectAmong, Counts
<1>3. Echoing(p) \cap Correct \subseteq Destinations(p)
  <2> SUFFICES ASSUME NEW q \in Echoing(p) \cap Correct PROVE q \in Destinations(p)
    OBVIOUS
  <2>1. echos[p][q] = q
    BY DEF Echoing, DeliveryInv
  <2> QED
    BY <2>1 DEF Destinations
<1>4. /\ Cardinality(Destinations(p)) \in Nat
      /\ Cardinality(Echoing(p) \cap Correct) <= Cardinality(Destinations(p))
  BY <1>1, <1>3, ReceiverSets
<1> QED
  BY <1>2, <1>4, Counts DEF MayFail

(* The computations of a receiver: the root of a correct sender passes the *)
(* check, and its value is the output unless a shard was given twice.      *)
LEMMA DeliveryCompute ==
  ASSUME Sender \notin Faulty, IndInv, DeliveryInv, NEW p \in Correct, Compute(p)
  PROVE  DeliveryInv'
<1>0. TypeOK
  BY DEF IndInv
<1>1. CASE CheckRoot(p)
  <2>1. /\ value[p].root \in Root /\ Cardinality(Echoing(p)) >= N - MaxFaulty
    BY <1>1 DEF CheckRoot, EnoughEchos, Threshold, IndInv, ValuesStored
  <2>2. value[p].root \in Sound
    BY <2>1, FaultAssumption DEF DeliveryInv, NoValue, SenderMessage
  <2>3. Fire(p, "to_check_root") /\ UNCHANGED <<value, shards, output>>
    BY <1>1, <2>1, <2>2, EnoughShards DEF CheckRoot
  <2> QED
    BY <2>3, DeliveryKept DEF Fire, DeliveryInv
<1>2. CASE CollectEchosToFinalize(p)
  <2>1. /\ shards' = [shards EXCEPT ![p] = echos[p]]
        /\ UNCHANGED <<value, output, echos, banned, status>>
        /\ status[p] = "InProgress"
    BY <1>2 DEF CollectEchosToFinalize, Fire, EnoughEchos, Running
  <2>2. /\ \A r \in Correct : status[r] = "RuntimeError" => shards'[r] = shards[r]
        /\ \A r, x \in Correct : shards'[r][x] \in {x, None}
    BY <1>0, <2>1 DEF TypeOK, DeliveryInv
  <2> QED
    BY <2>1, <2>2, DeliveryKept DEF DeliveryInv
<1>3. CASE CollectReadiesToSend(p) \/ CollectReadiesToFinalize(p)
  BY <1>3, DeliveryKept
  DEF CollectReadiesToSend, CollectReadiesToFinalize, Fire, DeliveryInv
<1>4. CASE Finalize(p)
  <2>0. /\ Running(p) /\ "echos_to_finalize" \in fired[p]
        /\ UNCHANGED <<value, ready, banned>>
    BY <1>4 DEF Finalize, Triggered
  <2>1. value[p].root = SenderRoot /\ SenderRoot \in Sound
    BY <2>0, FaultAssumption
    DEF IndInv, CollectsBacked, DeliveryInv, SenderMessage, NoValue
  <2>2. NoEchos \in EchoMaps /\ \A x \in Receivers : NoEchos[x] = None
    BY DEF NoEchos, EchoMaps
  <2>3. CASE Succeed(p, value[p].root)
    <3>1. /\ output' = [output EXCEPT ![p] = SenderRoot]
          /\ status' = [status EXCEPT ![p] = "Success"]
          /\ shards' = [shards EXCEPT ![p] = NoEchos]
          /\ echos' = [echos EXCEPT ![p] = NoEchos]
      BY <2>1, <2>3 DEF Succeed, Drop
    <3>2. \A r \in Correct : status'[r] = "RuntimeError" => Misled(r)'
      BY <1>0, <3>1 DEF TypeOK, DeliveryInv, Misled
    <3> QED
      BY <1>0, <2>0, <2>2, <3>1, <3>2 DEF TypeOK, DeliveryInv, Correct
  <2>4. CASE Repeated(shards[p]) /\ Fail(p) /\ UNCHANGED <<shards, output>>
    <3>1. /\ status' = [status EXCEPT ![p] = "RuntimeError"]
          /\ echos' = [echos EXCEPT ![p] = NoEchos]
      BY <2>4 DEF Fail, Drop
    <3>2. \E x \in Receivers \cap Faulty : shards[p][x] \notin {x, None}
      <4>1. PICK x, y \in Receivers :
              x # y /\ shards[p][x] = shards[p][y] /\ shards[p][x] # None
        BY <2>4 DEF Repeated
      <4> QED
        BY <4>1 DEF DeliveryInv, Correct
    <3>3. \A r \in Correct : status'[r] = "RuntimeError" => Misled(r)'
      BY <1>0, <2>4, <3>1, <3>2 DEF TypeOK, DeliveryInv, Misled
    <3> QED
      BY <1>0, <2>0, <2>2, <2>4, <3>1, <3>3 DEF TypeOK, DeliveryInv, Correct
  <2> QED
    BY <1>4, <2>1, <2>3, <2>4 DEF Finalize
<1> QED
  BY <1>1, <1>2, <1>3, <1>4 DEF Compute

(* Every step keeps the invariant, whatever faulty receivers send. *)
LEMMA DeliveryStep ==
  ASSUME Sender \notin Faulty, N > 3 * MaxFaulty, IndInv, DeliveryInv, [Next]_vars
  PROVE  DeliveryInv'
<1>1. ASSUME NEW p \in Correct, NEW q \in Receivers \cup {Sender}, RejectMessage(p, q)
      PROVE  DeliveryInv'
  <2>1. q \in Receivers \cap Faulty
    BY <1>1 DEF RejectMessage
  <2> QED
    BY <1>1, <2>1, DeliveryBan DEF RejectMessage
<1>2. CASE UNCHANGED vars
  BY <1>2, DeliveryKept DEF vars, DeliveryInv
<1> QED
  BY <1>1, <1>2, DeliveryReceive, DeliveryCompute DEF Next, Reject

(* With a correct sender and more than 3f receivers, nothing but its value *)
(* is output.  A session fails only for a shard that is given twice, which *)
(* a faulty receiver has echoed in place of its own, and only a receiver   *)
(* that is also the sender can come to be banned without being faulty, for *)
(* an echo of its other messages.                                          *)
THEOREM CorrectSenderIsDelivered == Spec => []CorrectSenderDelivers
<1>1. CASE Sender \in Faulty \/ ~(N > 3 * MaxFaulty)
  <2>1. CorrectSenderDelivers
    BY <1>1 DEF CorrectSenderDelivers
  <2> QED
    BY <2>1, PTL
<1>2. CASE Sender \notin Faulty /\ N > 3 * MaxFaulty
  <2>1. Init => DeliveryInv
    <3>1. \A x \in Correct : NoEchos[x] = None
      BY DEF NoEchos, Correct
    <3> QED
      BY <3>1 DEF Init, DeliveryInv
  <2>2. IndInv /\ DeliveryInv /\ [Next]_vars => DeliveryInv'
    BY <1>2, DeliveryStep
  <2>3. DeliveryInv => CorrectSenderDelivers
    BY <1>2 DEF DeliveryInv, Misled, CorrectSenderDelivers
  <2> QED
    BY <2>1, <2>2, <2>3, InitIndInv, NextIndInv, PTL DEF Spec
<1> QED
  BY <1>1, <1>2
=============================================================================
