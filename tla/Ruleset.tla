------------------------------ MODULE Ruleset ------------------------------
(***************************************************************************)
(* The flat representation of a protocol graph (flat_representation/): one *)
(* rule per node, holding what the node still waits for.  The session      *)
(* tells the ruleset which slots were filled and which parties were        *)
(* banned; the ruleset hands out the actions that became possible.         *)
(*                                                                         *)
(* A rule's dependencies_condition and scalar_condition are conjunctions   *)
(* updated together, so scalarWait[t] is their union; for a merge node it  *)
(* is the pair of alternatives, emptied by the first one that arrives.     *)
(* `rules` are the rules still in the vectors scalar_rules, collect_rules  *)
(* and send_bc_rules; `slots` are the keys still in the current_conditions *)
(* of the mapping_rules and send_dm_rules.  Every remaining collect rule   *)
(* has seen every ban, so their banned_ids are one variable.               *)
(***************************************************************************)
EXTENDS Nodes

CONSTANTS
  PossibleIds,  \* mapping tag -> ids it is calculated for (PropagatedGroups)
  Rank          \* tag -> its place in the leaves-first order of the rules

VARIABLES scalarWait, elemWait, rules, slots, got, banned

rulesetVars == <<scalarWait, elemWait, rules, slots, got, banned>>

ScalarRules == OfKind({"ComputeScalar", "SerializeAndSignBC", "MergeScalars"})

SendBCRules == OfKind({"SendBC"})

MappingRules ==
  OfKind({"ComputeMapping", "SerializeAndSignDM", "DeserializeAndCheck"})

SendDMRules == OfKind({"SendDM"})

OnceRules == ScalarRules \cup CollectRules \cup SendBCRules

ElementRules == MappingRules \cup SendDMRules

Slots == {s \in ElementRules \X Parties : s[2] \in PossibleIds[s[1]]}

ASSUME PossibleIdsAssumption ==
  PossibleIds \in [MappingTags -> SUBSET Parties]

ASSUME RankAssumption == Rank \in [Tags -> Int]

-----------------------------------------------------------------------------
(* ScalarConditionWithState::update_with_scalar_ready. *)
WaitWithoutScalar(t, tag) ==
  IF t \in Merges
    THEN IF tag \in scalarWait[t] THEN {} ELSE scalarWait[t]
    ELSE scalarWait[t] \ {tag}

(* A new ruleset to which fill_inputs() has added every argument. *)
RulesetInit ==
  /\ scalarWait = [t \in OnceRules \cup ElementRules |->
                     IF t \in Merges /\ ScalarNeeds(t) \cap Arguments # {}
                       THEN {}
                       ELSE IF t \in Merges THEN ScalarNeeds(t)
                       ELSE ScalarNeeds(t) \ Arguments]
  /\ elemWait = [s \in Slots |-> ElementNeeds(s[1])]
  /\ rules = OnceRules
  /\ slots = Slots
  /\ got = [c \in CollectRules |-> {}]
  /\ banned = {}

UpdateWithScalarReady(tag) ==
  /\ scalarWait' = [t \in OnceRules \cup ElementRules |->
                      WaitWithoutScalar(t, tag)]
  /\ UNCHANGED <<elemWait, rules, slots, got, banned>>

(* Mutations: the id of the element, its tag, or the collects are ignored. *)
UpdateWithElementReadyOfAnyParty(tag, id) ==
  /\ elemWait' = [s \in Slots |-> elemWait[s] \ {tag}]
  /\ got' = [c \in CollectRules |->
               IF c \in rules /\ Values(c) = tag THEN got[c] \cup {id}
                                                 ELSE got[c]]
  /\ UNCHANGED <<scalarWait, rules, slots, banned>>

UpdateWithAnyElementReady(tag, id) ==
  /\ elemWait' = [s \in Slots |-> IF s[2] = id THEN elemWait[s] \ {tag}
                                               ELSE elemWait[s]]
  /\ got' = [c \in CollectRules |->
               IF c \in rules THEN got[c] \cup {id} ELSE got[c]]
  /\ UNCHANGED <<scalarWait, rules, slots, banned>>

UpdateWithElementReadyButCollects(tag, id) ==
  /\ elemWait' = [s \in Slots |-> IF s[2] = id THEN elemWait[s] \ {tag}
                                               ELSE elemWait[s]]
  /\ UNCHANGED <<scalarWait, rules, slots, got, banned>>

UpdateWithElementReady(tag, id) ==
  /\ elemWait' = [s \in Slots |-> IF s[2] = id THEN elemWait[s] \ {tag}
                                               ELSE elemWait[s]]
  /\ got' = [c \in CollectRules |->
               IF c \in rules /\ Values(c) = tag THEN got[c] \cup {id}
                                                 ELSE got[c]]
  /\ UNCHANGED <<scalarWait, rules, slots, banned>>

UpdateWithBannedParty(id) ==
  /\ got' = [c \in CollectRules |->
               IF c \in rules THEN got[c] \ {id} ELSE got[c]]
  /\ banned' = banned \cup {id}
  /\ UNCHANGED <<scalarWait, elemWait, rules, slots>>

(* The collects that a ruleset with the given bans reports as impossible. *)
ImpossibleCollects(bans) ==
  {c \in CollectRules \cap rules : ~IsQuorumPossible(c, bans)}

-----------------------------------------------------------------------------
(* Mutations: dependencies are not waited for; an element is a quorum. *)
SatisfiedScalarsWithoutDependencies ==
  {t \in ScalarRules \cap rules : scalarWait[t] \subseteq DepTags(t)}

SatisfiedCollectsWithoutQuorum ==
  {c \in CollectRules \cap rules : scalarWait[c] = {} /\ got[c] # {}}

(* is_satisfied() of the rules that are removed when they fire. *)
SatisfiedScalars == {t \in ScalarRules \cap rules : scalarWait[t] = {}}

SatisfiedCollects ==
  {c \in CollectRules \cap rules : scalarWait[c] = {} /\ HasQuorum(c, got[c])}

SatisfiedSendBCs == {t \in SendBCRules \cap rules : scalarWait[t] = {}}

(* The elements that pop_satisfied() may return, of the given rules. *)
SatisfiedElements(kindRules) ==
  {s \in slots : /\ s[1] \in kindRules
                 /\ scalarWait[s[1]] = {}
                 /\ elemWait[s] = {}}

(* The first of a set of tags in the order of the rules. *)
IsFirst(t, tags) == \A u \in tags : Rank[t] <= Rank[u]

(* The element popped: of the first rule with one, the one of least id. *)
IsFirstElement(s, elements) ==
  /\ IsFirst(s[1], {e[1] : e \in elements})
  /\ \A e \in elements : e[1] = s[1] => s[2] <= e[2]

(***************************************************************************)
(* pop_action(): scalars first, then collects, mapping elements,           *)
(* broadcasts and direct messages.                                         *)
(***************************************************************************)
CanPopScalar(t) == t \in SatisfiedScalars /\ IsFirst(t, SatisfiedScalars)

CanPopCollect(c) ==
  /\ SatisfiedScalars = {}
  /\ c \in SatisfiedCollects
  /\ IsFirst(c, SatisfiedCollects)

CanPopMapping(s) ==
  /\ SatisfiedScalars = {}
  /\ SatisfiedCollects = {}
  /\ s \in SatisfiedElements(MappingRules)
  /\ IsFirstElement(s, SatisfiedElements(MappingRules))

CanPopSendBC(t) ==
  /\ SatisfiedScalars = {}
  /\ SatisfiedCollects = {}
  /\ SatisfiedElements(MappingRules) = {}
  /\ t \in SatisfiedSendBCs
  /\ IsFirst(t, SatisfiedSendBCs)

CanPopSendDM(s) ==
  /\ SatisfiedScalars = {}
  /\ SatisfiedCollects = {}
  /\ SatisfiedElements(MappingRules) = {}
  /\ SatisfiedSendBCs = {}
  /\ s \in SatisfiedElements(SendDMRules)
  /\ IsFirstElement(s, SatisfiedElements(SendDMRules))

(* extract_if() removes the rule. *)
RemoveRule(t) ==
  /\ rules' = rules \ {t}
  /\ UNCHANGED <<scalarWait, elemWait, slots, got, banned>>

(* Mutation: the popped id stays in the current conditions. *)
KeepSlot(s) == UNCHANGED rulesetVars

(* pop_satisfied() removes the id from the rule's current conditions. *)
RemoveSlot(s) ==
  /\ slots' = slots \ {s}
  /\ UNCHANGED <<scalarWait, elemWait, rules, got, banned>>
=============================================================================
