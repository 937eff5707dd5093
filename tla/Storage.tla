------------------------------ MODULE Storage ------------------------------
(***************************************************************************)
(* The storage of a session (execution/storage.rs): which scalar slots and *)
(* which elements of mapping slots hold a value.  Values are opaque to the *)
(* session except for the signed values of remote parties, which are kept  *)
(* in `verified`; the element (name, source) of a remote slot holds the    *)
(* verified value with that name and source.                               *)
(***************************************************************************)
EXTENDS Nodes

CONSTANTS
  Names,        \* the message names that may occur in received values
  None,         \* the destination of a broadcast value
  Payloads,     \* serialized values
  Malformed     \* the serialized values that do not deserialize

VARIABLES scalars, elems, verified

storageVars == <<scalars, elems, verified>>

ASSUME NamesAssumption == Receives \subseteq Names /\ Names \cap Tags = Receives

(* A signed value: the metadata, whether it carries the id of this session *)
(* and whether its signature verifies, and the serialized value.           *)
SignedValues ==
  [source : Int, name : Names, destination : Int \cup {None},
   session : BOOLEAN, signature : BOOLEAN, payload : Payloads]

(* Part `part` of the message received under the id `mid`. *)
VerifiedValues == [value : SignedValues, mid : Nat, part : Nat]

ElementTags == MappingTags \cup Names

StorageInit ==
  /\ scalars = Arguments
  /\ elems = {}
  /\ verified = {}

RemoteSlot(v) == <<v.value.name, v.value.source>>

(* get_scalar_or_mapping_args() of the element id of a mapping node. *)
ElementArgsStored(t, id) ==
  \A a \in ArgTags(t) :
    IF a \in ScalarTags THEN a \in scalars ELSE <<a, id>> \in elems

(* get_scalar_args() *)
ScalarArgsStored(t) == ArgTags(t) \subseteq scalars

(* get_mapping_as_value(): the mapping exists and has all these ids. *)
MappingStored(tag, ids) ==
  /\ \E e \in elems : e[1] = tag
  /\ \A id \in ids : <<tag, id>> \in elems

(* get_one_or_both_as_value(): the sides present; none of them is an error. *)
StoredSides(t) == {side \in Sides : SideTag(t, side) \in scalars}

(* The stored signed values with these names from one party. *)
StoredValues(names, source) ==
  {v \in verified : v.value.name \in names /\ v.value.source = source}
=============================================================================
