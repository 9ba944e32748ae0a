----------------------------- MODULE FieldValues -----------------------------
(***************************************************************************)
(* The values that the fields of an identity constraint contribute to a    *)
(* key sequence, and the equality §3.11.4 compares them with               *)
(* (src/src/validation/identity.rs, KeyFieldValue and KeySequence).        *)
(*                                                                         *)
(* A value is a record                                                     *)
(*    shape : "untyped"  no typed_value                                    *)
(*            "atom"     a typed value that is one atomic value            *)
(*            "list"     a typed value that is a list                      *)
(*    text  : its string_value                                             *)
(*    items : its members, one for an atom, none for an untyped value      *)
(* and a member is a record of its primitive datatype (NoPrim for an       *)
(* xs:untypedAtomic), its point in that datatype's value space and its     *)
(* text.  Union wrappers are taken off: the code unwraps them before it    *)
(* looks at anything else.                                                 *)
(***************************************************************************)
EXTENDS Naturals, Sequences

CONSTANTS
    Text,          \* string forms
    Point,         \* points of the primitive value spaces
    Prim,          \* primitive datatypes
    CoarsePrim,    \* the primitives whose values all hash to one key
    NoPrim,        \* the primitive of a value that has none
    KeyFieldValue, \* the values the fields of the instance yield
    Absent,        \* the slot of a field that yields no value
    FieldCount     \* the number of fields of the constraint

Member == [prim : Prim \cup {NoPrim}, point : Point, text : Text]

ASSUME PrimAssumption == NoPrim \notin Prim /\ CoarsePrim \subseteq Prim

ASSUME FieldCountAssumption == FieldCount \in Nat \ {0}

(* A list may hold any number of members, an atom holds one.               *)
ASSUME ValueAssumption ==
    /\ Absent \notin KeyFieldValue
    /\ \A v \in KeyFieldValue :
          /\ v.shape \in {"untyped", "atom", "list"}
          /\ v.text \in Text
          /\ v.items \in Seq(Member)
          /\ v.shape = "atom" => Len(v.items) = 1

-----------------------------------------------------------------------------
(* Equality of two members of lists, or of two atoms: values of different  *)
(* primitives are distinct; without a primitive the fallback decides.      *)
MemberEqual(m, n, fallback) ==
    \/ /\ m.prim # NoPrim /\ n.prim # NoPrim
       /\ m.prim = n.prim
       /\ m.point = n.point
    \/ /\ m.prim = NoPrim \/ n.prim = NoPrim
       /\ fallback

(* KeyFieldValue::eq.  An untyped side compares the strings; a list side   *)
(* compares the members pairwise, an atom standing for the list of itself. *)
ValueEqual(v, w) ==
    \/ /\ "untyped" \in {v.shape, w.shape}
       /\ v.text = w.text
    \/ /\ "untyped" \notin {v.shape, w.shape}
       /\ "list" \in {v.shape, w.shape}
       /\ Len(v.items) = Len(w.items)
       /\ \A i \in 1 .. Len(v.items) :
             MemberEqual(v.items[i], w.items[i],
                         v.items[i].text = w.items[i].text)
    \/ /\ v.shape = "atom" /\ w.shape = "atom"
       /\ MemberEqual(v.items[1], w.items[1], v.text = w.text)

-----------------------------------------------------------------------------
(* Key sequences: one slot per field, Absent when the field selected no    *)
(* node that gives a value.                                                *)
Field == 1 .. FieldCount

KeySequence == [Field -> KeyFieldValue \cup {Absent}]

IsComplete(s) == \A i \in Field : s[i] # Absent

SequenceEqual(s, t) ==
    \A i \in Field :
        \/ s[i] = Absent /\ t[i] = Absent
        \/ /\ s[i] # Absent /\ t[i] # Absent
           /\ ValueEqual(s[i], t[i])

-----------------------------------------------------------------------------
(* What a node table does with its sequences, by the kind of constraint.   *)
IdentityKind == {"key", "unique", "keyref"}

MissingField == "cvc-identity-constraint.4.2.1"
DuplicateKey == "cvc-identity-constraint.4.2.2"

(* find_duplicate: the linear scan.                                        *)
Holds(table, s) == \E p \in 1 .. Len(table) : SequenceEqual(table[p], s)

(* duplicate_check: keys always, uniques when complete, keyrefs never.     *)
IsChecked(k, s) == k = "key" \/ (k = "unique" /\ IsComplete(s))

(* push_checked: what adding s reports, given the duplicate check's answer.*)
AddErrors(k, s, duplicate) ==
    {e \in {MissingField, DuplicateKey} :
        \/ e = MissingField /\ k = "key" /\ ~ IsComplete(s)
        \/ e = DuplicateKey /\ duplicate}

(* check_keyref_against and keyref_errors: every complete member of a      *)
(* keyref's table with no equal entry in the target table.                 *)
Unmatched(table, members) ==
    {m \in 1 .. Len(members) :
        IsComplete(members[m]) /\ ~ Holds(table, members[m])}

-----------------------------------------------------------------------------
(* field_class_and_key: how a value compares, and what its class hashes.   *)
ValueClass == {"Strings", "Atomic", "Lists"}
FieldClass == ValueClass \cup {"Unknown", "Mixed"}

ClassOf(v) ==
    IF v.shape = "list" THEN "Lists"
    ELSE IF v.shape = "atom" /\ v.items[1].prim # NoPrim THEN "Atomic"
    ELSE "Strings"

(* Every list gets one key, and so does every value of a coarse primitive  *)
(* (dates, times and durations are equal across time zones).               *)
KeyOf(v) ==
    IF ClassOf(v) = "Strings" THEN <<"string", v.text>>
    ELSE IF ClassOf(v) = "Lists" THEN <<"list">>
    ELSE IF v.items[1].prim \in CoarsePrim THEN <<"coarse">>
    ELSE <<"atomic", v.items[1].prim, v.items[1].point>>
=============================================================================
