------------------------------- MODULE KeyTable -------------------------------
(***************************************************************************)
(* What the node table of one identity constraint promises                 *)
(* (src/src/validation/identity.rs, KeyTable): sequences are stored in the *)
(* order they come, a key or unique table reports a duplicate by comparing *)
(* the new sequence with every stored one, and a keyref member is matched  *)
(* when some stored sequence equals it.  KeyIndex implements this table    *)
(* with a hash index.                                                      *)
(***************************************************************************)
EXTENDS FieldValues

CONSTANTS
    MaxSequences, \* bound: sequences stored in the table
    MaxBatch      \* bound: sequences of an appended table or of a keyref table

ASSUME BoundAssumption == MaxSequences \in Nat /\ MaxBatch \in Nat

VARIABLES
    kind,      \* IdentityKind of the constraint
    sequences, \* the key sequences, in the order they were added
    errors,    \* error codes that the last add_sequence reported
    unmatched  \* keyref members the last keyref check reported

vars == <<kind, sequences, errors, unmatched>>

ErrorCode == {MissingField, DuplicateKey}

Batch == UNION {[1 .. n -> KeySequence] : n \in 0 .. MaxBatch}

TypeOK ==
    /\ kind \in IdentityKind
    /\ sequences \in Seq(KeySequence)
    /\ errors \subseteq ErrorCode
    /\ unmatched \subseteq 1 .. MaxBatch

Init ==
    /\ kind \in IdentityKind
    /\ sequences = <<>>
    /\ errors = {}
    /\ unmatched = {}

-----------------------------------------------------------------------------
(* add_sequence                                                            *)
AddSequence(s) ==
    /\ Len(sequences) < MaxSequences
    /\ sequences' = Append(sequences, s)
    /\ errors' = AddErrors(kind, s, IsChecked(kind, s) /\ Holds(sequences, s))
    /\ UNCHANGED <<kind, unmatched>>

(* The sequences of a child's table, propagated without checks.            *)
AppendTable(other) ==
    /\ Len(sequences) + Len(other) <= MaxSequences
    /\ sequences' = sequences \o other
    /\ UNCHANGED <<kind, errors, unmatched>>

(* check_keyref, with this table as the target.                            *)
CheckKeyref(members) ==
    /\ kind # "keyref"
    /\ unmatched' = Unmatched(sequences, members)
    /\ UNCHANGED <<kind, sequences, errors>>

Next ==
    \/ \E s \in KeySequence : AddSequence(s)
    \/ \E other \in Batch : AppendTable(other)
    \/ \E members \in Batch : CheckKeyref(members)

Spec == Init /\ [][Next]_vars
=============================================================================
