------------------------------- MODULE KeyIndex -------------------------------
(***************************************************************************)
(* The node table the validation runtime keeps for key and unique          *)
(* constraints (src/src/validation/identity.rs, IndexedKeyTable and        *)
(* KeyIndex): a KeyTable whose duplicate check and keyref lookup go        *)
(* through a hash index.  The sequences of one hash are chained from the   *)
(* last to the first; a field whose values come from several classes stops *)
(* contributing to the hash, and the sequences indexed before are then     *)
(* linked again.                                                           *)
(*                                                                         *)
(* Each loop of the code is a loop here, one iteration a step, so that its *)
(* invariant can be stated and proved.  Positions count from 1 and END,    *)
(* the code's u32::MAX, is 0.  The calls of one table do not overlap (the  *)
(* runtime owns it), so a new call starts when pc is "idle".               *)
(***************************************************************************)
EXTENDS KeyTable

CONSTANTS
    Hash(_),  \* the hash of the keys of a sequence's fields
    HashCode  \* what Hash yields

VARIABLES
    classes,  \* KeyIndex.classes
    heads,    \* KeyIndex.heads: hash -> last linked position, END if none
    next,     \* KeyIndex.next: position -> previous position of that hash
    pc,       \* the loop the running call is in
    probe,    \* the sequence that contains() looks for
    at,       \* the position contains() has come to
    members,  \* the keyref members that check_keyref goes through
    member,   \* the member it has come to
    missing,  \* the members it has reported so far
    position, \* the position insert() indexes
    cursor    \* the position link() comes to next, on the way to `position'

index == <<classes, heads, next>>
search == <<probe, at>>
lookup == <<members, member, missing>>
insertion == <<position, cursor>>
indexVars == <<vars, index, pc, search, lookup, insertion>>

END == 0

(* The key of each field of s, under the classes c.                        *)
FieldKeys(c, s) ==
    [i \in Field |-> IF c[i] = "Mixed" THEN <<"mixed">>
                     ELSE IF s[i] = Absent THEN <<"absent">>
                     ELSE KeyOf(s[i])]

HashUnder(c, s) == Hash(FieldKeys(c, s))

ASSUME HashAssumption ==
    \A c \in [Field -> FieldClass], s \in KeySequence :
        HashUnder(c, s) \in HashCode

(* classes_of                                                              *)
FieldClassOf(s, i) == IF s[i] = Absent THEN "Unknown" ELSE ClassOf(s[i])

(* Mutant of Merged: the first class of a field stays its class.           *)
MergedFirstStays(have, new) == IF have = "Unknown" THEN new ELSE have

(* merge_classes: what the class of a field becomes.                       *)
Merged(have, new) ==
    IF new = "Unknown" \/ have = "Mixed" THEN have
    ELSE IF have \in {"Unknown", new} THEN new
    ELSE "Mixed"

MergedClasses(s) == [i \in Field |-> Merged(classes[i], FieldClassOf(s, i))]

BecameMixed(s) ==
    \E i \in Field : classes[i] # "Mixed" /\ MergedClasses(s)[i] = "Mixed"

(* Mutant of Comparable: no scan when the classes differ.                  *)
ComparableAlways(s) == TRUE

(* contains: whether equality with s can be decided within the classes.    *)
Comparable(s) ==
    \A i \in Field :
        \/ classes[i] \in {"Mixed", "Unknown"}
        \/ FieldClassOf(s, i) \in {"Unknown", classes[i]}

-----------------------------------------------------------------------------
IndexTypeOK ==
    /\ TypeOK
    /\ classes \in [Field -> FieldClass]
    /\ heads \in [HashCode -> Nat]
    /\ next \in [DOMAIN next -> Nat]
    /\ pc \in {"idle", "duplicate", "keyref", "member", "insert", "link"}
    /\ probe \in KeySequence
    /\ at \in Nat
    /\ members \in Batch
    /\ member \in Nat
    /\ missing \subseteq 1 .. Len(members)
    /\ position \in Nat \ {0}
    /\ cursor \in Nat \ {0}

NoProbe == [i \in Field |-> Absent]

IndexInit ==
    /\ Init
    /\ classes = [i \in Field |-> "Unknown"]
    /\ heads = [h \in HashCode |-> END]
    /\ next = [p \in {} |-> END]
    /\ pc = "idle"
    /\ probe = NoProbe
    /\ at = END
    /\ members = <<>>
    /\ member = 1
    /\ missing = {}
    /\ position = 1
    /\ cursor = 1

-----------------------------------------------------------------------------
(* push_checked, and then insert() unless the table is a keyref's.         *)
Push(s, duplicate) ==
    /\ sequences' = Append(sequences, s)
    /\ errors' = AddErrors(kind, s, duplicate)
    /\ pc' = IF kind = "keyref" THEN "idle" ELSE "insert"
    /\ UNCHANGED <<kind, unmatched, index, lookup, insertion>>

(* IndexedKeyTable::add_sequence with no duplicate check to make.          *)
AddUnchecked(s) ==
    /\ pc = "idle"
    /\ Len(sequences) < MaxSequences
    /\ ~ IsChecked(kind, s)
    /\ Push(s, FALSE)
    /\ UNCHANGED search

(* contains(s) begins at the head of the chain of its hash; its variables  *)
(* are gone when the call that uses it returns.                            *)
Seek(s) ==
    /\ probe' = s
    /\ at' = heads[HashUnder(classes, s)]

Forget == probe' = NoProbe /\ at' = END

(* IndexedKeyTable::add_sequence with a duplicate check.                   *)
AddChecked(s) ==
    /\ pc = "idle"
    /\ Len(sequences) < MaxSequences
    /\ IsChecked(kind, s)
    /\ Seek(s)
    /\ pc' = "duplicate"
    /\ UNCHANGED <<vars, index, lookup, insertion>>

(* IndexedKeyTable::append: extend first, index the new positions after.   *)
AppendOther(other) ==
    /\ pc = "idle"
    /\ Len(sequences) + Len(other) <= MaxSequences
    /\ sequences' = sequences \o other
    /\ pc' = IF kind = "keyref" THEN "idle" ELSE "insert"
    /\ UNCHANGED <<kind, errors, unmatched, index, search, lookup, insertion>>

(* IndexedKeyTable::check_keyref, for a keyref table with these members.   *)
BeginKeyref(ms) ==
    /\ pc = "idle"
    /\ kind # "keyref"
    /\ pc' = "keyref"
    /\ members' = ms
    /\ member' = 1
    /\ missing' = {}
    /\ UNCHANGED <<vars, index, search, insertion>>

SkipIncomplete ==
    /\ pc = "keyref"
    /\ member <= Len(members)
    /\ ~ IsComplete(members[member])
    /\ member' = member + 1
    /\ UNCHANGED <<vars, index, pc, search, members, missing, insertion>>

LookUpMember ==
    /\ pc = "keyref"
    /\ member <= Len(members)
    /\ IsComplete(members[member])
    /\ Seek(members[member])
    /\ pc' = "member"
    /\ UNCHANGED <<vars, index, lookup, insertion>>

EndKeyref ==
    /\ pc = "keyref"
    /\ member > Len(members)
    /\ unmatched' = missing
    /\ pc' = "idle"
    /\ members' = <<>> /\ member' = 1 /\ missing' = {}
    /\ Forget
    /\ UNCHANGED <<kind, sequences, errors, index, insertion>>

-----------------------------------------------------------------------------
(* contains: its answer goes to the duplicate check or the keyref check.   *)
IsSearching == pc \in {"duplicate", "member"}

Answer(found) ==
    /\ UNCHANGED search
    /\ \/ pc = "duplicate" /\ Push(probe, found)
       \/ /\ pc = "member"
          /\ pc' = "keyref"
          /\ member' = member + 1
          /\ missing' = IF found THEN missing ELSE missing \cup {member}
          /\ UNCHANGED <<vars, index, members, insertion>>

Scan ==
    /\ IsSearching
    /\ ~ Comparable(probe)
    /\ Answer(Holds(sequences, probe))

WalkHit ==
    /\ IsSearching
    /\ Comparable(probe)
    /\ at # END
    /\ SequenceEqual(sequences[at], probe)
    /\ Answer(TRUE)

(* Mutant of WalkOn: the walk stays where it is.                           *)
WalkOnStays ==
    /\ IsSearching
    /\ Comparable(probe)
    /\ at # END
    /\ ~ SequenceEqual(sequences[at], probe)
    /\ UNCHANGED indexVars

WalkOn ==
    /\ IsSearching
    /\ Comparable(probe)
    /\ at # END
    /\ ~ SequenceEqual(sequences[at], probe)
    /\ at' = next[at]
    /\ UNCHANGED <<vars, index, pc, probe, lookup, insertion>>

WalkMiss ==
    /\ IsSearching
    /\ Comparable(probe)
    /\ at = END
    /\ Answer(FALSE)

-----------------------------------------------------------------------------
(* Mutant of Merge: rebuild() keeps the old heads.                         *)
MergeKeepsHeads ==
    /\ pc = "insert"
    /\ position <= Len(sequences)
    /\ pc' = "link"
    /\ classes' = MergedClasses(sequences[position])
    /\ cursor' = IF BecameMixed(sequences[position]) THEN 1 ELSE position
    /\ UNCHANGED <<heads, next, vars, search, lookup, position>>

(* insert: merge the classes of the sequence at `position'; when a field   *)
(* becomes Mixed, rebuild() clears the index and links from the first one. *)
Merge ==
    /\ pc = "insert"
    /\ position <= Len(sequences)
    /\ pc' = "link"
    /\ classes' = MergedClasses(sequences[position])
    /\ IF BecameMixed(sequences[position])
       THEN /\ heads' = [h \in HashCode |-> END]
            /\ next' = [p \in {} |-> END]
            /\ cursor' = 1
       ELSE /\ cursor' = position
            /\ UNCHANGED <<heads, next>>
    /\ UNCHANGED <<vars, search, lookup, position>>

(* Mutant of Link: the earlier head is not chained.                        *)
LinkUnchained ==
    /\ pc = "link"
    /\ heads' = [heads EXCEPT ![HashUnder(classes, sequences[cursor])] = cursor]
    /\ next' = [p \in DOMAIN next \cup {cursor} |->
                   IF p = cursor THEN END ELSE next[p]]
    /\ cursor' = cursor + 1
    /\ IF cursor < position
       THEN UNCHANGED <<pc, position>>
       ELSE pc' = "insert" /\ position' = position + 1
    /\ UNCHANGED <<vars, classes, search, lookup>>

(* link: put the position at the head of the chain of its hash.            *)
Link ==
    /\ pc = "link"
    /\ LET h == HashUnder(classes, sequences[cursor]) IN
       /\ heads' = [heads EXCEPT ![h] = cursor]
       /\ next' = [p \in DOMAIN next \cup {cursor} |->
                      IF p = cursor THEN heads[h] ELSE next[p]]
    /\ cursor' = cursor + 1
    /\ IF cursor < position
       THEN UNCHANGED <<pc, position>>
       ELSE pc' = "insert" /\ position' = position + 1
    /\ UNCHANGED <<vars, classes, search, lookup>>

EndInsert ==
    /\ pc = "insert"
    /\ position > Len(sequences)
    /\ pc' = "idle"
    /\ Forget
    /\ UNCHANGED <<vars, index, lookup, insertion>>

-----------------------------------------------------------------------------
Call ==
    \/ \E s \in KeySequence : AddUnchecked(s) \/ AddChecked(s)
    \/ \E other \in Batch : AppendOther(other)
    \/ \E ms \in Batch : BeginKeyref(ms)

Step ==
    \/ SkipIncomplete \/ LookUpMember \/ EndKeyref
    \/ Scan \/ WalkHit \/ WalkOn \/ WalkMiss
    \/ Merge \/ Link \/ EndInsert

IndexNext == Call \/ Step

IndexSpec == IndexInit /\ [][IndexNext]_indexVars

(* A call that has begun runs to its end: its loops are sequential code.   *)
FairIndexSpec == IndexSpec /\ WF_indexVars(Step)

-----------------------------------------------------------------------------
(* Properties                                                              *)

(* Between two calls the chain of a hash visits every sequence with that   *)
(* hash exactly once, from the last to the first: a lookup that walks it   *)
(* misses no sequence (`next chains the earlier positions').               *)
LinkedUpTo(n) ==
    /\ DOMAIN next = 1 .. n
    /\ \A h \in HashCode :
          /\ heads[h] \in 0 .. n
          /\ heads[h] # END =>
                HashUnder(classes, sequences[heads[h]]) = h
          /\ \A q \in 1 .. n :
                HashUnder(classes, sequences[q]) = h => q <= heads[h]
    /\ \A p \in 1 .. n :
          /\ next[p] \in 0 .. (p - 1)
          /\ next[p] # END =>
                HashUnder(classes, sequences[next[p]])
                    = HashUnder(classes, sequences[p])
          /\ \A q \in 1 .. (p - 1) :
                HashUnder(classes, sequences[q])
                    = HashUnder(classes, sequences[p]) => q <= next[p]

ChainsComplete ==
    pc = "idle" /\ kind # "keyref" => LinkedUpTo(Len(sequences))

(* The index's shortcut is sound: when a probe is comparable, a stored     *)
(* sequence equal to it has its hash, so no equal sequence hides in        *)
(* another chain.  Equality is not transitive and holds across classes (an *)
(* untyped "1" equals the decimal 1, a decimal equals the list of it), so  *)
(* this is what the classes, Mixed and the rebuild are for.                *)
EqualSharesHash ==
    pc = "idle" /\ kind # "keyref" =>
        \A s \in KeySequence, p \in 1 .. Len(sequences) :
            Comparable(s) /\ SequenceEqual(sequences[p], s) =>
                HashUnder(classes, s) = HashUnder(classes, sequences[p])

(* Every call ends: no chain has a cycle, and the rebuild reaches the      *)
(* position it was started for.                                            *)
CallsEnd == (pc # "idle") ~> (pc = "idle")

-----------------------------------------------------------------------------
(* The inductive invariant behind these properties.                        *)

(* How many sequences are linked, and how many have had their classes      *)
(* merged: all of them unless insert() is under way.                       *)
Linked ==
    IF pc = "link" THEN cursor - 1
    ELSE IF pc = "insert" THEN position - 1 ELSE Len(sequences)

Classed ==
    IF pc = "link" THEN position
    ELSE IF pc = "insert" THEN position - 1 ELSE Len(sequences)

PositionsInv ==
    /\ kind = "keyref" => pc = "idle"
    /\ kind # "keyref" =>
          /\ position <= Len(sequences) + 1
          /\ pc = "link" => position <= Len(sequences) /\ cursor <= position
          /\ pc \notin {"link", "insert"} => position = Len(sequences) + 1

(* Every value of a field up to n is of the field's class, or it is Mixed. *)
ClassesCover(n) ==
    \A p \in 1 .. n, i \in Field :
        \/ FieldClassOf(sequences[p], i) = "Unknown"
        \/ classes[i] \in {FieldClassOf(sequences[p], i), "Mixed"}

(* A walk has come down the chain of the probe's hash, and no sequence     *)
(* behind it equals the probe.                                             *)
WalkInv ==
    IsSearching =>
        /\ at \in 0 .. Len(sequences)
        /\ at # END =>
              HashUnder(classes, sequences[at]) = HashUnder(classes, probe)
        /\ Comparable(probe) =>
              \A q \in (at + 1) .. Len(sequences) :
                  ~ SequenceEqual(sequences[q], probe)

(* What the running call is doing is what it was called for.               *)
CallInv ==
    /\ pc = "duplicate" => IsChecked(kind, probe) /\ Len(sequences) < MaxSequences
    /\ pc \in {"keyref", "member"} =>
          /\ member \in 1 .. (Len(members) + 1)
          /\ missing = {m \in 1 .. (member - 1) :
                IsComplete(members[m]) /\ ~ Holds(sequences, members[m])}
    /\ pc = "member" =>
          /\ member <= Len(members)
          /\ probe = members[member]
          /\ IsComplete(probe)

IndexInv ==
    /\ IndexTypeOK
    /\ PositionsInv
    /\ kind # "keyref" => LinkedUpTo(Linked) /\ ClassesCover(Classed)
    /\ WalkInv
    /\ CallInv
=============================================================================
