--------------------------- MODULE SiblingPositions ---------------------------
(* The path of the current element (validation/runtime.rs): each open       *)
(* element is counted among its same-named siblings by a counter per depth, *)
(* which finds a name by a scan, then by a table of slots, then by a hash   *)
(* of the names that lost their slot; the path handed to the diagnostics    *)
(* is built when one is first made and shared by those that follow.         *)
EXTENDS Integers, Sequences, FiniteSets, SequencesExt

CONSTANTS
    Name,               \* expanded names
    Slot,
    SlotOf,             \* slot_of: the slot a name hashes to
    Linear,             \* SIBLING_LINEAR
    CollidedIndex       \* SIBLING_COLLIDED_INDEX

ASSUME SlotOfAssumption == SlotOf \in [Name -> Slot]
ASSUME LinearAssumption == Linear \in Nat /\ CollidedIndex \in Nat

VARIABLES
    path_steps,         \* the open elements, each with its position
    sibling_counts,     \* the counters, by depth
    path_nodes,         \* the prefix of the path that is built
    opened              \* history: all elements, by parent and name

positionVars == <<path_steps, sibling_counts, path_nodes, opened>>

NoCounter ==
    [entries |-> <<>>, last |-> 1, table_active |-> FALSE,
     slots |-> [s \in Slot |-> 0], collided |-> <<>>, indexed |-> {}]

EntryOf(counter, name) == {i \in 1..Len(counter.entries) : counter.entries[i].name = name}

(* The entry of a name; 0 if it has none.                                  *)
Find(counter, name) ==
    LET Among(found) == IF found = {} THEN 0 ELSE CHOOSE i \in found : \A j \in found : i <= j
        first == counter.slots[SlotOf[name]]
        collided == IF Len(counter.collided) > CollidedIndex THEN counter.indexed
                    ELSE ToSet(counter.collided)
    IN  IF ~counter.table_active THEN Among(EntryOf(counter, name))
        ELSE IF first = 0 THEN 0
        ELSE IF counter.entries[first].name = name THEN first
        ELSE Among(EntryOf(counter, name) \cap collided)

(* Mutant of index_entry: the index starts with the entry that made it     *)
(* necessary.                                                              *)
IndexedFromHere(counter, i) ==
    LET slot == SlotOf[counter.entries[i].name]
        collided == Append(counter.collided, i)
    IN  IF counter.slots[slot] = 0 THEN [counter EXCEPT !.slots[slot] = i]
        ELSE [counter EXCEPT !.collided = collided,
                !.indexed = IF Len(collided) <= CollidedIndex THEN @ ELSE @ \cup {i}]

index_entry(counter, i) ==
    LET slot == SlotOf[counter.entries[i].name]
        collided == Append(counter.collided, i)
    IN  IF counter.slots[slot] = 0 THEN [counter EXCEPT !.slots[slot] = i]
        ELSE [counter EXCEPT !.collided = collided,
                !.indexed = IF Len(collided) <= CollidedIndex THEN @
                            ELSE IF @ = {} THEN ToSet(collided) ELSE @ \cup {i}]

Inserted(counter, name) ==
    LET grown == [counter EXCEPT !.entries = Append(@, [name |-> name, count |-> 1])]
        n == Len(grown.entries)
        filed[i \in 0..n] ==
            IF i = 0 THEN [grown EXCEPT !.table_active = TRUE] ELSE index_entry(filed[i - 1], i)
    IN  IF grown.table_active THEN index_entry(grown, n)
        ELSE IF n > Linear THEN filed[n] ELSE grown

(* SiblingCounter::next: the counter after one more sibling of this name,  *)
(* whose entry is its last.                                                *)
Counted(counter, name) ==
    LET repeats == /\ counter.entries # <<>>
                   /\ counter.entries[counter.last].name = name
        found == IF repeats THEN counter.last ELSE Find(counter, name)
        after == IF found # 0 THEN [counter EXCEPT !.entries[found].count = @ + 1]
                 ELSE Inserted(counter, name)
    IN  [after EXCEPT !.last = IF found # 0 THEN found ELSE Len(after.entries)]

Position(counter) == counter.entries[counter.last].count

(* Only the slots of the entries are emptied: the table is kept.           *)
Cleared(counter) ==
    IF counter.entries = <<>> THEN counter
    ELSE LET taken == {SlotOf[counter.entries[i].name] : i \in 1..Len(counter.entries)}
         IN  IF counter.table_active
             THEN [NoCounter EXCEPT
                    !.slots = [s \in Slot |-> IF s \in taken THEN 0 ELSE counter.slots[s]]]
             ELSE [counter EXCEPT !.entries = <<>>, !.last = 1]

-----------------------------------------------------------------------------

PositionInit ==
    path_steps = <<>> /\ sibling_counts = <<>> /\ path_nodes = <<>> /\ opened = <<>>

Parent == IF path_steps = <<>> THEN 0 ELSE path_steps[Len(path_steps)].elem

(* push_element                                                            *)
OpenElement(name) ==
    LET depth == Len(path_steps) + 1
        counters == IF Len(sibling_counts) < depth THEN Append(sibling_counts, NoCounter)
                    ELSE sibling_counts
        counter == Counted(counters[depth], name)
    IN  /\ sibling_counts' = [counters EXCEPT ![depth] = counter]
        /\ path_steps' = Append(path_steps,
             [name |-> name, position |-> Position(counter), elem |-> Len(opened) + 1])
        /\ opened' = Append(opened, [name |-> name, parent |-> Parent])
        /\ UNCHANGED path_nodes

(* pop_element_path: the counts of the children are forgotten.             *)
CloseElement ==
    LET depth == Len(path_steps)
    IN  /\ path_steps # <<>>
        /\ path_steps' = SubSeq(path_steps, 1, depth - 1)
        /\ sibling_counts' =
            IF Len(sibling_counts) > depth
            THEN [sibling_counts EXCEPT ![depth + 1] = Cleared(@)] ELSE sibling_counts
        /\ path_nodes' = IF Len(path_nodes) < depth THEN path_nodes
                         ELSE SubSeq(path_nodes, 1, depth - 1)
        /\ UNCHANGED opened

Step(i) == [name |-> path_steps[i].name, position |-> path_steps[i].position]

(* A diagnostic inside an element takes its path (current_element_path).   *)
Report ==
    LET built == Len(path_nodes)
    IN  /\ path_steps # <<>>
        /\ path_nodes' = IF built >= Len(path_steps) THEN path_nodes
                         ELSE path_nodes \o [i \in 1..(Len(path_steps) - built) |-> Step(built + i)]
        /\ UNCHANGED <<path_steps, sibling_counts, opened>>

PositionNext ==
    \/ \E name \in Name : OpenElement(name)
    \/ CloseElement
    \/ Report

PositionSpec == PositionInit /\ [][PositionNext]_positionVars

-----------------------------------------------------------------------------

(* The path of element e: at each step, the count of the siblings of that  *)
(* name up to it.                                                          *)
TruePath(e) ==
    LET step == [x \in 1..Len(opened) |->
            [name |-> opened[x].name,
             position |-> Cardinality({y \in 1..x : opened[y] = opened[x]})]]
        path[x \in 0..Len(opened)] ==
            IF x = 0 THEN <<>> ELSE Append(path[opened[x].parent], step[x])
    IN  path[e]

(* Property.  The path a diagnostic carries leads to the element it is     *)
(* about: every step has the element's name and its position among the     *)
(* siblings of that name, however many names there are at that depth,      *)
(* however their slots collide, and whatever parents the counter served    *)
(* before; what was built for earlier diagnostics is still right ("the     *)
(* elements opened so far under one parent, counted per expanded name").   *)
PositionsExact ==
    /\ [i \in 1..Len(path_steps) |-> Step(i)] = TruePath(Parent)
    /\ IsPrefix(path_nodes, TruePath(Parent))
=============================================================================
