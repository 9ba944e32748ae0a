----------------------------- MODULE IdReferences -----------------------------
(* The ID/IDREF table of a validation run (validation/runtime.rs): the first *)
(* owner of each ID value and the IDREFs seen so far, kept over all the      *)
(* validation roots of the run; the verdict on a root is decided when it     *)
(* closes, the errors on unresolved IDREFs are reported at the end.          *)
EXTENDS Integers, Sequences, FiniteSets, SequencesExt

CONSTANTS
    IdValue,
    MaxMembers          \* bound: the members of a list value

ASSUME MaxMembersAssumption == MaxMembers \in Nat

VARIABLES
    xsd11,              \* the version of the schema set
    validation_stack,
    id_values,          \* the owner of each ID value
    pending_idrefs,
    root_id_conflict,
    root_idref_start,   \* the pending IDREFs before the current root
    items,              \* history: the ID and IDREF values, in order
    tree,               \* history: the elements, by parent
    verdicts,           \* history: the roots that have closed
    errors              \* the errors reported

idVars == <<xsd11, validation_stack, id_values, pending_idrefs, root_id_conflict,
            root_idref_start, items, tree, verdicts, errors>>

(* invalidate: only a valid verdict turns invalid.                         *)
invalidate(validity) == IF validity = "valid" THEN "invalid" ELSE validity

Running == ~errors.ended
Current == IF validation_stack = <<>> THEN 0 ELSE Last(validation_stack).element_serial
Serial == Len(tree)

(* The state of the table.                                                 *)
Table == [ids |-> id_values, idrefs |-> pending_idrefs, conflict |-> root_id_conflict,
          duplicates |-> errors.duplicates]

register_id_value(table, value, owner) ==
    IF value \notin DOMAIN table.ids
    THEN [table EXCEPT !.ids = [v \in DOMAIN @ \cup {value} |-> IF v = value THEN owner ELSE @[v]]]
    ELSE IF xsd11 /\ table.ids[value] = owner THEN table
    ELSE [table EXCEPT !.conflict = TRUE, !.duplicates = @ + 1]

(* A typed value with these members, an atomic one being a list of one.    *)
collect_id_idref(table, members, owner) ==
    LET Collect(t, m) ==
            IF m.kind = "ID" THEN register_id_value(t, m.value, owner)
            ELSE [t EXCEPT !.idrefs = Append(@, m.value)]
        after[n \in 0..Len(members)] ==
            IF n = 0 THEN table ELSE Collect(after[n - 1], members[n])
    IN  after[Len(members)]

Record(members, e, where) ==
    items' = items \o [i \in 1..Len(members) |->
                [kind |-> members[i].kind, value |-> members[i].value, elem |-> e,
                 where |-> where, root |-> Len(verdicts) + 1]]

Store(table) ==
    /\ id_values' = table.ids /\ pending_idrefs' = table.idrefs
    /\ errors' = [errors EXCEPT !.duplicates = table.duplicates]

-----------------------------------------------------------------------------

IdInit ==
    /\ xsd11 \in BOOLEAN
    /\ validation_stack = <<>> /\ id_values = [v \in {} |-> 0] /\ pending_idrefs = <<>>
    /\ root_id_conflict = FALSE /\ root_idref_start = 0
    /\ items = <<>> /\ tree = <<>> /\ verdicts = <<>>
    /\ errors = [duplicates |-> 0, unresolved |-> {}, ended |-> FALSE]

(* push_element: a strictly assessed element, or one that is not.          *)
PushElement(strict) ==
    /\ Running
    /\ validation_stack' = Append(validation_stack,
         [element_serial |-> Serial + 1, attributes |-> TRUE,
          validity |-> IF strict THEN "valid" ELSE "notKnown"])
    /\ tree' = Append(tree, Current)
    /\ UNCHANGED <<xsd11, id_values, pending_idrefs, root_id_conflict, root_idref_start, items,
                   verdicts, errors>>

(* post_process_attribute, of an attribute that is there or a default.     *)
AttributeValue(members) ==
    /\ validation_stack # <<>> /\ Last(validation_stack).attributes
    /\ LET table == collect_id_idref(Table, members, Current)
       IN  Store(table) /\ root_id_conflict' = table.conflict
    /\ Record(members, Current, "attribute")
    /\ UNCHANGED <<xsd11, validation_stack, root_idref_start, tree, verdicts>>

(* validate_end_of_attributes                                              *)
EndAttributes ==
    /\ validation_stack # <<>> /\ Last(validation_stack).attributes
    /\ validation_stack' = [validation_stack EXCEPT ![Len(validation_stack)].attributes = FALSE]
    /\ UNCHANGED <<xsd11, id_values, pending_idrefs, root_id_conflict, root_idref_start, items,
                   tree, verdicts, errors>>

(* Mutant of ContentOwner: the text binds the element that holds it.       *)
OwnContent(popped, rest) == popped.element_serial

(* finish_id_bindings: the content of an element binds its parent; that of *)
(* a root, the root.                                                       *)
ContentOwner(popped, rest) ==
    IF rest = <<>> THEN popped.element_serial ELSE Last(rest).element_serial

(* Mutant of Dangling: all IDREFs so far are looked at again.              *)
DanglingSoFar(table) == \E i \in 1..Len(table.idrefs) : table.idrefs[i] \notin DOMAIN table.ids

(* An IDREF of the closing root has no ID so far.                          *)
Dangling(table) ==
    \E i \in (root_idref_start + 1)..Len(table.idrefs) : table.idrefs[i] \notin DOMAIN table.ids

(* The end of an element whose content has these ID or IDREF values; when  *)
(* a root ends, finish_validation_root_ids decides on it.                  *)
PopElement(members) ==
    LET popped == Last(validation_stack)
        rest == Front(validation_stack)
        table == collect_id_idref(Table, members, ContentOwner(popped, rest))
        validity == IF table.conflict \/ Dangling(table) THEN invalidate(popped.validity)
                    ELSE popped.validity
        closes == rest = <<>>
    IN  /\ validation_stack # <<>> /\ ~popped.attributes
        /\ validation_stack' = rest
        /\ Store(table)
        /\ Record(members, popped.element_serial, "content")
        /\ root_id_conflict' = (table.conflict /\ ~closes)
        /\ root_idref_start' = IF closes THEN Len(table.idrefs) ELSE root_idref_start
        /\ verdicts' = IF closes
                       THEN Append(verdicts, [strict |-> popped.validity # "notKnown",
                                              validity |-> validity])
                       ELSE verdicts
        /\ UNCHANGED <<xsd11, tree>>

(* end_validation                                                          *)
EndValidation ==
    /\ Running /\ validation_stack = <<>> /\ tree # <<>>
    /\ errors' = [errors EXCEPT !.ended = TRUE, !.unresolved =
                    {i \in 1..Len(pending_idrefs) : pending_idrefs[i] \notin DOMAIN id_values}]
    /\ UNCHANGED <<xsd11, validation_stack, id_values, pending_idrefs, root_id_conflict,
                   root_idref_start, items, tree, verdicts>>

(* An attribute has an ID or an IDREF, or a list of them.                  *)
Member == [kind : {"ID", "IDREF"}, value : IdValue]
Members == UNION {[1..n -> Member] : n \in 1..MaxMembers}

IdNext ==
    \/ \E strict \in BOOLEAN : PushElement(strict)
    \/ \E members \in Members : AttributeValue(members)
    \/ EndAttributes
    \/ \E members \in Members \cup {<<>>} : PopElement(members)
    \/ EndValidation

IdSpec == IdInit /\ [][IdNext]_idVars

-----------------------------------------------------------------------------

(* The element the ID of item i identifies (3.17.5.2).                     *)
Identified(i) ==
    IF items[i].where = "attribute" \/ tree[items[i].elem] = 0 THEN items[i].elem
    ELSE tree[items[i].elem]

IsId(i) == items[i].kind = "ID"
Clash(i, j) ==
    /\ i # j /\ IsId(i) /\ IsId(j) /\ items[i].value = items[j].value
    /\ xsd11 => Identified(i) # Identified(j)
Resolves(i, j) == IsId(j) /\ ~IsId(i) /\ items[i].value = items[j].value

(* Property.  The verdict on each root is the one the bindings seen so far *)
(* in the run give (3.3.4.5): a strictly assessed root is invalid exactly  *)
(* if one of its own IDREFs has no ID or one of its own IDs identifies     *)
(* two elements (in 1.0: occurs twice), wherever in the root they are and  *)
(* whatever the roots before it left in the table; and the errors at the   *)
(* end name exactly the IDREFs that no ID of the run resolves.             *)
IdVerdictsExact ==
    LET Of(r) == {i \in 1..Len(items) : items[i].root = r}
        UpTo(r) == {i \in 1..Len(items) : items[i].root <= r}
        Wrong(r) == \E i \in Of(r) :
                        \/ ~IsId(i) /\ ~\E j \in UpTo(r) : Resolves(i, j)
                        \/ \E j \in UpTo(r) : Clash(i, j)
        Nth(i) == Cardinality({j \in 1..i : ~IsId(j)})
        Unresolved(i) == ~IsId(i) /\ ~\E j \in 1..Len(items) : Resolves(i, j)
    IN  /\ \A r \in 1..Len(verdicts) :
            verdicts[r].validity = IF ~verdicts[r].strict THEN "notKnown"
                                   ELSE IF Wrong(r) THEN "invalid" ELSE "valid"
        /\ errors.duplicates > 0 <=> \E i, j \in 1..Len(items) : Clash(i, j)
        /\ ~Running =>
            errors.unresolved = {Nth(i) : i \in {k \in 1..Len(items) : Unresolved(k)}}
=============================================================================
