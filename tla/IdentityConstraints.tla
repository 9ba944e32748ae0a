-------------------------- MODULE IdentityConstraints --------------------------
(***************************************************************************)
(* How the validation runtime evaluates identity constraints while the     *)
(* document streams by (src/src/validation/identity.rs, ConstraintStruct,  *)
(* and the constraint steps of the element and attribute handlers of       *)
(* src/src/validation/runtime.rs).  It composes the axes of AxisMatcher    *)
(* with the node tables of FieldValues; a table is the sequence of its key *)
(* sequences, as KeyTable promises.                                        *)
(*                                                                         *)
(* The handlers are called for the tags of a document, which the module    *)
(* builds as it goes and keeps in `nodes', so that the verdicts can be     *)
(* compared with the definition of §3.11.4 on the finished part of it.     *)
(***************************************************************************)
EXTENDS FieldValues, AxisMatcher, FiniteSets

CONSTANTS
    Schema,      \* the schemas: compiled constraints, declarations
    AttributeName,
    AttributeValue,
    Unassessed,  \* the value of an attribute that a skip wildcard accepts
    NilValue,    \* the untyped empty string
    MaxElements, \* bound: elements of the document
    MaxOpen      \* bound: open elements

(* What an element has for the fields that select it: is_complex_content,  *)
(* the typed value if it has one, and is_nil.                              *)
Content == [complex : BOOLEAN, typed : KeyFieldValue \cup {Absent}, nil : BOOLEAN]

NoContent == [complex |-> FALSE, typed |-> Absent, nil |-> FALSE]

IsExpression(ast) == DOMAIN ast = 1 .. Len(ast) /\ \A p \in DOMAIN ast : IsPath(ast[p])

(* parse_selector: an attribute step is refused.                           *)
IsSelector(ast) == IsExpression(ast) /\ \A p \in DOMAIN ast : ~ EndsInAttribute(ast[p])

(* validate_all_keyref_refers: a keyref refers to a key or a unique.       *)
ASSUME ConstraintAssumption ==
    \A s \in Schema : \A c \in DOMAIN s.compiled :
        /\ s.compiled[c].kind \in IdentityKind
        /\ s.compiled[c].refer \in DOMAIN s.compiled
        /\ s.compiled[c].kind = "keyref" => s.compiled[s.compiled[c].refer].kind # "keyref"
        /\ IsSelector(s.compiled[c].selector)
        /\ \A f \in Field : IsExpression(s.compiled[c].fields[f])

(* A declaration is global (of a root) or not, the content models of the   *)
(* elements `within' accept it, and its type has attributes and contents.  *)
(* What is laxly assessed has one that is not `assessed'.                  *)
ASSUME DeclarationAssumption ==
    \A s \in Schema : \A d \in s.declarations :
        /\ d.name \in Name
        /\ d.constraints \subseteq DOMAIN s.compiled
        /\ d.assessed \in BOOLEAN
        /\ ~ d.assessed => d.constraints = {}
        /\ d.global \in BOOLEAN /\ d.within \subseteq Name
        /\ d.attributes \subseteq AttributeName
        /\ d.contents \subseteq Content

SkippedElement ==
    [name |-> Skipped, constraints |-> {}, assessed |-> FALSE, global |-> FALSE,
     within |-> Name, attributes |-> AttributeName, contents |-> {NoContent}]

ASSUME DocumentAssumption ==
    /\ NilValue \in KeyFieldValue
    /\ AttributeValue \subseteq KeyFieldValue
    /\ Unassessed \notin KeyFieldValue
    /\ MaxElements \in Nat /\ MaxOpen \in Nat

VARIABLES
    schema,             \* what the document is validated against
    nodes,              \* the elements so far, in document order
    finished,           \* the closed ones, in the order of their end tags
    validation_stack,   \* the open ones, and their [validity] so far
    ic_scope_tables,    \* per open element: constraint -> its node table
    active_constraints, \* the ConstraintStructs
    in_attributes,      \* whether attributes may still come
    final_ic_tables,    \* the node tables of the root, once it is closed
    reports             \* the violations reported

vars == <<schema, nodes, finished, validation_stack, ic_scope_tables,
          active_constraints, in_attributes, final_ic_tables, reports>>

ComplexField == "cvc-identity-constraint.4"
MissingKey == "cvc-identity-constraint.4.3"

NoTables == [c \in {} |-> <<>>]

(* CompiledIdentityConstraint: kind, selector, fields, refer.              *)
Compiled == schema.compiled
Constraint == DOMAIN Compiled

Init ==
    /\ schema \in Schema
    /\ nodes = <<>>
    /\ finished = <<>>
    /\ validation_stack = <<>>
    /\ ic_scope_tables = <<>>
    /\ active_constraints = {}
    /\ in_attributes = FALSE
    /\ final_ic_tables = NoTables
    /\ reports = {}

-----------------------------------------------------------------------------
(* ConstraintStruct                                                        *)

(* push_field_collection: fields relative to the matched element.          *)
NewFrame(c) ==
    [fields |-> [f \in Field |-> Activate(Compiled[c].fields[f])],
     values |-> [f \in Field |-> Absent],
     matched |-> [f \in Field |-> FALSE]]

(* new and activate; a selector of `.' matches the scope element.          *)
NewConstraint(c, owner_depth) ==
    LET selector == Activate(Compiled[c].selector) IN
    [constraint |-> c,
     owner_depth |-> owner_depth,
     selector |-> selector,
     collection_stack |-> IF selector.scope_match THEN <<NewFrame(c)>> ELSE <<>>,
     key_table |-> <<>>]

MoveFrames(cs, Move(_, _)) ==
    [i \in 1 .. Len(cs.collection_stack) |->
        [cs.collection_stack[i] EXCEPT
            !.fields = [f \in Field |->
                           Move(Compiled[cs.constraint].fields[f], @[f])]]]

(* Mutant of Started: only the topmost frame follows the tags.             *)
StartedTopmost(cs, name) ==
    LET Move(ast, axis) == MoveToStartElement(ast, axis, name)
        selector == Move(Compiled[cs.constraint].selector, cs.selector)
        moved == MoveFrames(cs, Move)
        frames == [i \in DOMAIN moved |-> IF i = Len(moved) THEN moved[i]
                                          ELSE cs.collection_stack[i]]
    IN  [cs EXCEPT
            !.selector = selector,
            !.collection_stack = IF selector.entered_match
                                 THEN Append(frames, NewFrame(cs.constraint))
                                 ELSE frames]

(* start_element: the open frames move on before a new one is pushed.      *)
Started(cs, name) ==
    LET Move(ast, axis) == MoveToStartElement(ast, axis, name)
        selector == Move(Compiled[cs.constraint].selector, cs.selector)
        frames == MoveFrames(cs, Move)
    IN  [cs EXCEPT
            !.selector = selector,
            !.collection_stack = IF selector.entered_match
                                 THEN Append(frames, NewFrame(cs.constraint))
                                 ELSE frames]

StartedSkipped(cs) ==
    [cs EXCEPT
        !.selector = MoveToSkippedElement(Compiled[cs.constraint].selector, @),
        !.collection_stack = MoveFrames(cs, MoveToSkippedElement)]

(* matching_fields: the topmost frame only.                                *)
MatchingFields(cs, name) ==
    IF cs.collection_stack = <<>> THEN {}
    ELSE {f \in Field :
             MatchesAttribute(Compiled[cs.constraint].fields[f],
                              Top(cs.collection_stack).fields[f], name)}

(* set_field_value and increment_field_match_count, for the fields fs; the *)
(* count matters only as zero or not.                                      *)
BoundFrame(frame, fs, value) ==
    [frame EXCEPT
        !.values = [f \in Field |->
            IF f \in fs /\ value # Unassessed THEN value ELSE @[f]],
        !.matched = [f \in Field |-> f \in fs \/ @[f]]]

Bound(cs, fs, value) ==
    IF fs = {} THEN cs ELSE
    [cs EXCEPT !.collection_stack[Len(cs.collection_stack)] =
        BoundFrame(@, fs, value)]

(* Mutant of BoundTwice: a second attribute replaces the first unnoticed.  *)
BoundTwiceUnnoticed(cs, fs) == FALSE

BoundTwice(cs, fs) == \E f \in fs : Top(cs.collection_stack).matched[f]

(* end_element_with_text.  First the fields of all the frames: a field     *)
(* that exits a match takes the content of the element, once.              *)
FieldValue(content) ==
    IF content.complex THEN Absent
    ELSE IF content.typed # Absent THEN content.typed
    ELSE IF content.nil THEN NilValue
    ELSE Absent

Exits(c, frame, f) == EndElement(Compiled[c].fields[f], frame.fields[f]).exited_match

TakesContent(c, frame, f) ==
    Exits(c, frame, f) /\ ~ frame.matched[f] /\ frame.values[f] = Absent

EndedFrame(c, frame, content) ==
    LET taking == {f \in Field : TakesContent(c, frame, f)} IN
    [fields |-> [f \in Field |->
                    EndElement(Compiled[c].fields[f], frame.fields[f])],
     values |-> [f \in Field |-> IF f \in taking THEN FieldValue(content)
                                                 ELSE frame.values[f]],
     matched |-> [f \in Field |-> f \in taking \/ frame.matched[f]]]

(* Mutant of Ended: the outermost frame is popped.                         *)
EndedOutermost(cs, content) ==
    LET c == cs.constraint
        selector == EndElement(Compiled[c].selector, cs.selector)
        frames == [i \in 1 .. Len(cs.collection_stack) |->
                      EndedFrame(c, cs.collection_stack[i], content)]
        pops == selector.exited_match /\ frames # <<>>
    IN  [cs EXCEPT
            !.selector = selector,
            !.collection_stack = IF pops THEN Tail(frames) ELSE frames,
            !.key_table = IF pops THEN Append(@, Head(frames).values) ELSE @]

(* Then the selector: when it exits a match, the topmost frame is popped   *)
(* and its key sequence added to the table.                                *)
Ended(cs, content) ==
    LET c == cs.constraint
        selector == EndElement(Compiled[c].selector, cs.selector)
        frames == [i \in 1 .. Len(cs.collection_stack) |->
                      EndedFrame(c, cs.collection_stack[i], content)]
        pops == selector.exited_match /\ frames # <<>>
    IN  [cs EXCEPT
            !.selector = selector,
            !.collection_stack = IF pops THEN Pop(frames) ELSE frames,
            !.key_table = IF pops THEN Append(@, Top(frames).values) ELSE @]

(* The errors that the call returns.                                       *)
EndErrors(cs, content) ==
    LET c == cs.constraint
        ended == Ended(cs, content)
        added == Len(ended.key_table) > Len(cs.key_table)
        s == Top(ended.key_table)
        kind == Compiled[c].kind
        Some(Test(_, _)) ==
            \E i \in 1 .. Len(cs.collection_stack), f \in Field :
                Test(cs.collection_stack[i], f)
        Again(frame, f) == Exits(c, frame, f) /\ frame.matched[f]
        Complex(frame, f) == TakesContent(c, frame, f) /\ content.complex
    IN  {e \in {MissingField} : Some(Again)}
            \cup {e \in {ComplexField} : Some(Complex)}
            \cup (IF added
                  THEN AddErrors(kind, s, IsChecked(kind, s)
                                          /\ Holds(cs.key_table, s))
                  ELSE {})

-----------------------------------------------------------------------------
(* The runtime                                                             *)
Report(code, cs) ==
    [code |-> code, constraint |-> cs.constraint,
     owner |-> validation_stack[cs.owner_depth].node]

(* Mutant of Invalidate: what is not assessed turns invalid, too.          *)
InvalidateAny(entry) == [entry EXCEPT !.validity = "invalid"]

(* invalidate: an element that is not assessed stays notKnown.             *)
Invalidate(entry) ==
    [entry EXCEPT !.validity = IF @ = "valid" THEN "invalid" ELSE @]

(* invalidate_open_ic_owner, for the owners of all of a handler's errors.  *)
InvalidateAt(stack, depths) ==
    [d \in 1 .. Len(stack) |->
        IF d \in depths THEN Invalidate(stack[d]) ELSE stack[d]]

Innermost == nodes[Top(validation_stack).node]

InSkipped == validation_stack # <<>> /\ Innermost.declaration.name = Skipped

(* push_element; only an element that may have element content, or a       *)
(* skipped one, has children.                                              *)
Push(d) ==
    LET node == Len(nodes) + 1
        validity == IF d.assessed THEN "valid" ELSE "notKnown"
    IN  /\ node <= MaxElements
        /\ Len(validation_stack) < MaxOpen
        /\ IF validation_stack = <<>>
           THEN d.global /\ nodes = <<>>
           ELSE InSkipped \/ /\ Innermost.declaration.name \in d.within
                             /\ \E content \in Innermost.declaration.contents :
                                   content.complex
        /\ nodes' = Append(nodes,
              [declaration |-> d,
               path |-> Append([k \in 1 .. Len(validation_stack) |->
                                   validation_stack[k].node], node),
               attributes |-> [a \in {} |-> Absent], content |-> NoContent,
               validity |-> validity])
        /\ validation_stack' =
              Append(validation_stack, [node |-> node, validity |-> validity])
        /\ ic_scope_tables' = Append(ic_scope_tables, NoTables)
        /\ in_attributes' = TRUE
        /\ UNCHANGED <<schema, finished, final_ic_tables, reports>>

(* push_element and advance_constraints_start_element                      *)
StartElement(d) ==
    /\ ~ InSkipped
    /\ Push(d)
    /\ active_constraints' =
          {Started(cs, d.name) : cs \in active_constraints}
              \cup {NewConstraint(c, Len(validation_stack) + 1) :
                       c \in d.constraints}

(* push_skipped_element, for what a skip wildcard accepts and all below.   *)
StartSkipped ==
    /\ Push(SkippedElement)
    /\ active_constraints' = {StartedSkipped(cs) : cs \in active_constraints}

(* post_process_attribute, count_skipped_attribute_ic_matches, and the     *)
(* same for defaults when the attributes end.                              *)
Attribute(name, value) ==
    /\ in_attributes
    /\ InSkipped => value = Unassessed
    /\ LET node == Top(validation_stack).node
           twice == {cs \in active_constraints :
                        BoundTwice(cs, MatchingFields(cs, name))}
       IN
       /\ name \in Innermost.declaration.attributes
       /\ name \notin DOMAIN Innermost.attributes
       /\ nodes' = [nodes EXCEPT ![node].attributes =
              [a \in DOMAIN @ \cup {name} |-> IF a = name THEN value ELSE @[a]]]
       /\ active_constraints' =
              {Bound(cs, MatchingFields(cs, name), value) :
                  cs \in active_constraints}
       /\ reports' = reports \cup {Report(MissingField, cs) : cs \in twice}
       /\ validation_stack' =
              InvalidateAt(validation_stack, {cs.owner_depth : cs \in twice})
    /\ UNCHANGED <<schema, finished, ic_scope_tables, in_attributes,
                   final_ic_tables>>

-----------------------------------------------------------------------------
(* process_constraints_end_element                                         *)

Appended(tables, c, table) ==
    [k \in DOMAIN tables \cup {c} |->
        IF k # c THEN tables[k]
        ELSE IF k \in DOMAIN tables THEN tables[k] \o table ELSE table]

(* The scope map of the closing element: what its children propagated, and *)
(* the tables of the constraints that deactivate with it.                  *)
ScopeTables(closing) ==
    LET own == {cs \in closing : Compiled[cs.constraint].kind # "keyref"}
        TableOf(c) == (CHOOSE cs \in own : cs.constraint = c).key_table
        below == Top(ic_scope_tables)
        mine == {cs.constraint : cs \in own}
    IN  [c \in DOMAIN below \cup mine |->
            IF c \notin mine THEN below[c]
            ELSE Appended(below, c, TableOf(c))[c]]

(* The keyrefs with a member that has no entry in the referenced table; no *)
(* table at all is an empty one.                                           *)
FailingKeyrefs(closing, tables) ==
    {cs \in closing :
        /\ Compiled[cs.constraint].kind = "keyref"
        /\ LET refer == Compiled[cs.constraint].refer
               target == IF refer \in DOMAIN tables THEN tables[refer] ELSE <<>>
           IN  Unmatched(target, cs.key_table) # {}}

(* Mutant of Propagated: a child's table replaces its siblings'.           *)
PropagatedOver(stack, tables) ==
    IF stack = <<>> THEN stack
    ELSE [stack EXCEPT ![Len(stack)] =
             [c \in DOMAIN @ \cup DOMAIN tables |->
                 IF c \in DOMAIN tables THEN tables[c] ELSE @[c]]]

(* finish_identity_constraints: the scope map goes to the parent.          *)
Propagated(stack, tables) ==
    IF stack = <<>> THEN stack
    ELSE [stack EXCEPT ![Len(stack)] =
             [c \in DOMAIN @ \cup DOMAIN tables |->
                 IF c \in DOMAIN tables THEN Appended(@, c, tables[c])[c]
                                        ELSE @[c]]]

(* finish_top_element: identity constraints, then finalize_element, which  *)
(* makes an assessed parent of an invalid element invalid.                 *)
EndTag(content) ==
    /\ validation_stack # <<>>
    /\ LET top == Top(validation_stack)
           depth == Len(validation_stack)
           ended == {Ended(cs, content) : cs \in active_constraints}
           closing == {cs \in ended : ~ cs.selector.active}
           tables == ScopeTables(closing)
           failing == FailingKeyrefs(closing, tables)
           errors == UNION {{<<e, cs>> : e \in EndErrors(cs, content)} :
                                cs \in active_constraints}
           owners == {found[2].owner_depth : found \in errors}
           invalid == depth \in owners \/ failing # {}
           closed == IF invalid THEN Invalidate(top) ELSE top
           open == InvalidateAt(Pop(validation_stack),
                      owners \cup (IF closed.validity = "invalid"
                                   THEN {depth - 1} ELSE {}))
       IN
       /\ content \in Innermost.declaration.contents
       /\ Len(nodes) > top.node /\ ~ InSkipped => content.complex
       /\ active_constraints' = ended \ closing
       /\ ic_scope_tables' = Propagated(Pop(ic_scope_tables), tables)
       /\ final_ic_tables' = IF depth = 1 THEN tables ELSE final_ic_tables
       /\ reports' = reports
              \cup {Report(found[1], found[2]) : found \in errors}
              \cup {Report(MissingKey, cs) : cs \in failing}
       /\ validation_stack' = open
       /\ nodes' = [nodes EXCEPT ![top.node].content = content,
                                 ![top.node].validity = closed.validity]
       /\ finished' = Append(finished, top.node)
    /\ in_attributes' = FALSE
    /\ UNCHANGED schema

Next ==
    \/ \E d \in schema.declarations : StartElement(d)
    \/ StartSkipped
    \/ \E name \in AttributeName, value \in AttributeValue \cup {Unassessed} :
          Attribute(name, value)
    \/ \E content \in Content : EndTag(content)

Spec == Init /\ [][Next]_vars

-----------------------------------------------------------------------------
(* Identity-constraint Satisfied (§3.11.4) on the elements that are closed.*)

(* The element n is e or below it, at the end of this trail.               *)
Below(e, n) ==
    LET d == Len(nodes[e].path) IN
    Len(nodes[n].path) >= d /\ nodes[n].path[d] = e

Trail(e, n) ==
    LET d == Len(nodes[e].path) IN
    [k \in 1 .. Len(nodes[n].path) - d |-> nodes[nodes[n].path[d + k]].declaration.name]

Selects(ast, e, n) ==
    /\ Below(e, n)
    /\ Visible(Trail(e, n))
    /\ \E p \in DOMAIN ast : SelectsElement(ast[p], Trail(e, n))

(* The target node set of c at e.                                          *)
Targets(c, e) == {n \in DOMAIN nodes : Selects(Compiled[c].selector, e, n)}

(* The node set of the field f at n: elements <<m>>, attributes <<m, a>>.  *)
FieldNodes(c, f, n) ==
    LET ast == Compiled[c].fields[f] IN
    {<<m>> : m \in {k \in DOMAIN nodes : Selects(ast, n, k)}}
        \cup {x \in (DOMAIN nodes) \X AttributeName :
                 LET m == x[1]
                     a == x[2]
                 IN  /\ Below(n, m) /\ Visible(Trail(n, m))
                     /\ a \in DOMAIN nodes[m].attributes
                     /\ \E p \in DOMAIN ast :
                           SelectsAttribute(ast[p], Trail(n, m), a)}

ValueAt(x) ==
    IF Len(x) = 1 THEN FieldValue(nodes[x[1]].content)
    ELSE IF nodes[x[1]].attributes[x[2]] = Unassessed THEN Absent
    ELSE nodes[x[1]].attributes[x[2]]

KeySequenceAt(c, n) ==
    [f \in Field |-> LET xs == FieldNodes(c, f, n) IN
                     IF xs = {} THEN Absent ELSE ValueAt(CHOOSE x \in xs : TRUE)]

SelectsMany(c, n) ==
    \E f \in Field : \E x, y \in FieldNodes(c, f, n) : x # y

SelectsComplex(c, n) ==
    \E f \in Field : \E x \in FieldNodes(c, f, n) :
        Len(x) = 1 /\ nodes[x[1]].content.complex

(* The node table of c at e: its targets there and in the elements below   *)
(* that carry c, as far as they are closed.                                *)
Closed == {finished[i] : i \in 1 .. Len(finished)}

Carriers(c, e) == {m \in Closed : Below(e, m) /\ c \in nodes[m].declaration.constraints}

NodeTable(c, e) == UNION {{KeySequenceAt(c, n) : n \in Targets(c, m)} : m \in Carriers(c, e)}

Violations(c, e) ==
    LET targets == Targets(c, e)
        kind == Compiled[c].kind
    IN  {code \in {MissingField, DuplicateKey, ComplexField, MissingKey} :
            \/ /\ code = MissingField
               /\ kind = "key"
               /\ \E n \in targets : ~ IsComplete(KeySequenceAt(c, n))
            \/ /\ code = DuplicateKey
               /\ \E n, m \in targets :
                     /\ n # m
                     /\ IsChecked(kind, KeySequenceAt(c, n))
                     /\ SequenceEqual(KeySequenceAt(c, n), KeySequenceAt(c, m))
            \/ code = ComplexField /\ \E n \in targets : SelectsComplex(c, n)
            \/ /\ code = MissingKey
               /\ kind = "keyref"
               /\ \E n \in targets :
                     LET s == KeySequenceAt(c, n) IN
                     /\ IsComplete(s)
                     /\ ~ \E t \in NodeTable(Compiled[c].refer, e) :
                              SequenceEqual(t, s)}

(* A field of one target selects an attribute in another target inside it: *)
(* the runtime gives the attribute to the inner one only (NestedTargets).  *)
Shadowed(c, e) ==
    \E n, m \in Targets(c, e) :
        /\ n # m /\ Below(n, m)
        /\ \E f \in Field : \E x \in FieldNodes(c, f, n) :
              Len(x) = 2 /\ Below(m, x[1])

Many(c, e) == \E n \in Targets(c, e) : SelectsMany(c, n)

(* What those that carry c below e find is what the definition says.       *)
Plain(c, e) == \A m \in Carriers(c, e) : ~ Shadowed(c, m) /\ ~ Many(c, m)

-----------------------------------------------------------------------------
(* Properties                                                              *)

TypeOK ==
    /\ Len(validation_stack) = Len(ic_scope_tables)
    /\ \A d \in 1 .. Len(validation_stack) :
          /\ validation_stack[d].node \in DOMAIN nodes
          /\ validation_stack[d].validity \in {"valid", "invalid", "notKnown"}
          /\ \A c \in DOMAIN ic_scope_tables[d] :
                c \in Constraint /\ ic_scope_tables[d][c] \in Seq(KeySequence)
    /\ \A cs \in active_constraints :
          /\ cs.constraint \in Constraint
          /\ cs.owner_depth \in 1 .. Len(validation_stack)
          /\ cs.key_table \in Seq(KeySequence)
          /\ \A i \in 1 .. Len(cs.collection_stack) :
                cs.collection_stack[i].values \in KeySequence

(* The constraints being evaluated are those of the open elements, and     *)
(* their frames are, from the outermost, those of the open targets: each   *)
(* frame's fields have followed the tags since its target started, so that *)
(* the frame popped at an end tag belongs to the element that ends.        *)
FramesFollowTargets ==
    /\ TypeOK
    /\ {<<cs.constraint, cs.owner_depth>> : cs \in active_constraints}
          = UNION {{<<c, d>> :
                        c \in nodes[validation_stack[d].node].declaration.constraints} :
                      d \in 1 .. Len(validation_stack)}
    /\ \A cs \in active_constraints :
          LET open(d) == validation_stack[d].node
              owner == open(cs.owner_depth)
              targets == {d \in cs.owner_depth .. Len(validation_stack) :
                             open(d) \in Targets(cs.constraint, owner)}
              Rank(d) == Cardinality({k \in targets : k <= d})
          IN  /\ Len(cs.collection_stack) = Cardinality(targets)
              /\ \A d \in targets, f \in Field :
                    LET axis == cs.collection_stack[Rank(d)].fields[f] IN
                    axis.active
                    /\ axis.current_depth = Len(validation_stack) - d

(* While a constraint is evaluated, its table has the key sequence of each *)
(* closed target, in the order of their end tags, whatever else was        *)
(* matched in between.                                                     *)
TablesFollowDocument ==
    \A cs \in active_constraints :
        LET c == cs.constraint
            owner == validation_stack[cs.owner_depth].node
            ended == {i \in 1 .. Len(finished) : finished[i] \in Targets(c, owner)}
            Row(i) == Cardinality({k \in ended : k <= i})
        IN  /\ Len(cs.key_table) = Cardinality(ended)
            /\ ~ Shadowed(c, owner) =>
                  \A i \in ended :
                      SelectsMany(c, finished[i])
                          \/ cs.key_table[Row(i)] = KeySequenceAt(c, finished[i])

(* Once the element that carries a constraint is closed, the violations    *)
(* reported for it there are those of the definition: no more, no fewer,   *)
(* and for no other element.                                               *)
Reported(c, e) ==
    {r.code : r \in {q \in reports : q.constraint = c /\ q.owner = e}}

VerdictsExact ==
    \A e \in Closed : \A c \in nodes[e].declaration.constraints :
        ~ Shadowed(c, e) =>
            /\ Many(c, e) => MissingField \in Reported(c, e)
            /\ /\ ~ Many(c, e)
               /\ Compiled[c].kind = "keyref" => Plain(Compiled[c].refer, e)
               => Reported(c, e) = Violations(c, e)

(* A keyref finds the keys of the elements inside its own scope and no     *)
(* others: the scope maps from an open element down have the entries of    *)
(* the closed elements below it, and the root's those of the document.     *)
EntriesOf(tables, c) ==
    IF c \in DOMAIN tables THEN {tables[c][i] : i \in 1 .. Len(tables[c])} ELSE {}

ScopesExact ==
    \A c \in Constraint : Compiled[c].kind # "keyref" =>
        /\ \A d \in 1 .. Len(validation_stack) :
              LET e == validation_stack[d].node IN
              Plain(c, e) =>
                  UNION {EntriesOf(ic_scope_tables[k], c) :
                            k \in d .. Len(validation_stack)} = NodeTable(c, e)
        /\ nodes # <<>> /\ validation_stack = <<>> /\ Plain(c, 1) =>
              EntriesOf(final_ic_tables, c) = NodeTable(c, 1)

(* A closed element is invalid exactly when it, or an element below it     *)
(* that is reached through assessed elements, violates a constraint that   *)
(* it carries, wherever in the document the violation was noticed.         *)
OwnersInvalid ==
    \A e \in Closed :
        nodes[e].validity = "invalid" <=>
            \E r \in reports :
                /\ Below(e, r.owner)
                /\ \A d \in Len(nodes[e].path) .. Len(nodes[r.owner].path) :
                      nodes[nodes[r.owner].path[d]].declaration.assessed

(* The verdicts also hold for selector matches that overlap: frames are    *)
(* kept on a stack "to handle overlapping (nested) selector matches        *)
(* correctly - e.g. `.//item` matching both an outer and inner `<item>`"   *)
(* (identity.rs, FieldCollectionFrame).                                    *)
NestedTargets ==
    \A e \in Closed : \A c \in nodes[e].declaration.constraints :
        ~ Many(c, e) => Reported(c, e) = Violations(c, e)
=============================================================================
