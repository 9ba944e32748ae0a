---------------------------- MODULE DocumentBuffer ----------------------------
(* The document buffer under construction (document/builder.rs and the      *)
(* lookups of document/buffer.rs): a flat array of nodes in document order,  *)
(* linked by parent and next_sibling, with the id and idrefs indexes that   *)
(* fn:id and fn:idref read.                                                 *)
(*                                                                         *)
(* Node references count from 1 (the document node) and NULL is 0; the code *)
(* counts from 0 with u32::MAX.  A string is the list of its whitespace-    *)
(* delimited tokens, so that it is an id key when it has exactly one and    *)
(* answers to IDREFs by each.  Namespaces are modelled in NamespaceScopes.  *)
EXTENDS Integers, SequencesExt, FiniteSets

CONSTANTS
    Token,          \* NCNames, the keys of both indexes
    Value,          \* attribute values, and pieces of text that are not empty
    AttrName,       \* attribute names
    XmlId,          \* the one named xml:id
    SchemaType,     \* the types a binding may carry
    IdType,         \* ... whose typed value is one xs:ID
    IdrefType,      \* ... whose typed value has an xs:IDREF
    Unbound         \* binding index 0

ASSUME NamesAssumption == XmlId \in AttrName
ASSUME ValuesAssumption == Value \subseteq Seq(Token)
ASSUME TypesAssumption ==
    IdType \subseteq SchemaType /\ IdrefType \subseteq SchemaType /\ Unbound \notin SchemaType

VARIABLES
    kind,                   \* "Full" or "Fragment"
    nodes,                  \* the flat array
    parent,                 \* the open container
    last_sibling,           \* its last content child
    last_attr,              \* the attribute the next one is chained to
    pending,                \* text not yet a node
    element_stack,          \* the open elements, outermost first
    children_started,       \* ... and for each container whether content began
    id_elements,            \* the id index, as a set of claims
    idrefs,                 \* the idrefs index, as pairs <<token, node>>
    dropped_duplicate_id,   \* the last attribute's id was already held
    annotated_nodes,        \* how many nodes carry a binding
    finished,               \* finalize has run
    attributes_ended,       \* end_of_attributes has run for the open element
    registered,             \* what register_xml_id accepted: <<token, element>>
    marked                  \* what register_idrefs marked

cursorVars == <<parent, last_sibling, last_attr>>
stackVars == <<element_stack, children_started, attributes_ended>>
indexVars == <<id_elements, idrefs>>
hostVars == <<registered, marked>>
documentVars == <<kind, nodes, cursorVars, pending, stackVars, indexVars,
                  dropped_duplicate_id, annotated_nodes, finished, hostVars>>

NULL == 0
DOCUMENT_NODE == 1

NewNode(k, owner, name, value) ==
    [kind |-> k, parent |-> owner, next |-> NULL, name |-> name, value |-> value,
     binding |-> Unbound, flags |-> {}]

IsElement(f, r) == f[r].kind = "Element"
IsAttribute(f, r) == f[r].kind = "Attribute"
HasFlag(f, r, flag) == flag \in f[r].flags
SetFlag(f, r, flag) == [f EXCEPT ![r].flags = @ \cup {flag}]
ClearFlag(f, r, flag) == [f EXCEPT ![r].flags = @ \ {flag}]

-----------------------------------------------------------------------------
(* The array read as a tree.                                               *)

(* One past the last node below r: the next sibling of r or of the nearest *)
(* node above it that has one, or the end of the array.                    *)
subtree_end(f, r) ==
    LET end[q \in 1..Len(f)] ==
            IF f[q].next # NULL THEN f[q].next
            ELSE IF f[q].parent = NULL THEN Len(f) + 1
            ELSE end[f[q].parent]
    IN  end[r]

tree_root_of(f, r) ==
    LET root[q \in 1..Len(f)] ==
            IF f[q].parent \in {NULL, DOCUMENT_NODE} THEN q ELSE root[f[q].parent]
    IN  IF kind = "Full" THEN DOCUMENT_NODE ELSE root[r]

first_child_of(r) == r + 1

(* The last attribute of the chain that begins at r.                       *)
LastOfChain(f, r) ==
    LET last[q \in 1..Len(f)] ==
            IF f[q].next = NULL \/ ~IsAttribute(f, f[q].next) THEN q ELSE last[f[q].next]
    IN  last[r]

(* The first content child: past the last attribute and its ChildValue.    *)
first_content_child_of(f, r) ==
    IF ~HasFlag(f, r, "HAS_CHILDREN") THEN NULL
    ELSE IF ~HasFlag(f, r, "HAS_ATTRIBUTE") THEN first_child_of(r)
    ELSE LET last[q \in 1..Len(f)] == IF f[q].next = NULL THEN q ELSE last[f[q].next]
         IN  last[first_child_of(r)] + 2

(* An element's string value: the text in its range of the array.          *)
element_content(f, r) ==
    LET upto[q \in r..Len(f)] ==
            IF q = r THEN <<>>
            ELSE upto[q - 1] \o (IF f[q].kind = "Text" THEN f[q].value ELSE <<>>)
    IN  upto[subtree_end(f, r) - 1]

attribute_value(f, a) == f[a + 1].value
StringValue(f, r) == IF IsAttribute(f, r) THEN attribute_value(f, r) ELSE element_content(f, r)

is_open(r) == \E i \in 1..Len(element_stack) : element_stack[i] = r

find_attribute(f, name) ==
    {a \in 1..Len(f) : IsAttribute(f, a) /\ f[a].parent = parent /\ f[a].name = name}

-----------------------------------------------------------------------------
(* The two indexes.  A step of the builder changes the array and the       *)
(* indexes together; b is such a triple, [nodes, ids, refs].                *)

Built == [nodes |-> nodes, ids |-> id_elements, refs |-> idrefs]

id_index_key(value) == IF Len(value) = 1 THEN {value[1]} ELSE {}
typed_id_key(type, value) == IF type \in IdType THEN id_index_key(value) ELSE {}
idref_tokens(value) == {value[i] : i \in 1..Len(value)}
typed_is_idrefs(type, value) == type \in IdrefType /\ value # <<>>

tree_of(f, elem) ==
    IF element_stack # <<>> /\ elem = parent /\ kind = "Fragment"
    THEN element_stack[1]
    ELSE tree_root_of(f, elem)

(* The claims on keys that attr makes for elem; attr is elem itself for an *)
(* element that is an id by its own value.                                 *)
Claims(f, keys, elem, attr) ==
    {[key |-> k, tree |-> tree_of(f, elem), elem |-> elem, attr |-> attr] : k \in keys}

file_id_claims(ids, claims) == ids \cup claims
(* Mutant of withdraw_id_claims: another attribute's claim goes with it.   *)
WithdrawFromElement(ids, claims) ==
    {c \in ids : ~\E w \in claims : w.key = c.key /\ w.elem = c.elem}

withdraw_id_claims(ids, claims) ==
    {c \in ids : ~\E w \in claims : w.key = c.key /\ w.attr = c.attr}

(* What the attribute a claims for its element, by its name or its type.   *)
AttributeClaims(f, a, keys) ==
    IF IsElement(f, f[a].parent) THEN Claims(f, keys, f[a].parent, a) ELSE {}
XmlIdClaims(f, a) ==
    AttributeClaims(f, a, IF f[a].name = XmlId THEN id_index_key(attribute_value(f, a)) ELSE {})
TypedIdClaims(f, a) ==
    AttributeClaims(f, a, IF f[a].name = XmlId THEN {}
                          ELSE typed_id_key(f[a].binding, attribute_value(f, a)))

(* What the element e claims: nothing while it is nilled.                  *)
ElementClaims(f, e) ==
    Claims(f, IF HasFlag(f, e, "IS_NIL") THEN {}
              ELSE typed_id_key(f[e].binding, element_content(f, e)), e, e)

file_idrefs(b, r) ==
    [b EXCEPT !.refs = @ \cup {<<t, r>> : t \in idref_tokens(StringValue(b.nodes, r))}]
mark_and_file_idrefs(b, r) ==
    file_idrefs([b EXCEPT !.nodes = SetFlag(b.nodes, r, "IS_IDREFS")], r)
(* Mutant of withdraw_idrefs: the mark goes, the index stays.              *)
WithdrawMarkOnly(b, r) == [b EXCEPT !.nodes = ClearFlag(b.nodes, r, "IS_IDREFS")]

withdraw_idrefs(b, r) ==
    IF ~HasFlag(b.nodes, r, "IS_IDREFS") THEN b
    ELSE [b EXCEPT !.nodes = ClearFlag(b.nodes, r, "IS_IDREFS"),
                   !.refs = @ \ {<<t, r>> : t \in idref_tokens(StringValue(b.nodes, r))}]

file_typed_id(b, a) == [b EXCEPT !.ids = file_id_claims(@, TypedIdClaims(b.nodes, a))]
withdraw_typed_id(b, a) == [b EXCEPT !.ids = withdraw_id_claims(@, TypedIdClaims(b.nodes, a))]
file_typed_idrefs(b, a) ==
    IF IsElement(b.nodes, b.nodes[a].parent)
       /\ typed_is_idrefs(b.nodes[a].binding, attribute_value(b.nodes, a))
    THEN mark_and_file_idrefs(b, a)
    ELSE b

(* An element as it stands: its id by its typed value, its IDREFs by its   *)
(* typed value or a host's mark.                                           *)
file_element(b, e) ==
    LET f == b.nodes
        claimed == [b EXCEPT !.ids = file_id_claims(@, ElementClaims(f, e))]
        typed == /\ ~HasFlag(f, e, "IS_NIL")
                 /\ typed_is_idrefs(f[e].binding, element_content(f, e))
    IN  IF HasFlag(f, e, "IS_IDREFS") \/ typed THEN mark_and_file_idrefs(claimed, e) ELSE claimed

withdraw_element(b, e) ==
    IF b.nodes[e].binding = Unbound THEN b
    ELSE withdraw_idrefs([b EXCEPT !.ids = withdraw_id_claims(@, ElementClaims(b.nodes, e))], e)

-----------------------------------------------------------------------------
(* The cursors.                                                            *)

(* The array with new nodes at its end, the first of them linked from the  *)
(* node `from` (NULL: from none) and its owner flagged.                    *)
Appended(f, new, from, owner, flag) ==
    LET linked == IF from = NULL THEN f ELSE [f EXCEPT ![from].next = Len(f) + 1]
    IN  SetFlag(linked, owner, flag) \o new

AddChild(f, new, last) == Appended(f, new, last, parent, "HAS_CHILDREN")

(* The array and its last sibling once the pending text is a node.         *)
FlushedNodes ==
    IF pending = <<>> THEN nodes
    ELSE AddChild(nodes, <<NewNode("Text", parent, "", pending)>>, last_sibling)

(* Mutant of FlushedSibling: the text node is not noted as a sibling.      *)
SiblingBeforeFlush == last_sibling

FlushedSibling == IF pending = <<>> THEN last_sibling ELSE Len(nodes) + 1

note_child_appended == [children_started EXCEPT ![Len(children_started)] = TRUE]
ContentStarted == children_started[Len(children_started)]
HasOpenElement == element_stack # <<>>

(* How many nodes carry a binding after node r's becomes `type`.           *)
Annotated(n, previous, type) ==
    IF previous = Unbound /\ type # Unbound THEN n + 1
    ELSE IF previous # Unbound /\ type = Unbound THEN n - 1
    ELSE n

Init ==
    /\ kind \in {"Full", "Fragment"}
    /\ nodes = <<NewNode("Root", NULL, "", <<>>)>>
    /\ parent = DOCUMENT_NODE /\ last_sibling = NULL /\ last_attr = NULL
    /\ pending = <<>>
    /\ element_stack = <<>> /\ children_started = <<FALSE>> /\ attributes_ended = FALSE
    /\ id_elements = {} /\ idrefs = {}
    /\ dropped_duplicate_id = FALSE /\ annotated_nodes = 0 /\ finished = FALSE
    /\ registered = {} /\ marked = {}

start_element ==
    /\ nodes' = AddChild(FlushedNodes, <<NewNode("Element", parent, "", <<>>)>>, FlushedSibling)
    /\ parent' = Len(FlushedNodes) + 1
    /\ last_sibling' = NULL /\ last_attr' = NULL
    /\ pending' = <<>>
    /\ element_stack' = Append(element_stack, Len(FlushedNodes) + 1)
    /\ children_started' = Append(note_child_appended, FALSE)
    /\ attributes_ended' = FALSE
    /\ UNCHANGED <<kind, indexVars, dropped_duplicate_id, annotated_nodes, finished, hostVars>>

(* The pair an attribute becomes, chained to `from`; an xml:id is filed,   *)
(* and dropped when another element of its tree holds the value.           *)
WithAttribute(name, value, from) ==
    LET a == Len(nodes) + 1
        f == Appended(nodes, <<NewNode("Attribute", parent, name, <<>>),
                               NewNode("ChildValue", a, "", value)>>,
                      from, parent, "HAS_ATTRIBUTE")
    IN  [Built EXCEPT !.nodes = f, !.ids = file_id_claims(@, XmlIdClaims(f, a))]

DuplicateClaim(claims) ==
    \E c \in claims, held \in id_elements :
        held.key = c.key /\ held.tree = c.tree /\ held.elem # c.elem

(* The next attribute while the open element has no content, or of the     *)
(* document node of a fragment that holds nothing else.                    *)
attribute(name, value) ==
    LET b == WithAttribute(name, value, last_attr)
    IN  /\ ~ContentStarted
        /\ IF HasOpenElement THEN ~attributes_ended ELSE kind = "Fragment"
        /\ nodes' = b.nodes /\ id_elements' = b.ids
        /\ last_attr' = Len(nodes) + 1
        /\ dropped_duplicate_id' =
             (dropped_duplicate_id \/ DuplicateClaim(b.ids \ id_elements))
        /\ UNCHANGED <<kind, parent, last_sibling, pending, stackVars, idrefs,
                       annotated_nodes, finished, hostVars>>

(* The driver that reads XML text takes what the last attribute dropped,   *)
(* and refuses the document; a Fragment buffer never reports it.           *)
TakeDroppedDuplicate ==
    /\ dropped_duplicate_id
    /\ dropped_duplicate_id' = FALSE
    /\ UNCHANGED <<kind, nodes, cursorVars, pending, stackVars, indexVars,
                   annotated_nodes, finished, hostVars>>

end_of_attributes ==
    /\ HasOpenElement /\ ~ContentStarted
    /\ last_sibling' = NULL /\ last_attr' = NULL
    /\ attributes_ended' = TRUE
    /\ UNCHANGED <<kind, nodes, parent, pending, element_stack, children_started, indexVars,
                   dropped_duplicate_id, annotated_nodes, finished, hostVars>>

text(value) ==
    /\ pending' = pending \o value
    /\ children_started' = note_child_appended
    /\ UNCHANGED <<kind, nodes, cursorVars, element_stack, attributes_ended, indexVars,
                   dropped_duplicate_id, annotated_nodes, finished, hostVars>>

(* The typed build rewrites the text it has not made a node of; <<>> is    *)
(* discard_pending_text.                                                   *)
replace_pending_text(value) ==
    /\ pending # <<>>
    /\ pending' = value
    /\ UNCHANGED <<kind, nodes, cursorVars, stackVars, indexVars,
                   dropped_duplicate_id, annotated_nodes, finished, hostVars>>

(* A comment is one node, a processing instruction a node and its data;    *)
(* what they say is left out.                                              *)
Leaf(k) ==
    IF k = "Comment" THEN <<NewNode("Comment", parent, "", <<>>)>>
    ELSE <<NewNode("ProcessingInstruction", parent, "", <<>>),
           NewNode("ChildValue", Len(FlushedNodes) + 1, "", <<>>)>>

AddLeaf(k) ==
    /\ nodes' = AddChild(FlushedNodes, Leaf(k), FlushedSibling)
    /\ last_sibling' = Len(FlushedNodes) + 1
    /\ pending' = <<>>
    /\ children_started' = note_child_appended
    /\ UNCHANGED <<kind, parent, last_attr, element_stack, attributes_ended, indexVars,
                   dropped_duplicate_id, annotated_nodes, finished, hostVars>>

comment == AddLeaf("Comment")
processing_instruction == AddLeaf("ProcessingInstruction")

(* The element is filed with its content complete and while it is open.    *)
end_element ==
    /\ HasOpenElement
    /\ LET b == file_element([Built EXCEPT !.nodes = FlushedNodes], Last(element_stack))
       IN  /\ nodes' = b.nodes /\ id_elements' = b.ids /\ idrefs' = b.refs
           /\ last_sibling' = parent
           /\ parent' = b.nodes[parent].parent
    /\ last_attr' = NULL
    /\ pending' = <<>>
    /\ element_stack' = Front(element_stack)
    /\ children_started' = Front(children_started)
    /\ UNCHANGED <<kind, attributes_ended, dropped_duplicate_id, annotated_nodes, finished,
                   hostVars>>

(* UnmatchedEndElement: the pending text has become a node by then.        *)
unmatched_end_element ==
    /\ ~HasOpenElement /\ pending # <<>>
    /\ nodes' = FlushedNodes /\ last_sibling' = FlushedSibling /\ pending' = <<>>
    /\ UNCHANGED <<kind, parent, last_attr, stackVars, indexVars, dropped_duplicate_id,
                   annotated_nodes, finished, hostVars>>

finalize ==
    /\ nodes' = Append(FlushedNodes, NewNode("Nul", NULL, "", <<>>))
    /\ last_sibling' = FlushedSibling
    /\ pending' = <<>>
    /\ finished' = TRUE
    /\ UNCHANGED <<kind, parent, last_attr, stackVars, indexVars, dropped_duplicate_id,
                   annotated_nodes, hostVars>>

-----------------------------------------------------------------------------
(* Bindings, ids and IDREFs.                                               *)

SetBinding(b, r, type) == [b EXCEPT !.nodes = [b.nodes EXCEPT ![r].binding = type]]

(* What the node r filed by its binding is withdrawn, then r is bound.     *)
Withdrawn(b, r) ==
    IF b.nodes[r].binding = Unbound THEN b
    ELSE IF IsAttribute(b.nodes, r) THEN withdraw_idrefs(withdraw_typed_id(b, r), r)
    ELSE IF ~is_open(r) THEN withdraw_element(b, r)
    ELSE b
Refiled(b, r) ==
    IF IsAttribute(b.nodes, r) THEN file_typed_idrefs(file_typed_id(b, r), r)
    ELSE IF ~is_open(r) THEN file_element(b, r)
    ELSE b
Rebound(b, r, type) == Refiled(SetBinding(Withdrawn(b, r), r, type), r)
Cleared(b, r) == SetBinding(Withdrawn(b, r), r, Unbound)

(* A host gives a node either a binding or a mark (register_idrefs: "this  *)
(* is for a node that keeps it without one").                              *)
set_node_binding(r, type) ==
    LET b == Rebound(Built, r, type)
    IN  /\ r \notin marked
        /\ nodes' = b.nodes /\ id_elements' = b.ids /\ idrefs' = b.refs
        /\ annotated_nodes' = Annotated(annotated_nodes, nodes[r].binding, type)
        /\ UNCHANGED <<kind, cursorVars, pending, stackVars, dropped_duplicate_id, finished,
                       hostVars>>

(* Both builders of typed trees set the flag before the element ends.      *)
set_nil(r) ==
    /\ is_open(r)
    /\ nodes' = SetFlag(nodes, r, "IS_NIL")
    /\ UNCHANGED <<kind, cursorVars, pending, stackVars, indexVars, dropped_duplicate_id,
                   annotated_nodes, finished, hostVars>>

(* The first element of e's tree that answers to the key, of all claims.   *)
FirstClaimant(claims) ==
    IF claims = {} THEN NULL
    ELSE CHOOSE e \in {c.elem : c \in claims} : \A c \in claims : e <= c.elem
InTree(key, tree) == {c \in id_elements : c.key = key /\ c.tree = tree}

(* An id from elsewhere.  A value the tree's first claimant is another     *)
(* element's is refused (DuplicateId), and nothing is filed.               *)
register_xml_id(key, e) ==
    /\ IsElement(nodes, e)
    /\ FirstClaimant(InTree(key, tree_root_of(nodes, e))) \in {NULL, e}
    /\ id_elements' = id_elements \cup
         {[key |-> key, tree |-> tree_root_of(nodes, e), elem |-> e, attr |-> NULL]}
    /\ registered' = registered \cup {<<key, e>>}
    /\ UNCHANGED <<kind, nodes, cursorVars, pending, stackVars, idrefs, dropped_duplicate_id,
                   annotated_nodes, finished, marked>>

register_idrefs(r) ==
    LET b == IF IsElement(nodes, r) /\ is_open(r)
             THEN [Built EXCEPT !.nodes = SetFlag(nodes, r, "IS_IDREFS")]
             ELSE mark_and_file_idrefs(Built, r)
    IN  /\ ~HasFlag(nodes, r, "IS_IDREFS")
        /\ nodes[r].binding = Unbound
        /\ nodes' = b.nodes /\ idrefs' = b.refs
        /\ marked' = marked \cup {r}
        /\ UNCHANGED <<kind, cursorVars, pending, stackVars, id_elements, dropped_duplicate_id,
                       annotated_nodes, finished, registered>>

(* The value of the attribute a replaced: its claims and IDREFs follow.    *)
set_attribute_value(b, a, value) ==
    LET was_idrefs == HasFlag(b.nodes, a, "IS_IDREFS")
        bound == b.nodes[a].binding # Unbound
        without == withdraw_idrefs(b, a)
        unclaimed == [without EXCEPT
            !.ids = withdraw_id_claims(@, XmlIdClaims(b.nodes, a) \cup TypedIdClaims(b.nodes, a))]
        valued == [unclaimed EXCEPT !.nodes = [unclaimed.nodes EXCEPT ![a + 1].value = value]]
        claimed == [valued EXCEPT
            !.ids = file_id_claims(@, XmlIdClaims(valued.nodes, a)
                                      \cup TypedIdClaims(valued.nodes, a))]
    IN  IF bound THEN file_typed_idrefs(claimed, a)
        ELSE IF was_idrefs THEN mark_and_file_idrefs(claimed, a)
        ELSE claimed

(* The chain the next attribute goes on after end_of_attributes forgot it. *)
sync_last_attribute ==
    IF last_attr # NULL \/ ~HasFlag(nodes, parent, "HAS_ATTRIBUTE") THEN last_attr
    ELSE LastOfChain(nodes, first_child_of(parent))

(* An attribute item of constructed content: the later of two with a name  *)
(* replaces the value and the annotation of the earlier.                   *)
copy_attribute(name, value, type) ==
    LET existing == find_attribute(nodes, name)
        fresh == WithAttribute(name, value, sync_last_attribute)
        a == IF existing = {} THEN Len(nodes) + 1 ELSE CHOOSE x \in existing : \A y \in existing : x <= y
        valued == IF existing = {} THEN fresh ELSE set_attribute_value(Built, a, value)
        previous == valued.nodes[a].binding
        b == IF type = Unbound THEN Cleared(valued, a) ELSE Rebound(valued, a, type)
    IN  /\ HasOpenElement /\ ~ContentStarted
        /\ a \in marked => type = Unbound
        /\ nodes' = b.nodes /\ id_elements' = b.ids /\ idrefs' = b.refs
        /\ annotated_nodes' = Annotated(annotated_nodes, previous, type)
        /\ last_attr' = IF existing = {} THEN a ELSE last_attr
        /\ dropped_duplicate_id' =
             (dropped_duplicate_id \/ (existing = {} /\ DuplicateClaim(fresh.ids \ id_elements)))
        /\ UNCHANGED <<kind, parent, last_sibling, pending, stackVars, finished, hostVars>>

Bindable == {r \in 1..Len(nodes) : IsElement(nodes, r) \/ IsAttribute(nodes, r)}

Next ==
    /\ ~finished
    /\ \/ start_element \/ end_of_attributes \/ end_element \/ unmatched_end_element
       \/ comment \/ processing_instruction \/ finalize \/ TakeDroppedDuplicate
       \/ \E v \in Value \cup {<<>>} : text(v) \/ replace_pending_text(v)
       \/ \E v \in Value, name \in AttrName :
            \/ attribute(name, v)
            \/ \E t \in SchemaType \cup {Unbound} : copy_attribute(name, v, t)
       \/ \E r \in Bindable : \/ \E t \in SchemaType : set_node_binding(r, t)
                              \/ set_nil(r)
                              \/ register_idrefs(r)
                              \/ \E key \in Token : register_xml_id(key, r)

Spec == Init /\ [][Next]_documentVars

-----------------------------------------------------------------------------
(* Lookups (buffer.rs, as the navigator calls them).                       *)

KeyClaims(key) == {c \in id_elements : c.key = key}

get_element_by_id(key) == FirstClaimant(KeyClaims(key))
get_element_by_id_in_tree(r, key) ==
    LET tree == tree_root_of(nodes, r)
    IN  IF tree = DOCUMENT_NODE THEN get_element_by_id(key)
        ELSE FirstClaimant(InTree(key, tree))
element_by_id_in_subtree(r, key) ==
    IF nodes[r].kind \notin {"Element", "Root"} THEN NULL
    ELSE FirstClaimant({c \in KeyClaims(key) : r <= c.elem /\ c.elem < subtree_end(nodes, r)})
nodes_by_idref(key, range) == {pair[2] : pair \in {q \in idrefs : q[1] = key /\ q[2] \in range}}

(* The nodes fn:idref looks at for a cursor whose tree r is the root of:   *)
(* a parentless node, an asserted element, or a tree of a fragment.        *)
IdrefRange(r) == IF r = DOCUMENT_NODE THEN 1..Len(nodes) ELSE r..subtree_end(nodes, r) - 1

-----------------------------------------------------------------------------
(* What they must find, from the parent links and values as they stand.    *)

Refs == 1..Len(nodes)

Subtree(f, r) ==
    LET below[q \in 1..Len(f)] == q = r \/ (f[q].parent # NULL /\ below[f[q].parent])
    IN  {q \in 1..Len(f) : below[q]}

(* The text below r, in document order.                                    *)
TextBelow(f, r) ==
    LET under == Subtree(f, r)
        upto[q \in 0..Len(f)] ==
            IF q = 0 THEN <<>>
            ELSE upto[q - 1] \o (IF q \in under /\ f[q].kind = "Text" THEN f[q].value ELSE <<>>)
    IN  upto[Len(f)]

AttributesOf(e) == {a \in Refs : IsAttribute(nodes, a) /\ nodes[a].parent = e}

(* XDM is-id, for an element that has ended: by an attribute named xml:id  *)
(* or of type xs:ID, by its own typed value, or because the host said so.  *)
Answers(e, key) ==
    \/ \E a \in AttributesOf(e) :
          /\ nodes[a].name = XmlId \/ nodes[a].binding \in IdType
          /\ attribute_value(nodes, a) = <<key>>
    \/ /\ nodes[e].binding \in IdType /\ ~is_open(e) /\ ~HasFlag(nodes, e, "IS_NIL")
       /\ TextBelow(nodes, e) = <<key>>
    \/ <<key, e>> \in registered

FirstAnswering(scope, key) ==
    LET found == {e \in scope : IsElement(nodes, e) /\ Answers(e, key)}
    IN  IF found = {} THEN NULL ELSE CHOOSE e \in found : \A x \in found : e <= x

(* XDM is-idrefs: by the typed value, or by a mark, once the node is whole. *)
HoldsIdref(r, key) ==
    LET value == IF IsAttribute(nodes, r) THEN attribute_value(nodes, r) ELSE TextBelow(nodes, r)
        typed == /\ nodes[r].binding \in IdrefType /\ ~HasFlag(nodes, r, "IS_NIL")
                 /\ IsAttribute(nodes, r) => IsElement(nodes, nodes[r].parent)
    IN  /\ IsAttribute(nodes, r) \/ (IsElement(nodes, r) /\ ~is_open(r))
        /\ typed \/ r \in marked
        /\ key \in idref_tokens(value)

TreeTop(r) == IF kind = "Full" THEN DOCUMENT_NODE
              ELSE CHOOSE t \in Refs : r \in Subtree(nodes, t)
                                       /\ (t = r \/ t # DOCUMENT_NODE)
                                       /\ nodes[t].parent \in {NULL, DOCUMENT_NODE}

(* A lookup by id answers with the first element in document order, in the *)
(* scope it is asked about, that has the id as the tree stands (buffer.rs, *)
(* F&O 15.5.2: "the first such element in document order"); and            *)
(* has_type_annotations is exact (annotated_nodes).                        *)
IdLookupsExact ==
    /\ \A key \in Token :
        /\ get_element_by_id(key) = FirstAnswering(Refs, key)
        /\ \A r \in Refs : nodes[r].kind # "Nul" =>
            /\ get_element_by_id_in_tree(r, key) = FirstAnswering(Subtree(nodes, TreeTop(r)), key)
            /\ nodes[r].kind \in {"Element", "Root"} =>
                element_by_id_in_subtree(r, key) = FirstAnswering(Subtree(nodes, r), key)
    /\ annotated_nodes = Cardinality({r \in Bindable : nodes[r].binding # Unbound})

(* fn:idref finds exactly the is-idrefs nodes of its tree that have the    *)
(* token (navigator.rs: "the subtree a parentless or asserted node         *)
(* roots"), for a tree whose root is a document or element node.           *)
IdrefsExactBelow(r) ==
    \A key \in Token :
        nodes_by_idref(key, IdrefRange(r)) = {q \in Subtree(nodes, r) : HoldsIdref(q, key)}

IdrefLookupsExact ==
    \A r \in Refs : nodes[r].kind \in {"Element", "Root"} => IdrefsExactBelow(r)

(* Property.  Whatever was bound, rebound, replaced, marked or registered, *)
(* and in whatever order, the indexes of ids and of IDREFs answer as the   *)
(* tree stands.                                                            *)
LookupsExact == IdLookupsExact /\ IdrefLookupsExact

(* Property.  The same of IDREFs for a parentless attribute node, as the   *)
(* doc says of every node new_orphan may be given.                         *)
IdrefLookupsExactForAttributes ==
    \A r \in Refs : IsAttribute(nodes, r) => IdrefsExactBelow(r)

-----------------------------------------------------------------------------
(* The tree the array stands for: the items met by following the links     *)
(* from the document node, attributes by their chain and then content by   *)
(* its, and the text that is not yet a node.                               *)

ItemAt(d, r) ==
    [depth |-> d, kind |-> nodes[r].kind, name |-> nodes[r].name,
     value |-> IF IsAttribute(nodes, r) THEN attribute_value(nodes, r) ELSE nodes[r].value]

FirstAttributeOf(r) ==
    IF HasFlag(nodes, r, "HAS_ATTRIBUTE") THEN first_child_of(r) ELSE NULL

LinkedItems ==
    LET from[r \in 0..Len(nodes), d \in 0..Len(nodes)] ==
            IF r = NULL THEN <<>>
            ELSE <<ItemAt(d, r)>>
                 \o (IF IsAttribute(nodes, r) THEN <<>>
                     ELSE from[FirstAttributeOf(r), d + 1]
                          \o from[first_content_child_of(nodes, r), d + 1])
                 \o from[nodes[r].next, d]
    IN  from[FirstAttributeOf(DOCUMENT_NODE), 0]
        \o from[first_content_child_of(nodes, DOCUMENT_NODE), 0]

PendingItem ==
    IF pending = <<>> THEN <<>>
    ELSE <<[depth |-> Len(element_stack), kind |-> "Text", name |-> "", value |-> pending]>>

Tree == INSTANCE XmlTree
    WITH items <- LinkedItems \o PendingItem, depth <- Len(element_stack),
         growing <- pending # <<>>, ItemValue <- Value \cup {<<>>}, ItemName <- AttrName

(* Property.  The builder implements the abstract document: every step of  *)
(* it is a step on the tree its links describe, or none.                   *)
TreeBuilt == Tree!TreeSpec
=============================================================================
