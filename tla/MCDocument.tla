------------------------------ MODULE MCDocument ------------------------------
(* TLC instances of the document buffer.  Every behaviour is the builder's  *)
(* (ScopedNext); a world bounds it to the part one of the properties is     *)
(* about, so that each is explored further than all of them could be.       *)
EXTENDS NamespaceScopes

CONSTANT Worlds
VARIABLE world

MCValue == {<<"a">>, <<"b", "a">>}

Kinds == {nodes[r].kind : r \in Refs}
Values == {nodes[r].value : r \in Refs}
Names == {nodes[r].name : r \in Refs}
Nilled == {r \in Refs : HasFlag(nodes, r, "IS_NIL")}
NoHost == registered = {} /\ marked = {}
NoScopes == Len(namespace_pages) = 1
Plain == id_elements = {} /\ annotated_nodes = 0 /\ Nilled = {} /\ NoHost

(* Declarations: nesting, siblings, and a declaration added with an        *)
(* attribute of an element that has some already.                          *)
Scopes ==
    /\ world = "scopes" /\ Plain /\ kind = "Full" /\ pending = <<>> /\ ~attributes_ended
    /\ Kinds \subseteq {"Root", "Element", "Attribute", "ChildValue"}
    /\ Values \subseteq {<<>>, <<"a">>} /\ XmlId \notin Names
    /\ Len(nodes) <= 5 /\ Len(namespace_pages) <= 5

(* The shape of the tree, with one value.                                  *)
Structure ==
    /\ world = "structure" /\ Plain /\ NoScopes
    /\ Values \cup {pending} \subseteq {<<>>, <<"a">>} /\ XmlId \notin Names
    /\ Len(nodes) <= IF kind = "Full" THEN 6 ELSE 5

(* xml:id attributes and registered ids.                                   *)
Ids ==
    /\ world = "ids" /\ NoScopes /\ annotated_nodes = 0 /\ Nilled = {} /\ marked = {}
    /\ Kinds \subseteq {"Root", "Element", "Attribute", "ChildValue"}
    /\ pending = <<>> /\ Names \subseteq {"", XmlId}
    /\ Len(nodes) + Cardinality(registered) <= 6

(* Bindings of elements and attributes, rebound and cleared.               *)
Types ==
    /\ world = "types" /\ kind = "Fragment" /\ NoScopes /\ NoHost
    /\ Kinds \subseteq {"Root", "Element", "Attribute", "ChildValue", "Text"}
    /\ Len(pending) <= 1
    /\ Cardinality({r \in Refs : IsAttribute(nodes, r)}) <= 1
    /\ \A r \in Nilled : nodes[r].binding # Unbound
    /\ ~attributes_ended
    /\ Len(nodes) + annotated_nodes <= 6

(* IDREFs by type and by mark.                                             *)
Marks ==
    /\ world = "marks" /\ kind = "Full" /\ NoScopes /\ registered = {} /\ Nilled = {}
    /\ Kinds \subseteq {"Root", "Element", "Attribute", "ChildValue", "Text"}
    /\ ~attributes_ended /\ XmlId \notin Names /\ \A r \in Refs : nodes[r].binding \notin IdType
    /\ Len(pending) <= 1
    /\ Len(nodes) + annotated_nodes + Cardinality(marked) <= IF "Attribute" \in Kinds THEN 5 ELSE 6

(* One attribute, then a child element with a mark of its own.             *)
Orphans ==
    /\ world = "orphans" /\ kind = "Full" /\ NoScopes /\ Nilled = {} /\ registered = {}
    /\ annotated_nodes = 0 /\ ~attributes_ended /\ id_elements = {}
    /\ Kinds \subseteq {"Root", "Element", "Attribute", "ChildValue", "Text"}
    /\ Values \cup {pending} \subseteq {<<>>, <<"a">>}
    /\ Len(nodes) <= 6 /\ Cardinality(marked) <= 1

(* A driver that reads text takes what was dropped at once.                *)
Driver == dropped_duplicate_id => ~dropped_duplicate_id'

MCInit == Init /\ ScopesInit /\ world \in Worlds
MCNext ==
    /\ ScopedNext /\ Driver /\ UNCHANGED world
    /\ (Scopes \/ Structure \/ Ids \/ Types \/ Marks \/ Orphans)'
MCSpec == MCInit /\ [][MCNext]_<<scopedVars, world>>
=============================================================================
