---------------------------- MODULE NamespaceScopes ----------------------------
(* The namespace declarations of a document buffer (document/namespace.rs   *)
(* and the builder's calls): one chain of bindings per declaring element    *)
(* that runs into its parent's, a table of where in the array the chain in  *)
(* scope changes, and a walk that skips what an element hides.  The         *)
(* builder's operations are DocumentBuffer's, each with its effect here.    *)
(*                                                                         *)
(* A namespace name plays no part in it, so a binding is its prefix; NULL   *)
(* ends a chain.                                                            *)
EXTENDS DocumentBuffer

CONSTANT Prefix

VARIABLES
    namespace_pages,        \* the bindings: [prefix, next]
    walk_next,              \* for each binding, where a walk goes on
    changes,                \* <<node, chain head>>, in node order
    current_namespace,      \* the chain in scope at the insertion point
    namespace_stack,        \* <<open declaring element, the chain outside it>>
    element_namespaces      \* the chain head of each declaring element

scopeVars == <<namespace_pages, walk_next, changes, current_namespace, namespace_stack,
               element_namespaces>>
scopedVars == <<documentVars, scopeVars>>

(* The first binding is the implicit one of xml, on no chain.              *)
ScopesInit ==
    /\ namespace_pages = <<[prefix |-> "xml", next |-> NULL]>>
    /\ walk_next = <<NULL>> /\ changes = <<>>
    /\ current_namespace = NULL /\ namespace_stack = <<>>
    /\ element_namespaces = <<>>

(* The declarations chained one after the other to the current chain.      *)
Chained(prefixes) ==
    namespace_pages \o
    [i \in 1..Len(prefixes) |->
        [prefix |-> prefixes[i],
         next |-> IF i = 1 THEN current_namespace ELSE Len(namespace_pages) + i - 1]]

set_scope(table, from, head) ==
    LET kept == IF table # <<>> /\ Last(table)[1] = from THEN Front(table) ELSE table
        current == IF kept = <<>> THEN NULL ELSE Last(kept)[2]
    IN  IF current = head THEN kept ELSE Append(kept, <<from, head>>)

(* An element's own part of the chain from head: up to the binding chained *)
(* to outer.                                                               *)
OwnBindings(pages, head, outer) ==
    LET own[n \in 0..Len(pages)] ==
            IF n \in {NULL, outer} THEN {} ELSE {n} \cup own[pages[n].next]
    IN  own[head]

(* Mutant of SkipHidden: one hidden binding is skipped, not all.           *)
SkipOneHidden(pages, next, own, outer) ==
    IF outer # NULL /\ \E o \in own : pages[o].prefix = pages[outer].prefix
    THEN next[outer] ELSE outer

(* Past the outer bindings, from the first on, whose prefixes it declares. *)
SkipHidden(pages, next, own, outer) ==
    LET hidden(n) == \E o \in own : pages[o].prefix = pages[n].prefix
        skip[n \in 0..Len(next)] == IF n = NULL \/ ~hidden(n) THEN n ELSE skip[next[n]]
    IN  skip[outer]

(* Element e's declarations are now the chain from head down to outer: the *)
(* walk leaves it at its oldest one.                                       *)
declared(pages, next, e, head, outer) ==
    LET own == OwnBindings(pages, head, outer)
        last == CHOOSE n \in own : pages[n].next = outer
    IN  /\ walk_next' = [next EXCEPT ![last] = SkipHidden(pages, next, own, outer)]
        /\ changes' = set_scope(changes, e, head)

allocated(pages) ==
    walk_next \o [i \in 1..Len(pages) - Len(walk_next) |-> pages[Len(walk_next) + i].next]

(* Declarations on element e, which starts with them or has declared some  *)
(* already.                                                                *)
Declare(e, prefixes) ==
    LET pages == Chained(prefixes)
        head == Len(pages)
        again == namespace_stack # <<>> /\ Last(namespace_stack)[1] = e
        outer == IF again THEN Last(namespace_stack)[2] ELSE current_namespace
    IN  IF prefixes = <<>> THEN UNCHANGED scopeVars
        ELSE /\ namespace_pages' = pages
             /\ current_namespace' = head
             /\ namespace_stack' = IF again THEN namespace_stack
                                   ELSE Append(namespace_stack, <<e, outer>>)
             /\ element_namespaces' = [x \in DOMAIN element_namespaces \cup {e} |->
                                        IF x = e THEN head ELSE element_namespaces[x]]
             /\ declared(pages, allocated(pages), e, head, outer)

(* The end of the element: of a declaring one, whatever comes next is in   *)
(* its parent's scope again.                                               *)
Leave ==
    IF parent \in DOMAIN element_namespaces
    THEN /\ current_namespace' = Last(namespace_stack)[2]
         /\ namespace_stack' = Front(namespace_stack)
         /\ changes' = set_scope(changes, Len(nodes') + 1, Last(namespace_stack)[2])
         /\ UNCHANGED <<namespace_pages, walk_next, element_namespaces>>
    ELSE UNCHANGED scopeVars

(* An element's own declarations, each prefix once.                        *)
Declarations == {s \in UNION {[1..n -> Prefix] : n \in 0..Cardinality(Prefix)} :
                    \A i, j \in DOMAIN s : s[i] = s[j] => i = j}

start_scoped_element == \E d \in Declarations : start_element /\ Declare(Len(FlushedNodes) + 1, d)
end_scoped_element == end_element /\ Leave

(* A copied attribute may need a declaration; one whose name the element   *)
(* has already keeps its prefix.                                           *)
copy_scoped_attribute(name, v, t) ==
    /\ copy_attribute(name, v, t)
    /\ \/ find_attribute(nodes, name) = {} /\ \E p \in Prefix : Declare(parent, <<p>>)
       \/ UNCHANGED scopeVars

(* The rest of the builder leaves the declarations alone.                  *)
UnscopedNext ==
    /\ \/ end_of_attributes \/ unmatched_end_element
       \/ comment \/ processing_instruction \/ finalize \/ TakeDroppedDuplicate
       \/ \E v \in Value \cup {<<>>} : text(v) \/ replace_pending_text(v)
       \/ \E v \in Value, name \in AttrName : attribute(name, v)
       \/ \E r \in Bindable : \/ \E t \in SchemaType : set_node_binding(r, t)
                              \/ set_nil(r)
                              \/ register_idrefs(r)
                              \/ \E key \in Token : register_xml_id(key, r)
    /\ UNCHANGED scopeVars

ScopedNext ==
    /\ ~finished
    /\ \/ start_scoped_element \/ end_scoped_element \/ UnscopedNext
       \/ \E v \in Value, name \in AttrName, t \in SchemaType \cup {Unbound} :
            copy_scoped_attribute(name, v, t)

ScopedSpec == Init /\ ScopesInit /\ [][ScopedNext]_scopedVars

-----------------------------------------------------------------------------
(* Readers.                                                                *)

scope_at(r) ==
    LET before == {i \in 1..Len(changes) : changes[i][1] <= r}
    IN  IF before = {} THEN NULL ELSE changes[Cardinality(before)][2]

(* The bindings met from head by `next`, the first of each prefix only.    *)
FirstOfEach(next, head) ==
    LET from[n \in 0..Len(next), seen \in SUBSET Prefix] ==
            IF n = NULL THEN <<>>
            ELSE LET p == namespace_pages[n].prefix
                 IN  (IF p \in seen THEN <<>> ELSE <<n>>) \o from[next[n], seen \cup {p}]
    IN  from[head, {}]

RawNext == [n \in 1..Len(namespace_pages) |-> namespace_pages[n].next]

(* The nearest declaring element at or above r, by the parent links.       *)
DeclaringAbove(r) ==
    LET above[q \in 0..Len(nodes)] ==
            IF q = NULL \/ q \in DOMAIN element_namespaces THEN q ELSE above[nodes[q].parent]
    IN  above[r]
ChainHead(e) == IF e = NULL THEN NULL ELSE element_namespaces[e]

(* What the walk from head meets first below the part that runs to outer.  *)
WalkedPast(head, outer) ==
    LET own == OwnBindings(namespace_pages, head, outer)
        first[n \in 0..Len(walk_next)] == IF n \in own THEN first[walk_next[n]] ELSE n
    IN  first[head]

(* Property.  At every node, however deep, the walk from the scope table's *)
(* head meets the same binding of each prefix, in the same order, as the   *)
(* full chain of the nearest declaring element (namespace.rs: a reader     *)
(* "sees exactly what it saw on the full chain, in the same order"), and   *)
(* it passes over all redeclarations above at once: what it meets below an *)
(* element's own declarations is of a prefix the element leaves alone.     *)
ScopesExact ==
    /\ \A r \in Refs : nodes[r].kind # "Nul" =>
        /\ FirstOfEach(walk_next, scope_at(r)) =
             FirstOfEach(RawNext, ChainHead(DeclaringAbove(r)))
        /\ scope_at(r) = ChainHead(DeclaringAbove(r))
    /\ \A e \in DOMAIN element_namespaces :
        LET head == element_namespaces[e]
            outer == ChainHead(DeclaringAbove(nodes[e].parent))
            past == WalkedPast(head, outer)
        IN  past # NULL =>
                \A n \in OwnBindings(namespace_pages, head, outer) :
                    namespace_pages[n].prefix # namespace_pages[past].prefix
=============================================================================
