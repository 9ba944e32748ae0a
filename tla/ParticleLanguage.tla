-------------------------- MODULE ParticleLanguage --------------------------
(***************************************************************************)
(* What the content model of a complex type admits, by the definitions of  *)
(* XSD Structures (3.4.4, 3.8.4, 3.9.4, 3.10.4), without automata and      *)
(* counters: the reference that ContentModel is checked against.           *)
(*                                                                         *)
(* A type is [version, nodes, base, own, base_open, own_open]: the root    *)
(* nodes of the particle of its base type and of its own (0: none), and    *)
(* open contents [mode, names].  A particle that is still to be matched is *)
(* an item [node, min, max], a rest of the content a sequence of items.    *)
(***************************************************************************)
EXTENDS ContentNfa

LOCAL INSTANCE SequencesExt

CONSTANT Name \* the names of children

Item(nodes, n) == [node |-> n, min |-> nodes[n].min, max |-> nodes[n].max]

(* The item after one of its occurrences.                                  *)
Again(item) ==
    IF item.max = 1 THEN <<>>
    ELSE <<[item EXCEPT !.min = IF @ = 0 THEN 0 ELSE @ - 1,
                        !.max = IF @ = Unbounded THEN Unbounded ELSE @ - 1]>>

(* The nodes one occurrence of which may be empty.                         *)
Emptiable(nodes) ==
    LET empty[n \in DOMAIN nodes] ==
            LET part(p) == nodes[p].min = 0 \/ empty[p]
                parts == nodes[n].parts
            IN  CASE nodes[n].term = "sequence" ->
                        \A i \in DOMAIN parts : part(parts[i])
                  [] nodes[n].term = "choice" ->
                        \E i \in DOMAIN parts :
                            nodes[parts[i]].max # 0 /\ part(parts[i])
                  [] OTHER -> FALSE
    IN  {n \in DOMAIN nodes : empty[n]}

(* What may follow when one of the items takes the child, where after[n]   *)
(* is what may follow within one occurrence of node n: [term, rest].       *)
RestsBehind(after, emptiable, items) ==
    LET skippable(item) == item.min = 0 \/ item.node \in emptiable
        heads == {k \in DOMAIN items :
                     /\ items[k].max # 0
                     /\ \A j \in 1 .. k - 1 : skippable(items[j])}
    IN  UNION {{[term |-> r.term,
                 rest |-> r.rest \o Again(items[k])
                              \o SubSeq(items, k + 1, Len(items))]
                    : r \in after[items[k].node]} : k \in heads}

Rests(nodes, items, child) ==
    LET emptiable == Emptiable(nodes)
        after[n \in DOMAIN nodes] ==
            LET parts == nodes[n].parts
                item(i) == Item(nodes, parts[i])
            IN  CASE nodes[n].term = "sequence" ->
                        RestsBehind(after, emptiable, [i \in DOMAIN parts |-> item(i)])
                  [] nodes[n].term = "choice" ->
                        UNION {RestsBehind(after, emptiable, <<item(i)>>)
                                   : i \in DOMAIN parts}
                  [] OTHER -> IF child \in nodes[n].names
                              THEN {[term |-> n, rest |-> <<>>]} ELSE {}
    IN  RestsBehind(after, emptiable, items)

(* XSD 1.1: an element particle is preferred to a wildcard.                *)
Preferred(type, rests) ==
    LET elements == {r \in rests : type.nodes[r.term].term = "element"} IN
    IF type.version = "1.0" \/ elements = {} THEN rests ELSE elements

Roots(type) == SelectSeq(<<type.base, type.own>>, LAMBDA n : n # 0)

AllRoots(type) ==
    {n \in {type.base, type.own} \ {0} :
        type.nodes[n].term = "all" /\ type.nodes[n].max # 0}

IsAll(type) == AllRoots(type) # {}

(* The rests of the content behind the children.                           *)
RestsAfter(type, children) ==
    FoldLeft(LAMBDA rests, child :
                 Preferred(type, UNION {Rests(type.nodes, r.rest, child) : r \in rests}),
             {[term |-> 0, rest |-> [i \in DOMAIN Roots(type) |->
                                        Item(type.nodes, Roots(type)[i])]]},
             children)

-----------------------------------------------------------------------------
(* An all group: the children are distributed over its particles, within   *)
(* the bounds of each, and a wildcard takes only a child that no element   *)
(* particle could still have taken.                                        *)
AllParts(type) ==
    UNION {{type.nodes[n].parts[i] : i \in DOMAIN type.nodes[n].parts}
               : n \in AllRoots(type)}

AllOptional(type) == \A n \in AllRoots(type) : type.nodes[n].min = 0

Share(f, k, part) == Cardinality({i \in 1 .. k : f[i] = part})

HasRoom(type, f, k, part) ==
    \/ type.nodes[part].max = Unbounded
    \/ Share(f, k, part) < type.nodes[part].max

Distributions(type, children) ==
    {f \in [DOMAIN children -> AllParts(type)] :
        \A i \in DOMAIN children :
            /\ children[i] \in type.nodes[f[i]].names
            /\ HasRoom(type, f, i - 1, f[i])
            /\ type.nodes[f[i]].term = "wildcard" =>
                   ~ \E p \in AllParts(type) :
                        /\ type.nodes[p].term = "element"
                        /\ children[i] \in type.nodes[p].names
                        /\ HasRoom(type, f, i - 1, p)}

-----------------------------------------------------------------------------
(* The particles that may take the child behind children that the          *)
(* particle took; whether those children are all that it needs.            *)
TermsFor(type, children, child) ==
    IF IsAll(type)
    THEN {f[Len(children) + 1] : f \in Distributions(type, Append(children, child))}
    ELSE {r.term : r \in RestsAfter(type, Append(children, child))}

Completes(type, children) ==
    IF IsAll(type)
    THEN \/ AllOptional(type) /\ children = <<>>
         \/ \E f \in Distributions(type, children) : \A p \in AllParts(type) :
                Share(f, Len(children), p) >= type.nodes[p].min
    ELSE \E r \in RestsAfter(type, children) : \A i \in DOMAIN r.rest :
             r.rest[i].min = 0 \/ r.rest[i].node \in Emptiable(type.nodes)

(* The open content of an extension is its own and that of its base.       *)
NoOpenContent == [mode |-> "none", names |-> {}]

OpenContent(type) ==
    IF type.own_open = NoOpenContent THEN type.base_open
    ELSE [type.own_open EXCEPT !.names = @ \cup type.base_open.names]

(* How children are read: those that the particle takes, and whether the   *)
(* suffix that only open content may fill has begun.                       *)
Reading(type, children) ==
    FoldLeft(LAMBDA reading, child :
                 IF ~ reading.suffix /\ TermsFor(type, reading.declared, child) # {}
                 THEN [reading EXCEPT !.declared = Append(@, child)]
                 ELSE [reading EXCEPT !.suffix =
                           OpenContent(type).mode = "suffix"],
             [declared |-> <<>>, suffix |-> FALSE], children)

TakenByOpenContent(type, reading, child) ==
    /\ child \in OpenContent(type).names
    /\ \/ OpenContent(type).mode = "interleave"
       \/ /\ OpenContent(type).mode = "suffix"
          /\ Completes(type, reading.declared)

(* The terms that may take the child next; 0 stands for open content.      *)
Takers(type, reading, child) ==
    LET terms == IF reading.suffix THEN {}
                 ELSE TermsFor(type, reading.declared, child)
    IN  IF terms # {} THEN terms
        ELSE IF TakenByOpenContent(type, reading, child) THEN {0} ELSE {}
=============================================================================
