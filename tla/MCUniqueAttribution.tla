------------------------- MODULE MCUniqueAttribution -------------------------
(* TLC instances of UniqueAttribution: nested groups of three leaves, each *)
(* with the occurrences that the cap tells apart, choices of several       *)
(* leaves, some of them twice, and all groups.                             *)
EXTENDS UniqueAttribution

Leaf(term, name, names, min, max) ==
    [term |-> term, name |-> name, names |-> names, parts |-> <<>>,
     min |-> min, max |-> max]
Compound(term, parts, min, max) ==
    [term |-> term, name |-> "", names |-> {}, parts |-> parts,
     min |-> min, max |-> max]

(* a, an element b, the head h of b's group, the same when abstract in     *)
(* XSD 1.0 and without members, and wildcards that take a or b.            *)
Labels ==
    [a |-> <<"element", "a", {"a"}>>,
     b |-> <<"element", "b", {"b"}>>,
     h |-> <<"element", "h", {"h", "b"}>>,
     abstract |-> <<"element", "h", {}>>,
     any |-> <<"wildcard", "", {"a", "b", "z"}>>,
     other |-> <<"wildcard", "", {"b", "z"}>>]

Labelled(l, b) == Leaf(Labels[l][1], Labels[l][2], Labels[l][3], b[1], b[2])

Content(version, nodes) ==
    [version |-> version, nodes |-> nodes, base |-> 0, own |-> Len(nodes)]

LeafOccurs == {<<0, 1>>, <<1, 1>>, <<0, Unbounded>>, <<2, 4>>, <<3, 3>>}
GroupOccurs == {<<0, 1>>, <<1, 1>>, <<0, 3>>, <<3, 3>>}

(* A group of two leaves, and a third leaf before or behind it.            *)
NestedContents ==
    {Content("1.1", <<Labelled("a", b[1]), Labelled(l[1], b[2]),
                   Compound(g[1], <<1, 2>>, b[4][1], b[4][2]),
                   Labelled(l[2], b[3]), Compound(g[2], parts, 1, 2)>>) :
        b \in LeafOccurs \X {<<0, 1>>, <<1, 3>>} \X {<<1, 1>>, <<0, 4>>}
                 \X GroupOccurs,
        l \in {<<"b", "a">>, <<"a", "b">>, <<"any", "other">>},
        g \in {"sequence", "choice"} \X {"sequence", "choice"},
        parts \in {<<3, 4>>, <<4, 3>>}}

(* Choices of leaves that compete in several ways; one of them is there    *)
(* twice, as it is when a group is referenced twice.                       *)
ChoiceContents ==
    {Content(version, <<Labelled(l[1], <<1, 2>>), Labelled(l[2], <<1, 1>>),
                     Labelled(l[3], <<0, 1>>), Labelled(l[4], <<1, 1>>),
                     Compound("choice", parts, 0, 2)>>) :
        version \in {"1.0", "1.1"},
        l \in {"a", "h", "abstract"} \X {"b", "h", "any"} \X {"a", "h", "other"}
                 \X {"b", "abstract"},
        parts \in {<<1, 2, 1, 3, 4>>, <<4, 3, 2, 3, 1>>}}

AllContents ==
    {Content("1.1", <<Labelled(l[1], <<1, 1>>), Labelled(l[2], <<0, 1>>),
                   Labelled(l[3], b), Compound("all", <<1, 2, 3>>, 1, 1)>>) :
        l \in {"a", "any"} \X {"b", "h"} \X {"h", "a", "other"},
        b \in {<<0, 0>>, <<1, 1>>}}

MCContents == NestedContents \cup ChoiceContents \cup AllContents
=============================================================================
