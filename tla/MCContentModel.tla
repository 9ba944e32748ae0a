---------------------------- MODULE MCContentModel ----------------------------
(* TLC instances of ContentModel, small types, one for each construction   *)
(* of the automata and each way of the open content; and, in behaviours of *)
(* their own, of UniqueAttribution.                                        *)
EXTENDS ContentModel, MCUniqueAttribution

VARIABLE part

contentVars == <<part, vars, upaVars>>

NoUpa ==
    /\ content = [nodes |-> <<>>]
    /\ nfa = EpsilonFragment /\ at = 0 /\ conflict = NoConflict

ContentInit ==
    \/ part = "children" /\ Init /\ NoUpa
    \/ part = "attribution" /\ UpaInit
           /\ type = (CHOOSE t \in Types : Loadable(t)) /\ Init

ContentNext ==
    \/ part = "children" /\ Next /\ UNCHANGED <<part, upaVars>>
    \/ part = "attribution" /\ UpaNext /\ UNCHANGED <<part, vars>>

ContentSpec == ContentInit /\ [][ContentNext]_contentVars

-----------------------------------------------------------------------------
El(name, min, max) ==
    [term |-> "element", names |-> {name}, parts |-> <<>>, min |-> min, max |-> max]
Wild(names, min, max) ==
    [term |-> "wildcard", names |-> names, parts |-> <<>>, min |-> min, max |-> max]
Group(term, parts, min, max) ==
    [term |-> term, names |-> {}, parts |-> parts, min |-> min, max |-> max]

Type(version, nodes, open) ==
    [version |-> version, nodes |-> nodes, base |-> 0, own |-> Len(nodes),
     base_open |-> NoOpenContent, own_open |-> open]
Extension(nodes, base, own, base_open, own_open) ==
    [version |-> "1.1", nodes |-> nodes, base |-> base, own |-> own,
     base_open |-> base_open, own_open |-> own_open]
Open(mode, names) == [mode |-> mode, names |-> names]

MCName == {"a", "b", "z"}

-----------------------------------------------------------------------------
(* Occurrences of one element: unrolled, counted, counted behind copies,   *)
(* and with no end.                                                        *)
OccursTypes ==
    {Type("1.0", <<El("a", b[1], b[2]), El("b", 0, 1),
                   Group("sequence", <<1, 2>>, 1, 1)>>, NoOpenContent) :
        b \in {<<0, 2>>, <<0, 3>>, <<1, 4>>, <<3, 4>>, <<2, Unbounded>>,
               <<3, Unbounded>>, <<0, Unbounded>>, <<0, 0>>}}

(* Groups that repeat: bodies that may be empty, loops in loops.           *)
GroupTypes ==
    {Type("1.0", nodes, NoOpenContent) :
        nodes \in {
            <<El("a", 0, 1), El("b", 0, 1), Group("sequence", <<1, 2>>, 0, 3)>>,
            <<El("a", 0, 1), El("b", 0, 1), Group("choice", <<1, 2>>, 2, 3)>>,
            <<El("a", 1, 1), El("b", 0, Unbounded),
              Group("sequence", <<1, 2>>, 0, 1)>>,
            <<El("a", 1, Unbounded), El("b", 1, 1), Group("choice", <<1, 2>>, 3, 4)>>,
            <<El("a", 0, 3), Group("sequence", <<1>>, 3, 4), El("b", 1, 1),
              Group("sequence", <<2, 3>>, 1, 1)>>,
            <<El("a", 1, 1), El("b", 1, 1), Group("sequence", <<1, 2>>, 0, 3),
              El("z", 0, 1), Group("sequence", <<3, 4>>, 1, 1)>>,
            <<El("a", 1, Unbounded), Group("sequence", <<1>>, 1, 3), El("b", 1, 1),
              Group("choice", <<2, 3>>, 1, 4)>>,
            <<El("a", 0, 1), Group("sequence", <<1>>, 3, 3), El("b", 1, 1),
              Group("sequence", <<2, 3>>, 3, 4)>>,
            <<El("a", 0, 3), El("b", 1, 3), Group("sequence", <<1, 2>>, 0, 3)>>,
            <<El("a", 0, 1), Group("sequence", <<1>>, 0, 3), El("b", 0, 1),
              Group("sequence", <<2, 3>>, 0, 3)>>,
            <<El("a", 0, 1), Group("sequence", <<1>>, 1, 4), El("b", 0, 1),
              Group("sequence", <<3>>, 3, 4), Group("sequence", <<2, 4>>, 1, 1)>>,
            <<El("a", 0, 1), Group("sequence", <<1>>, 3, 3), El("b", 1, 1),
              Group("sequence", <<2>>, 0, 4), Group("sequence", <<4, 3>>, 0, 3)>>,
            <<Group("choice", <<>>, 0, 1), Group("choice", <<>>, 1, 1), El("a", 1, 1),
              Group("choice", <<2, 3>>, 1, 1), Group("sequence", <<1, 4>>, 0, Unbounded)>>,
            <<El("a", 1, 1), El("b", 0, 0), El("z", 0, 1),
              Group("choice", <<1, 2, 3>>, 1, 2)>>}}

(* Wildcards beside elements: the element is preferred in XSD 1.1.         *)
WildcardTypes ==
    {Type("1.1", nodes, NoOpenContent) :
        nodes \in {
            <<Wild({"a", "z"}, 0, 2), El("a", 0, 1), Group("sequence", <<1, 2>>, 1, 1)>>,
            <<Wild({"a", "b", "z"}, 0, 3), El("a", 1, 1), El("b", 0, 1),
              Group("choice", <<1, 2>>, 1, 3), Group("sequence", <<4, 3>>, 1, 1)>>,
            <<El("a", 1, 1), Wild({"z", "a"}, 0, Unbounded), Group("all", <<2, 1>>, 1, 1)>>}}

(* All groups, and open content at any place and at the end.               *)
AllTypes ==
    {Type(v, <<El("a", 1, 1), El("b", 0, 1), Group("all", <<1, 2>>, min, 1)>>,
          NoOpenContent) : v \in {"1.0", "1.1"}, min \in {0, 1}}
        \cup
    {Type("1.1", nodes, open) :
        nodes \in {<<El("a", 1, 2), El("b", 0, Unbounded), Group("all", <<1, 2>>, 1, 1)>>,
                   <<El("a", 1, 1), El("b", 1, 1), Group("all", <<1, 2>>, 0, 0)>>},
        open \in {Open("interleave", {"a", "z"}), Open("suffix", {"a", "z"})}}

OpenTypes ==
    {Type("1.1", nodes, open) :
        nodes \in {<<El("a", 1, 1), El("b", 0, 3), Group("sequence", <<1, 2>>, 1, 1)>>,
                   <<El("a", 0, 1), El("b", 0, 1), Group("sequence", <<1, 2>>, 0, 3)>>},
        open \in {Open("interleave", {"b", "z"}), Open("suffix", {"b", "z"})}}

-----------------------------------------------------------------------------
(* Extensions: the content of the base, then the type's own.               *)
Pair == <<El("a", 1, 1), El("b", 0, 3), El("z", 1, 1)>>
AllPair == Pair \o <<Group("all", <<1, 2>>, 1, 1), Group("all", <<3>>, 1, 1)>>
AllPairOptional == Pair \o <<Group("all", <<1, 2>>, 0, 1), Group("all", <<3>>, 0, 1)>>

ExtensionTypes ==
    {Extension(Pair, base, 3, base_open, own_open) :
        base \in {2},
        base_open \in {NoOpenContent, Open("suffix", {"a"})},
        own_open \in {NoOpenContent, Open("interleave", {"b"})}}
        \cup
    {Extension(nodes, 4, own, NoOpenContent, NoOpenContent) :
        nodes \in {AllPair, AllPairOptional}, own \in {0, 5}}
        \cup
    {Extension(AllPair, 4, 0, Open("interleave", {"z"}), NoOpenContent)}

ModelTypes ==
    OccursTypes \cup GroupTypes \cup WildcardTypes \cup AllTypes \cup OpenTypes
        \cup ExtensionTypes

(* An all group that may be left out, with a suffix of open content.       *)
SuffixTypes ==
    {Type("1.1", <<El("a", 1, 1), El("b", 0, 1), Group("all", <<1, 2>>, 0, 1)>>,
          Open("suffix", {"z"}))}
=============================================================================
