---------------------------- MODULE MCDirectiveWalk ----------------------------
(* TLC instances of DirectiveWalk: small graphs of directives.             *)
EXTENDS DirectiveWalk

Includes(l) ==
    [kind |-> "include", location |-> l, namespace |-> NoNamespace, children |-> <<>>]
Imports(l, n) ==
    [kind |-> "import", location |-> l, namespace |-> n, children |-> <<>>]
Redefines(l, cs) ==
    [kind |-> "redefine", location |-> l, namespace |-> NoNamespace, children |-> cs]
Overrides(l, cs) ==
    [kind |-> "override", location |-> l, namespace |-> NoNamespace, children |-> cs]

(* The sequences of at most two directives, in the order of their kinds.   *)
Rank(d) == CHOOSE i \in 1 .. 4 : d.kind = <<"include", "import", "redefine", "override">>[i]
UpToTwo(ds) ==
    {<<>>} \cup {<<d>> : d \in ds}
           \cup {<<d, e>> \in ds \X ds : d # e /\ Rank(d) <= Rank(e)}

MCNamespaces == {"A", "B"}

(* A component of each document's own, and one that several have something *)
(* to say about.                                                           *)
Named(name) == [kind |-> "complex", name |-> name]
X == Named("x")
Self(component, references) == [component |-> component, references |-> references]
MCComponents == {Named(name) : name \in {"x", "a", "b", "c", "d", "u"}}
NoCatalog == [n \in {} |-> n]

MCLocations == {"a", "b", "c", "d", "u"}

-----------------------------------------------------------------------------
(* Two documents and three that they include: chains that meet, and limits *)
(* that cut them.                                                          *)
DepthWorlds ==
    {[declared |-> [l \in MCLocations |-> "A"],
      directives |-> [l \in MCLocations |->
          CASE l = "a" -> a [] l = "b" -> b [] l = "c" -> c [] l = "d" -> d
            [] l = "u" -> u],
      status |-> [l \in MCLocations |-> "schema"],
      declares |-> [l \in MCLocations |-> {Named(l)}], catalog |-> NoCatalog,
      roots |-> <<"a", "b">>, max_depth |-> limit] :
        a \in {<<Includes("c")>>, <<Includes("c"), Includes("d")>>},
        b \in UpToTwo({Includes("c"), Includes("d"), Includes("u")}),
        c \in UpToTwo({Includes("d"), Includes("u")}),
        d \in UpToTwo({Includes("c"), Includes("u")}),
        u \in {<<>>, <<Includes("c")>>},
        limit \in {1, 2}}

-----------------------------------------------------------------------------
(* Documents of two namespaces (a and b), two without one (c and d), and   *)
(* one that cannot be read (u).                                            *)

SpaceWorld(a, b, c, d, roots, catalog) ==
    [declared |-> [l \in MCLocations |->
         CASE l = "a" -> "A" [] l = "b" -> "B" [] OTHER -> NoNamespace],
     directives |-> [l \in MCLocations |->
         CASE l = "a" -> a [] l = "b" -> b [] l = "c" -> c [] l = "d" -> d
           [] OTHER -> <<>>],
     status |-> [l \in MCLocations |->
         IF l = "u" THEN "unreadable" ELSE "schema"],
     declares |-> [l \in MCLocations |-> {}], catalog |-> catalog,
     roots |-> roots, max_depth |-> 0]

SpaceWorlds ==
    {SpaceWorld(a, b, c, d, roots, catalog) :
        a \in UpToTwo({Includes("c"), Includes("b"), Imports("b", "B"),
                       Imports("u", "B"), Overrides("d", <<>>)}),
        b \in UpToTwo({Includes("c"), Imports("a", "A"), Redefines("u", <<Self(X, "own")>>)}),
        c \in UpToTwo({Includes("c"), Includes("d"), Imports("b", "B")}),
        d \in {<<>>, <<Includes("c")>>, <<Imports(NoLocation, "B")>>},
        roots \in {<<"a">>}, catalog \in {NoCatalog, [n \in {"B"} |-> "b"]}}
        \cup
    {SpaceWorld(a, b, c, <<>>, <<"a", "b">>, NoCatalog) :
        a \in UpToTwo({Includes("c"), Includes("b"), Imports("b", "B")}),
        b \in UpToTwo({Includes("c"), Imports("a", "A")}),
        c \in UpToTwo({Includes("c"), Includes("d"), Imports("b", "B")})}

(* A document without a namespace that is adopted and read as it is, also  *)
(* by an import of another namespace.                                      *)
MixedWorlds ==
    {SpaceWorld(a, b, c, <<>>, roots, NoCatalog) :
        a \in UpToTwo({Includes("c"), Imports("c", "B"), Imports("c", NoNamespace)}),
        b \in {<<>>, <<Imports("c", NoNamespace)>>},
        c \in {<<>>, <<Includes("d")>>, <<Imports("b", "B")>>},
        roots \in {<<"a">>, <<"a", "b">>}}

MCWorlds == DepthWorlds \cup SpaceWorlds \cup MixedWorlds
=============================================================================
