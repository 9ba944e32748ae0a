---------------------------- MODULE MCComposition -----------------------------
(* TLC instances of Composition: small graphs of documents whose directives*)
(* name one component, and the children a directive may have.              *)
EXTENDS MCDirectiveWalk, Composition

InA(kind, name) == [kind |-> kind, namespace |-> "A", name |-> name]
Type == InA("complex", "x")
Simple == InA("simple", "x")
Group == InA("group", "g")

OfType(t) == [target |-> t, children |-> <<[identity |-> Type, references |-> "own"]>>]

(* A document of namespace A with a directive for each edge, by target.    *)
Document(edges, d, declares) ==
    LET To(kind, Made(_)) ==
            LET targets == SetToSortSeq({e \in 1 .. 4 : edges[d, e] = kind}, <)
            IN  [i \in DOMAIN targets |-> Made(targets[i])]
    IN  [namespace |-> "A", declares |-> declares,
         include |-> To("include", LAMBDA t : [target |-> t, children |-> <<>>]),
         redefine |-> To("redefine", OfType), override |-> To("override", OfType)]

Kinds == {"none", "include", "redefine", "override"}

Linked(n, edges, declaring) ==
    [d \in 1 .. n |-> Document(edges, d, IF d = declaring THEN {Type} ELSE {})]

(* All acyclic graphs of four documents, numbered from the outermost (as   *)
(* the walk does) or to it (as callers that load dependencies first do).   *)
AcyclicGraph ==
    \E f \in [{p \in (1 .. 4) \X (1 .. 4) : p[1] < p[2]} -> Kinds] :
        \/ loaded = Linked(4, [a, b \in 1 .. 4 |-> IF a < b THEN f[a, b] ELSE "none"], 4)
        \/ \E declaring \in {1, 2} :
              loaded = Linked(4, [a, b \in 1 .. 4 |-> IF b < a THEN f[b, a] ELSE "none"],
                              declaring)

(* Cycles of includes and redefinitions among three documents.             *)
CyclicGraph ==
    \E f \in [{p \in (1 .. 3) \X (1 .. 3) : p[1] # p[2]} -> {"none", "include", "redefine"}],
       declaring \in {1, 3, 4} :
        loaded = Linked(4, [a, b \in 1 .. 4 |->
                              IF <<a, b>> \in DOMAIN f THEN f[a, b]
                              ELSE IF a = 1 /\ b = 4 THEN "include" ELSE "none"], declaring)

-----------------------------------------------------------------------------
(* A document with directives to another, whose children are of several    *)
(* kinds, refer to their names in several ways, come twice, or have no     *)
(* document to come from.                                                  *)
ChildOf(identity, references) == [identity |-> identity, references |-> references]

ChildLists ==
    {<<ChildOf(Type, "own")>>, <<ChildOf(Type, "other")>>, <<ChildOf(Simple, "own")>>,
     <<ChildOf(Group, "own")>>, <<ChildOf(Group, "none")>>, <<ChildOf(Group, "twice")>>,
     <<ChildOf(Type, "own"), ChildOf(Group, "none")>>, <<ChildOf(Group, "own"), ChildOf(Group, "own")>>}

Bare(namespace, declares) ==
    [namespace |-> namespace, declares |-> declares,
     include |-> <<>>, redefine |-> <<>>, override |-> <<>>]

OneDirective == {<<[target |-> t, children |-> cs]>> : t \in {0, 2}, cs \in ChildLists}

TwoDocuments ==
    \E redefine \in {<<>>} \cup OneDirective,
       override \in {<<>>} \cup OneDirective
                     \cup {<<[target |-> 2, children |-> <<ChildOf(i, "own")>>],
                            [target |-> 2, children |-> <<ChildOf(Group, "own")>>]>> :
                              i \in {Type, Group}},
       namespace \in {"A", "B", NoNamespace}, declared \in {{Type}, {Simple, Group}} :
        loaded = <<[Bare("A", {}) EXCEPT
                       !.redefine = redefine, !.override = override,
                       !.include = <<[target |-> 2, children |-> <<>>]>>],
                   Bare(namespace, {[i EXCEPT !.namespace = namespace] : i \in declared})>>

-----------------------------------------------------------------------------
(* Composition alone, over documents that were added one by one, and what  *)
(* the walk hands over: two documents of one namespace or of two, and two  *)
(* without, that declare, redefine and override one name.                  *)
ComposedWorld(a, b, c, d, roots, space, declaring) ==
    [SpaceWorld(a, b, c, d, roots, NoCatalog) EXCEPT
        !.declared["b"] = space, !.declares[declaring] = {X}]

Own == <<Self(X, "own")>>

ComposedWorlds ==
    {ComposedWorld(a, b, c, <<>>, IF apart THEN <<"b", "a">> ELSE <<"a">>,
                   IF apart THEN "B" ELSE "A", IF c = <<>> THEN "c" ELSE "d") :
        a \in UpToTwo({Includes("b"), Includes("c"), Redefines("b", Own),
                       Redefines("c", Own), Overrides("c", Own), Overrides("u", Own)}),
        b \in UpToTwo({Includes("c"), Redefines("c", Own), Redefines("a", Own),
                       Overrides("c", Own)}),
        c \in {<<>>, <<Redefines("d", Own)>>, <<Overrides("d", Own)>>},
        apart \in BOOLEAN}

(* Nothing to walk.                                                        *)
Unread == SpaceWorld(<<>>, <<>>, <<>>, <<>>, <<>>, NoCatalog)

BuildWorlds == {Unread} \cup ComposedWorlds \cup MCWorlds

Given ==
    /\ AcyclicGraph \/ CyclicGraph \/ TwoDocuments
    /\ stage = "originals"
    /\ component_index = IndexOf(loaded) /\ namespace_tables = TablesOf(loaded)
    /\ queue = <<>> /\ failure = "none" /\ effective_components = <<>>
    /\ redefine_original = <<>> /\ restriction_checks = {} /\ schema_defaults_doc = <<>>

BuildInit ==
    /\ Init
    /\ IF world # Unread THEN CompositionInit
       ELSE Given

buildVars == <<vars, compositionVars>>
BuildSpec == BuildInit /\ [][BuildNext]_buildVars /\ WF_vars(Next)

-----------------------------------------------------------------------------
(* A document includes one that redefines it.                              *)
IncluderRedefined ==
    {ComposedWorld(<<Includes("b"), Redefines("c", Own)>>, <<Redefines("a", Own)>>,
                   <<>>, <<>>, <<"a">>, "A", "c")}
=============================================================================
