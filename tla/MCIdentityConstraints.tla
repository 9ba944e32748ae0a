------------------------- MODULE MCIdentityConstraints -------------------------
(* TLC instances of IdentityConstraints, documents of a few elements under *)
(* a root that carries constraints; and, in behaviours of their own, of    *)
(* the matcher alone.                                                      *)
EXTENDS IdentityConstraints, MCActiveAxis

VARIABLE part

partVars == <<part, vars, axisVars>>

NoAxis == ast = <<>> /\ axis = Inactive(<<>>) /\ trail = <<>>

PartInit ==
    \/ part = "documents" /\ Init /\ NoAxis
    \/ part = "axis" /\ schema = (CHOOSE s \in Schema : TRUE) /\ Init /\ AxisInit

PartNext ==
    \/ part = "documents" /\ Next /\ UNCHANGED <<part, axisVars>>
    \/ part = "axis" /\ AxisNext /\ UNCHANGED <<part, vars>>

PartSpec == PartInit /\ [][PartNext]_partVars

-----------------------------------------------------------------------------
MCText == {"", "1", "2"}
MCPoint == {"one", "two"}
MCPrim == {"decimal"}

Decimal(point, t) ==
    [shape |-> "atom", text |-> t,
     items |-> <<[prim |-> "decimal", point |-> point, text |-> t]>>]

One == Decimal("one", "1")
Two == Decimal("two", "2")
MCNil == [shape |-> "untyped", text |-> "", items |-> <<>>]
MCValues == {One, Two, MCNil}
MCOneValue == {One}

MCName == {"r", "i", "x", "a"}
MCAttributes == {"a"}

-----------------------------------------------------------------------------
Path(descendant, steps) == <<[descendant |-> descendant, steps |-> steps]>>
Child(n) == [axis |-> "child", test |-> {n}]
Self == [axis |-> "self", test |-> {}]
At(n) == [axis |-> "attribute", test |-> {n}]

Constraining(k, selector, fields, refer) ==
    [kind |-> k, selector |-> selector, fields |-> fields, refer |-> refer]

(* A constraint of one field is one with the same field twice.             *)
Twice(field) == <<field, field>>

Complex == [NoContent EXCEPT !.complex = TRUE]
Typed(v) == [NoContent EXCEPT !.typed = v]
Nil == [NoContent EXCEPT !.nil = TRUE]

Element(n, parents, constraints, contents) ==
    [name |-> n, global |-> parents = {}, within |-> parents,
     constraints |-> constraints, assessed |-> TRUE,
     attributes |-> {}, contents |-> contents]

WithAttributes(d) == [d EXCEPT !.attributes = MCAttributes]
Undeclared(d) == [d EXCEPT !.assessed = FALSE, !.contents = {Complex}]

-----------------------------------------------------------------------------
(* Nested targets: a key and a unique over all the i, by their x children. *)
NestedCompiled ==
    [c \in {"key", "unique"} |->
        Constraining(c, Path(TRUE, <<Child("i")>>),
                     Twice(Path(FALSE, <<Child("x")>>)), c)]

NestedDeclarations ==
    {Element("r", {}, {"key", "unique"}, {Complex}),
     Element("i", {"r", "i"}, {}, {Complex}),
     Element("x", {"i"}, {}, {Typed(One), Nil, NoContent})}

-----------------------------------------------------------------------------
(* Two fields: attributes, also through a union and on the target itself,  *)
(* attributes and elements without a value, fields that select several     *)
(* nodes or an element with complex content, a selector of `.'.            *)
FieldsCompiled ==
    [c \in {"key", "unique"} |->
        IF c = "key"
        THEN Constraining("key", Path(FALSE, <<Child("i")>>),
                 <<Path(FALSE, <<At("a")>>) \o Path(TRUE, <<Child("x"), At("a")>>),
                   Path(FALSE, <<Child("x")>>)>>, c)
        ELSE Constraining("unique", Path(FALSE, <<Self>>) \o Path(FALSE, <<Child("i")>>),
                 <<Path(FALSE, <<Child("x"), At("a")>>),
                   Path(TRUE, <<Child("x")>>)>>, c)]

FieldsDeclarations ==
    {Element("r", {}, {"key", "unique"}, {Complex}),
     WithAttributes(Element("i", {"r"}, {}, {Complex})),
     WithAttributes(Element("x", {"i", "x"}, {}, {Typed(One), Complex}))}

(* Keyrefs on the root and on the groups, to keys that only the groups     *)
(* carry: a group's key is no target for its siblings and its parents'     *)
(* siblings, but is one for its ancestors.                                 *)
KeyrefsCompiled ==
    [c \in {"key", "ref", "all"} |->
        IF c = "all"
        THEN Constraining("keyref", Path(TRUE, <<Child("x")>>),
                          Twice(Path(FALSE, <<Self>>)), "key")
        ELSE Constraining(IF c = "key" THEN "key" ELSE "keyref",
                          Path(FALSE, <<Child(IF c = "key" THEN "i" ELSE "x")>>),
                          Twice(Path(FALSE, <<Self>>)), "key")]

KeyrefsDeclarations ==
    {Element("r", {}, {"key", "ref"}, {Complex}),
     Element("a", {"r", "a", "i"}, {"key", "all"}, {Complex}),
     Undeclared(Element("i", {"r", "a"}, {}, {})),
     Element("i", {"r", "a"}, {}, {Typed(One)}),
     Element("x", {"r", "a"}, {}, {Typed(One), Typed(Two)})}

(* Overlapping targets whose field selects attributes further down.        *)
OverlapCompiled ==
    [c \in {"key"} |->
        Constraining("key", Path(TRUE, <<Child("i")>>),
                     Twice(Path(TRUE, <<Child("x"), At("a")>>)), c)]

OverlapDeclarations ==
    {Element("r", {}, {"key"}, {Complex}),
     Element("i", {"r", "i"}, {}, {Complex}),
     WithAttributes(Element("x", {"i"}, {}, {Complex}))}

Validated(compiled, declarations) ==
    [compiled |-> compiled, declarations |-> declarations]

MCSchemas ==
    {Validated(NestedCompiled, NestedDeclarations),
     Validated(FieldsCompiled, FieldsDeclarations),
     Validated(KeyrefsCompiled, KeyrefsDeclarations)}

OverlapSchemas == {Validated(OverlapCompiled, OverlapDeclarations)}
=============================================================================
