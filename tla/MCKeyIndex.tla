------------------------------ MODULE MCKeyIndex ------------------------------
(* TLC instances of KeyIndex: values of every shape that compares through  *)
(* a different rule, and hashes that collide.                              *)
EXTENDS KeyIndex, FiniteSets

MCText == {"", "1", "1.0", "12Z", "13+1"}
MCPoint == {"one", "noon"}
MCPrim == {"decimal", "string", "dateTime"}
MCCoarse == {"dateTime"}

Atom(p, point, t) == [prim |-> p, point |-> point, text |-> t]
TypedAtom(p, point, t) ==
    [shape |-> "atom", text |-> t, items |-> <<Atom(p, point, t)>>]

Untyped1 == [shape |-> "untyped", text |-> "1", items |-> <<>>]
Decimal1 == TypedAtom("decimal", "one", "1")
Decimal10 == TypedAtom("decimal", "one", "1.0")
String1 == TypedAtom("string", "one", "1")
Noon == TypedAtom("dateTime", "noon", "12Z")
NoonShifted == TypedAtom("dateTime", "noon", "13+1")
UntypedAtomic1 == TypedAtom(NoPrim, "one", "1")
ListOf1 ==
    [shape |-> "list", text |-> "1", items |-> <<Atom("decimal", "one", "1.0")>>]
EmptyList == [shape |-> "list", text |-> "", items |-> <<>>]

(* One field, every shape.                                                 *)
MCValues ==
    {Untyped1, Decimal1, Decimal10, String1, Noon, NoonShifted,
     UntypedAtomic1, ListOf1, EmptyList}

(* A hash with collisions: it keeps the tag of the first field's key only. *)
MCHash(keys) == keys[1][1]
MCHashCode == {"string", "atomic", "coarse", "list", "mixed", "absent"}
=============================================================================
