----------------------------- MODULE MCActiveAxis -----------------------------
(* TLC instances of ActiveAxis: every expression of one short path, and    *)
(* unions of pairs of paths.                                               *)
EXTENDS ActiveAxis

BySelf == [axis |-> "self", test |-> {}]
ByChild(test) == [axis |-> "child", test |-> test]
ByAttribute(test) == [axis |-> "attribute", test |-> test]

Inner == {BySelf, ByChild({"a"}), ByChild({"a", "x"})}
Final == Inner \cup {ByAttribute({"a"})}

Steps ==
    {<<s>> : s \in Final}
        \cup {<<s, t>> : s \in Inner, t \in Final}
        \cup {<<s, t, u>> : s \in Inner, t \in Inner, u \in Final}

Paths == {path \in [descendant : BOOLEAN, steps : Steps] : IsRegular(path)}

(* Of one step, or of two that both leave the element.                     *)
ShortPaths ==
    {path \in Paths :
        \/ Len(path.steps) = 1
        \/ Len(path.steps) = 2 /\ BySelf \notin {path.steps[1], path.steps[2]}}

MCExpressions == {<<p>> : p \in Paths} \cup {<<p, q>> : p \in ShortPaths, q \in ShortPaths}
=============================================================================
