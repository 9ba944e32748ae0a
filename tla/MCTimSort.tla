------------------------------ MODULE MCTimSort ------------------------------
(* TLC instances of TimSort: arrays of rising runs of different lengths    *)
(* with few different numbers, short arrays in any order, keys of every    *)
(* class under every criterion, and rows that do not compare.              *)
EXTENDS TimSort

MCLengths == 0 .. 64

AKey(class, v) == [class |-> class, value |-> v]
Criterion(direction, empty) == [direction |-> direction, empty |-> empty]
Rising == Criterion("ascending", "least")
MCCriteria == {Criterion(d, e) : d \in {"ascending", "descending"}, e \in {"least", "greatest"}}

(* By one number.                                                          *)
ByNumber(s) == [specs |-> <<Rising>>, keys |-> [i \in DOMAIN s |-> <<AKey("number", s[i])>>]]

RisingRuns(len, max) ==
    {s \in [1 .. len -> 1 .. max] : \A i \in 1 .. len - 1 : s[i] <= s[i + 1]}

RunCalls ==
    {ByNumber(s \o t) : s \in RisingRuns(5, 3), t \in RisingRuns(5, 3)}
        \cup {ByNumber(s \o t \o u) : s \in RisingRuns(4, 2), t \in RisingRuns(3, 2),
                                      u \in RisingRuns(5, 3)}
AnyOrderCalls == {ByNumber(s) : s \in [1 .. 7 -> 1 .. 2] \cup [1 .. 5 -> 1 .. 3]}

(* By one key of any class, one of the rows possibly failing.              *)
SomeKeys ==
    {AKey("empty", 0), AKey("nan", 0), AKey("number", 1), AKey("number", 2),
     AKey("string", 1), AKey("untyped", 2)}

ClassCalls ==
    {[specs |-> <<c>>, keys |-> <<<<k>>, <<l>>, <<m>>>>] :
        c \in MCCriteria, k \in SomeKeys \cup {AKey("error", 0)}, l \in SomeKeys, m \in SomeKeys}
        \cup {[specs |-> <<>>, keys |-> <<<<>>, <<>>>>], [specs |-> <<Rising>>, keys |-> <<>>]}

(* By a number, then by a key of one of two classes.                       *)
TwoKeyCalls ==
    {[specs |-> <<Rising, Criterion("descending", "greatest")>>,
      keys |-> [i \in 1 .. 8 |->
                   <<AKey("number", s[i]), AKey(IF i = j THEN "string" ELSE "number", i)>>]] :
        s \in {t \o u : t \in RisingRuns(4, 3), u \in RisingRuns(4, 3)},
        j \in {0, 2, 5, 7}}

MCCalls == RunCalls \cup AnyOrderCalls \cup ClassCalls \cup TwoKeyCalls

-----------------------------------------------------------------------------
(* Thirty-two rows, in two runs whose numbers alternate; only the fourth   *)
(* row of each run tie in the number, and their second keys do not compare.*)
MixedCalls ==
    {[specs |-> <<Rising, Rising>>,
      keys |-> [i \in 1 .. 32 |->
                   IF i <= 16 THEN <<AKey("number", 2 * i), AKey("number", 1)>>
                   ELSE <<AKey("number", IF i = 20 THEN 8 ELSE 2 * (i - 16) - 1),
                          AKey("string", 1)>>]]}
=============================================================================
