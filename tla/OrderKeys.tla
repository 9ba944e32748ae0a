------------------------------- MODULE OrderKeys -------------------------------
(***************************************************************************)
(* The keys of `order by' (src/src/compose/order.rs): what a row's keys    *)
(* are and how two rows compare under several criteria.                    *)
(*                                                                         *)
(* A key is [class, value]: "empty" (no key), "nan", a value of one of     *)
(* the classes that compare only with themselves ("number", "string"),     *)
(* "untyped", or "error" when the selector fails.  A criterion is          *)
(* [direction, empty].                                                     *)
(***************************************************************************)
EXTENDS Integers, Sequences

Key == [class : {"empty", "nan", "number", "string", "untyped", "error"}, value : Nat]
KeySpec == [direction : {"ascending", "descending"}, empty : {"least", "greatest"}]

(* cast_untyped_to_string.                                                 *)
Cast(key) == IF key.class = "untyped" THEN [key EXCEPT !.class = "string"] ELSE key

IsValue(key) == key.class \notin {"empty", "nan"}

(* rank: under `greatest' NaN comes behind the values, as the test         *)
(* nan_sits_next_to_the_empty_key has it, and not before them, as the last *)
(* words of order.rs 16-19 say ("so `NaN` precedes every real number in    *)
(* both").                                                                 *)
Rank(key, empty) ==
    CASE empty = "least" ->
            (CASE key.class = "empty" -> 0 [] key.class = "nan" -> 1 [] OTHER -> 2)
      [] empty = "greatest" ->
            (CASE key.class = "empty" -> 2 [] key.class = "nan" -> 1 [] OTHER -> 0)

Ordering(x, y) == CASE x < y -> "Less" [] x = y -> "Equal" [] x > y -> "Greater"

Opposite(order) ==
    CASE order = "Less" -> "Greater" [] order = "Greater" -> "Less" [] OTHER -> order

Directed(order, spec) == IF spec.direction = "ascending" THEN order ELSE Opposite(order)

(* Mutant of CompareKeys: an empty key stays where it is placed.           *)
CompareKeysPlaced(left, right, spec) ==
    CASE Rank(left, spec.empty) # Rank(right, spec.empty) ->
            Ordering(Rank(left, spec.empty), Rank(right, spec.empty))
      [] ~ IsValue(left) \/ ~ IsValue(right) -> "Equal"
      [] left.class # right.class -> "Error"
      [] OTHER -> Directed(Ordering(left.value, right.value), spec)

(* compare_keys; an "Error" is the refusal of value_eq and value_lt to     *)
(* compare values of different classes.                                    *)
CompareKeys(left, right, spec) ==
    IF Rank(left, spec.empty) # Rank(right, spec.empty)
    THEN Directed(Ordering(Rank(left, spec.empty), Rank(right, spec.empty)), spec)
    ELSE IF ~ IsValue(left) THEN "Equal"
    ELSE IF left.class # right.class THEN "Error"
    ELSE Directed(Ordering(left.value, right.value), spec)

(* The first criterion under which the rows differ.                        *)
CompareRows(left, right, specs) ==
    LET order == [c \in DOMAIN specs |-> CompareKeys(left[c], right[c], specs[c])]
        telling == {c \in DOMAIN specs : order[c] # "Equal"}
    IN  IF telling = {} THEN "Equal"
        ELSE order[CHOOSE c \in telling : \A d \in telling : c <= d]

-----------------------------------------------------------------------------
(* The definition: a number for the place of a key under a criterion, below*)
(* or above all the values for an empty key, and next to it, on the side   *)
(* of the values, for NaN.  Of the two things that order.rs 16-19 says of  *)
(* NaN, this is the first ("immediately next to it", "just before it for  *)
(* `Greatest`"), which the tests of that module pin; the second, that NaN  *)
(* precedes every number under `greatest', too, contradicts it.            *)
Above(keys) == 2 + CHOOSE m \in {k.value : k \in keys} : \A k \in keys : k.value <= m

Place(key, spec, keys) ==
    LET extreme == IF spec.empty = "least" THEN -1 ELSE Above(keys) + 1
        beside == IF spec.empty = "least" THEN 0 ELSE Above(keys)
        place == CASE key.class = "empty" -> extreme
                   [] key.class = "nan" -> beside
                   [] OTHER -> key.value + 1
    IN  IF spec.direction = "ascending" THEN place ELSE - place
=============================================================================
