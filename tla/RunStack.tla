------------------------------- MODULE RunStack -------------------------------
(***************************************************************************)
(* The stack of pending runs of the TimSort (src/src/xpath/timsort.rs):    *)
(* the array is cut into runs from left to right, each is pushed, and      *)
(* neighbours are merged.  This module has the bases and lengths of the    *)
(* runs; what is in them and how two are merged is TimSort's.              *)
(***************************************************************************)
EXTENDS Integers, Sequences

CONSTANTS
    Lengths, \* lengths of the arrays
    MinMerge \* MIN_MERGE: shorter arrays are sorted without merges

ASSUME RunStackAssumption ==
    /\ Lengths \subseteq Nat
    /\ MinMerge \in Nat /\ MinMerge >= 2

VARIABLES
    length, \* length of the array
    lo,     \* the elements before it are cut into runs
    stack,  \* run_base and run_len, up to stack_size
    stage   \* where sort() is; "panicked" when an index was out of bounds

runVars == <<length, lo, stack, stage>>

Run == [base : Nat, len : Nat]

Least(x, y) == IF x <= y THEN x ELSE y

-----------------------------------------------------------------------------
(* The length of the allocated stack.                                      *)
StackLen(m) ==
    CASE m < 120 -> 5
      [] m \in 120 .. 1541 -> 10
      [] m \in 1542 .. 119150 -> 19
      [] OTHER -> 40

(* min_run_length: the leading bits of m, and one more if any of the bits  *)
(* that were shifted off is set.                                           *)
Halved[m \in Nat] ==
    IF m < MinMerge THEN [bits |-> m, odd |-> 0]
    ELSE LET half == Halved[m \div 2]
         IN  IF m % 2 = 1 THEN [half EXCEPT !.odd = 1] ELSE half

MinRun(m) == Halved[m].bits + Halved[m].odd

Top(i) == stack[Len(stack) - i].len

(* merge_collapse: a run is merged while it is not longer than the two, or *)
(* the one, behind it; of the three topmost runs, the middle one with the   *)
(* shorter neighbour.                                                      *)
Crowded == Len(stack) > 2 /\ Top(2) <= Top(1) + Top(0)
Overtaken == Len(stack) > 1 /\ Top(1) <= Top(0)
ShorterBelow == Len(stack) > 2 /\ Top(2) < Top(0)

(* Mutant of Merged: the third last run is merged, the last is dropped.    *)
MergedTop(rs, i) ==
    [j \in 1 .. Len(rs) - 1 |->
        IF j = i THEN [base |-> rs[i].base, len |-> rs[i].len + rs[i + 1].len]
        ELSE rs[j]]

(* merge_at: the runs i and i+1 are one; the run behind them slides over.  *)
Merged(rs, i) ==
    [j \in 1 .. Len(rs) - 1 |->
        CASE j < i -> rs[j]
          [] j = i -> [base |-> rs[i].base, len |-> rs[i].len + rs[i + 1].len]
          [] OTHER -> rs[j + 1]]

-----------------------------------------------------------------------------
StackInit ==
    /\ length \in Lengths
    /\ lo = 0
    /\ stack = <<>>
    /\ stage = "called"

(* sort: an array of less than two elements is returned as it is.          *)
Begin ==
    /\ stage = "called"
    /\ stage' = CASE length < 2 -> "sorted"
                  [] length \in 2 .. MinMerge - 1 -> "mini"
                  [] OTHER -> "march"
    /\ UNCHANGED <<length, lo, stack>>

MiniSort ==
    /\ stage = "mini"
    /\ stage' = "sorted"
    /\ UNCHANGED <<length, lo, stack>>

(* A natural run, extended to MinRun or to what remains, is pushed.        *)
PushRun(len) ==
    /\ stage = "march"
    /\ len \in 1 .. length - lo /\ len >= Least(MinRun(length), length - lo)
    /\ IF Len(stack) < StackLen(length)
       THEN /\ stack' = Append(stack, [base |-> lo, len |-> len])
            /\ lo' = lo + len
            /\ stage' = "collapse"
       ELSE /\ stage' = "panicked"
            /\ UNCHANGED <<lo, stack>>
    /\ UNCHANGED length

CollapseAt(i) ==
    /\ stage = "collapse" /\ (Crowded \/ Overtaken)
    /\ i = Len(stack) - (IF Crowded /\ ShorterBelow THEN 2 ELSE 1)
    /\ stack' = Merged(stack, i)
    /\ UNCHANGED <<length, lo, stage>>

Collapsed ==
    /\ stage = "collapse" /\ ~ Crowded /\ ~ Overtaken
    /\ stage' = IF lo = length THEN "force" ELSE "march"
    /\ UNCHANGED <<length, lo, stack>>

(* merge_force_collapse.                                                   *)
ForceAt(i) ==
    /\ stage = "force" /\ Len(stack) > 1
    /\ i = Len(stack) - (IF ShorterBelow THEN 2 ELSE 1)
    /\ stack' = Merged(stack, i)
    /\ UNCHANGED <<length, lo, stage>>

Forced ==
    /\ stage = "force" /\ Len(stack) <= 1
    /\ stage' = "sorted"
    /\ UNCHANGED <<length, lo, stack>>

StackNext ==
    \/ Begin \/ MiniSort \/ Collapsed \/ Forced
    \/ \E len \in 1 .. length : PushRun(len)
    \/ \E i \in 1 .. Len(stack) : CollapseAt(i) \/ ForceAt(i)

StackSpec == StackInit /\ [][StackNext]_runVars

-----------------------------------------------------------------------------
(* The runs on the stack lie side by side from the front of the array to   *)
(* lo, none is empty, and at the end there is one run, of all the array    *)
(* (merge_at: "base1 + len1 == base2", "len1 > 0 && len2 > 0").            *)
RunsAdjacent ==
    /\ \A i \in 1 .. Len(stack) : stack[i].len > 0
    /\ \A i \in 1 .. Len(stack) - 1 :
           stack[i].base + stack[i].len = stack[i + 1].base
    /\ stack # <<>> =>
          /\ stack[1].base = 0
          /\ stack[Len(stack)].base + stack[Len(stack)].len = lo
    /\ stage = "sorted" /\ length >= MinMerge => stack = <<[base |-> 0, len |-> length]>>

(* The stack, whose length follows from that of the array, has room for    *)
(* every run (new: "we use smaller (but sufficiently large) stack lengths  *)
(* for smaller arrays").                                                   *)
StackSufficient == stage # "panicked"
=============================================================================
