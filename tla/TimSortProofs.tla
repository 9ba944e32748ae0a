----------------------------- MODULE TimSortProofs -----------------------------
(***************************************************************************)
(* Proofs about RunStack and TimSort: the pending runs lie side by side,   *)
(* whatever runs the array has and wherever a merge is chosen, in the      *)
(* stack alone and in the sort that works on it.                           *)
(***************************************************************************)
EXTENDS TimSort, SequenceTheorems, TLAPS

-----------------------------------------------------------------------------
(* Runs that lie side by side, from the front up to the end.               *)
SideBySide(rs, end) ==
    /\ rs \in Seq(Run)
    /\ \A i \in 1 .. Len(rs) : rs[i].len > 0
    /\ \A i \in 1 .. Len(rs) - 1 : rs[i].base + rs[i].len = rs[i + 1].base
    /\ rs # <<>> => rs[1].base = 0 /\ rs[Len(rs)].base + rs[Len(rs)].len = end
    /\ rs = <<>> => end = 0

(* push_run adds a run where the last one ends.                            *)
LEMMA PushedSideBySide ==
    ASSUME NEW rs, NEW end \in Nat, NEW len \in Nat, len > 0, SideBySide(rs, end)
    PROVE  /\ SideBySide(Append(rs, [base |-> end, len |-> len]), end + len)
           /\ Append(rs, [base |-> end, len |-> len]) # <<>>
<1> DEFINE r == [base |-> end, len |-> len]
           s == Append(rs, r)
<1>1. rs \in Seq(Run) /\ r \in Run
  BY DEF SideBySide, Run
<1>2. /\ s \in Seq(Run) /\ Len(s) = Len(rs) + 1 /\ Len(rs) \in Nat
      /\ \A i \in 1 .. Len(rs) : s[i] = rs[i]
      /\ s[Len(rs) + 1] = r
  BY <1>1
<1>3. r.base = end /\ r.len = len
  OBVIOUS
<1> HIDE DEF r, s
<1>4. \A i \in 1 .. Len(s) : s[i].len > 0
  BY <1>2, <1>3 DEF SideBySide
<1>5. ASSUME NEW i \in 1 .. Len(s) - 1
      PROVE  s[i].base + s[i].len = s[i + 1].base
  <2>1. CASE i < Len(rs)
    <3>1. i \in 1 .. Len(rs) - 1 /\ i + 1 \in 1 .. Len(rs)
      BY <2>1, <1>2
    <3> QED BY <3>1, <1>2 DEF SideBySide
  <2>2. CASE i = Len(rs)
    <3>1. rs # <<>> /\ i \in 1 .. Len(rs)
      BY <2>2, <1>2
    <3> QED BY <3>1, <2>2, <1>2, <1>3 DEF SideBySide
  <2> QED BY <2>1, <2>2, <1>2
<1>6. s[1].base = 0
  <2>1. CASE rs = <<>>
    BY <2>1, <1>2, <1>3 DEF SideBySide
  <2>2. CASE rs # <<>>
    <3>1. 1 \in 1 .. Len(rs)
      BY <2>2, <1>1
    <3> QED BY <3>1, <2>2, <1>2 DEF SideBySide
  <2> QED BY <2>1, <2>2
<1>7. s # <<>> /\ s[Len(s)].base + s[Len(s)].len = end + len
  BY <1>2, <1>3
<1> QED BY <1>2, <1>4, <1>5, <1>6, <1>7 DEF SideBySide, s, r

(* merge_at leaves one run where there were two neighbours.                *)
LEMMA MergedSideBySide ==
    ASSUME NEW rs, NEW end \in Nat, SideBySide(rs, end),
           NEW i \in Nat, i >= 1, i + 1 <= Len(rs)
    PROVE  SideBySide(Merged(rs, i), end) /\ Merged(rs, i) # <<>>
<1> DEFINE s == Merged(rs, i)
<1>1. rs \in Seq(Run) /\ Len(rs) \in Nat /\ \A j \in 1 .. Len(rs) : rs[j] \in Run
  BY DEF SideBySide
<1>2. /\ DOMAIN s = 1 .. Len(rs) - 1
      /\ \A j \in 1 .. Len(rs) - 1 :
             /\ j < i => s[j] = rs[j]
             /\ j = i => s[j] = [base |-> rs[i].base, len |-> rs[i].len + rs[i + 1].len]
             /\ j > i => s[j] = rs[j + 1]
  BY <1>1 DEF Merged
<1>3. i \in 1 .. Len(rs) /\ i + 1 \in 1 .. Len(rs)
  BY <1>1
<1>4. /\ rs[i].base \in Nat /\ rs[i].len \in Nat /\ rs[i + 1].len \in Nat
      /\ rs[i].len > 0 /\ rs[i + 1].len > 0
      /\ rs[i].base + rs[i].len = rs[i + 1].base
  BY <1>1, <1>3 DEF SideBySide, Run
<1>5. s[i] \in Run /\ s[i].base = rs[i].base /\ s[i].len = rs[i].len + rs[i + 1].len
  BY <1>2, <1>3, <1>4 DEF Run
<1> HIDE DEF s
<1>6. \A j \in 1 .. Len(rs) - 1 : s[j] \in Run
  <2> TAKE j \in 1 .. Len(rs) - 1
  <2>1. j \in 1 .. Len(rs) /\ j + 1 \in 1 .. Len(rs)
    BY <1>1
  <2> QED BY <2>1, <1>1, <1>2, <1>5
<1>7. s \in Seq(Run) /\ Len(s) = Len(rs) - 1 /\ s # <<>>
  <2>1. Len(rs) - 1 \in Nat /\ s = [j \in 1 .. Len(rs) - 1 |-> s[j]]
    BY <1>1, <1>2, <1>3 DEF s, Merged
  <2>2. s \in Seq(Run)
    BY <2>1, <1>6
  <2> QED BY <2>2, <1>2, <1>1, <1>3
<1>8. \A j \in 1 .. Len(s) : s[j].len > 0
  <2> TAKE j \in 1 .. Len(s)
  <2>1. j \in 1 .. Len(rs) /\ j + 1 \in 1 .. Len(rs) /\ j \in 1 .. Len(rs) - 1
    BY <1>1, <1>7
  <2>2. CASE j = i
    BY <2>2, <1>4, <1>5
  <2>3. CASE j # i
    BY <2>1, <2>3, <1>2, <1>3, <1>1 DEF SideBySide
  <2> QED BY <2>2, <2>3
<1>9. \A j \in 1 .. Len(s) - 1 : s[j].base + s[j].len = s[j + 1].base
  <2> TAKE j \in 1 .. Len(s) - 1
  <2>1. /\ j \in 1 .. Len(rs) - 1 /\ j + 1 \in 1 .. Len(rs) - 1
        /\ j \in Int /\ i \in Int
    BY <1>1, <1>7
  <2>2. rs[j + 1].base + rs[j + 1].len = rs[j + 2].base
    <3>1. \A k \in 1 .. Len(rs) - 1 : rs[k].base + rs[k].len = rs[k + 1].base
      BY DEF SideBySide
    <3>2. rs[j + 1].base + rs[j + 1].len = rs[(j + 1) + 1].base
      BY <2>1, <3>1
    <3>3. (j + 1) + 1 = j + 2
      BY <2>1
    <3> QED BY <3>2, <3>3
  <2>3. CASE j + 1 < i
    BY <2>1, <2>3, <1>2 DEF SideBySide
  <2>4. CASE j + 1 = i
    BY <2>1, <2>4, <1>2, <1>5 DEF SideBySide
  <2>5. CASE j = i
    <3>1. s[j + 1] = rs[j + 2]
      BY <2>1, <2>5, <1>2
    <3>2. rs[j + 1].base \in Nat
      BY <2>5, <1>1, <1>3 DEF Run
    <3> QED BY <3>1, <3>2, <2>2, <2>5, <1>4, <1>5
  <2>6. CASE j > i
    <3>1. s[j] = rs[j + 1] /\ s[j + 1] = rs[j + 2]
      BY <2>1, <2>6, <1>2
    <3> QED BY <3>1, <2>2
  <2> QED BY <2>1, <2>3, <2>4, <2>5, <2>6
<1>10. s[1].base = 0
  <2>1. 1 \in 1 .. Len(rs) - 1 /\ rs # <<>>
    BY <1>1, <1>3
  <2>2. s[1].base = rs[1].base
    BY <2>1, <1>2, <1>5
  <2> QED BY <2>1, <2>2 DEF SideBySide
<1>11. s[Len(s)].base + s[Len(s)].len = end
  <2>1. rs[Len(rs)].base + rs[Len(rs)].len = end
    BY <1>1, <1>3 DEF SideBySide
  <2>2. CASE i = Len(s)
    <3>1. i + 1 = Len(rs)
      BY <2>2, <1>7, <1>1
    <3>2. rs[i + 1].base \in Nat
      BY <1>1, <1>3 DEF Run
    <3> QED BY <3>1, <3>2, <2>1, <2>2, <1>4, <1>5
  <2>3. CASE i # Len(s)
    <3>1. Len(s) \in 1 .. Len(rs) - 1 /\ Len(s) > i /\ Len(s) + 1 = Len(rs)
      BY <2>3, <1>7, <1>1, <1>3
    <3>2. s[Len(s)] = rs[Len(rs)]
      BY <3>1, <1>2
    <3> QED BY <3>2, <2>1
  <2> QED BY <2>2, <2>3
<1> QED BY <1>7, <1>8, <1>9, <1>10, <1>11 DEF SideBySide, s

-----------------------------------------------------------------------------
(* The inductive invariant: the runs end at lo at every stage, some are    *)
(* there once the first was pushed, none is outside when they are forced   *)
(* together, and only a short array is sorted without them.                *)
StackInv ==
    /\ length \in Nat /\ lo \in Nat
    /\ SideBySide(stack, lo)
    /\ stage \in {"collapse", "force"} => stack # <<>>
    /\ stage = "force" => lo = length
    /\ stage = "mini" => length < MinMerge
    /\ stage = "sorted" /\ length >= MinMerge =>
          stack = <<[base |-> 0, len |-> length]>>

LEMMA StackInitInv == StackInit => StackInv
<1> SUFFICES ASSUME StackInit PROVE StackInv
  OBVIOUS
<1> QED BY RunStackAssumption DEF StackInit, StackInv, SideBySide

(* An index out of bounds, and a comparison that contradicts itself, leave *)
(* the stack as it is.                                                     *)
Panic == stage' = "panicked" /\ UNCHANGED <<length, lo, stack>>

LEMMA PanicStepInv ==
    ASSUME StackInv, Panic
    PROVE  StackInv'
BY DEF StackInv, Panic, SideBySide

LEMMA PushStepInv ==
    ASSUME StackInv, NEW len, PushRun(len)
    PROVE  StackInv'
<1>1. CASE Len(stack) < StackLen(length)
  <2>1. /\ len \in Nat /\ len > 0 /\ length' = length /\ stage' = "collapse"
        /\ stack' = Append(stack, [base |-> lo, len |-> len]) /\ lo' = lo + len
    BY <1>1 DEF PushRun, StackInv
  <2>2. SideBySide(stack', lo') /\ stack' # <<>>
    BY <2>1, PushedSideBySide DEF StackInv
  <2> QED BY <2>1, <2>2 DEF StackInv
<1>2. CASE ~ (Len(stack) < StackLen(length))
  BY <1>2, PanicStepInv DEF PushRun, Panic
<1> QED BY <1>1, <1>2

LEMMA MergeStepInv ==
    ASSUME StackInv, NEW i \in 1 .. Len(stack), CollapseAt(i) \/ ForceAt(i)
    PROVE  StackInv'
<1>1. Len(stack) \in Nat
  BY DEF StackInv, SideBySide
<1>2. i \in Nat /\ i >= 1 /\ i + 1 <= Len(stack)
  BY <1>1 DEF CollapseAt, ForceAt, Crowded, Overtaken, ShorterBelow
<1>3. /\ stack' = Merged(stack, i) /\ UNCHANGED <<length, lo, stage>>
      /\ stage \in {"collapse", "force"}
  BY DEF CollapseAt, ForceAt
<1>4. SideBySide(stack', lo) /\ stack' # <<>>
  BY <1>2, <1>3, MergedSideBySide DEF StackInv
<1> QED BY <1>3, <1>4 DEF StackInv

(* The other steps leave the stack as it is; at the last one there is only *)
(* one run left.                                                           *)
LEMMA StageStepInv ==
    ASSUME StackInv, Begin \/ MiniSort \/ Collapsed \/ Forced
    PROVE  StackInv'
<1>1. UNCHANGED <<length, lo, stack>> /\ SideBySide(stack', lo')
  BY DEF StackInv, Begin, MiniSort, Collapsed, Forced
<1>2. CASE Begin
  BY <1>1, <1>2, RunStackAssumption DEF StackInv, Begin
<1>3. CASE MiniSort
  BY <1>1, <1>3, RunStackAssumption DEF StackInv, MiniSort
<1>4. CASE Collapsed
  BY <1>1, <1>4 DEF StackInv, Collapsed
<1>5. CASE Forced
  <2>1. /\ Len(stack) \in Nat /\ Len(stack) <= 1 /\ stack # <<>> /\ lo = length
        /\ stack \in Seq(Run)
    BY <1>5 DEF StackInv, Forced, SideBySide
  <2>2. Len(stack) = 1
    BY <2>1
  <2>3. stack[1].base = 0 /\ stack[1].base + stack[1].len = length /\ stack[1] \in Run
    BY <2>1, <2>2 DEF StackInv, SideBySide
  <2>4. stack[1] = [base |-> 0, len |-> length]
    BY <2>3 DEF Run
  <2>5. stack = <<stack[1]>>
    BY <2>1, <2>2
  <2> QED BY <1>1, <1>5, <2>1, <2>4, <2>5 DEF StackInv, Forced
<1> QED BY <1>2, <1>3, <1>4, <1>5

LEMMA StackStepInv ==
    ASSUME StackInv, [StackNext]_runVars \/ Panic
    PROVE  StackInv'
<1>1. CASE UNCHANGED runVars
  BY <1>1 DEF StackInv, runVars, SideBySide
<1>2. CASE Begin \/ MiniSort \/ Collapsed \/ Forced
  BY <1>2, StageStepInv
<1>3. CASE \E len \in 1 .. length : PushRun(len)
  BY <1>3, PushStepInv
<1>4. CASE \E i \in 1 .. Len(stack) : CollapseAt(i) \/ ForceAt(i)
  BY <1>4, MergeStepInv
<1> QED BY <1>1, <1>2, <1>3, <1>4, PanicStepInv DEF StackNext

LEMMA StackInvImpliesAdjacent == StackInv => RunsAdjacent
BY DEF StackInv, RunsAdjacent, SideBySide

(* The runs on the stack lie side by side, for any array and any runs in   *)
(* it: what merge_at asserts of the two it merges.                         *)
THEOREM StackRunsAdjacent == StackSpec => []RunsAdjacent
<1>1. StackInv /\ [StackNext]_runVars => StackInv'
  BY StackStepInv
<1> QED BY StackInitInv, <1>1, StackInvImpliesAdjacent, PTL DEF StackSpec

-----------------------------------------------------------------------------
(* Every step of the sort is one of the stack, leaves it, or panics.       *)
LEMMA SortStepsTheStack ==
    ASSUME StackInv, [SortNext]_sortVars
    PROVE  [StackNext]_runVars \/ Panic
<1>1. CASE UNCHANGED sortVars
  BY <1>1 DEF sortVars, runVars
<1>2. CASE NothingToSort \/ MergePair \/ GallopFirst \/ GallopSecond \/ Undecorate
  BY <1>2 DEF NothingToSort, MergePair, GallopFirst, GallopSecond, Undecorate
<1>3. CASE Decorate
  BY <1>3 DEF Decorate, StackNext
<1>4. CASE SortMini
  BY <1>4 DEF SortMini, StackNext
<1>5. CASE CutRun
  <2>1. PICK len : PushRun(len)
    BY <1>5 DEF CutRun
  <2>2. len \in 1 .. length
    BY <2>1 DEF PushRun, StackInv
  <2> QED BY <2>1, <2>2 DEF StackNext
<1>6. CASE \E i \in 1 .. Len(stack) : MergeCollapse(i)
  BY <1>6 DEF MergeCollapse, StackNext
<1>7. CASE MergesDone
  BY <1>7 DEF MergesDone, StackNext
<1>8. CASE FinishMerge
  BY <1>8 DEF FinishMerge, Panic, runVars
<1> QED BY <1>1, <1>2, <1>3, <1>4, <1>5, <1>6, <1>7, <1>8 DEF SortNext

(* So the runs of sort_by_keys lie side by side, whatever its rows, keys   *)
(* and criteria are, and whether its comparisons fail or not.              *)
THEOREM SortRunsAdjacent == SortSpec => []RunsAdjacent
<1>1. SortInit => StackInv
  BY StackInitInv DEF SortInit
<1>2. StackInv /\ [SortNext]_sortVars => StackInv'
  BY SortStepsTheStack, StackStepInv
<1> QED BY <1>1, <1>2, StackInvImpliesAdjacent, PTL DEF SortSpec
=============================================================================
