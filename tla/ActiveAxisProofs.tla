---------------------------- MODULE ActiveAxisProofs ----------------------------
(***************************************************************************)
(* Proof that the streaming matcher reports what XPath selects, for every  *)
(* expression and every sequence of tags.  The lemmas are about an axis a  *)
(* of any expression that has followed the tags of the elements `open'.    *)
(* Those about the selector and the fields of a constraint, which are such *)
(* axes, and about its key sequences come last.                            *)
(***************************************************************************)
EXTENDS ActiveAxis, FieldValues, FiniteSetTheorems, WellFoundedInduction, TLAPS

-----------------------------------------------------------------------------
(* The steps that wait for a child of the innermost open element: the      *)
(* child steps whose predecessors lead to it.                              *)
Waiting(path, open) ==
    {k \in 1 .. Len(path.steps) :
        path.steps[k].axis = "child" /\ Leads(path, k - 1, Len(open), open)}

(* What a context says of the element it belongs to.                       *)
Describes(path, context, open) ==
    /\ Candidates(path, context) = Waiting(path, open)
    /\ context.awaiting_attribute <=> SelectsOwner(path, open)
    /\ context.matched_here # {} <=>
          SelectsOwner(path, open) \/ (open # <<>> /\ SelectsElement(path, open))
    /\ context.awaiting_attribute => Len(path.steps) \in context.matched_here

Described(path, context, open) ==
    IF Visible(open) THEN Describes(path, context, open)
                     ELSE context = SkippedContext

ContextType ==
    [active_steps : SUBSET (Nat \ {0}), matched_here : SUBSET (Nat \ {0}),
     awaiting_attribute : BOOLEAN, try_from_start : BOOLEAN]

AxisType(expression) ==
    [active : BOOLEAN, current_depth : Int,
     context_stack : [DOMAIN expression -> Seq(ContextType)],
     scope_match : BOOLEAN, entered_match : BOOLEAN, exited_match : BOOLEAN]

OfPaths(expression) == \A p \in DOMAIN expression : IsPath(expression[p])
OfRegularPaths(expression) == \A p \in DOMAIN expression : IsRegular(expression[p])

(* An axis that has followed the tags of the open elements: every context  *)
(* on its stacks describes the element it was pushed for.                  *)
Tracks(expression, a, open) ==
    /\ a \in AxisType(expression)
    /\ a.active
    /\ a.current_depth = Len(open)
    /\ \A p \in DOMAIN expression : Len(a.context_stack[p]) = Len(open) + 1
    /\ a.scope_match <=>
          \E p \in DOMAIN expression : FirstReal(expression[p]) > Len(expression[p].steps)
    /\ OfRegularPaths(expression) =>
          \A p \in DOMAIN expression : \A d \in 0 .. Len(open) :
              Described(expression[p], a.context_stack[p][d + 1], SubSeq(open, 1, d))

(* Below a skipped element all are skipped.                                *)
SkippedInside(open) ==
    \A i, j \in 1 .. Len(open) : i <= j /\ open[i] = Skipped => open[j] = Skipped

(* The inductive invariant.                                                *)
AxisInv ==
    /\ ast \in Expressions
    /\ axis \in AxisType(ast)
    /\ trail \in Seq(ElementName \cup {Skipped})
    /\ SkippedInside(trail)
    /\ axis.active => Tracks(ast, axis, trail)

-----------------------------------------------------------------------------
(* Numbers have a least one among them.                                    *)
LEMMA LeastNatural ==
    ASSUME NEW S, S \subseteq Nat, S # {}
    PROVE  \E n \in S : \A m \in S : n <= m
<1> DEFINE R == OpToRel(<, Nat)
<1>1. \A m, n \in Nat : m < n => <<m, n>> \in R
  BY DEF OpToRel
<1>2. IsWellFoundedOn(R, Nat)
  BY NatLessThanWellFounded
<1> HIDE DEF R
<1>3. PICK n \in S : \A m \in S : ~(<<m, n>> \in R)
  BY <1>2, WFMin
<1>4. ASSUME NEW m \in S PROVE n <= m
  <2>1. m \in Nat /\ n \in Nat /\ ~(m < n)
    BY <1>1, <1>3
  <2> QED BY <2>1
<1> QED BY <1>4

(* Induction up to a bound, over a set of numbers.                         *)
LEMMA BoundedInduction ==
    ASSUME NEW N \in Nat, NEW S, 0 \in S,
           \A m \in 0 .. N - 1 : m \in S => m + 1 \in S
    PROVE  \A m \in 0 .. N : m \in S
<1> DEFINE Missing == {m \in 0 .. N : m \notin S}
<1> SUFFICES ASSUME Missing # {} PROVE FALSE
  OBVIOUS
<1>1. PICK n \in Missing : \A m \in Missing : n <= m
  <2>1. Missing \subseteq Nat
    OBVIOUS
  <2> HIDE DEF Missing
  <2> QED BY <2>1, LeastNatural
<1>2. n \in Nat \ {0} /\ n - 1 \in 0 .. N - 1 /\ n - 1 \notin Missing
  BY <1>1
<1> QED BY <1>1, <1>2

-----------------------------------------------------------------------------
(* Paths and their steps.                                                  *)

LEMMA PathSteps ==
    ASSUME NEW path, IsPath(path)
    PROVE  /\ Len(path.steps) \in Nat \ {0}
           /\ \A j \in 1 .. Len(path.steps) :
                 /\ path.steps[j].axis \in {"self", "child", "attribute"}
                 /\ path.steps[j].axis = "attribute" => j = Len(path.steps)
<1>1. /\ path.steps \in Seq(Step) /\ path.steps # <<>>
      /\ \A j \in 1 .. Len(path.steps) - 1 : path.steps[j].axis # "attribute"
  BY DEF IsPath
<1>2. \A j \in 1 .. Len(path.steps) : path.steps[j] \in Step
  BY <1>1
<1>3. Len(path.steps) \in Nat \ {0}
  BY <1>1
<1> QED BY <1>1, <1>2, <1>3 DEF Step

(* skip_self_nodes finds the first step that is not `.'.                   *)
LEMMA SkipSelfIsFirst ==
    ASSUME NEW steps, Len(steps) \in Nat, NEW j \in 1 .. Len(steps) + 1
    PROVE  /\ SkipSelf(steps, j) \in j .. Len(steps) + 1
           /\ \A i \in j .. SkipSelf(steps, j) - 1 : steps[i].axis = "self"
           /\ SkipSelf(steps, j) <= Len(steps) =>
                 steps[SkipSelf(steps, j)].axis # "self"
           /\ \A k \in j .. Len(steps) + 1 :
                 (k = Len(steps) + 1 \/ steps[k].axis # "self") =>
                    (SkipSelf(steps, j) = k <=>
                        \A i \in j .. k - 1 : steps[i].axis = "self")
<1> DEFINE L == Len(steps)
           First(k) == /\ k = Len(steps) + 1 \/ steps[k].axis # "self"
                       /\ \A i \in j .. k - 1 : steps[i].axis = "self"
           Real == {k \in j .. L + 1 : k = L + 1 \/ steps[k].axis # "self"}
<1>1. PICK n \in Real : \A m \in Real : n <= m
  <2>1. Real \subseteq Nat /\ L + 1 \in Real
    OBVIOUS
  <2> QED BY <2>1, LeastNatural
<1>2. n \in j .. L + 1 /\ First(n)
  BY <1>1
<1>3. SkipSelf(steps, j) \in j .. L + 1 /\ First(SkipSelf(steps, j))
  BY <1>2 DEF SkipSelf
<1>4. ASSUME NEW k \in j .. L + 1, NEW l \in j .. L + 1, First(k), First(l)
      PROVE  k = l
  <2>1. ~(k < l)
    <3> SUFFICES ASSUME k < l PROVE FALSE
      OBVIOUS
    <3>1. k \in j .. l - 1 /\ k # L + 1
      OBVIOUS
    <3> QED BY <3>1, <1>4
  <2>2. ~(l < k)
    <3> SUFFICES ASSUME l < k PROVE FALSE
      OBVIOUS
    <3>1. l \in j .. k - 1 /\ l # L + 1
      OBVIOUS
    <3> QED BY <3>1, <1>4
  <2> QED BY <2>1, <2>2
<1> QED BY <1>3, <1>4

-----------------------------------------------------------------------------
(* Where the first steps of a path lead, a step at a time.                 *)

LEMMA LeadsNowhere ==
    ASSUME NEW path, NEW d \in Nat, NEW open
    PROVE  Leads(path, 0, d, open) <=> d = 0 \/ path.descendant
<1>1. ASSUME Leads(path, 0, d, open) PROVE d = 0 \/ path.descendant
  BY <1>1 DEF Leads
<1>2. ASSUME d = 0 \/ path.descendant PROVE Leads(path, 0, d, open)
  <2> DEFINE at == [i \in 0 .. 0 |-> d]
  <2>1. at \in [0 .. 0 -> 0 .. d] /\ at[0] = d
    OBVIOUS
  <2> HIDE DEF at
  <2> QED BY <1>2, <2>1 DEF Leads
<1> QED BY <1>1, <1>2

(* Every step stays or goes down.                                          *)
LEMMA StepsGoDown ==
    ASSUME NEW n \in Nat, NEW at \in [0 .. n -> Nat],
           \A j \in 1 .. n : at[j] = at[j - 1] \/ at[j] = at[j - 1] + 1
    PROVE  \A j \in 0 .. n : at[j] <= at[n]
<1> DEFINE S == {m \in 0 .. n : at[n - m] <= at[n]}
<1>1. 0 \in S
  OBVIOUS
<1>2. ASSUME NEW m \in 0 .. n - 1, m \in S PROVE m + 1 \in S
  <2>1. n - m \in 1 .. n /\ (n - m) - 1 = n - (m + 1) /\ n - (m + 1) \in 0 .. n
    OBVIOUS
  <2>2. at[n - m] = at[n - (m + 1)] \/ at[n - m] = at[n - (m + 1)] + 1
    BY <2>1
  <2>3. at[n - m] \in Nat /\ at[n - (m + 1)] \in Nat /\ at[n] \in Nat
    BY <2>1
  <2> QED BY <1>2, <2>1, <2>2, <2>3
<1>3. \A m \in 0 .. n : m \in S
  <2> HIDE DEF S
  <2> QED BY <1>1, <1>2, BoundedInduction
<1>4. ASSUME NEW j \in 0 .. n PROVE at[j] <= at[n]
  <2>1. n - j \in 0 .. n /\ n - (n - j) = j
    OBVIOUS
  <2> QED BY <1>3, <2>1
<1> QED BY <1>4

LEMMA LeadsOn ==
    ASSUME NEW path, NEW n \in Nat, NEW d \in Nat, NEW open,
           path.steps[n + 1].axis \in {"self", "child", "attribute"}
    PROVE  Leads(path, n + 1, d, open) <=>
              \/ /\ path.steps[n + 1].axis = "self"
                 /\ Leads(path, n, d, open)
              \/ /\ path.steps[n + 1].axis = "child" /\ d > 0
                 /\ open[d] \in path.steps[n + 1].test
                 /\ Leads(path, n, d - 1, open)
<1> DEFINE Stays(at, j) == path.steps[j].axis = "self" /\ at[j] = at[j - 1]
           Falls(at, j) == /\ path.steps[j].axis = "child"
                           /\ at[j] = at[j - 1] + 1
                           /\ open[at[j]] \in path.steps[j].test
<1>1. ASSUME Leads(path, n + 1, d, open)
      PROVE  \/ /\ path.steps[n + 1].axis = "self"
                /\ Leads(path, n, d, open)
             \/ /\ path.steps[n + 1].axis = "child" /\ d > 0
                /\ open[d] \in path.steps[n + 1].test
                /\ Leads(path, n, d - 1, open)
  <2>1. PICK at \in [0 .. n + 1 -> 0 .. d] :
           /\ at[0] = 0 \/ path.descendant
           /\ at[n + 1] = d
           /\ \A j \in 1 .. n + 1 : Stays(at, j) \/ Falls(at, j)
    BY <1>1 DEF Leads
  <2> DEFINE before == [j \in 0 .. n |-> at[j]]
  <2>2. /\ before \in [0 .. n -> Nat]
        /\ \A j \in 0 .. n : before[j] = at[j] /\ before[j] \in 0 .. d
        /\ before[0] = 0 \/ path.descendant
    BY <2>1
  <2>3. \A j \in 1 .. n : Stays(before, j) \/ Falls(before, j)
    <3> SUFFICES ASSUME NEW j \in 1 .. n
                 PROVE  Stays(before, j) \/ Falls(before, j)
      OBVIOUS
    <3>1. j \in 1 .. n + 1 /\ j \in 0 .. n /\ j - 1 \in 0 .. n
      OBVIOUS
    <3>2. before[j] = at[j] /\ before[j - 1] = at[j - 1]
      BY <3>1
    <3> HIDE DEF before
    <3> QED BY <2>1, <3>1, <3>2
  <2>4. \A j \in 0 .. n : before[j] <= before[n]
    <3>1. \A j \in 1 .. n : before[j] = before[j - 1] \/ before[j] = before[j - 1] + 1
      BY <2>3
    <3> HIDE DEF before
    <3> QED BY <2>2, <3>1, StepsGoDown
  <2>5. before \in [0 .. n -> 0 .. before[n]]
    BY <2>2, <2>4
  <2>6. Leads(path, n, before[n], open)
    <3> HIDE DEF before
    <3> QED BY <2>2, <2>3, <2>5 DEF Leads
  <2>7. before[n] = at[n] /\ at[n] \in 0 .. d
    BY <2>2
  <2>8. Stays(at, n + 1) \/ Falls(at, n + 1)
    BY <2>1
  <2> HIDE DEF before
  <2>9. (n + 1) - 1 = n
    OBVIOUS
  <2>10. CASE Stays(at, n + 1)
    BY <2>1, <2>6, <2>7, <2>9, <2>10
  <2>11. CASE Falls(at, n + 1)
    <3>1. at[n] = d - 1 /\ d > 0
      BY <2>1, <2>7, <2>9, <2>11
    <3> QED BY <2>1, <2>6, <2>7, <2>11, <3>1
  <2> QED BY <2>8, <2>10, <2>11
<1>2. ASSUME NEW e \in 0 .. d, Leads(path, n, e, open),
             \/ path.steps[n + 1].axis = "self" /\ d = e
             \/ /\ path.steps[n + 1].axis = "child" /\ d = e + 1
                /\ open[d] \in path.steps[n + 1].test
      PROVE  Leads(path, n + 1, d, open)
  <2>1. PICK at \in [0 .. n -> 0 .. e] :
           /\ at[0] = 0 \/ path.descendant
           /\ at[n] = e
           /\ \A j \in 1 .. n : Stays(at, j) \/ Falls(at, j)
    BY <1>2 DEF Leads
  <2> DEFINE after == [j \in 0 .. n + 1 |-> IF j = n + 1 THEN d ELSE at[j]]
  <2>2. /\ after[n + 1] = d
        /\ \A j \in 0 .. n : after[j] = at[j]
        /\ after \in [0 .. n + 1 -> 0 .. d]
    BY <2>1
  <2> HIDE DEF after
  <2>3. ASSUME NEW j \in 1 .. n + 1 PROVE Stays(after, j) \/ Falls(after, j)
    <3>1. CASE j = n + 1
      <4>1. after[j] = d /\ after[j - 1] = e
        BY <2>1, <2>2, <3>1
      <4> QED BY <1>2, <3>1, <4>1
    <3>2. CASE j # n + 1
      <4>1. j \in 1 .. n /\ after[j] = at[j] /\ after[j - 1] = at[j - 1]
        BY <2>2, <3>2
      <4> QED BY <2>1, <4>1
    <3> QED BY <3>1, <3>2
  <2> QED BY <2>1, <2>2, <2>3 DEF Leads
<1>3. ASSUME path.steps[n + 1].axis = "self", Leads(path, n, d, open)
      PROVE  Leads(path, n + 1, d, open)
  BY <1>2, <1>3
<1>4. ASSUME path.steps[n + 1].axis = "child", d > 0,
             open[d] \in path.steps[n + 1].test, Leads(path, n, d - 1, open)
      PROVE  Leads(path, n + 1, d, open)
  <2>1. d - 1 \in 0 .. d /\ d = (d - 1) + 1
    BY <1>4
  <2> QED BY <1>2, <1>4, <2>1
<1> QED BY <1>1, <1>3, <1>4

(* Only the elements down to d matter.                                     *)
LEMMA LeadsByPrefix ==
    ASSUME NEW path, NEW n \in Nat, NEW d \in Nat, NEW open, NEW other,
           \A i \in 1 .. d : open[i] = other[i],
           Leads(path, n, d, open)
    PROVE  Leads(path, n, d, other)
<1>1. PICK at \in [0 .. n -> 0 .. d] :
         /\ at[0] = 0 \/ path.descendant
         /\ at[n] = d
         /\ \A j \in 1 .. n :
               \/ path.steps[j].axis = "self" /\ at[j] = at[j - 1]
               \/ /\ path.steps[j].axis = "child"
                  /\ at[j] = at[j - 1] + 1
                  /\ open[at[j]] \in path.steps[j].test
  BY DEF Leads
<1>2. ASSUME NEW j \in 1 .. n, at[j] = at[j - 1] + 1
      PROVE  open[at[j]] = other[at[j]]
  <2>1. at[j] \in 0 .. d /\ at[j - 1] \in 0 .. d
    OBVIOUS
  <2>2. at[j] \in 1 .. d
    BY <1>2, <2>1
  <2> QED BY <2>2
<1> QED BY ZenonT(60), <1>1, <1>2 DEF Leads

-----------------------------------------------------------------------------
(* What leads to a child that has just been opened, and to the scope       *)
(* element.                                                                *)

SelfOnly(path, i, j) == \A k \in i .. j : path.steps[k].axis = "self"

(* The last child step that was taken led from the parent to the child,    *)
(* unless `.//' begins there.                                              *)
Arrives(path, m, d, open) ==
    \/ \E j \in 1 .. m :
          /\ path.steps[j].axis = "child" /\ open[d] \in path.steps[j].test
          /\ Leads(path, j - 1, d - 1, open)
          /\ SelfOnly(path, j + 1, m)
    \/ path.descendant /\ SelfOnly(path, 1, m)

LEMMA LeadsIsArrives ==
    ASSUME NEW path, IsPath(path), NEW d \in Nat \ {0}, NEW open
    PROVE  \A m \in 0 .. Len(path.steps) :
              Leads(path, m, d, open) <=> Arrives(path, m, d, open)
<1> DEFINE L == Len(path.steps)
           S == {m \in 0 .. L : Leads(path, m, d, open) <=> Arrives(path, m, d, open)}
<1>1. L \in Nat
  BY PathSteps
<1>2. 0 \in S
  <2>1. Arrives(path, 0, d, open) <=> path.descendant
    BY DEF Arrives, SelfOnly
  <2> QED BY <1>1, <2>1, LeadsNowhere
<1>3. ASSUME NEW m \in 0 .. L - 1, m \in S PROVE m + 1 \in S
  <2>1. m \in Nat /\ m + 1 \in 1 .. L /\ path.steps[m + 1].axis \in {"self", "child", "attribute"}
    BY <1>1, PathSteps
  <2>2. Leads(path, m, d, open) <=> Arrives(path, m, d, open)
    BY <1>3
  <2>3. \A i \in 1 .. m + 1 : SelfOnly(path, i, m + 1)
                            <=> path.steps[m + 1].axis = "self" /\ SelfOnly(path, i, m)
    BY <2>1 DEF SelfOnly
  <2>4. SelfOnly(path, m + 2, m + 1)
    BY <2>1 DEF SelfOnly
  <2>0. Leads(path, m + 1, d, open) <=>
           \/ /\ path.steps[m + 1].axis = "self"
              /\ Leads(path, m, d, open)
           \/ /\ path.steps[m + 1].axis = "child" /\ d > 0
              /\ open[d] \in path.steps[m + 1].test
              /\ Leads(path, m, d - 1, open)
    <3>1. m \in Nat /\ d \in Nat
      BY <2>1
    <3> QED BY SMTT(30), <2>1, <3>1, LeadsOn
  <2> DEFINE Last(j, n) == /\ path.steps[j].axis = "child" /\ open[d] \in path.steps[j].test
                           /\ Leads(path, j - 1, d - 1, open)
                           /\ SelfOnly(path, j + 1, n)
  <2>5. CASE path.steps[m + 1].axis = "self"
    <3>1. \A j \in 1 .. m : Last(j, m + 1) <=> Last(j, m)
      BY <2>1, <2>3, <2>5
    <3>2. Arrives(path, m + 1, d, open) <=> Arrives(path, m, d, open)
      <4>1. \A j \in 1 .. m + 1 : j \in 1 .. m \/ j = m + 1
        BY <2>1
      <4>2. SelfOnly(path, 1, m + 1) <=> SelfOnly(path, 1, m)
        BY <2>1, <2>3, <2>5
      <4> QED BY <2>1, <2>5, <3>1, <4>1, <4>2 DEF Arrives
    <3>3. Leads(path, m + 1, d, open) <=> Leads(path, m, d, open)
      BY <2>0, <2>5
    <3> QED BY <2>1, <2>2, <3>2, <3>3
  <2>6. CASE path.steps[m + 1].axis = "child"
    <3>1. ~ SelfOnly(path, 1, m + 1) /\ \A j \in 1 .. m : ~ SelfOnly(path, j + 1, m + 1)
      BY <2>1, <2>3, <2>6
    <3>2. Arrives(path, m + 1, d, open)
             <=> open[d] \in path.steps[m + 1].test /\ Leads(path, m, d - 1, open)
      <4>1. \A j \in 1 .. m + 1 : j \in 1 .. m \/ j = m + 1
        BY <2>1
      <4>2. (m + 1) - 1 = m /\ (m + 1) + 1 = m + 2 /\ m + 1 \in 1 .. m + 1
        BY <2>1
      <4>3. Arrives(path, m + 1, d, open) <=> \E j \in 1 .. m + 1 : Last(j, m + 1)
        BY <3>1 DEF Arrives
      <4>4. Last(m + 1, m + 1)
               <=> open[d] \in path.steps[m + 1].test /\ Leads(path, m, d - 1, open)
        BY <2>4, <2>6, <4>2
      <4>5. \A j \in 1 .. m : ~ Last(j, m + 1)
        BY <3>1
      <4> HIDE DEF Last
      <4> QED BY <4>1, <4>2, <4>3, <4>4, <4>5
    <3> QED BY <2>0, <2>1, <2>6, <3>2
  <2>7. CASE path.steps[m + 1].axis = "attribute"
    <3>1. ~ SelfOnly(path, 1, m + 1) /\ \A j \in 1 .. m : ~ SelfOnly(path, j + 1, m + 1)
      BY <2>1, <2>3, <2>7
    <3>2. ~ Arrives(path, m + 1, d, open)
      <4>1. \A j \in 1 .. m + 1 : j \in 1 .. m \/ j = m + 1
        BY <2>1
      <4> QED BY <2>7, <3>1, <4>1 DEF Arrives
    <3> QED BY <2>0, <2>1, <2>7, <3>2
  <2> QED BY <2>1, <2>5, <2>6, <2>7
<1> HIDE DEF S
<1>4. \A m \in 0 .. L : m \in S
  BY <1>1, <1>2, <1>3, BoundedInduction
<1> QED BY <1>4 DEF S

LEMMA LeadsToScope ==
    ASSUME NEW path, IsPath(path), NEW open
    PROVE  \A m \in 0 .. Len(path.steps) :
              Leads(path, m, 0, open) <=> SelfOnly(path, 1, m)
<1> DEFINE L == Len(path.steps)
           S == {m \in 0 .. L : Leads(path, m, 0, open) <=> SelfOnly(path, 1, m)}
<1>1. L \in Nat
  BY PathSteps
<1>2. 0 \in S
  BY <1>1, LeadsNowhere DEF SelfOnly
<1>3. ASSUME NEW m \in 0 .. L - 1, m \in S PROVE m + 1 \in S
  <2>1. m \in Nat /\ m + 1 \in 1 .. L /\ path.steps[m + 1].axis \in {"self", "child", "attribute"}
    BY <1>1, PathSteps
  <2>2. SelfOnly(path, 1, m + 1)
           <=> path.steps[m + 1].axis = "self" /\ SelfOnly(path, 1, m)
    BY <2>1 DEF SelfOnly
  <2>0. ASSUME NEW d \in Nat, ~ (d > 0)
        PROVE  Leads(path, m + 1, d, open)
                  <=> path.steps[m + 1].axis = "self" /\ Leads(path, m, d, open)
    <3>1. Leads(path, m + 1, d, open) <=>
             \/ /\ path.steps[m + 1].axis = "self"
                /\ Leads(path, m, d, open)
             \/ /\ path.steps[m + 1].axis = "child" /\ d > 0
                /\ open[d] \in path.steps[m + 1].test
                /\ Leads(path, m, d - 1, open)
      BY <2>1, LeadsOn
    <3> QED BY <2>0, <3>1
  <2>3. Leads(path, m + 1, 0, open)
           <=> path.steps[m + 1].axis = "self" /\ Leads(path, m, 0, open)
    <3>1. ~ (0 > 0)
      OBVIOUS
    <3> QED BY <2>0, <3>1
  <2> QED BY <1>3, <2>1, <2>2, <2>3
<1> HIDE DEF S
<1>4. \A m \in 0 .. L : m \in S
  BY <1>1, <1>2, <1>3, BoundedInduction
<1> QED BY <1>4 DEF S

-----------------------------------------------------------------------------
RealStep(path, k) == k = Len(path.steps) + 1 \/ path.steps[k].axis # "self"

(* Which real step comes after `.' steps from j on.                        *)
LEMMA SkipsTo ==
    ASSUME NEW path, IsPath(path), NEW j \in 1 .. Len(path.steps) + 1
    PROVE  LET after == SkipSelf(path.steps, j)
           IN  /\ after \in j .. Len(path.steps) + 1 /\ RealStep(path, after)
               /\ \A k \in 1 .. Len(path.steps) + 1 : RealStep(path, k) =>
                     (after = k <=> j <= k /\ SelfOnly(path, j, k - 1))
<1> DEFINE L == Len(path.steps)
           after == SkipSelf(path.steps, j)
<1>1. L \in Nat
  BY PathSteps
<1>2. /\ after \in j .. L + 1
      /\ after <= L => path.steps[after].axis # "self"
      /\ \A k \in j .. L + 1 : k = L + 1 \/ path.steps[k].axis # "self"
                               => (after = k <=> SelfOnly(path, j, k - 1))
  BY <1>1, SkipSelfIsFirst DEF SelfOnly
<1> HIDE DEF after
<1>3. after \in j .. L + 1 /\ RealStep(path, after)
  BY <1>1, <1>2 DEF RealStep
<1>4. ASSUME NEW k \in 1 .. L + 1, RealStep(path, k)
      PROVE  after = k <=> j <= k /\ SelfOnly(path, j, k - 1)
  <2>1. CASE j <= k
    BY <1>1, <1>2, <1>4, <2>1 DEF RealStep
  <2>2. CASE ~ (j <= k)
    BY <1>1, <1>3, <2>2
  <2> QED BY <2>1, <2>2
<1> QED BY <1>3, <1>4 DEF after

(* activate: the context of the scope element describes it.                *)
LEMMA ScopeDescribes ==
    ASSUME NEW path, IsPath(path), IsRegular(path)
    PROVE  /\ Describes(path, ScopeContext(path), <<>>)
           /\ FirstReal(path) > Len(path.steps)
                 <=> SelectsElement(path, <<>>)
           /\ ScopeContext(path).matched_here # {}
                 => ScopeContext(path).awaiting_attribute
<1> DEFINE L == Len(path.steps)
           first == FirstReal(path)
           context == ScopeContext(path)
<1>1. /\ L \in Nat \ {0}
      /\ \A j \in 1 .. L : /\ path.steps[j].axis \in {"self", "child", "attribute"}
                           /\ path.steps[j].axis = "attribute" => j = L
  BY PathSteps
<1>2. /\ first \in 1 .. L + 1
      /\ first <= L => path.steps[first].axis # "self"
      /\ \A k \in 1 .. L + 1 : k = L + 1 \/ path.steps[k].axis # "self"
                               => (first = k <=> SelfOnly(path, 1, k - 1))
  <2>1. 1 \in 1 .. L + 1
    BY <1>1
  <2> QED BY <1>1, <2>1, SkipsTo DEF FirstReal, RealStep
<1>3. \A m \in 0 .. L : Leads(path, m, 0, <<>>) <=> SelfOnly(path, 1, m)
  BY LeadsToScope
<1>4. Len(<<>>) = 0
  OBVIOUS
<1>5. path.descendant => first <= L /\ path.steps[first].axis = "child"
  BY DEF IsRegular
<1> HIDE DEF first
<1>6. SelectsElement(path, <<>>) <=> first = L + 1
  <2>1. Leads(path, L, 0, <<>>) <=> first = L + 1
    BY <1>1, <1>2, <1>3
  <2>2. first = L + 1 => ~ EndsInAttribute(path)
    <3>1. first = L + 1 => SelfOnly(path, 1, L)
      BY <1>1, <1>2
    <3> QED BY <1>1, <3>1 DEF SelfOnly, EndsInAttribute
  <2> QED BY <1>4, <2>1, <2>2 DEF SelectsElement
<1>7. SelectsOwner(path, <<>>) <=> first <= L /\ path.steps[first].axis = "attribute"
  <2>1. EndsInAttribute(path) <=> path.steps[L].axis = "attribute"
    BY DEF EndsInAttribute
  <2>2. path.steps[L].axis = "attribute" =>
           (Leads(path, L - 1, 0, <<>>) <=> first = L)
    BY <1>1, <1>2, <1>3
  <2>3. SelectsOwner(path, <<>>) <=> EndsInAttribute(path) /\ Leads(path, L - 1, 0, <<>>)
    BY <1>4 DEF SelectsOwner
  <2> QED BY <1>1, <1>2, <2>1, <2>2, <2>3
<1>8. Waiting(path, <<>>) = IF first <= L /\ path.steps[first].axis = "child" THEN {first} ELSE {}
  <2>1. ASSUME NEW k \in 1 .. L, path.steps[k].axis = "child"
        PROVE  Leads(path, k - 1, 0, <<>>) <=> first = k
    BY <1>1, <1>2, <1>3, <2>1
  <2>2. \A k : k \in Waiting(path, <<>>)
                 <=> k \in 1 .. L /\ path.steps[k].axis = "child" /\ Leads(path, k - 1, 0, <<>>)
    BY <1>4 DEF Waiting
  <2>3. \A k : k \in Waiting(path, <<>>)
                 <=> k = first /\ first <= L /\ path.steps[first].axis = "child"
    BY <1>2, <2>1, <2>2
  <2> QED BY <2>3
<1>9. context = IF first > L THEN Context({}, {}, FALSE, FALSE)
                ELSE IF path.steps[first].axis = "attribute" /\ ~ path.descendant
                     THEN Context({}, {first}, TRUE, FALSE)
                     ELSE Context({first}, {}, FALSE, path.descendant)
  BY DEF ScopeContext, first
<1> HIDE DEF context
<1>10. FirstReal(path) > L <=> SelectsElement(path, <<>>)
  BY <1>1, <1>2, <1>6 DEF first
<1>11. context.matched_here # {} => context.awaiting_attribute
  BY <1>1, <1>2, <1>9 DEF Context
<1>12. Describes(path, context, <<>>)
  <2>1. CASE first > L
    <3>1. context = Context({}, {}, FALSE, FALSE)
      BY <1>9, <2>1
    <3>2. /\ Candidates(path, context) = {} /\ context.matched_here = {}
          /\ ~ context.awaiting_attribute
      BY <3>1 DEF Candidates, Context
    <3>3. ~ (first <= L)
      BY <1>1, <1>2, <2>1
    <3> QED BY <1>7, <1>8, <3>2, <3>3 DEF Describes
  <2>2. CASE first <= L /\ path.steps[first].axis = "attribute"
    <3>1. context = Context({}, {first}, TRUE, FALSE) /\ first = L
      <4>1. ~ path.descendant /\ ~ (first > L) /\ first = L
        BY <1>1, <1>2, <1>5, <2>2
      <4> QED BY <1>9, <2>2, <4>1
    <3>2. /\ Candidates(path, context) = {} /\ context.matched_here = {first}
          /\ context.awaiting_attribute
      BY <3>1 DEF Candidates, Context
    <3> QED BY <1>7, <1>8, <2>2, <3>1, <3>2 DEF Describes
  <2>3. CASE first <= L /\ path.steps[first].axis = "child"
    <3>1. context = Context({first}, {}, FALSE, path.descendant)
      <4>1. ~ (first > L)
        BY <1>1, <1>2, <2>3
      <4> QED BY <1>9, <2>3, <4>1
    <3>2. /\ Candidates(path, context) = {first} /\ context.matched_here = {}
          /\ ~ context.awaiting_attribute
      <4>1. context.active_steps = {first} /\ FirstReal(path) = first
        BY <3>1 DEF Context, first
      <4> QED BY <3>1, <4>1 DEF Candidates, Context
    <3> QED BY <1>7, <1>8, <2>3, <3>2 DEF Describes
  <2> QED BY <1>1, <1>2, <2>1, <2>2, <2>3
<1> QED BY <1>10, <1>11, <1>12 DEF context

(* move_to_start_element: so does the context of a child.                  *)
LEMMA ChildDescribes ==
    ASSUME NEW path, IsPath(path), IsRegular(path), NEW E, NEW open \in Seq(E),
           NEW name \in E, NEW parent, Describes(path, parent, open)
    PROVE  Describes(path, ChildContext(path, parent, name), Append(open, name))
<1> DEFINE L == Len(path.steps)
           d == Len(open) + 1
           child == Append(open, name)
           first == FirstReal(path)
           passed == Passed(path, parent, name)
           after == [j \in passed |-> SkipSelf(path.steps, j + 1)]
           complete == {j \in passed : after[j] > L}
           going == {after[j] : j \in passed \ complete}
           pending == {k \in going : path.steps[k].axis = "attribute"}
           context == ChildContext(path, parent, name)
<1>1. /\ L \in Nat \ {0}
      /\ \A j \in 1 .. L : /\ path.steps[j].axis \in {"self", "child", "attribute"}
                           /\ path.steps[j].axis = "attribute" => j = L
  BY PathSteps
<1>2. /\ first \in 1 .. L + 1 /\ RealStep(path, first)
      /\ \A k \in 1 .. L + 1 :
            RealStep(path, k) => (first = k <=> SelfOnly(path, 1, k - 1))
  <2>1. 1 \in 1 .. L + 1
    BY <1>1
  <2> QED BY <1>1, <2>1, SkipsTo DEF FirstReal
<1>3. d \in Nat \ {0} /\ Len(child) = d /\ child[d] = name /\ d - 1 = Len(open) /\ child # <<>>
      /\ \A i \in 1 .. d - 1 : child[i] = open[i]
  OBVIOUS
<1>4. path.descendant => first <= L /\ path.steps[first].axis = "child"
  BY DEF IsRegular
<1>5. \A m \in 0 .. L : Leads(path, m, d, child) <=> Arrives(path, m, d, child)
  <2> HIDE DEF d, child
  <2> QED BY <1>3, LeadsIsArrives
<1>6. ASSUME NEW m \in Nat
      PROVE  Leads(path, m, d - 1, child) <=> Leads(path, m, d - 1, open)
  <2>1. d - 1 \in Nat
    BY <1>3
  <2> HIDE DEF d, child
  <2> QED BY <1>3, <2>1, LeadsByPrefix
<1> HIDE DEF d, child, first
<1>7. passed = {j \in 1 .. L : /\ path.steps[j].axis = "child" /\ name \in path.steps[j].test
                               /\ Leads(path, j - 1, d - 1, child)}
  <2>1. \A j \in 1 .. L : Leads(path, j - 1, d - 1, child) <=> Leads(path, j - 1, d - 1, open)
    BY <1>1, <1>6
  <2>2. Candidates(path, parent) = Waiting(path, open)
    BY DEF Describes
  <2>3. \A j : j \in Waiting(path, open)
                 <=> j \in 1 .. L /\ path.steps[j].axis = "child" /\ Leads(path, j - 1, d - 1, child)
    BY <1>3, <2>1 DEF Waiting
  <2>4. \A j : j \in passed <=>
           /\ j \in Candidates(path, parent) /\ j <= L
           /\ \/ path.steps[j].axis = "self"
              \/ path.steps[j].axis = "child" /\ name \in path.steps[j].test
    BY DEF Passed
  <2> QED BY <1>1, <2>2, <2>3, <2>4
<1>8. ASSUME NEW j \in passed
      PROVE  /\ j \in 1 .. L /\ after[j] \in j + 1 .. L + 1 /\ RealStep(path, after[j])
             /\ \A k \in 1 .. L + 1 : RealStep(path, k) =>
                   (after[j] = k <=> j < k /\ SelfOnly(path, j + 1, k - 1))
  <2>1. j \in 1 .. L /\ j + 1 \in 1 .. L + 1
    BY <1>1, <1>7
  <2>2. after[j] = SkipSelf(path.steps, j + 1)
    OBVIOUS
  <2> HIDE DEF after
  <2>3. /\ after[j] \in j + 1 .. L + 1 /\ RealStep(path, after[j])
        /\ \A k \in 1 .. L + 1 : RealStep(path, k) =>
              (after[j] = k <=> j + 1 <= k /\ SelfOnly(path, j + 1, k - 1))
    BY <2>1, <2>2, SkipsTo
  <2> QED BY <1>1, <2>1, <2>3
(* The steps that are reached: by a step that passes here, or by `.//'.    *)
<1>9. ASSUME NEW k \in 1 .. L + 1, RealStep(path, k)
      PROVE  Leads(path, k - 1, d, child)
                <=> (\E j \in passed : after[j] = k) \/ (path.descendant /\ first = k)
  <2>1. k - 1 \in 0 .. L
    BY <1>1
  <2>2. first = k <=> SelfOnly(path, 1, k - 1)
    BY <1>2, <1>9
  <2>3. \A j : j \in passed /\ after[j] = k <=>
           /\ j \in 1 .. k - 1
           /\ path.steps[j].axis = "child" /\ child[d] \in path.steps[j].test
           /\ Leads(path, j - 1, d - 1, child) /\ SelfOnly(path, j + 1, k - 1)
    <3> HIDE DEF after, passed
    <3> QED BY SMTT(30), <1>1, <1>3, <1>7, <1>8, <1>9
  <2> HIDE DEF after, passed
  <2>4. Arrives(path, k - 1, d, child)
           <=> (\E j \in passed : after[j] = k) \/ (path.descendant /\ SelfOnly(path, 1, k - 1))
    BY <2>3 DEF Arrives
  <2> QED BY <1>5, <2>1, <2>2, <2>4
<1>10. context = Context(going \ pending, complete \cup pending, pending # {}, path.descendant)
  BY DEF ChildContext
<1> HIDE DEF after, passed
<1>11. complete # {} <=> \E j \in passed : after[j] = L + 1
  BY <1>1, <1>8
<1>12. \A k : k \in going <=> k \in 1 .. L /\ RealStep(path, k) /\ \E j \in passed : after[j] = k
  BY <1>1, <1>8
<1> HIDE DEF complete, going
<1>13. SelectsOwner(path, child) <=> pending # {}
  <2>1. SelectsOwner(path, child)
           <=> path.steps[L].axis = "attribute" /\ Leads(path, L - 1, d, child)
    BY <1>3 DEF SelectsOwner, EndsInAttribute
  <2>2. path.steps[L].axis = "attribute" =>
           (Leads(path, L - 1, d, child) <=> \E j \in passed : after[j] = L)
    <3>1. L \in 1 .. L + 1 /\ (path.steps[L].axis = "attribute" => RealStep(path, L))
      BY <1>1 DEF RealStep
    <3> QED BY <1>4, <1>9, <3>1
  <2>3. pending # {} <=> path.steps[L].axis = "attribute" /\ L \in going
    BY <1>1, <1>12
  <2>4. path.steps[L].axis = "attribute" =>
           (L \in going <=> \E j \in passed : after[j] = L)
    BY <1>1, <1>12 DEF RealStep
  <2> HIDE DEF pending
  <2> QED BY <2>1, <2>2, <2>3, <2>4
<1>14. complete # {} <=> SelectsElement(path, child)
  <2>1. Leads(path, L, d, child) <=> complete # {}
    <3>1. L + 1 \in 1 .. L + 1 /\ RealStep(path, L + 1) /\ (L + 1) - 1 = L
      BY <1>1 DEF RealStep
    <3> QED BY <1>1, <1>4, <1>9, <1>11, <3>1
  <2>2. complete # {} => ~ EndsInAttribute(path)
    <3> SUFFICES ASSUME NEW j \in passed, after[j] = L + 1,
                        path.steps[L].axis = "attribute"
                 PROVE  FALSE
      BY <1>11 DEF EndsInAttribute
    <3>1. SelfOnly(path, j + 1, L) /\ j \in 1 .. L
      BY <1>1, <1>8 DEF RealStep
    <3>2. j # L
      BY <1>7
    <3> QED BY <1>1, <3>1, <3>2 DEF SelfOnly
  <2> QED BY <1>3, <2>1, <2>2 DEF SelectsElement
<1>15. Candidates(path, context) = Waiting(path, child)
  <2>1. \A k : k \in Candidates(path, context)
                 <=> k \in going \ pending \/ (path.descendant /\ k = first)
    BY <1>10 DEF Candidates, Context, first
  <2>2. ASSUME NEW k \in 1 .. L, path.steps[k].axis = "child"
        PROVE  Leads(path, k - 1, d, child) <=> k \in going \/ (path.descendant /\ k = first)
    BY <1>1, <1>9, <1>12, <2>2 DEF RealStep
  <2>3. \A k : k \in Waiting(path, child)
                 <=> k \in 1 .. L /\ path.steps[k].axis = "child" /\ Leads(path, k - 1, d, child)
    BY <1>3 DEF Waiting
  <2>4. \A k : k \in going \ pending <=> k \in going /\ k \in 1 .. L /\ path.steps[k].axis = "child"
    BY <1>1, <1>12 DEF RealStep
  <2>5. \A k : k \in Candidates(path, context) <=> k \in Waiting(path, child)
    BY SMTT(30), <1>2, <1>4, <1>12, <2>1, <2>2, <2>3, <2>4
  <2>6. Candidates(path, context) = {k \in Candidates(path, context) : TRUE}
    OBVIOUS
  <2> QED BY <2>5
<1>16. pending # {} => L \in pending
  BY <1>1, <1>12
<1> HIDE DEF pending, context
<1>17. /\ context.awaiting_attribute = (pending # {})
       /\ context.matched_here = complete \cup pending
  BY <1>10 DEF Context
<1>18. Describes(path, context, child)
  BY <1>3, <1>13, <1>14, <1>15, <1>16, <1>17 DEF Describes
<1> QED BY <1>18 DEF context, child

-----------------------------------------------------------------------------
(* The stacks.                                                             *)

LEMMA ContextsTyped ==
    ASSUME NEW path, IsPath(path)
    PROVE  /\ ScopeContext(path) \in ContextType
           /\ SkippedContext \in ContextType
           /\ \A parent \in ContextType : \A name :
                 ChildContext(path, parent, name) \in ContextType
<1> DEFINE L == Len(path.steps)
<1>1. L \in Nat \ {0} /\ path.descendant \in BOOLEAN
  BY PathSteps DEF IsPath
<1>2. FirstReal(path) \in Nat \ {0}
  <2>1. 1 \in 1 .. L + 1
    BY <1>1
  <2> QED BY <1>1, <2>1, SkipsTo DEF FirstReal
<1>3. ASSUME NEW active \in SUBSET (Nat \ {0}), NEW matched \in SUBSET (Nat \ {0}),
             NEW awaiting \in BOOLEAN, NEW try \in BOOLEAN
      PROVE  Context(active, matched, awaiting, try) \in ContextType
  BY DEF Context, ContextType
<1>4. ScopeContext(path) \in ContextType
  BY <1>1, <1>2, <1>3 DEF ScopeContext
<1>5. SkippedContext \in ContextType
  BY <1>3 DEF SkippedContext
<1>6. ASSUME NEW parent \in ContextType, NEW name
      PROVE  ChildContext(path, parent, name) \in ContextType
  <2> DEFINE passed == Passed(path, parent, name)
             after == [j \in passed |-> SkipSelf(path.steps, j + 1)]
             complete == {j \in passed : after[j] > L}
             going == {after[j] : j \in passed \ complete}
             pending == {k \in going : path.steps[k].axis = "attribute"}
  <2>1. \A j \in passed : j \in Nat \ {0} /\ j <= L
    BY <1>2 DEF Passed, Candidates, ContextType
  <2>2. \A j \in passed : after[j] \in Nat \ {0}
    <3> SUFFICES ASSUME NEW j \in passed PROVE SkipSelf(path.steps, j + 1) \in Nat \ {0}
      OBVIOUS
    <3>1. j + 1 \in 1 .. L + 1
      BY <1>1, <2>1
    <3> QED BY <1>1, <3>1, SkipsTo
  <2> HIDE DEF after, passed
  <2>3. complete \in SUBSET (Nat \ {0}) /\ going \in SUBSET (Nat \ {0})
    BY <2>1, <2>2
  <2>4. ChildContext(path, parent, name)
           = Context(going \ pending, complete \cup pending, pending # {}, path.descendant)
    BY DEF ChildContext, after, passed
  <2>5. going \ pending \in SUBSET (Nat \ {0}) /\ complete \cup pending \in SUBSET (Nat \ {0})
    BY <2>3
  <2> HIDE DEF going, complete, pending
  <2>6. (pending # {}) \in BOOLEAN
    OBVIOUS
  <2> QED BY <1>1, <1>3, <2>4, <2>5, <2>6
<1> QED BY <1>4, <1>5, <1>6

LEMMA Prefixes ==
    ASSUME NEW E, NEW s \in Seq(E)
    PROVE  /\ SubSeq(s, 1, Len(s)) = s
           /\ \A x \in E : \A d \in 0 .. Len(s) :
                 SubSeq(Append(s, x), 1, d) = SubSeq(s, 1, d)
           /\ s # <<>> =>
                 /\ Pop(s) \in Seq(E) /\ Len(Pop(s)) = Len(s) - 1
                 /\ \A i \in 1 .. Len(s) - 1 : Pop(s)[i] = s[i]
                 /\ \A d \in 0 .. Len(s) - 1 : SubSeq(Pop(s), 1, d) = SubSeq(s, 1, d)
<1>1. SubSeq(s, 1, Len(s)) = s
  OBVIOUS
<1>2. ASSUME NEW x \in E, NEW d \in 0 .. Len(s)
      PROVE  SubSeq(Append(s, x), 1, d) = SubSeq(s, 1, d)
  OBVIOUS
<1>3. ASSUME s # <<>>
      PROVE  /\ Pop(s) \in Seq(E) /\ Len(Pop(s)) = Len(s) - 1
             /\ \A i \in 1 .. Len(s) - 1 : Pop(s)[i] = s[i]
             /\ \A d \in 0 .. Len(s) - 1 : SubSeq(Pop(s), 1, d) = SubSeq(s, 1, d)
  <2>1. Len(s) \in Nat \ {0} /\ Len(s) - 1 \in 0 .. Len(s)
    BY <1>3
  <2>2. /\ Pop(s) \in Seq(E) /\ Len(Pop(s)) = Len(s) - 1
        /\ \A i \in 1 .. Len(s) - 1 : Pop(s)[i] = s[i]
    BY <2>1 DEF Pop
  <2>3. \A d \in 0 .. Len(s) - 1 : SubSeq(Pop(s), 1, d) = SubSeq(s, 1, d)
    BY <1>3, <2>1, <2>2
  <2> QED BY <2>2, <2>3
<1> QED BY <1>1, <1>2, <1>3

LEMMA TopOfAppended ==
    ASSUME NEW E, NEW s \in Seq(E), NEW x \in E
    PROVE  /\ Append(s, x) \in Seq(E) /\ Len(Append(s, x)) = Len(s) + 1
           /\ Append(s, x)[Len(s) + 1] = x /\ Top(Append(s, x)) = x
           /\ \A i \in 1 .. Len(s) : Append(s, x)[i] = s[i]
BY DEF Top

-----------------------------------------------------------------------------
(* What the operations do to an axis that has followed the open elements.  *)

LEMMA ActivateTracks ==
    ASSUME NEW expression, OfPaths(expression)
    PROVE  Tracks(expression, Activate(expression), <<>>)
<1> DEFINE a == Activate(expression)
<1>1. \A p \in DOMAIN expression : ScopeContext(expression[p]) \in ContextType
  BY ContextsTyped DEF OfPaths
<1>2. /\ a.active /\ a.current_depth = 0
      /\ a.context_stack = [p \in DOMAIN expression |-> <<ScopeContext(expression[p])>>]
      /\ a.scope_match = \E p \in DOMAIN expression :
                            FirstReal(expression[p]) > Len(expression[p].steps)
  BY DEF Activate
<1>3. a.context_stack \in [DOMAIN expression -> Seq(ContextType)]
  BY <1>1, <1>2
<1>4. a \in AxisType(expression)
  BY <1>2, <1>3 DEF Activate, AxisType
<1>5. ASSUME OfRegularPaths(expression), NEW p \in DOMAIN expression
      PROVE  \A d \in 0 .. Len(<<>>) :
                Described(expression[p], a.context_stack[p][d + 1], SubSeq(<<>>, 1, d))
  <2>1. a.context_stack[p][1] = ScopeContext(expression[p])
    BY <1>2
  <2>2. Describes(expression[p], ScopeContext(expression[p]), <<>>)
    BY <1>5, ScopeDescribes DEF OfPaths, OfRegularPaths
  <2>3. Visible(<<>>) /\ SubSeq(<<>>, 1, 0) = <<>>
    BY DEF Visible
  <2>4. Described(expression[p], a.context_stack[p][1], SubSeq(<<>>, 1, 0))
    BY <2>1, <2>2, <2>3 DEF Described
  <2>5. \A d \in 0 .. Len(<<>>) : d = 0 /\ d + 1 = 1
    OBVIOUS
  <2> HIDE DEF a
  <2> QED BY <2>4, <2>5
<1> HIDE DEF a
<1>6. \A p \in DOMAIN expression : Len(a.context_stack[p]) = 1
  BY <1>2
<1>7. Len(<<>>) = 0
  OBVIOUS
<1> QED BY <1>2, <1>4, <1>5, <1>6, <1>7 DEF Tracks, a

(* The innermost context describes the innermost element.                  *)
LEMMA InnermostDescribed ==
    ASSUME NEW E, NEW open \in Seq(E), NEW expression, NEW a, Tracks(expression, a, open),
           NEW p \in DOMAIN expression
    PROVE  /\ Top(a.context_stack[p]) \in ContextType
           /\ OfRegularPaths(expression) =>
                 Described(expression[p], Top(a.context_stack[p]), open)
<1>1. /\ Len(open) \in 0 .. Len(open)
      /\ a.context_stack[p] \in Seq(ContextType)
      /\ Len(a.context_stack[p]) = Len(open) + 1
  BY DEF Tracks, AxisType
<1>2. SubSeq(open, 1, Len(open)) = open
  BY Prefixes
<1>3. /\ Top(a.context_stack[p]) = a.context_stack[p][Len(open) + 1]
      /\ Top(a.context_stack[p]) \in ContextType
  BY <1>1 DEF Top
<1>4. OfRegularPaths(expression) =>
         Described(expression[p], a.context_stack[p][Len(open) + 1], SubSeq(open, 1, Len(open)))
  BY <1>1 DEF Tracks
<1> QED BY <1>2, <1>3, <1>4

(* Pushing on every stack a context that describes the new element.        *)
Pushed(expression, a, context, matched) ==
    [a EXCEPT !.current_depth = @ + 1,
              !.context_stack = [p \in DOMAIN expression |-> Append(@[p], context[p])],
              !.entered_match = matched]

AllDescribed(expression, context, open) ==
    \A p \in DOMAIN expression :
        /\ context[p] \in ContextType
        /\ OfRegularPaths(expression) => Described(expression[p], context[p], open)

LEMMA PushTracks ==
    ASSUME NEW E, NEW open \in Seq(E), NEW expression, NEW a, Tracks(expression, a, open),
           NEW x \in E, NEW context, NEW matched \in BOOLEAN,
           AllDescribed(expression, context, Append(open, x))
    PROVE  LET b == Pushed(expression, a, context, matched)
           IN  Tracks(expression, b, Append(open, x)) /\ b.entered_match = matched
<1> DEFINE stacks == [p \in DOMAIN expression |-> Append(a.context_stack[p], context[p])]
           depth == a.current_depth + 1
           inner == Append(open, x)
           b == Pushed(expression, a, context, matched)
<1>a. b = [a EXCEPT !.current_depth = depth, !.context_stack = stacks,
                    !.entered_match = matched]
  BY DEF Pushed
<1>b. \A p \in DOMAIN expression :
         /\ context[p] \in ContextType
         /\ OfRegularPaths(expression) => Described(expression[p], context[p], inner)
  BY DEF AllDescribed
<1> HIDE DEF b
<1>1. /\ a \in AxisType(expression) /\ a.active /\ a.current_depth = Len(open)
      /\ Len(open) \in Nat
      /\ \A p \in DOMAIN expression : /\ a.context_stack[p] \in Seq(ContextType)
                                      /\ Len(a.context_stack[p]) = Len(open) + 1
  BY DEF Tracks, AxisType
<1>2. \A p \in DOMAIN expression :
         /\ stacks[p] \in Seq(ContextType) /\ Len(stacks[p]) = Len(open) + 2
         /\ stacks[p][Len(open) + 2] = context[p]
         /\ \A i \in 1 .. Len(open) + 1 : stacks[p][i] = a.context_stack[p][i]
  <2> SUFFICES ASSUME NEW p \in DOMAIN expression
               PROVE  /\ stacks[p] \in Seq(ContextType) /\ Len(stacks[p]) = Len(open) + 2
                      /\ stacks[p][Len(open) + 2] = context[p]
                      /\ \A i \in 1 .. Len(open) + 1 : stacks[p][i] = a.context_stack[p][i]
    OBVIOUS
  <2>1. stacks[p] = Append(a.context_stack[p], context[p])
    OBVIOUS
  <2>2. (Len(open) + 1) + 1 = Len(open) + 2
    BY <1>1
  <2>3. context[p] \in ContextType
    BY <1>b
  <2> DEFINE st == a.context_stack[p]
             c == context[p]
  <2>4. st \in Seq(ContextType) /\ Len(st) = Len(open) + 1 /\ c \in ContextType
    BY <1>1, <2>3
  <2>5. stacks[p] = Append(st, c)
    BY <2>1
  <2> HIDE DEF stacks, inner, st, c
  <2>6. /\ Append(st, c) \in Seq(ContextType) /\ Len(Append(st, c)) = Len(st) + 1
        /\ Append(st, c)[Len(st) + 1] = c
        /\ \A i \in 1 .. Len(st) : Append(st, c)[i] = st[i]
    BY <2>4, TopOfAppended
  <2> QED BY <2>2, <2>4, <2>5, <2>6 DEF st, c
<1>3. stacks \in [DOMAIN expression -> Seq(ContextType)]
  BY <1>2
<1>4. depth = Len(open) + 1 /\ depth \in Int
  BY <1>1
<1> HIDE DEF stacks, depth
<1>5. /\ b \in AxisType(expression) /\ b.active /\ b.current_depth = depth
      /\ b.context_stack = stacks /\ b.scope_match = a.scope_match
      /\ b.entered_match = matched
  BY <1>a, <1>1, <1>3, <1>4 DEF AxisType
<1>6. /\ inner \in Seq(E) /\ Len(inner) = Len(open) + 1
      /\ SubSeq(inner, 1, Len(open) + 1) = inner
      /\ \A d \in 0 .. Len(open) : SubSeq(inner, 1, d) = SubSeq(open, 1, d)
  <2>1. inner \in Seq(E) /\ Len(inner) = Len(open) + 1
    BY TopOfAppended
  <2>2. \A d \in 0 .. Len(open) : SubSeq(inner, 1, d) = SubSeq(open, 1, d)
    BY Prefixes
  <2> HIDE DEF inner
  <2>3. SubSeq(inner, 1, Len(inner)) = inner
    BY <2>1, Prefixes
  <2> QED BY <2>1, <2>2, <2>3
<1> HIDE DEF inner
<1>7. ASSUME OfRegularPaths(expression), NEW p \in DOMAIN expression, NEW d \in 0 .. Len(inner)
      PROVE  Described(expression[p], b.context_stack[p][d + 1], SubSeq(inner, 1, d))
  <2>1. CASE d \in 0 .. Len(open)
    <3>1. d + 1 \in 1 .. Len(open) + 1
      BY <1>1, <2>1
    <3>2. Described(expression[p], a.context_stack[p][d + 1], SubSeq(open, 1, d))
      BY <1>7, <2>1 DEF Tracks
    <3> QED BY <1>2, <1>5, <1>6, <2>1, <3>1, <3>2
  <2>2. CASE d = Len(open) + 1
    <3>1. d + 1 = Len(open) + 2
      BY <1>1, <2>2
    <3>2. b.context_stack[p][d + 1] = context[p] /\ SubSeq(inner, 1, d) = inner
      BY <1>2, <1>5, <1>6, <2>2, <3>1
    <3> QED BY <1>b, <1>7, <3>2
  <2> QED BY <1>1, <1>6, <2>1, <2>2
<1>8. a.scope_match <=> \E p \in DOMAIN expression :
                           FirstReal(expression[p]) > Len(expression[p].steps)
  BY DEF Tracks
<1>9. \A p \in DOMAIN expression : Len(b.context_stack[p]) = Len(inner) + 1
  BY <1>1, <1>2, <1>5, <1>6
<1>10. Tracks(expression, b, inner)
  BY <1>4, <1>5, <1>6, <1>7, <1>8, <1>9 DEF Tracks
<1> QED BY <1>5, <1>10 DEF b, inner

(* What the expression selects at the innermost open element.              *)
Selected(expression, open) ==
    /\ Visible(open)
    /\ \E p \in DOMAIN expression : SelectsElement(expression[p], open)

SelectedOrOwner(expression, open) ==
    /\ Visible(open)
    /\ \E p \in DOMAIN expression : SelectsElement(expression[p], open)
                                    \/ SelectsOwner(expression[p], open)

(* move_to_start_element                                                   *)
LEMMA StartTracks ==
    ASSUME NEW E, NEW open \in Seq(E), NEW expression, OfPaths(expression),
           NEW a, Tracks(expression, a, open),
           NEW name \in E, name # Skipped, Visible(open)
    PROVE  LET b == MoveToStartElement(expression, a, name)
               inner == Append(open, name)
           IN  /\ Tracks(expression, b, inner)
               /\ OfRegularPaths(expression) =>
                     (b.entered_match <=> SelectedOrOwner(expression, inner))
<1> DEFINE context == [p \in DOMAIN expression |->
                         ChildContext(expression[p], Top(a.context_stack[p]), name)]
           matched == \E p \in DOMAIN expression : context[p].matched_here # {}
           inner == Append(open, name)
           b == Pushed(expression, a, context, matched)
<1>1. MoveToStartElement(expression, a, name) = b
  BY DEF MoveToStartElement, Tracks, Pushed
<1>2. \A p \in DOMAIN expression : context[p] \in ContextType
  BY InnermostDescribed, ContextsTyped DEF OfPaths
<1>3. Visible(inner) /\ inner # <<>>
  <2>1. Len(inner) = Len(open) + 1 /\ inner[Len(open) + 1] = name
        /\ \A i \in 1 .. Len(open) : inner[i] = open[i]
    BY TopOfAppended
  <2> HIDE DEF inner
  <2>2. Len(open) \in Nat
    OBVIOUS
  <2>3. Visible(inner)
    BY <2>1, <2>2 DEF Visible
  <2> QED BY <2>1, <2>2, <2>3
<1>4. ASSUME OfRegularPaths(expression), NEW p \in DOMAIN expression
      PROVE  Describes(expression[p], context[p], inner)
  <2>1. IsPath(expression[p]) /\ IsRegular(expression[p])
    BY <1>4 DEF OfPaths, OfRegularPaths
  <2>2. Describes(expression[p], Top(a.context_stack[p]), open)
    BY <1>4, InnermostDescribed DEF Described
  <2> QED BY <2>1, <2>2, ChildDescribes
<1> HIDE DEF context, inner
<1>5. matched \in BOOLEAN
  OBVIOUS
<1>6. OfRegularPaths(expression) => (matched <=> SelectedOrOwner(expression, inner))
  <2> SUFFICES ASSUME OfRegularPaths(expression)
               PROVE  matched <=> SelectedOrOwner(expression, inner)
    OBVIOUS
  <2>1. \A p \in DOMAIN expression : context[p].matched_here # {} <=>
           SelectsOwner(expression[p], inner) \/ SelectsElement(expression[p], inner)
    BY <1>3, <1>4 DEF Describes
  <2> QED BY <1>3, <2>1 DEF SelectedOrOwner
<1>7. OfRegularPaths(expression) =>
         \A p \in DOMAIN expression : Described(expression[p], context[p], inner)
  BY <1>3, <1>4 DEF Described
<1> HIDE DEF matched
<1>8. Tracks(expression, b, inner) /\ b.entered_match = matched
  <2>1. AllDescribed(expression, context, inner)
    BY <1>2, <1>7 DEF AllDescribed
  <2> QED BY <1>5, <2>1, PushTracks DEF inner
<1> QED BY <1>1, <1>6, <1>8 DEF inner

(* move_to_skipped_element                                                 *)
LEMMA StartSkippedTracks ==
    ASSUME NEW E, NEW open \in Seq(E), NEW expression, OfPaths(expression),
           NEW a, Tracks(expression, a, open), Skipped \in E
    PROVE  LET b == MoveToSkippedElement(expression, a)
               inner == Append(open, Skipped)
           IN  /\ Tracks(expression, b, inner)
               /\ ~ b.entered_match /\ ~ Visible(inner)
<1> DEFINE context == [p \in DOMAIN expression |-> SkippedContext]
           inner == Append(open, Skipped)
           b == Pushed(expression, a, context, FALSE)
<1>1. MoveToSkippedElement(expression, a) = b
  BY DEF MoveToSkippedElement, Tracks, Pushed
<1>2. \A p \in DOMAIN expression : context[p] \in ContextType
  BY ContextsTyped DEF OfPaths
<1>3. ~ Visible(inner)
  <2>1. Len(inner) = Len(open) + 1 /\ inner[Len(open) + 1] = Skipped
    BY TopOfAppended
  <2> HIDE DEF inner
  <2>2. Len(open) \in Nat
    OBVIOUS
  <2> QED BY <2>1, <2>2 DEF Visible
<1>4. \A p \in DOMAIN expression : Described(expression[p], context[p], inner)
  BY <1>3 DEF Described
<1> HIDE DEF context, inner
<1>5. FALSE \in BOOLEAN
  OBVIOUS
<1>6. Tracks(expression, b, inner) /\ b.entered_match = FALSE
  <2>1. AllDescribed(expression, context, inner)
    BY <1>2, <1>4 DEF AllDescribed
  <2> QED BY <1>5, <2>1, PushTracks DEF inner
<1> QED BY <1>1, <1>3, <1>6 DEF inner

(* end_element: of an element below the scope element, or of that one.     *)
LEMMA EndTracks ==
    ASSUME NEW E, NEW open \in Seq(E), NEW expression, OfPaths(expression),
           NEW a, Tracks(expression, a, open)
    PROVE  LET b == EndElement(expression, a)
           IN  /\ b \in AxisType(expression)
               /\ b.current_depth = Len(open) - 1
               /\ b.active <=> open # <<>>
               /\ open # <<>> => Tracks(expression, b, Pop(open))
               /\ OfRegularPaths(expression) =>
                     (b.exited_match <=> Selected(expression, open))
<1> DEFINE closing(p) == Top(a.context_stack[p])
           Matches(p) == closing(p).matched_here # {} /\ ~ closing(p).awaiting_attribute
           matched == \E p \in DOMAIN expression : Matches(p)
           depth == a.current_depth - 1
           stacks == [p \in DOMAIN expression |-> Pop(a.context_stack[p])]
           exited == matched \/ (depth < 0 /\ a.scope_match)
           active == depth >= 0
           b == [a EXCEPT !.current_depth = depth, !.context_stack = stacks,
                          !.exited_match = exited, !.active = active]
<1>1. /\ a \in AxisType(expression) /\ a.active /\ a.current_depth = Len(open)
      /\ Len(open) \in Nat /\ (open = <<>> <=> Len(open) = 0)
      /\ \A p \in DOMAIN expression : /\ a.context_stack[p] \in Seq(ContextType)
                                      /\ Len(a.context_stack[p]) = Len(open) + 1
  BY DEF Tracks, AxisType
<1>2. EndElement(expression, a) = b
  BY <1>1 DEF EndElement
<1>3. \A p \in DOMAIN expression :
         /\ stacks[p] \in Seq(ContextType) /\ Len(stacks[p]) = Len(open)
         /\ \A i \in 1 .. Len(open) : stacks[p][i] = a.context_stack[p][i]
  <2> SUFFICES ASSUME NEW p \in DOMAIN expression
               PROVE  /\ stacks[p] \in Seq(ContextType) /\ Len(stacks[p]) = Len(open)
                      /\ \A i \in 1 .. Len(open) : stacks[p][i] = a.context_stack[p][i]
    OBVIOUS
  <2>1. stacks[p] = Pop(a.context_stack[p]) /\ a.context_stack[p] # <<>>
    BY <1>1
  <2> HIDE DEF stacks
  <2>2. (Len(open) + 1) - 1 = Len(open)
    BY <1>1
  <2> QED BY <1>1, <2>1, <2>2, Prefixes
<1>4. stacks \in [DOMAIN expression -> Seq(ContextType)]
  BY <1>3
<1>5. depth = Len(open) - 1 /\ (depth < 0 <=> open = <<>>) /\ (active <=> open # <<>>)
  BY <1>1
<1>6. exited \in BOOLEAN /\ active \in BOOLEAN /\ depth \in Int
  BY <1>1
<1>7. exited <=> matched \/ (open = <<>> /\ a.scope_match)
  BY <1>5
<1> HIDE DEF stacks, exited, active, depth, matched
<1>8. /\ b \in AxisType(expression)
      /\ b.current_depth = depth /\ b.active = active
      /\ b.scope_match = a.scope_match /\ b.exited_match = exited
      /\ b.context_stack = stacks
  BY <1>1, <1>4, <1>6 DEF AxisType
<1> HIDE DEF b
<1>9. ASSUME open # <<>> PROVE Tracks(expression, b, Pop(open))
  <2> DEFINE outer == Pop(open)
  <2>1. /\ outer \in Seq(E) /\ Len(outer) = Len(open) - 1
        /\ \A d \in 0 .. Len(open) - 1 : SubSeq(outer, 1, d) = SubSeq(open, 1, d)
    BY <1>9, Prefixes
  <2> HIDE DEF outer
  <2>2. ASSUME OfRegularPaths(expression), NEW p \in DOMAIN expression, NEW d \in 0 .. Len(outer)
        PROVE  Described(expression[p], b.context_stack[p][d + 1], SubSeq(outer, 1, d))
    <3>1. d \in 0 .. Len(open) /\ d \in 0 .. Len(open) - 1 /\ d + 1 \in 1 .. Len(open)
      BY <1>1, <2>1
    <3>2. Described(expression[p], a.context_stack[p][d + 1], SubSeq(open, 1, d))
      BY <2>2, <3>1 DEF Tracks
    <3>3. b.context_stack[p][d + 1] = a.context_stack[p][d + 1]
      BY <1>3, <1>8, <3>1
    <3> QED BY <2>1, <3>1, <3>2, <3>3
  <2>3. b.active /\ b.current_depth = Len(outer)
    BY <1>5, <1>8, <1>9, <2>1
  <2>4. \A p \in DOMAIN expression : Len(b.context_stack[p]) = Len(outer) + 1
    BY <1>1, <1>3, <1>8, <2>1
  <2>5. b.scope_match <=> \E p \in DOMAIN expression :
                            FirstReal(expression[p]) > Len(expression[p].steps)
    BY <1>8 DEF Tracks
  <2>6. Tracks(expression, b, outer)
    BY <1>8, <2>2, <2>3, <2>4, <2>5 DEF Tracks
  <2> QED BY <2>6 DEF outer
<1>10. ASSUME OfRegularPaths(expression) PROVE b.exited_match <=> Selected(expression, open)
  <2>1. \A p \in DOMAIN expression : Described(expression[p], closing(p), open)
    BY <1>10, InnermostDescribed
  <2>2. \A p \in DOMAIN expression :
           ~ (SelectsOwner(expression[p], open) /\ SelectsElement(expression[p], open))
    BY DEF SelectsOwner, SelectsElement
  <2>3. b.exited_match <=> matched \/ (open = <<>> /\ a.scope_match)
    BY <1>7, <1>8
  <2> HIDE DEF closing
  <2>4. CASE ~ Visible(open)
    <3>1. \A p \in DOMAIN expression : closing(p).matched_here = {}
      BY <2>1, <2>4 DEF Described, SkippedContext, Context
    <3>2. open # <<>>
      BY <2>4 DEF Visible
    <3> QED BY <2>3, <2>4, <3>1, <3>2 DEF matched, Selected
  <2>5. CASE Visible(open) /\ open # <<>>
    <3>1. \A p \in DOMAIN expression : Matches(p) <=> SelectsElement(expression[p], open)
      BY <2>1, <2>2, <2>5 DEF Described, Describes
    <3> QED BY <2>3, <2>5, <3>1 DEF matched, Selected
  <2>6. CASE open = <<>>
    <3>1. Visible(open)
      BY <2>6 DEF Visible
    <3>2. ASSUME NEW p \in DOMAIN expression
          PROVE  /\ ~ Matches(p)
                 /\ FirstReal(expression[p]) > Len(expression[p].steps)
                       <=> SelectsElement(expression[p], open)
      <4>1. IsPath(expression[p]) /\ IsRegular(expression[p])
        BY <1>10 DEF OfPaths, OfRegularPaths
      <4>2. Describes(expression[p], closing(p), <<>>)
        BY <2>1, <2>6, <3>1 DEF Described
      <4> QED BY <2>6, <4>1, <4>2, ScopeDescribes DEF Describes
    <3>3. a.scope_match <=> \E p \in DOMAIN expression : SelectsElement(expression[p], open)
      BY <3>2 DEF Tracks
    <3> QED BY <2>3, <2>6, <3>1, <3>2, <3>3 DEF matched, Selected
  <2> QED BY <2>4, <2>5, <2>6
<1> QED BY <1>2, <1>5, <1>8, <1>9, <1>10

(* matches_attribute                                                       *)
LEMMA AttributesTracked ==
    ASSUME NEW E, NEW open \in Seq(E), NEW expression,
           OfPaths(expression), OfRegularPaths(expression),
           NEW a, Tracks(expression, a, open), NEW name
    PROVE  MatchesAttribute(expression, a, name) <=>
              /\ Visible(open)
              /\ \E p \in DOMAIN expression : SelectsAttribute(expression[p], open, name)
<1> DEFINE context(p) == Top(a.context_stack[p])
           Awaited(p) == /\ context(p).awaiting_attribute
                         /\ \E j \in context(p).matched_here :
                               /\ j <= Len(expression[p].steps)
                               /\ expression[p].steps[j].axis = "attribute"
                               /\ name \in expression[p].steps[j].test
<1>1. ASSUME NEW p \in DOMAIN expression
      PROVE  Awaited(p) <=> Visible(open) /\ SelectsAttribute(expression[p], open, name)
  <2> DEFINE L == Len(expression[p].steps)
  <2>1. context(p) \in ContextType /\ Described(expression[p], context(p), open)
    BY InnermostDescribed
  <2>2. IsPath(expression[p])
    BY DEF OfPaths
  <2>3. /\ L \in Nat \ {0}
        /\ \A j \in 1 .. L : expression[p].steps[j].axis = "attribute" => j = L
        /\ DOMAIN expression[p].steps = 1 .. L
    BY <2>2, PathSteps DEF IsPath
  <2>4. CASE ~ Visible(open)
    <3>1. ~ context(p).awaiting_attribute
      BY <2>1, <2>4 DEF Described, SkippedContext, Context
    <3> QED BY <2>4, <3>1
  <2>5. CASE Visible(open)
    <3>1. /\ context(p).awaiting_attribute <=> SelectsOwner(expression[p], open)
          /\ context(p).awaiting_attribute => L \in context(p).matched_here
      BY <2>1, <2>5 DEF Described, Describes
    <3>2. SelectsOwner(expression[p], open) => expression[p].steps[L].axis = "attribute"
      BY DEF SelectsOwner, EndsInAttribute
    <3>3. ASSUME NEW j \in context(p).matched_here, j <= L, context(p).awaiting_attribute,
                 expression[p].steps[j].axis = "attribute", name \in expression[p].steps[j].test
          PROVE  name \in expression[p].steps[L].test
      <4>1. j \in 1 .. L
        BY <2>1, <2>3, <3>3 DEF ContextType
      <4> QED BY <2>3, <3>3, <4>1
    <3> QED BY <2>3, <2>5, <3>1, <3>2, <3>3 DEF SelectsAttribute
  <2> QED BY <2>4, <2>5
<1>2. a.active
  BY DEF Tracks
<1> QED BY <1>1, <1>2 DEF MatchesAttribute

-----------------------------------------------------------------------------
(* The inductive invariant.                                                *)

LEMMA SkippedIsLast ==
    ASSUME NEW E, NEW open \in Seq(E), SkippedInside(open),
           open # <<>> => open[Len(open)] # Skipped
    PROVE  Visible(open)
<1> SUFFICES ASSUME NEW i \in 1 .. Len(open), open[i] = Skipped PROVE FALSE
  BY DEF Visible
<1>1. Len(open) \in 1 .. Len(open) /\ open # <<>> /\ i <= Len(open)
  OBVIOUS
<1> QED BY <1>1 DEF SkippedInside

LEMMA SkippedStaysInside ==
    ASSUME NEW E, NEW open \in Seq(E), SkippedInside(open), NEW x \in E
    PROVE  /\ (x = Skipped \/ Visible(open)) => SkippedInside(Append(open, x))
           /\ open # <<>> => SkippedInside(Pop(open))
<1>1. ASSUME x = Skipped \/ Visible(open) PROVE SkippedInside(Append(open, x))
  <2> DEFINE inner == Append(open, x)
  <2>1. Len(inner) = Len(open) + 1 /\ inner[Len(open) + 1] = x
        /\ \A i \in 1 .. Len(open) : inner[i] = open[i]
    BY TopOfAppended
  <2> HIDE DEF inner
  <2>2. ASSUME NEW i \in 1 .. Len(inner), NEW j \in 1 .. Len(inner), i <= j, inner[i] = Skipped
        PROVE  inner[j] = Skipped
    <3>1. Len(open) \in Nat
      OBVIOUS
    <3>2. CASE j \in 1 .. Len(open)
      BY <2>1, <2>2, <3>1, <3>2 DEF SkippedInside
    <3>3. CASE j = Len(open) + 1
      BY <1>1, <2>1, <2>2, <3>1, <3>3 DEF Visible
    <3> QED BY <2>1, <3>1, <3>2, <3>3
  <2>3. SkippedInside(inner)
    BY <2>2 DEF SkippedInside
  <2> QED BY <2>3 DEF inner
<1>2. ASSUME open # <<>> PROVE SkippedInside(Pop(open))
  <2> DEFINE outer == Pop(open)
  <2>1. Len(outer) = Len(open) - 1 /\ \A i \in 1 .. Len(open) - 1 : outer[i] = open[i]
    BY <1>2, Prefixes
  <2> HIDE DEF outer
  <2>2. Len(open) \in Nat
    OBVIOUS
  <2>3. SkippedInside(outer)
    BY <2>1, <2>2 DEF SkippedInside
  <2> QED BY <2>3 DEF outer
<1> QED BY <1>1, <1>2

LEMMA PathsOfExpression ==
    ASSUME ast \in Expressions
    PROVE  OfPaths(ast)
BY ExpressionAssumption DEF OfPaths

LEMMA InitTracks ==
    AxisInit => AxisInv
<1> SUFFICES ASSUME AxisInit PROVE AxisInv
  OBVIOUS
<1>1. ast \in Expressions /\ axis = Activate(ast) /\ trail = <<>>
  BY DEF AxisInit
<1>2. Tracks(ast, axis, trail)
  BY <1>1, PathsOfExpression, ActivateTracks
<1>3. SkippedInside(trail) /\ trail \in Seq(ElementName \cup {Skipped})
  BY <1>1 DEF SkippedInside
<1> QED BY <1>1, <1>2, <1>3 DEF AxisInv, Tracks

LEMMA AxisStartKept ==
    ASSUME AxisInv, NEW name \in ElementName, AxisStart(name)
    PROVE  /\ AxisInv' /\ Len(trail') = Len(trail) + 1
           /\ axis'.current_depth = axis.current_depth + 1
           /\ Regular => (axis'.entered_match <=> SelectedOrOwner(ast, trail'))
<1> DEFINE E == ElementName \cup {Skipped}
<1>1. /\ ast \in Expressions /\ trail \in Seq(E) /\ SkippedInside(trail)
      /\ axis.active /\ Tracks(ast, axis, trail)
      /\ axis' = MoveToStartElement(ast, axis, name) /\ trail' = Append(trail, name)
      /\ ast' = ast
  BY DEF AxisInv, AxisStart
<1>2. name \in E /\ name # Skipped
  BY SkippedAssumption, InstanceAssumption
<1>3. Visible(trail)
  <2>1. trail # <<>> => trail[Len(trail)] # Skipped
    BY DEF AxisStart, BelowSkipped
  <2> QED BY <1>1, <2>1, SkippedIsLast
<1> HIDE DEF E
<1>4. /\ Tracks(ast, axis', trail')
      /\ OfRegularPaths(ast) => (axis'.entered_match <=> SelectedOrOwner(ast, trail'))
  BY <1>1, <1>2, <1>3, PathsOfExpression, StartTracks
<1>5. trail' \in Seq(E) /\ SkippedInside(trail') /\ Len(trail') = Len(trail) + 1
  BY <1>1, <1>2, <1>3, SkippedStaysInside, TopOfAppended
<1>6. axis'.current_depth = axis.current_depth + 1
  BY <1>1, <1>4, <1>5 DEF Tracks
<1>7. AxisInv'
  BY <1>1, <1>4, <1>5 DEF AxisInv, E, Tracks
<1> QED BY <1>4, <1>5, <1>6, <1>7 DEF Regular, OfRegularPaths

LEMMA AxisStartSkippedKept ==
    ASSUME AxisInv, AxisStartSkipped
    PROVE  /\ AxisInv' /\ Len(trail') = Len(trail) + 1
           /\ axis'.current_depth = axis.current_depth + 1
           /\ ~ axis'.entered_match /\ ~ Visible(trail')
<1> DEFINE E == ElementName \cup {Skipped}
<1>1. /\ ast \in Expressions /\ trail \in Seq(E) /\ SkippedInside(trail)
      /\ axis.active /\ Tracks(ast, axis, trail)
      /\ axis' = MoveToSkippedElement(ast, axis) /\ trail' = Append(trail, Skipped)
      /\ ast' = ast
  BY DEF AxisInv, AxisStartSkipped
<1>2. Skipped \in E
  OBVIOUS
<1> HIDE DEF E
<1>3. Tracks(ast, axis', trail') /\ ~ axis'.entered_match /\ ~ Visible(trail')
  BY <1>1, <1>2, PathsOfExpression, StartSkippedTracks
<1>4. trail' \in Seq(E) /\ SkippedInside(trail') /\ Len(trail') = Len(trail) + 1
  BY <1>1, <1>2, SkippedStaysInside, TopOfAppended
<1>5. axis'.current_depth = axis.current_depth + 1
  BY <1>1, <1>3, <1>4 DEF Tracks
<1>6. AxisInv'
  BY <1>1, <1>3, <1>4 DEF AxisInv, E, Tracks
<1> QED BY <1>3, <1>4, <1>5, <1>6

LEMMA AxisEndKept ==
    ASSUME AxisInv, AxisEnd \/ AxisEndScope
    PROVE  /\ AxisInv' /\ Len(trail') <= Len(trail)
           /\ Regular => (axis'.exited_match <=> Selected(ast, trail))
<1> DEFINE E == ElementName \cup {Skipped}
<1>1. /\ ast \in Expressions /\ trail \in Seq(E) /\ SkippedInside(trail) /\ Len(trail) \in Nat
      /\ axis.active /\ Tracks(ast, axis, trail)
      /\ axis' = EndElement(ast, axis) /\ ast' = ast
      /\ trail' = IF trail = <<>> THEN trail ELSE Pop(trail)
  BY DEF AxisInv, AxisEnd, AxisEndScope
<1> HIDE DEF E
<1>2. /\ axis' \in AxisType(ast)
      /\ axis'.active <=> trail # <<>>
      /\ trail # <<>> => Tracks(ast, axis', Pop(trail))
      /\ OfRegularPaths(ast) => (axis'.exited_match <=> Selected(ast, trail))
  BY <1>1, PathsOfExpression, EndTracks
<1>3. trail' \in Seq(E) /\ SkippedInside(trail') /\ Len(trail') <= Len(trail)
  <2>1. CASE trail = <<>>
    BY <1>1, <2>1
  <2>2. CASE trail # <<>>
    <3>1. /\ trail' = Pop(trail) /\ trail' \in Seq(E) /\ Len(trail') = Len(trail) - 1
      BY <1>1, <2>2, Prefixes
    <3>2. trail[1] \in E
      BY <1>1, <2>2
    <3>3. SkippedInside(Pop(trail))
      BY <1>1, <2>2, <3>2, SkippedStaysInside
    <3> QED BY <1>1, <3>1, <3>3
  <2> QED BY <2>1, <2>2
<1>4. AxisInv'
  BY <1>1, <1>2, <1>3 DEF AxisInv, E
<1> QED BY <1>2, <1>3, <1>4 DEF Regular, OfRegularPaths

LEMMA UnchangedKept ==
    ASSUME AxisInv, UNCHANGED axisVars
    PROVE  AxisInv'
BY DEF AxisInv, axisVars, Tracks

-----------------------------------------------------------------------------
(* What the matcher reports.                                               *)

LEMMA AttributesDescribed ==
    AxisInv => AttributesSelected
<1> SUFFICES ASSUME AxisInv, axis.active, Regular, NEW name \in ElementName
             PROVE  MatchesAttribute(ast, axis, name) <=>
                       /\ Visible(trail)
                       /\ \E p \in DOMAIN ast : SelectsAttribute(ast[p], trail, name)
  BY DEF AttributesSelected
<1> DEFINE E == ElementName \cup {Skipped}
<1>1. /\ trail \in Seq(E) /\ Tracks(ast, axis, trail)
      /\ OfPaths(ast) /\ OfRegularPaths(ast)
  BY PathsOfExpression DEF AxisInv, Regular, OfRegularPaths
<1> HIDE DEF E
<1> QED BY <1>1, AttributesTracked

LEMMA StepReports ==
    ASSUME AxisInv, [AxisNext]_axisVars, Regular
    PROVE  /\ Len(trail') > Len(trail) =>
                 (axis'.entered_match <=> SelectedOrOwner(ast, trail'))
           /\ axis'.current_depth < axis.current_depth =>
                 (axis'.exited_match <=> Selected(ast, trail))
<1>1. /\ Len(trail) \in Nat /\ axis.current_depth \in Int
  BY DEF AxisInv, AxisType
<1>2. ASSUME NEW name \in ElementName, AxisStart(name)
      PROVE  /\ axis'.entered_match <=> SelectedOrOwner(ast, trail')
             /\ ~ (axis'.current_depth < axis.current_depth)
  BY <1>1, <1>2, AxisStartKept
<1>3. ASSUME AxisStartSkipped
      PROVE  /\ axis'.entered_match <=> SelectedOrOwner(ast, trail')
             /\ ~ (axis'.current_depth < axis.current_depth)
  BY <1>1, <1>3, AxisStartSkippedKept DEF SelectedOrOwner
<1>4. ASSUME AxisEnd \/ AxisEndScope
      PROVE  /\ axis'.exited_match <=> Selected(ast, trail)
             /\ ~ (Len(trail') > Len(trail))
  <2>1. AxisInv' /\ Len(trail') <= Len(trail) /\ (axis'.exited_match <=> Selected(ast, trail))
    BY <1>4, AxisEndKept
  <2>2. Len(trail') \in Nat
    BY <2>1 DEF AxisInv
  <2> QED BY <1>1, <2>1, <2>2
<1>5. ASSUME UNCHANGED axisVars
      PROVE  ~ (Len(trail') > Len(trail)) /\ ~ (axis'.current_depth < axis.current_depth)
  BY <1>1, <1>5 DEF axisVars
<1>6. \/ \E name \in ElementName : AxisStart(name)
      \/ AxisStartSkipped \/ (AxisEnd \/ AxisEndScope) \/ UNCHANGED axisVars
  BY DEF AxisNext
<1> QED BY <1>2, <1>3, <1>4, <1>5, <1>6

-----------------------------------------------------------------------------
(* Whatever the expression, the elements, their depth and the skipped ones *)
(* among them: the contexts on the stack say of every open element what    *)
(* XPath does (ActiveAxis::activate, move_to_start_element,                *)
(* move_to_skipped_element and end_element together).                      *)
THEOREM AxisInvariant ==
    AxisSpec => []AxisInv
<1>1. AxisInit => AxisInv
  BY InitTracks
<1>2. AxisInv /\ [AxisNext]_axisVars => AxisInv'
  BY AxisStartKept, AxisStartSkippedKept, AxisEndKept, UnchangedKept DEF AxisNext
<1> QED BY <1>1, <1>2, PTL DEF AxisSpec

(* The matches reported at start tags, at end tags and for attributes are  *)
(* exactly the selected nodes: entered_match, exited_match and             *)
(* matches_attribute of active_axis.rs.                                    *)
THEOREM MatchesAreExact ==
    AxisSpec => MatchesExact
<1>1. AxisInv /\ [AxisNext]_axisVars =>
         /\ AttributesSelected
         /\ Regular =>
               /\ Len(trail') > Len(trail) =>
                     (axis'.entered_match <=>
                         /\ Visible(trail')
                         /\ \E p \in DOMAIN ast : SelectsElement(ast[p], trail')
                                                  \/ SelectsOwner(ast[p], trail'))
               /\ axis'.current_depth < axis.current_depth =>
                     (axis'.exited_match <=>
                         /\ Visible(trail)
                         /\ \E p \in DOMAIN ast : SelectsElement(ast[p], trail))
  BY AttributesDescribed, StepReports DEF Selected, SelectedOrOwner
<1> QED BY <1>1, AxisInvariant, PTL DEF AxisSpec, MatchesExact

-----------------------------------------------------------------------------
(* The names of open elements, and of those below one of them.            *)
OpenName == Name \cup {Skipped}

LEMMA SuffixGrows ==
    ASSUME NEW E, NEW s \in Seq(E), NEW o \in 0 .. Len(s), NEW x \in E
    PROVE  /\ SubSeq(Append(s, x), o + 1, Len(s) + 1) = Append(SubSeq(s, o + 1, Len(s)), x)
           /\ \A d \in o .. Len(s) : SubSeq(Append(s, x), o + 1, d) = SubSeq(s, o + 1, d)
<1>1. Len(s) \in Nat /\ o \in Nat
  OBVIOUS
<1>2. SubSeq(Append(s, x), o + 1, Len(s) + 1) = Append(SubSeq(s, o + 1, Len(s)), x)
  <2> DEFINE inner == Append(s, x)
             t == SubSeq(inner, o + 1, Len(s) + 1)
             outer == SubSeq(s, o + 1, Len(s))
             u == Append(outer, x)
  <2>1. /\ inner \in Seq(E) /\ Len(inner) = Len(s) + 1 /\ inner[Len(s) + 1] = x
        /\ \A i \in 1 .. Len(s) : inner[i] = s[i]
    BY <1>1, TopOfAppended
  <2> HIDE DEF inner
  <2>2. /\ t \in Seq(E) /\ Len(t) = Len(s) + 1 - o
        /\ \A i \in 1 .. Len(s) + 1 - o : t[i] = inner[o + i]
    BY <1>1, <2>1
  <2>3. /\ outer \in Seq(E) /\ Len(outer) = Len(s) - o
        /\ \A i \in 1 .. Len(s) - o : outer[i] = s[o + i]
    BY <1>1
  <2> HIDE DEF outer, t
  <2>4. /\ u \in Seq(E) /\ Len(u) = Len(s) - o + 1 /\ u[Len(s) - o + 1] = x
        /\ \A i \in 1 .. Len(s) - o : u[i] = outer[i]
    BY <2>3, TopOfAppended
  <2> HIDE DEF u
  <2>5. ASSUME NEW i \in 1 .. Len(s) - o + 1 PROVE t[i] = u[i]
    <3>1. CASE i \in 1 .. Len(s) - o
      <4>1. o + i \in 1 .. Len(s) /\ i \in 1 .. Len(s) + 1 - o
        BY <1>1, <3>1
      <4> QED BY <2>1, <2>2, <2>3, <2>4, <3>1, <4>1
    <3>2. CASE i = Len(s) - o + 1
      <4>1. o + i = Len(s) + 1 /\ i \in 1 .. Len(s) + 1 - o
        BY <1>1, <3>2
      <4> QED BY <2>1, <2>2, <2>4, <3>2, <4>1
    <3> QED BY <1>1, <3>1, <3>2
  <2>6. t = u
    <3>1. t = [i \in 1 .. Len(s) - o + 1 |-> t[i]] /\ u = [i \in 1 .. Len(s) - o + 1 |-> u[i]]
      BY <1>1, <2>2, <2>4
    <3> QED BY <2>5, <3>1
  <2> QED BY <2>6 DEF t, u, outer, inner
<1>3. ASSUME NEW d \in o .. Len(s)
      PROVE  SubSeq(Append(s, x), o + 1, d) = SubSeq(s, o + 1, d)
  OBVIOUS
<1> QED BY <1>2, <1>3

LEMMA SuffixShrinks ==
    ASSUME NEW E, NEW s \in Seq(E), NEW o \in 0 .. Len(s)
    PROVE  /\ o < Len(s) => SubSeq(Pop(s), o + 1, Len(s) - 1)
                               = Pop(SubSeq(s, o + 1, Len(s)))
           /\ s # <<>> => \A d \in o .. Len(s) - 1 :
                 SubSeq(Pop(s), o + 1, d) = SubSeq(s, o + 1, d)
<1>1. Len(s) \in Nat /\ o \in Nat
  OBVIOUS
<1>2. ASSUME o < Len(s)
      PROVE  SubSeq(Pop(s), o + 1, Len(s) - 1) = Pop(SubSeq(s, o + 1, Len(s)))
  BY <1>1, <1>2 DEF Pop
<1>3. ASSUME s # <<>>, NEW d \in o .. Len(s) - 1
      PROVE  SubSeq(Pop(s), o + 1, d) = SubSeq(s, o + 1, d)
  BY <1>1, <1>3 DEF Pop
<1> QED BY <1>2, <1>3

-----------------------------------------------------------------------------
(* The frames of a constraint that composes such axes: one of a selector,  *)
(* and in each frame one of every field.  The open element at depth d is a *)
(* target of the one at depth o when the selector selects it from there.   *)
FieldAxes(comp) == UNION {AxisType(comp.fields[f]) : f \in Field}

FrameType(comp) ==
    [fields : [Field -> FieldAxes(comp)], values : KeySequence,
     matched : [Field -> BOOLEAN]]

IsTarget(comp, open, o, d) == Selected(comp.selector, SubSeq(open, o + 1, d))

(* The fields of a frame have followed the tags below the element at d.    *)
Follows(comp, frame, open, d) ==
    /\ frame \in FrameType(comp)
    /\ \A f \in Field :
          Tracks(comp.fields[f], frame.fields[f], SubSeq(open, d + 1, Len(open)))

(* The frames are, from the outermost, those of the targets at these       *)
(* depths, and there are no other targets.                                 *)
FramesAt(comp, frames, open, o, at) ==
    /\ frames \in Seq(FrameType(comp))
    /\ at \in [1 .. Len(frames) -> o .. Len(open)]
    /\ \A i \in 1 .. Len(frames) : Follows(comp, frames[i], open, at[i])
    /\ \A i, j \in 1 .. Len(frames) : i < j => at[i] < at[j]
    /\ \A d \in o .. Len(open) :
          IsTarget(comp, open, o, d) <=> \E i \in 1 .. Len(frames) : at[i] = d

FramesOK(comp, frames, open, o) == \E at : FramesAt(comp, frames, open, o, at)

LEMMA FrameFollows ==
    ASSUME NEW comp, NEW open, NEW d, NEW fields, NEW values \in KeySequence,
           NEW matched \in [Field -> BOOLEAN],
           fields = [f \in Field |-> fields[f]],
           \A f \in Field : Tracks(comp.fields[f], fields[f], SubSeq(open, d + 1, Len(open)))
    PROVE  Follows(comp, [fields |-> fields, values |-> values, matched |-> matched], open, d)
<1>1. ASSUME NEW f \in Field PROVE fields[f] \in FieldAxes(comp)
  <2>1. fields[f] \in AxisType(comp.fields[f])
    BY DEF Tracks
  <2> QED BY <2>1 DEF FieldAxes
<1>2. fields \in [Field -> FieldAxes(comp)]
  BY <1>1
<1> QED BY <1>2 DEF Follows, FrameType

LEMMA FrameStarts ==
    ASSUME NEW E, NEW open \in Seq(E), NEW d \in 0 .. Len(open), NEW comp, NEW frame,
           \A f \in Field : OfPaths(comp.fields[f]),
           Follows(comp, frame, open, d), NEW x \in E, NEW b,
           \/ /\ x # Skipped /\ Visible(open)
              /\ b = [frame EXCEPT !.fields =
                         [f \in Field |-> MoveToStartElement(comp.fields[f], @[f], x)]]
           \/ /\ x = Skipped
              /\ b = [frame EXCEPT !.fields =
                         [f \in Field |-> MoveToSkippedElement(comp.fields[f], @[f])]]
    PROVE  Follows(comp, b, Append(open, x), d)
<1>0. SubSeq(Append(open, x), d + 1, Len(open) + 1)
         = Append(SubSeq(open, d + 1, Len(open)), x)
  <2>1. open \in Seq(E) /\ d \in 0 .. Len(open) /\ x \in E
    OBVIOUS
  <2> QED BY ONLY <2>1, SuffixGrows
<1>a. PICK below, inner : below = SubSeq(open, d + 1, Len(open)) /\ inner = Append(open, x)
  OBVIOUS
<1>b. PICK fields :
         fields = IF x # Skipped
                  THEN [f \in Field |-> MoveToStartElement(comp.fields[f], frame.fields[f], x)]
                  ELSE [f \in Field |-> MoveToSkippedElement(comp.fields[f], frame.fields[f])]
  OBVIOUS
<1>1. /\ below = SubSeq(open, d + 1, Len(open))
      /\ inner = Append(open, x)
      /\ fields = IF x # Skipped
                  THEN [f \in Field |-> MoveToStartElement(comp.fields[f], frame.fields[f], x)]
                  ELSE [f \in Field |-> MoveToSkippedElement(comp.fields[f], frame.fields[f])]
  BY <1>a, <1>b
<1>2. /\ below \in Seq(E) /\ Len(inner) = Len(open) + 1
      /\ SubSeq(inner, d + 1, Len(inner)) = Append(below, x)
      /\ Visible(open) => Visible(below)
  <2>1. SubSeq(Append(open, x), d + 1, Len(open) + 1) = Append(below, x)
    BY <1>0, <1>1
  <2>2. below \in Seq(E) /\ \A i \in 1 .. Len(below) : below[i] = open[d + i]
                         /\ Len(below) = Len(open) - d
    BY <1>1
  <2>3. Visible(open) => Visible(below)
    <3>1. \A i \in 1 .. Len(below) : d + i \in 1 .. Len(open)
      BY <2>2
    <3> QED BY <2>2, <3>1 DEF Visible
  <2>4. Len(inner) = Len(open) + 1
    BY <1>1, TopOfAppended
  <2> QED BY <1>1, <2>1, <2>2, <2>3, <2>4
<1>3. /\ frame = [fields |-> frame.fields, values |-> frame.values, matched |-> frame.matched]
      /\ frame.values \in KeySequence /\ frame.matched \in [Field -> BOOLEAN]
  BY DEF Follows, FrameType
<1>4. b = [fields |-> fields, values |-> frame.values, matched |-> frame.matched]
  BY <1>1, <1>3
<1>5. ASSUME NEW f \in Field
      PROVE  Tracks(comp.fields[f], fields[f], SubSeq(inner, d + 1, Len(inner)))
  <2>1. PICK expression, a : expression = comp.fields[f] /\ a = frame.fields[f]
    OBVIOUS
  <2>2. OfPaths(expression) /\ Tracks(expression, a, below)
    BY <1>1, <2>1 DEF Follows
  <2>3. CASE x # Skipped
    <3>1. Visible(below) /\ fields[f] = MoveToStartElement(expression, a, x)
      BY <1>1, <1>2, <2>1, <2>3
    <3>2. Tracks(expression, MoveToStartElement(expression, a, x), Append(below, x))
      BY <1>2, <2>2, <2>3, <3>1, StartTracks
    <3> QED BY <1>2, <2>1, <3>1, <3>2
  <2>4. CASE x = Skipped
    <3>1. fields[f] = MoveToSkippedElement(expression, a)
      BY <1>1, <2>1, <2>4
    <3>2. Tracks(expression, MoveToSkippedElement(expression, a), Append(below, Skipped))
      BY <1>2, <2>2, <2>4, StartSkippedTracks
    <3> QED BY <1>2, <2>1, <2>4, <3>1, <3>2
  <2> QED BY <2>3, <2>4
<1>6. fields = [f \in Field |-> fields[f]]
  BY <1>1
<1>7. Follows(comp, b, inner, d)
  BY <1>3, <1>4, <1>5, <1>6, FrameFollows
<1> QED BY <1>1, <1>7

(* push_field_collection when the selector enters a match.                 *)
LEMMA FramesPushed ==
    ASSUME NEW E, NEW open \in Seq(E), NEW x \in E, NEW o \in 0 .. Len(open),
           NEW comp, NEW frames, FramesOK(comp, frames, open, o), NEW moved,
           moved = [i \in 1 .. Len(frames) |-> moved[i]],
           \A i \in 1 .. Len(frames), d \in 0 .. Len(open) :
              Follows(comp, frames[i], open, d) =>
                 Follows(comp, moved[i], Append(open, x), d),
           NEW new, Follows(comp, new, Append(open, x), Len(open) + 1), NEW entered,
           entered <=> IsTarget(comp, Append(open, x), o, Len(open) + 1)
    PROVE  FramesOK(comp, IF entered THEN Append(moved, new) ELSE moved, Append(open, x), o)
<1>1. PICK at : FramesAt(comp, frames, open, o, at)
  BY DEF FramesOK
<1>2. PICK n, m, inner : n = Len(open) /\ m = Len(frames) /\ inner = Append(open, x)
  OBVIOUS
<1>3. /\ n \in Nat /\ m \in Nat /\ o \in 0 .. n /\ Len(inner) = n + 1
      /\ at \in [1 .. m -> o .. n]
      /\ \A i \in 1 .. m : Follows(comp, frames[i], open, at[i])
      /\ \A i, j \in 1 .. m : i < j => at[i] < at[j]
      /\ \A d \in o .. n :
            IsTarget(comp, open, o, d) <=> \E i \in 1 .. m : at[i] = d
  BY <1>1, <1>2, TopOfAppended DEF FramesAt
<1>4. \A i \in 1 .. m : Follows(comp, moved[i], inner, at[i]) /\ moved[i] \in FrameType(comp)
  <2> SUFFICES ASSUME NEW i \in 1 .. m
               PROVE  Follows(comp, moved[i], inner, at[i])
    BY DEF Follows
  <2>1. at[i] \in 0 .. n
    BY <1>3
  <2> QED BY <1>2, <1>3, <2>1
<1>5. moved \in Seq(FrameType(comp)) /\ Len(moved) = m
  <2>1. moved \in [1 .. m -> FrameType(comp)]
    BY <1>2, <1>4
  <2> QED BY <1>3, <2>1
<1>6. new \in FrameType(comp) /\ Follows(comp, new, inner, n + 1)
  BY <1>2 DEF Follows
<1>7. ASSUME NEW d \in o .. n
      PROVE  IsTarget(comp, inner, o, d) <=> IsTarget(comp, open, o, d)
  <2>1. d \in o .. Len(open) /\ inner = Append(open, x)
    BY <1>2
  <2>2. SubSeq(inner, o + 1, d) = SubSeq(open, o + 1, d)
    BY <2>1, SuffixGrows
  <2> QED BY <2>2 DEF IsTarget
<1>8. ASSUME ~ entered PROVE FramesAt(comp, moved, inner, o, at)
  <2>1. at \in [1 .. m -> o .. n + 1]
    BY <1>3
  <2>2. ASSUME NEW d \in o .. n + 1
        PROVE  IsTarget(comp, inner, o, d) <=> \E i \in 1 .. m : at[i] = d
    <3>1. CASE d \in o .. n
      BY <1>3, <1>7, <3>1
    <3>2. CASE d = n + 1
      BY <1>2, <1>3, <1>8, <3>2
    <3> QED BY <1>3, <3>1, <3>2
  <2> QED BY <1>3, <1>4, <1>5, <2>1, <2>2 DEF FramesAt
<1>9. ASSUME entered PROVE FramesOK(comp, Append(moved, new), inner, o)
  <2>1. PICK all, atall :
           /\ all = Append(moved, new)
           /\ atall = [i \in 1 .. m + 1 |-> IF i = m + 1 THEN n + 1 ELSE at[i]]
    OBVIOUS
  <2>2. /\ all \in Seq(FrameType(comp)) /\ Len(all) = m + 1 /\ all[m + 1] = new
        /\ \A i \in 1 .. m : all[i] = moved[i]
    BY <1>5, <1>6, <2>1, TopOfAppended
  <2>3. /\ atall \in [1 .. m + 1 -> o .. n + 1]
        /\ atall[m + 1] = n + 1
        /\ \A i \in 1 .. m : atall[i] = at[i] /\ at[i] \in o .. n
    BY <1>3, <2>1
  <2>4. ASSUME NEW i \in 1 .. m + 1 PROVE Follows(comp, all[i], inner, atall[i])
    <3>1. CASE i \in 1 .. m
      BY <1>4, <2>2, <2>3, <3>1
    <3>2. CASE i = m + 1
      <4>1. all[i] = new /\ atall[i] = n + 1
        BY <2>2, <2>3, <3>2
      <4> QED BY <1>6, <4>1
    <3>3. i \in 1 .. m \/ i = m + 1
      BY <1>3
    <3> QED BY <3>1, <3>2, <3>3
  <2>5. ASSUME NEW i \in 1 .. m + 1, NEW j \in 1 .. m + 1, i < j
        PROVE  atall[i] < atall[j]
    <3>1. i \in 1 .. m
      BY <1>3, <2>5
    <3>2. CASE j \in 1 .. m
      BY <1>3, <2>3, <2>5, <3>1, <3>2
    <3>3. CASE j = m + 1
      BY <1>3, <2>3, <3>1, <3>3
    <3> QED BY <1>3, <3>2, <3>3
  <2>6. ASSUME NEW d \in o .. n + 1
        PROVE  IsTarget(comp, inner, o, d) <=> \E i \in 1 .. m + 1 : atall[i] = d
    <3>1. CASE d \in o .. n
      <4>1. ASSUME NEW i \in 1 .. m + 1, atall[i] = d PROVE \E j \in 1 .. m : at[j] = d
        <5>1. d # n + 1
          BY <1>3, <3>1
        <5>2. i \in 1 .. m
          BY <1>3, <2>3, <4>1, <5>1
        <5> QED BY <2>3, <4>1, <5>2
      <4>2. \A i \in 1 .. m : i \in 1 .. m + 1 /\ atall[i] = at[i]
        BY <1>3, <2>3
      <4> QED BY <1>3, <1>7, <3>1, <4>1, <4>2
    <3>2. CASE d = n + 1
      <4>1. m + 1 \in 1 .. m + 1
        BY <1>3
      <4> QED BY <1>2, <1>9, <2>3, <3>2, <4>1
    <3> QED BY <1>3, <3>1, <3>2
  <2>7. FramesAt(comp, all, inner, o, atall)
    BY <1>3, <2>2, <2>3, <2>4, <2>5, <2>6 DEF FramesAt
  <2> QED BY <2>1, <2>7 DEF FramesOK
<1> QED BY <1>2, <1>8, <1>9 DEF FramesOK

(* The frame popped when the selector exits a match is that of the element *)
(* that ends.                                                              *)
LEMMA FramesPopped ==
    ASSUME NEW E, NEW open \in Seq(E), NEW o \in 0 .. Len(open), o < Len(open),
           NEW comp, NEW frames, FramesOK(comp, frames, open, o), NEW moved,
           moved = [i \in 1 .. Len(frames) |-> moved[i]],
           \A i \in 1 .. Len(frames), d \in 0 .. Len(open) :
              Follows(comp, frames[i], open, d) =>
                 /\ moved[i] \in FrameType(comp)
                 /\ d < Len(open) => Follows(comp, moved[i], Pop(open), d),
           NEW exited, exited <=> IsTarget(comp, open, o, Len(open))
    PROVE  FramesOK(comp, IF exited /\ moved # <<>> THEN Pop(moved) ELSE moved, Pop(open), o)
<1>1. PICK at : FramesAt(comp, frames, open, o, at)
  BY DEF FramesOK
<1>2. PICK n, m, outer : n = Len(open) /\ m = Len(frames) /\ outer = Pop(open)
  OBVIOUS
<1>3. /\ n \in Nat /\ m \in Nat /\ o \in 0 .. n - 1
      /\ at \in [1 .. m -> o .. n]
      /\ \A i \in 1 .. m : Follows(comp, frames[i], open, at[i])
      /\ \A i, j \in 1 .. m : i < j => at[i] < at[j]
      /\ \A d \in o .. n :
            IsTarget(comp, open, o, d) <=> \E i \in 1 .. m : at[i] = d
  BY <1>1, <1>2 DEF FramesAt
<1>4. open # <<>> /\ Len(outer) = n - 1
  BY <1>2, <1>3, Prefixes
<1>5. \A i \in 1 .. m :
         /\ moved[i] \in FrameType(comp)
         /\ at[i] < n => Follows(comp, moved[i], outer, at[i])
  <2> SUFFICES ASSUME NEW i \in 1 .. m
               PROVE  /\ moved[i] \in FrameType(comp)
                      /\ at[i] < n => Follows(comp, moved[i], outer, at[i])
    OBVIOUS
  <2>1. at[i] \in 0 .. n
    BY <1>3
  <2> QED BY <1>2, <1>3, <2>1
<1>6. moved \in Seq(FrameType(comp)) /\ Len(moved) = m
  <2>1. moved \in [1 .. m -> FrameType(comp)]
    BY <1>2, <1>5
  <2> QED BY <1>3, <2>1
<1>7. \A d \in o .. n - 1 : IsTarget(comp, outer, o, d) <=> IsTarget(comp, open, o, d)
  <2> SUFFICES ASSUME NEW d \in o .. n - 1
               PROVE  SubSeq(outer, o + 1, d) = SubSeq(open, o + 1, d)
    BY DEF IsTarget
  <2> QED BY <1>2, <1>4, SuffixShrinks
<1>8. ASSUME ~ exited PROVE FramesAt(comp, moved, outer, o, at)
  <2>1. \A i \in 1 .. m : at[i] \in o .. n /\ at[i] # n
    BY <1>2, <1>3, <1>8
  <2>2. \A i \in 1 .. m : at[i] \in o .. n - 1 /\ at[i] < n
    BY <1>3, <2>1
  <2>3. at \in [1 .. m -> o .. n - 1]
    BY <1>3, <2>2
  <2>4. \A d \in o .. n - 1 :
           IsTarget(comp, outer, o, d) <=> \E i \in 1 .. m : at[i] = d
    BY <1>3, <1>7
  <2> QED BY <1>3, <1>4, <1>5, <1>6, <2>2, <2>3, <2>4 DEF FramesAt
<1>9. ASSUME exited PROVE moved # <<>> /\ FramesOK(comp, Pop(moved), outer, o)
  <2>1. PICK last \in 1 .. m : at[last] = n
    BY <1>2, <1>3, <1>9
  <2>2. last = m
    <3> SUFFICES ASSUME last # m PROVE FALSE
      OBVIOUS
    <3>1. m \in 1 .. m /\ last < m
      BY <1>3
    <3>2. at[last] < at[m] /\ at[m] \in o .. n
      BY <1>3, <3>1
    <3> QED BY <1>3, <2>1, <3>2
  <2>3. m > 0 /\ moved # <<>>
    BY <1>3, <1>6
  <2>4. PICK rest, atrest :
           rest = Pop(moved) /\ atrest = [i \in 1 .. m - 1 |-> at[i]]
    OBVIOUS
  <2>5. /\ rest \in Seq(FrameType(comp)) /\ Len(rest) = m - 1
        /\ \A i \in 1 .. m - 1 : rest[i] = moved[i]
    BY <1>6, <2>3, <2>4, Prefixes
  <2>6. \A i \in 1 .. m - 1 :
           i \in 1 .. m /\ at[i] \in o .. n - 1 /\ at[i] < n /\ atrest[i] = at[i]
    <3> SUFFICES ASSUME NEW i \in 1 .. m - 1
                 PROVE  i \in 1 .. m /\ at[i] \in o .. n - 1 /\ at[i] < n /\ atrest[i] = at[i]
      OBVIOUS
    <3>1. i \in 1 .. m /\ m \in 1 .. m /\ i < m
      BY <1>3
    <3>2. at[i] < at[m] /\ at[m] = n /\ at[i] \in o .. n
      BY <1>3, <2>1, <2>2, <3>1
    <3> QED BY <1>3, <2>4, <3>1, <3>2
  <2>7. atrest \in [1 .. m - 1 -> o .. n - 1]
    BY <2>4, <2>6
  <2>8. \A d \in o .. n - 1 :
           (\E i \in 1 .. m : at[i] = d) <=> \E i \in 1 .. m - 1 : atrest[i] = d
    <3> SUFFICES ASSUME NEW d \in o .. n - 1
                 PROVE  (\E i \in 1 .. m : at[i] = d)
                           <=> \E i \in 1 .. m - 1 : atrest[i] = d
      OBVIOUS
    <3>1. \A i \in 1 .. m : at[i] = d => i \in 1 .. m - 1
      BY <1>3, <2>1, <2>2
    <3> QED BY <2>6, <3>1
  <2>9. \A d \in o .. n - 1 :
           IsTarget(comp, outer, o, d) <=> \E i \in 1 .. m - 1 : atrest[i] = d
    <3> SUFFICES ASSUME NEW d \in o .. n - 1
                 PROVE  IsTarget(comp, outer, o, d)
                           <=> \E i \in 1 .. m - 1 : atrest[i] = d
      OBVIOUS
    <3>1. d \in o .. n
      BY <1>3
    <3>2. IsTarget(comp, outer, o, d) <=> \E i \in 1 .. m : at[i] = d
      BY <1>3, <1>7, <3>1
    <3> QED BY <2>8, <3>2
  <2>10. \A i \in 1 .. m - 1 : Follows(comp, rest[i], outer, atrest[i])
    BY <1>5, <2>5, <2>6
  <2>11. \A i, j \in 1 .. m - 1 : i < j => atrest[i] < atrest[j]
    BY <1>3, <2>6
  <2>12. FramesAt(comp, rest, outer, o, atrest)
    BY <1>4, <2>5, <2>7, <2>9, <2>10, <2>11 DEF FramesAt
  <2> QED BY <2>3, <2>4, <2>12 DEF FramesOK
<1> QED BY <1>2, <1>8, <1>9 DEF FramesOK

(* Attributes change no axis.                                              *)
LEMMA FramesKept ==
    ASSUME NEW open, NEW o, NEW comp, NEW frames, FramesOK(comp, frames, open, o), NEW bound,
           bound = [i \in 1 .. Len(frames) |-> bound[i]],
           \A i \in 1 .. Len(frames) : frames[i] \in FrameType(comp) =>
              bound[i] \in FrameType(comp) /\ bound[i].fields = frames[i].fields
    PROVE  FramesOK(comp, bound, open, o)
<1>1. PICK at : FramesAt(comp, frames, open, o, at)
  BY DEF FramesOK
<1>2. PICK m : m = Len(frames)
  OBVIOUS
<1>3. m \in Nat /\ \A i \in 1 .. m : frames[i] \in FrameType(comp)
  BY <1>1, <1>2 DEF FramesAt
<1>4. bound \in Seq(FrameType(comp)) /\ Len(bound) = m
  <2>1. bound \in [1 .. m -> FrameType(comp)]
    BY <1>2, <1>3
  <2> QED BY <1>3, <2>1
<1>5. ASSUME NEW i \in 1 .. m PROVE Follows(comp, bound[i], open, at[i])
  <2>1. bound[i] \in FrameType(comp) /\ bound[i].fields = frames[i].fields
    BY <1>2, <1>3
  <2>2. Follows(comp, frames[i], open, at[i])
    BY <1>1, <1>2 DEF FramesAt
  <2> QED BY <2>1, <2>2 DEF Follows
<1>6. FramesAt(comp, bound, open, o, at)
  BY <1>1, <1>2, <1>4, <1>5 DEF FramesAt
<1> QED BY <1>6 DEF FramesOK

-----------------------------------------------------------------------------

(* at climbs through the members of D, which are n.                        *)
Climbs(D, n, at) == /\ D \subseteq Nat
                    /\ \A i \in 1 .. n : at[i] \in Nat
                    /\ \A i, j \in 1 .. n : i < j => at[i] < at[j]
                    /\ \A d \in Nat : d \in D <=> \E i \in 1 .. n : at[i] = d

(* The values of an increasing sequence, counted.                          *)
LEMMA CountIncreasing ==
    ASSUME NEW n \in Nat, NEW at, NEW D, Climbs(D, n, at)
    PROVE  /\ Cardinality(D) = n
           /\ \A i \in 1 .. n : Cardinality({d \in D : d <= at[i]}) = i
<1> USE DEF Climbs
<1> DEFINE T(m) == {at[i] : i \in 1 .. m}
           S == {m \in 0 .. n : IsFiniteSet(T(m)) /\ Cardinality(T(m)) = m}
<1>1. 0 \in S
  <2>1. T(0) = {}
    OBVIOUS
  <2> QED BY <2>1, FS_EmptySet
<1>2. ASSUME NEW m \in 0 .. n - 1, m \in S PROVE m + 1 \in S
  <2>1. IsFiniteSet(T(m)) /\ Cardinality(T(m)) = m
    BY <1>2
  <2>2. m + 1 \in 1 .. n /\ \A i \in 1 .. m + 1 : i = m + 1 \/ i \in 1 .. m
    OBVIOUS
  <2>3. T(m + 1) = T(m) \cup {at[m + 1]}
    BY <2>2
  <2>4. at[m + 1] \notin T(m)
    <3> SUFFICES ASSUME NEW i \in 1 .. m, at[i] = at[m + 1] PROVE FALSE
      OBVIOUS
    <3>1. i \in 1 .. n /\ i < m + 1
      OBVIOUS
    <3>2. at[i] < at[m + 1] /\ at[i] \in Nat
      BY <2>2, <3>1
    <3> QED BY <3>2
  <2> HIDE DEF T
  <2>5. IsFiniteSet(T(m + 1)) /\ Cardinality(T(m + 1)) = m + 1
    BY <2>1, <2>3, <2>4, FS_AddElement
  <2>6. m + 1 \in 0 .. n
    OBVIOUS
  <2> QED BY <2>5, <2>6
<1>3. \A m \in 0 .. n : m \in S
  <2> HIDE DEF S
  <2> QED BY <1>1, <1>2, BoundedInduction
<1>4. \A m \in 0 .. n : Cardinality(T(m)) = m
  BY <1>3
<1>5. D = T(n)
  OBVIOUS
<1>6. ASSUME NEW i \in 1 .. n PROVE {d \in D : d <= at[i]} = T(i)
  <2>1. ASSUME NEW d \in D, d <= at[i] PROVE d \in T(i)
    <3>1. PICK j \in 1 .. n : at[j] = d
      BY <1>5
    <3>2. ~ (i < j)
      <4> SUFFICES ASSUME i < j PROVE FALSE
        OBVIOUS
      <4>1. at[i] < at[j] /\ at[i] \in Nat /\ at[j] \in Nat
        OBVIOUS
      <4> QED BY <2>1, <3>1, <4>1
    <3>3. j \in 1 .. i
      BY <3>2
    <3> QED BY <3>1, <3>3
  <2>2. ASSUME NEW j \in 1 .. i PROVE at[j] \in D /\ at[j] <= at[i]
    <3>1. j \in 1 .. n /\ (j < i \/ j = i)
      OBVIOUS
    <3>2. at[j] \in Nat /\ at[i] \in Nat /\ (j < i => at[j] < at[i])
      BY <3>1
    <3>3. at[j] <= at[i]
      BY <3>1, <3>2
    <3> QED BY <3>1, <3>2, <3>3
  <2> QED BY <2>1, <2>2
<1> HIDE DEF T
<1>7. ASSUME NEW i \in 1 .. n PROVE Cardinality({d \in D : d <= at[i]}) = i
  <2>1. i \in 0 .. n
    OBVIOUS
  <2> QED BY <1>4, <1>6, <2>1
<1>8. n \in 0 .. n
  OBVIOUS
<1> QED BY <1>4, <1>5, <1>7, <1>8

(* The frame of the target at depth d.                                     *)
TargetsUpTo(comp, open, o, d) == {k \in o .. d : IsTarget(comp, open, o, k)}

Rank(comp, open, o, d) == Cardinality(TargetsUpTo(comp, open, o, d))

(* The row of the i-th end tag in a table.                                 *)
Row(ended, i) == Cardinality({k \in ended : k <= i})

(* The frames by the ranks of their targets.                               *)
ByRank(comp, frames, open, o, n) ==
    /\ frames \in Seq(FrameType(comp)) /\ Len(frames) \in Nat
    /\ n \in o .. n => Rank(comp, open, o, n) = Len(frames)
    /\ \A d \in o .. n : IsTarget(comp, open, o, d) =>
          /\ Rank(comp, open, o, d) \in 1 .. Len(frames)
          /\ Follows(comp, frames[Rank(comp, open, o, d)], open, d)
    /\ \A d, k \in o .. n :
          IsTarget(comp, open, o, d) /\ IsTarget(comp, open, o, k) /\ d < k =>
             Rank(comp, open, o, d) < Rank(comp, open, o, k)
    /\ \A i \in 1 .. Len(frames) : \E d \in o .. n :
          IsTarget(comp, open, o, d) /\ Rank(comp, open, o, d) = i

LEMMA Ranked ==
    ASSUME NEW open, Len(open) \in Nat, NEW o \in Nat, NEW comp, NEW frames,
           FramesOK(comp, frames, open, o)
    PROVE  ByRank(comp, frames, open, o, Len(open))
<1>1. PICK at : FramesAt(comp, frames, open, o, at)
  BY DEF FramesOK
<1>2. PICK m, n : m = Len(frames) /\ n = Len(open)
  OBVIOUS
<1>3. /\ m \in Nat /\ n \in Nat /\ frames \in Seq(FrameType(comp))
      /\ at \in [1 .. m -> o .. n]
      /\ \A i \in 1 .. m : Follows(comp, frames[i], open, at[i])
      /\ \A i, j \in 1 .. m : i < j => at[i] < at[j]
      /\ \A d \in o .. n : IsTarget(comp, open, o, d) <=> \E i \in 1 .. m : at[i] = d
  BY <1>1, <1>2 DEF FramesAt
<1> DEFINE targets == {d \in o .. n : IsTarget(comp, open, o, d)}
<1>4. Climbs(targets, m, at)
  <2>1. targets \subseteq Nat
    OBVIOUS
  <2>2. \A i \in 1 .. m : at[i] \in o .. n
    BY <1>3
  <2>3. \A d \in Nat : d \in targets <=> \E i \in 1 .. m : at[i] = d
    BY <1>3, <2>2
  <2>4. \A i \in 1 .. m : at[i] \in Nat
    BY <1>3, <2>2
  <2> HIDE DEF targets
  <2> QED BY <1>3, <2>1, <2>3, <2>4 DEF Climbs
<1>5. /\ Cardinality(targets) = m
      /\ \A i \in 1 .. m : Cardinality({d \in targets : d <= at[i]}) = i
  <2>1. m \in Nat
    BY <1>3
  <2> HIDE DEF targets
  <2> QED BY <1>4, <2>1, CountIncreasing
<1>6. ASSUME NEW d \in o .. n
      PROVE  TargetsUpTo(comp, open, o, d) = {k \in targets : k <= d}
  BY <1>3 DEF TargetsUpTo
<1>7. ASSUME NEW i \in 1 .. m
      PROVE  /\ at[i] \in o .. n /\ IsTarget(comp, open, o, at[i])
             /\ Rank(comp, open, o, at[i]) = i
  <2>1. at[i] \in o .. n
    BY <1>3
  <2> HIDE DEF targets
  <2> QED BY <1>3, <1>5, <1>6, <2>1 DEF Rank
<1>8. ASSUME NEW d \in o .. n, IsTarget(comp, open, o, d)
      PROVE  \E i \in 1 .. m : d = at[i] /\ Rank(comp, open, o, d) = i
  BY <1>3, <1>7, <1>8
<1>9. ASSUME n \in o .. n PROVE Rank(comp, open, o, n) = m
  <2>1. {k \in targets : k <= n} = targets
    BY <1>3
  <2> QED BY <1>5, <1>6, <1>9, <2>1 DEF Rank
<1> HIDE DEF targets
<1>10. ASSUME NEW d \in o .. n, NEW k \in o .. n,
              IsTarget(comp, open, o, d), IsTarget(comp, open, o, k), d < k
       PROVE  Rank(comp, open, o, d) < Rank(comp, open, o, k)
  <2>1. PICK i \in 1 .. m : d = at[i] /\ Rank(comp, open, o, d) = i
    BY <1>8, <1>10
  <2>2. PICK j \in 1 .. m : k = at[j] /\ Rank(comp, open, o, k) = j
    BY <1>8, <1>10
  <2>3. i < j
    <3> SUFFICES ASSUME ~ (i < j) PROVE FALSE
      OBVIOUS
    <3>1. j < i \/ j = i
      OBVIOUS
    <3>2. at[j] < at[i] \/ at[j] = at[i]
      BY <1>3, <3>1
    <3>3. d \in Nat /\ k \in Nat
      BY <1>3
    <3> QED BY <1>10, <2>1, <2>2, <3>2, <3>3
  <2> QED BY <2>1, <2>2, <2>3
<1>11. ASSUME NEW d \in o .. n, IsTarget(comp, open, o, d)
       PROVE  /\ Rank(comp, open, o, d) \in 1 .. m
              /\ Follows(comp, frames[Rank(comp, open, o, d)], open, d)
  BY <1>3, <1>8, <1>11
<1> QED BY <1>2, <1>3, <1>7, <1>9, <1>10, <1>11 DEF ByRank

SameBelow(open, other, o, n) ==
    \A d \in o .. n : SubSeq(other, o + 1, d) = SubSeq(open, o + 1, d)

LEMMA RanksKept ==
    ASSUME NEW open, NEW other, NEW o \in Nat, NEW comp, NEW n \in Nat,
           SameBelow(open, other, o, n)
    PROVE  \A d \in o .. n :
              /\ IsTarget(comp, other, o, d) <=> IsTarget(comp, open, o, d)
              /\ Rank(comp, other, o, d) = Rank(comp, open, o, d)
<1>1. \A d \in o .. n : IsTarget(comp, other, o, d) <=> IsTarget(comp, open, o, d)
  BY DEF IsTarget, SameBelow
<1>2. ASSUME NEW d \in o .. n
      PROVE  TargetsUpTo(comp, other, o, d) = TargetsUpTo(comp, open, o, d)
  <2>1. \A k \in o .. d : k \in o .. n
    OBVIOUS
  <2> QED BY <1>1, <2>1 DEF TargetsUpTo
<1> QED BY <1>1, <1>2 DEF Rank

(* Members of a set of numbers, counted.                                   *)
LEMMA CountUpTo ==
    ASSUME NEW n \in Nat, NEW ended \in SUBSET (1 .. n)
    PROVE  /\ Cardinality(ended) \in Nat
           /\ \A i \in ended : Row(ended, i) \in 1 .. Cardinality(ended)
           /\ Cardinality(ended \cup {n + 1}) = Cardinality(ended) + 1
           /\ Row(ended \cup {n + 1}, n + 1) = Cardinality(ended) + 1
<1>1. IsFiniteSet(ended)
  <2>1. IsFiniteSet(1 .. n)
    BY FS_Interval
  <2> QED BY <2>1, FS_Subset
<1>2. Cardinality(ended) \in Nat
  BY <1>1, FS_CardinalityType
<1>3. ASSUME NEW i \in ended PROVE Row(ended, i) \in 1 .. Cardinality(ended)
  <2> DEFINE upto == {k \in ended : k <= i}
  <2>1. upto \subseteq ended /\ i \in upto
    OBVIOUS
  <2>2. IsFiniteSet(upto) /\ Cardinality(upto) <= Cardinality(ended)
    BY <1>1, <2>1, FS_Subset
  <2>3. Cardinality(upto) \in Nat /\ Cardinality(upto) # 0
    BY <2>1, <2>2, FS_CardinalityType, FS_EmptySet
  <2>4. Row(ended, i) = Cardinality(upto)
    BY DEF Row
  <2> HIDE DEF upto
  <2> QED BY <1>2, <2>2, <2>3, <2>4
<1>4. Cardinality(ended \cup {n + 1}) = Cardinality(ended) + 1
  BY <1>1, FS_AddElement
<1>5. {k \in ended \cup {n + 1} : k <= n + 1} = ended \cup {n + 1}
  <2>1. \A k \in ended \cup {n + 1} : k <= n + 1
    OBVIOUS
  <2> QED BY <2>1
<1> QED BY <1>2, <1>3, <1>4, <1>5 DEF Row

(* The rows of a table are those of its targets, each in a place of its    *)
(* own.                                                                    *)
LEMMA RowsAll ==
    ASSUME NEW n \in Nat, NEW ended \in SUBSET (1 .. n)
    PROVE  /\ \A i \in ended : Row(ended, i) \in 1 .. Cardinality(ended)
           /\ \A i, j \in ended : i # j => Row(ended, i) # Row(ended, j)
           /\ \A r \in 1 .. Cardinality(ended) : \E i \in ended : Row(ended, i) = r
<1>1. /\ IsFiniteSet(ended) /\ Cardinality(ended) \in Nat
      /\ \A i \in ended : Row(ended, i) \in 1 .. Cardinality(ended)
  <2>1. IsFiniteSet(1 .. n)
    BY FS_Interval
  <2>2. IsFiniteSet(ended)
    BY <2>1, FS_Subset
  <2> QED BY <2>2, CountUpTo
<1>2. ASSUME NEW i \in ended, NEW j \in ended, i < j
      PROVE  Row(ended, i) < Row(ended, j)
  <2> DEFINE upto(k) == {l \in ended : l <= k}
  <2>1. upto(i) \subseteq upto(j) \ {j} /\ j \in upto(j)
    <3>1. i \in Nat /\ j \in Nat /\ j <= j
      OBVIOUS
    <3>2. ASSUME NEW l \in upto(i) PROVE l \in upto(j) \ {j}
      <4>1. l \in ended /\ l \in Nat /\ l <= i
        OBVIOUS
      <4>2. l <= j /\ l # j
        BY <1>2, <3>1, <4>1
      <4> QED BY <4>1, <4>2
    <3> QED BY <3>1, <3>2
  <2>2. IsFiniteSet(upto(j)) /\ upto(j) \subseteq ended
    BY <1>1, FS_Subset
  <2>3. /\ IsFiniteSet(upto(j) \ {j})
        /\ Cardinality(upto(j) \ {j}) = Cardinality(upto(j)) - 1
    BY <2>1, <2>2, FS_RemoveElement
  <2>4. Cardinality(upto(i)) <= Cardinality(upto(j) \ {j})
    BY <2>1, <2>3, FS_Subset
  <2>5. Row(ended, i) = Cardinality(upto(i)) /\ Row(ended, j) = Cardinality(upto(j))
    BY DEF Row
  <2>6. Row(ended, i) \in Nat /\ Row(ended, j) \in Nat
    BY <1>1
  <2> HIDE DEF upto
  <2> QED BY <2>3, <2>4, <2>5, <2>6
<1>3. ASSUME NEW i \in ended, NEW j \in ended, i # j
      PROVE  Row(ended, i) # Row(ended, j)
  <2>1. i < j \/ j < i
    BY <1>3
  <2>2. Row(ended, i) \in Nat /\ Row(ended, j) \in Nat
    BY <1>1
  <2> QED BY <1>2, <2>1, <2>2
<1>4. PICK m : m = Cardinality(ended) /\ m \in Nat
  BY <1>1
<1>5. PICK f : f = [i \in ended |-> Row(ended, i)]
  OBVIOUS
<1>6. f \in Injection(ended, 1 .. m)
  <2>1. f \in [ended -> 1 .. m]
    BY <1>1, <1>4, <1>5
  <2>2. \A i, j \in ended : f[i] = f[j] => i = j
    BY <1>3, <1>5
  <2> QED BY <2>1, <2>2 DEF Injection, IsInjective
<1>7. f \in Surjection(ended, 1 .. m)
  <2>1. IsFiniteSet(1 .. m) /\ Cardinality(1 .. m) = m
    BY <1>4, FS_Interval
  <2> QED BY <1>4, <1>6, <2>1, FS_Injection
<1>8. \A r \in 1 .. m : \E i \in ended : Row(ended, i) = r
  BY <1>5, <1>7 DEF Surjection
<1> QED BY <1>1, <1>3, <1>4, <1>8

(* The entries of an exact table.                                          *)
TableRows(table) == {table[i] : i \in 1 .. Len(table)}

LEMMA RowsJoined ==
    ASSUME NEW S, NEW s \in Seq(S), NEW t \in Seq(S)
    PROVE  TableRows(s \o t) = TableRows(s) \cup TableRows(t)
<1>1. /\ Len(s) \in Nat /\ Len(t) \in Nat /\ Len(s \o t) = Len(s) + Len(t)
      /\ \A i \in 1 .. Len(s) : (s \o t)[i] = s[i]
      /\ \A i \in 1 .. Len(t) : (s \o t)[Len(s) + i] = t[i]
  OBVIOUS
<1>2. PICK n, m, u : n = Len(s) /\ m = Len(t) /\ u = s \o t
  OBVIOUS
<1>3. /\ n \in Nat /\ m \in Nat /\ Len(u) = n + m
      /\ \A i \in 1 .. n : u[i] = s[i]
      /\ \A i \in 1 .. m : u[n + i] = t[i]
  BY <1>1, <1>2
<1>4. ASSUME NEW i \in 1 .. n + m PROVE u[i] \in TableRows(s) \cup TableRows(t)
  <2>1. CASE i <= n
    <3>1. i \in 1 .. n
      BY <1>3, <2>1
    <3> QED BY <1>2, <1>3, <3>1 DEF TableRows
  <2>2. CASE i > n
    <3>1. i - n \in 1 .. m /\ n + (i - n) = i
      BY <1>3, <2>2
    <3>2. u[i] = t[i - n]
      BY <1>3, <3>1
    <3> QED BY <1>2, <3>1, <3>2 DEF TableRows
  <2> QED BY <1>3, <2>1, <2>2
<1>5. \A i \in 1 .. n : s[i] \in TableRows(u)
  <2>1. \A i \in 1 .. n : i \in 1 .. n + m
    BY <1>3
  <2> QED BY <1>3, <2>1 DEF TableRows
<1>6. \A i \in 1 .. m : t[i] \in TableRows(u)
  <2>1. \A i \in 1 .. m : n + i \in 1 .. n + m
    BY <1>3
  <2> QED BY <1>3, <2>1 DEF TableRows
<1>7. /\ TableRows(u) = {u[i] : i \in 1 .. n + m}
      /\ TableRows(s) = {s[i] : i \in 1 .. n} /\ TableRows(t) = {t[i] : i \in 1 .. m}
  BY <1>2, <1>3 DEF TableRows
<1>8. TableRows(u) \subseteq TableRows(s) \cup TableRows(t)
  BY <1>4, <1>7
<1>9. TableRows(s) \subseteq TableRows(u) /\ TableRows(t) \subseteq TableRows(u)
  BY <1>5, <1>6, <1>7
<1> QED BY <1>2, <1>8, <1>9

-----------------------------------------------------------------------------
(* Key sequences are compared either way.                                  *)
LEMMA ValuesCompared ==
    ASSUME NEW v \in KeyFieldValue, NEW w \in KeyFieldValue, ValueEqual(v, w)
    PROVE  ValueEqual(w, v)
<1>1. /\ v.items \in Seq(Member) /\ w.items \in Seq(Member)
      /\ Len(v.items) \in Nat /\ Len(w.items) \in Nat
  BY ValueAssumption
<1>2. CASE "untyped" \in {v.shape, w.shape}
  BY <1>2 DEF ValueEqual
<1>3. CASE "untyped" \notin {v.shape, w.shape} /\ "list" \in {v.shape, w.shape}
  <2>1. /\ Len(v.items) = Len(w.items)
        /\ \A i \in 1 .. Len(v.items) :
              MemberEqual(v.items[i], w.items[i], v.items[i].text = w.items[i].text)
    BY <1>3 DEF ValueEqual
  <2>2. \A i \in 1 .. Len(w.items) :
           MemberEqual(w.items[i], v.items[i], w.items[i].text = v.items[i].text)
    BY <2>1 DEF MemberEqual
  <2> QED BY <1>3, <2>1, <2>2 DEF ValueEqual
<1>4. CASE "untyped" \notin {v.shape, w.shape} /\ "list" \notin {v.shape, w.shape}
  <2>1. v.shape = "atom" /\ w.shape = "atom"
    BY <1>4 DEF ValueEqual
  <2>2. MemberEqual(v.items[1], w.items[1], v.text = w.text)
    BY <1>4, <2>1 DEF ValueEqual
  <2>3. MemberEqual(w.items[1], v.items[1], w.text = v.text)
    BY <2>2 DEF MemberEqual
  <2> QED BY <2>1, <2>3 DEF ValueEqual
<1> QED BY <1>2, <1>3, <1>4

LEMMA SequencesCompared ==
    ASSUME NEW s \in KeySequence, NEW t \in KeySequence, SequenceEqual(s, t)
    PROVE  /\ SequenceEqual(t, s)
           /\ IsComplete(s) <=> IsComplete(t)
           /\ \A kind : IsChecked(kind, s) <=> IsChecked(kind, t)
<1>1. ASSUME NEW i \in Field
      PROVE  /\ s[i] = Absent <=> t[i] = Absent
             /\ t[i] # Absent => ValueEqual(t[i], s[i])
  <2>1. \/ s[i] = Absent /\ t[i] = Absent
        \/ s[i] # Absent /\ t[i] # Absent /\ ValueEqual(s[i], t[i])
    BY DEF SequenceEqual
  <2>2. s[i] \in KeyFieldValue \cup {Absent} /\ t[i] \in KeyFieldValue \cup {Absent}
    BY DEF KeySequence
  <2> QED BY <2>1, <2>2, ValuesCompared
<1>2. SequenceEqual(t, s)
  BY <1>1 DEF SequenceEqual
<1>3. IsComplete(s) <=> IsComplete(t)
  BY <1>1 DEF IsComplete
<1> QED BY <1>2, <1>3 DEF IsChecked
=============================================================================
