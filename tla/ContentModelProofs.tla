-------------------------- MODULE ContentModelProofs --------------------------
(***************************************************************************)
(* Proofs about ContentNfa and ContentModel: pruning dominated             *)
(* configurations loses nothing, ranges follow guards as their values do,  *)
(* and an all group stays within the bounds of its particles.              *)
(***************************************************************************)
EXTENDS ContentModel, SequenceTheorems, TLAPS

-----------------------------------------------------------------------------
(* Counters.                                                               *)
CounterArc == {"reset", "increment", "max_guard", "min_guard"}

CounterDefs(defs) ==
    \A c \in DOMAIN defs : defs[c].min \in Nat /\ defs[c].max \in Nat

(* Counters x are as good as y: the same, or dominating them.              *)
Covers(x, y, defs) == x = y \/ Dominates(x, y, defs)

(* Counters that cover others still do when a counter of both passes an    *)
(* arc: whatever the arc leaves of y[c], it leaves of x[c] as good.        *)
LEMMA CountersStayCovered ==
    ASSUME NEW defs, CounterDefs(defs),
           NEW x \in [DOMAIN defs -> Nat], NEW y \in [DOMAIN defs -> Nat],
           Covers(x, y, defs),
           NEW c \in DOMAIN defs, NEW kind \in CounterArc,
           NEW v \in CountAfter(kind, y[c], defs[c])
    PROVE  \E w \in CountAfter(kind, x[c], defs[c]) :
               Covers([x EXCEPT ![c] = w], [y EXCEPT ![c] = v], defs)
<1> DEFINE Near(a, b, d) == a = b \/ (a < b /\ a >= defs[d].min)
<1>1. \A d \in DOMAIN defs : Near(x[d], y[d], d)
  BY DEF Covers, Dominates
<1>2. x[c] \in Nat /\ y[c] \in Nat /\ defs[c].min \in Nat /\ defs[c].max \in Nat
  BY DEF CounterDefs
<1>3. PICK w \in CountAfter(kind, x[c], defs[c]) : Near(w, v, c)
  <2>1. CASE kind = "reset"
    BY <2>1 DEF CountAfter
  <2>2. CASE kind = "increment"
    BY <2>2, <1>1, <1>2 DEF CountAfter
  <2>3. CASE kind = "max_guard"
    <3>1. v = y[c] /\ y[c] <= defs[c].max - 1
      BY <2>3, <1>2 DEF CountAfter
    <3>2. x[c] \in CountAfter(kind, x[c], defs[c])
      BY <2>3, <3>1, <1>1, <1>2 DEF CountAfter
    <3> QED BY <3>1, <3>2, <1>1
  <2>4. CASE kind = "min_guard"
    <3>1. v = 0 /\ y[c] >= defs[c].min
      BY <2>4, <1>2 DEF CountAfter
    <3>2. 0 \in CountAfter(kind, x[c], defs[c])
      BY <2>4, <3>1, <1>1, <1>2 DEF CountAfter
    <3> QED BY <3>1, <3>2
  <2> QED BY <2>1, <2>2, <2>3, <2>4 DEF CounterArc
<1>4. \A d \in DOMAIN defs :
          Near([x EXCEPT ![c] = w][d], [y EXCEPT ![c] = v][d], d)
  BY <1>1, <1>3
<1>5. Covers([x EXCEPT ![c] = w], [y EXCEPT ![c] = v], defs)
  BY <1>4 DEF Covers, Dominates
<1> QED BY <1>3, <1>5

(* prune_dominated: wherever a configuration that is dropped could go on   *)
(* along an arc, the one that dominates it goes on to the same state, and  *)
(* is there as good again.  So pruning before a closure changes neither    *)
(* the states that are reached nor what is accepted.                       *)
THEOREM DominanceSimulates ==
    ASSUME NEW nfa, CounterDefs(nfa.counters),
           NEW x \in Config(nfa), NEW y \in Config(nfa),
           x.state = y.state, x.range = y.range,
           Covers(x.counters, y.counters, nfa.counters),
           NEW arc,
           arc.to \in DOMAIN nfa.states,
           \/ arc.kind \in {"epsilon", "consume"}
           \/ arc.kind \in CounterArc /\ arc.counter \in DOMAIN nfa.counters,
           NEW z \in Follow(nfa, 0, y, arc), 0 \notin DOMAIN nfa.counters
    PROVE  \E w \in Follow(nfa, 0, x, arc) :
               /\ w.state = z.state /\ w.range = z.range
               /\ Covers(w.counters, z.counters, nfa.counters)
<1>1. CASE arc.kind = "epsilon"
  <2>1. z = [y EXCEPT !.state = arc.to]
    BY <1>1 DEF Follow
  <2>2. [x EXCEPT !.state = arc.to] \in Follow(nfa, 0, x, arc)
    BY <1>1 DEF Follow
  <2> QED BY <2>1, <2>2 DEF Config
<1>2. CASE arc.kind = "consume"
  BY <1>2 DEF Follow
<1>3. CASE arc.kind \in CounterArc /\ arc.counter \in DOMAIN nfa.counters
  <2> DEFINE c == arc.counter
             Next0(u, v) == [[u EXCEPT !.state = arc.to] EXCEPT !.counters[c] = v]
  <2>1. c # 0 /\ arc.kind # "epsilon" /\ arc.kind # "consume"
    BY <1>3 DEF CounterArc
  <2>2. \A u : Follow(nfa, 0, u, arc) =
            {Next0(u, v) : v \in CountAfter(arc.kind, u.counters[c], nfa.counters[c])}
    BY <2>1 DEF Follow
  <2>taken. z \in {Next0(y, v) :
                  v \in CountAfter(arc.kind, y.counters[c], nfa.counters[c])}
    BY <2>2
  <2>3. PICK v \in CountAfter(arc.kind, y.counters[c], nfa.counters[c]) :
            z = Next0(y, v)
    BY <2>taken
  <2>4. /\ x.counters \in [DOMAIN nfa.counters -> Nat]
        /\ y.counters \in [DOMAIN nfa.counters -> Nat]
    BY DEF Config
  <2>5. PICK w \in CountAfter(arc.kind, x.counters[c], nfa.counters[c]) :
            Covers([x.counters EXCEPT ![c] = w], [y.counters EXCEPT ![c] = v],
                   nfa.counters)
    BY <1>3, <2>3, <2>4, CountersStayCovered
  <2>6. Next0(x, w) \in Follow(nfa, 0, x, arc)
    BY <2>2, <2>5
  <2>7. /\ Next0(x, w).state = Next0(y, v).state
        /\ Next0(x, w).range = Next0(y, v).range
        /\ Next0(x, w).counters = [x.counters EXCEPT ![c] = w]
        /\ Next0(y, v).counters = [y.counters EXCEPT ![c] = v]
    BY DEF Config
  <2> HIDE DEF Next0
  <2> QED BY <2>3, <2>5, <2>6, <2>7
<1> QED BY <1>1, <1>2, <1>3

(* CounterRange: a guard or a reset leaves of a range exactly what it      *)
(* leaves of its values, and an increment all their successors up to the   *)
(* maximum, which is as far as a body without children can be repeated.    *)
THEOREM RangesFollowValues ==
    ASSUME NEW def, def.min \in Nat, def.max \in Nat,
           NEW lo \in Nat, NEW hi \in Nat, lo <= hi,
           NEW kind \in CounterArc, NEW u \in Nat
    PROVE  LET counted == \E v \in lo .. hi : u \in CountAfter(kind, v, def)
               ranged == \E s \in RangeAfter(kind, Span(lo, hi), def) : u \in s.lo .. s.hi
           IN  IF kind = "increment" THEN counted /\ u <= def.max => ranged
               ELSE counted <=> ranged
<1> DEFINE counted == \E v \in lo .. hi : u \in CountAfter(kind, v, def)
           ranged == \E s \in RangeAfter(kind, Span(lo, hi), def) : u \in s.lo .. s.hi
<1>0. Span(lo, hi).lo = lo /\ Span(lo, hi).hi = hi
  BY DEF Span
<1>1. CASE kind = "reset"
  <2>1. counted <=> u = 0
    BY <1>1 DEF CountAfter
  <2>2. RangeAfter(kind, Span(lo, hi), def) = {Single(0)}
    BY <1>1 DEF RangeAfter
  <2>3. ranged <=> u \in Single(0).lo .. Single(0).hi
    BY <2>2
  <2> QED BY <1>1, <2>1, <2>3 DEF Single, Span
<1>2. CASE kind = "increment"
  <2> SUFFICES ASSUME counted, u <= def.max PROVE ranged
    BY <1>2
  <2>1. lo + 1 <= u
    BY <1>2 DEF CountAfter
  <2>2. RangeAfter(kind, Span(lo, hi), def) = {Span(lo + 1, def.max)}
    BY <1>0, <1>2, <2>1 DEF RangeAfter
  <2>3. u \in Span(lo + 1, def.max).lo .. Span(lo + 1, def.max).hi
    BY <2>1 DEF Span
  <2> QED BY <2>2, <2>3
<1>3. CASE kind = "max_guard"
  <2> DEFINE top == IF hi < def.max THEN hi ELSE def.max - 1
  <2>1. counted <=> u \in lo .. hi /\ u <= def.max - 1
    BY <1>3 DEF CountAfter
  <2>2. CASE lo >= def.max
    <3>1. RangeAfter(kind, Span(lo, hi), def) = {}
      BY <1>0, <1>3, <2>2 DEF RangeAfter
    <3> QED BY <1>3, <2>1, <2>2, <3>1
  <2>3. CASE ~ lo >= def.max
    <3>1. RangeAfter(kind, Span(lo, hi), def) = {Span(lo, top)}
      BY <1>0, <1>3, <2>3 DEF RangeAfter
    <3>2. ranged <=> u \in Span(lo, top).lo .. Span(lo, top).hi
      BY <3>1
    <3>3. ranged <=> u \in lo .. top
      BY <3>2 DEF Span
    <3> QED BY <1>3, <2>1, <3>3
  <2> QED BY <2>2, <2>3
<1>4. CASE kind = "min_guard"
  <2>1. counted <=> u = 0 /\ \E v \in lo .. hi : v >= def.min
    BY <1>4 DEF CountAfter
  <2>2. (\E v \in lo .. hi : v >= def.min) <=> hi >= def.min
    OBVIOUS
  <2>3. CASE hi < def.min
    <3>1. RangeAfter(kind, Span(lo, hi), def) = {}
      BY <1>0, <1>4, <2>3 DEF RangeAfter
    <3> QED BY <1>4, <2>1, <2>2, <2>3, <3>1
  <2>4. CASE ~ hi < def.min
    <3>1. RangeAfter(kind, Span(lo, hi), def) = {Single(0)}
      BY <1>0, <1>4, <2>4 DEF RangeAfter
    <3>2. ranged <=> u \in Single(0).lo .. Single(0).hi
      BY <3>1
    <3>3. ranged <=> u = 0
      BY <3>2 DEF Single, Span
    <3> QED BY <1>4, <2>1, <2>2, <2>4, <3>3
  <2> QED BY <2>3, <2>4
<1> QED BY <1>1, <1>2, <1>3, <1>4 DEF CounterArc

-----------------------------------------------------------------------------
(* All groups.                                                             *)

(* The particles of a compiled all group are nodes of its type.            *)
LEMMA PartsAreNodes ==
    ASSUME NEW t \in Types, Matcher[t].kind = "all",
           NEW i \in DOMAIN Matcher[t].parts
    PROVE  /\ Matcher[t].parts[i] \in DOMAIN t.nodes
           /\ t.nodes[Matcher[t].parts[i]].min \in Nat
           /\ t.nodes[Matcher[t].parts[i]].max \in Nat \cup {Unbounded}
<1> DEFINE parts(n) == t.nodes[n].parts
<1>1. Matcher[t] = IF IsAllRoot(t, t.base) \/ IsAllRoot(t, t.own)
                   THEN AllGroupMatcher(t)
                   ELSE Automaton(EffectiveNfa(t), EffectiveOpenContent(t))
  BY DEF Matcher
<1>2. IsAllRoot(t, t.base) \/ IsAllRoot(t, t.own)
  BY <1>1 DEF Automaton
<1>3. AllGroupMatcher(t).parts \in
          {parts(t.own), parts(t.base) \o parts(t.own), parts(t.base)}
  BY DEF AllGroupMatcher, AllGroup
<1>4. /\ ~ IsAllRoot(t, t.base) => AllGroupMatcher(t).parts = parts(t.own)
      /\ IsAllRoot(t, t.base) /\ Present(t, t.own) =>
             AllGroupMatcher(t).parts = parts(t.base) \o parts(t.own)
      /\ IsAllRoot(t, t.base) /\ ~ Present(t, t.own) =>
             AllGroupMatcher(t).parts = parts(t.base)
  BY DEF AllGroupMatcher, AllGroup
<1>5. \A n \in DOMAIN t.nodes : parts(n) \in Seq(DOMAIN t.nodes)
  <2> TAKE n \in DOMAIN t.nodes
  <2>1. parts(n) \in Seq(1 .. n - 1)
    BY ContentModelAssumption
  <2>2. 1 .. n - 1 \subseteq DOMAIN t.nodes
    BY ContentModelAssumption
  <2> QED BY <2>1, <2>2, SeqMonotonic
<1>6. /\ IsAllRoot(t, t.base) => t.base \in DOMAIN t.nodes
      /\ IsAllRoot(t, t.own) \/ Present(t, t.own) => t.own \in DOMAIN t.nodes
  BY ContentModelAssumption DEF IsAllRoot, Present
<1>7. AllGroupMatcher(t).parts \in Seq(DOMAIN t.nodes)
  <2>1. CASE ~ IsAllRoot(t, t.base)
    BY <2>1, <1>2, <1>4, <1>5, <1>6
  <2>2. CASE IsAllRoot(t, t.base) /\ ~ Present(t, t.own)
    BY <2>2, <1>4, <1>5, <1>6
  <2>3. CASE IsAllRoot(t, t.base) /\ Present(t, t.own)
    <3>1. parts(t.base) \in Seq(DOMAIN t.nodes) /\ parts(t.own) \in Seq(DOMAIN t.nodes)
      BY <2>3, <1>5, <1>6
    <3> HIDE DEF parts
    <3>2. parts(t.base) \o parts(t.own) \in Seq(DOMAIN t.nodes)
      BY <3>1, ConcatProperties
    <3> QED BY <2>3, <3>2, <1>4
  <2> QED BY <2>1, <2>2, <2>3
<1>8. Matcher[t].parts[i] \in DOMAIN t.nodes
  BY <1>1, <1>2, <1>7
<1> QED BY <1>8, ContentModelAssumption

(* The inductive invariant: the counts of an all group are within bounds;  *)
(* the model is still the matcher that the type was compiled to, for it is *)
(* the bounds of that type that the counts are compared with.              *)
AllGroupInv ==
    /\ type \in Types
    /\ model = Matcher[type]
    /\ consumed \in [DOMAIN model.parts -> Nat]
    /\ AllGroupWithinBounds

(* No particle has taken a child yet, and the suffix has not begun.        *)
LEMMA AllGroupInvInit == Init => AllGroupInv
<1> SUFFICES ASSUME Init PROVE AllGroupInv
  OBVIOUS
<1>1. /\ type \in Types /\ model = Matcher[type]
      /\ consumed = [i \in DOMAIN model.parts |-> 0]
      /\ suffix_locked = FALSE
  BY DEF Init
<1>2. ASSUME model.kind = "all", NEW i \in DOMAIN model.parts
      PROVE  LET node == type.nodes[model.parts[i]] IN
             node.max = Unbounded \/ consumed[i] <= node.max
  BY <1>1, <1>2, PartsAreNodes
<1> QED BY <1>1, <1>2 DEF AllGroupInv, AllGroupWithinBounds

(* A particle of the group takes a child only below its maximum, and none  *)
(* does once the suffix has begun.                                         *)
LEMMA AcceptInAllGroupKeepsBounds ==
    ASSUME AllGroupInv, NEW child \in Name, AcceptInAllGroup(child)
    PROVE  AllGroupInv'
<1>1. PICK k \in Candidates(child) :
          /\ consumed' = [consumed EXCEPT ![k] = @ + 1]
          /\ Accepted(child, model.parts[k])
  BY DEF AcceptInAllGroup
<1>2. /\ k \in DOMAIN model.parts /\ ~ suffix_locked
      /\ CanAccept(k)
  BY DEF Candidates
<1>3. /\ type' = type /\ model' = model /\ suffix_locked' = suffix_locked
      /\ model.kind = "all"
  BY <1>1 DEF Accepted, AcceptInAllGroup
<1>4. consumed' \in [DOMAIN model.parts -> Nat]
  BY <1>1, <1>2 DEF AllGroupInv
<1>5. ASSUME NEW i \in DOMAIN model.parts
      PROVE  LET node == type.nodes[model.parts[i]] IN
             node.max = Unbounded \/ consumed'[i] <= node.max
  <2>1. CASE i = k
    <3>1. type.nodes[model.parts[k]].max \in Nat \cup {Unbounded}
      BY <1>2, <1>3, PartsAreNodes DEF AllGroupInv
    <3>2. consumed'[k] = consumed[k] + 1 /\ consumed[k] \in Nat
      BY <1>1, <1>2 DEF AllGroupInv
    <3> QED BY <1>2, <2>1, <3>1, <3>2 DEF CanAccept
  <2>2. CASE i # k
    BY <1>1, <1>3, <2>2 DEF AllGroupInv, AllGroupWithinBounds
  <2> QED BY <2>1, <2>2
<1> QED BY <1>2, <1>3, <1>4, <1>5 DEF AllGroupInv, AllGroupWithinBounds

(* The suffix begins when every particle has its minimum.                  *)
LEMMA TakeByOpenContentKeepsBounds ==
    ASSUME AllGroupInv, NEW child \in Name, TakeByOpenContent(child)
    PROVE  AllGroupInv'
<1>1. type' = type /\ model' = model /\ consumed' = consumed
  BY DEF TakeByOpenContent, Accepted, state
<1>2. CASE suffix_locked' = suffix_locked
  BY <1>1, <1>2 DEF AllGroupInv, AllGroupWithinBounds
<1>3. CASE suffix_locked' # suffix_locked
  <2>1. model.open.mode = "suffix" /\ model.kind # "automaton"
    BY <1>3 DEF TakeByOpenContent, state
  <2>2. IsSatisfied
    BY <2>1 DEF TakeByOpenContent, OpenContentAllows
  <2> QED BY <1>1, <2>2 DEF AllGroupInv, AllGroupWithinBounds, IsSatisfied
<1> QED BY <1>2, <1>3

(* Of the steps, only these two change what the group has taken.           *)
LEMMA AllGroupInvNext == AllGroupInv /\ [Next]_vars => AllGroupInv'
<1> SUFFICES ASSUME AllGroupInv, [Next]_vars PROVE AllGroupInv'
  OBVIOUS
<1> DEFINE Same == UNCHANGED <<type, model, consumed, suffix_locked>>
<1>0. ASSUME Same PROVE AllGroupInv'
  BY <1>0 DEF AllGroupInv, AllGroupWithinBounds
<1>1. ASSUME NEW child \in Name, StartChild(child) PROVE AllGroupInv'
  <2>1. PICK answer : \/ Abort
                      \/ AdvanceAutomaton(child, answer.frontier)
                      \/ AcceptInAllGroup(child)
                      \/ TakeByOpenContent(child)
                      \/ Reject(child)
    BY <1>1 DEF StartChild
  <2>2. CASE Abort
    BY <2>2, <1>0 DEF Abort, state
  <2>3. CASE AdvanceAutomaton(child, answer.frontier)
    BY <2>3, <1>0 DEF AdvanceAutomaton, Accepted
  <2>4. CASE AcceptInAllGroup(child)
    BY <2>4, AcceptInAllGroupKeepsBounds
  <2>5. CASE TakeByOpenContent(child)
    BY <2>5, TakeByOpenContentKeepsBounds
  <2>6. CASE Reject(child)
    BY <2>6, <1>0 DEF Reject, state
  <2> QED BY <2>1, <2>2, <2>3, <2>4, <2>5, <2>6
<1>2. CASE EndElement
  BY <1>2, <1>0 DEF EndElement, state
<1>3. CASE UNCHANGED vars
  BY <1>3, <1>0 DEF vars
<1> QED BY <1>1, <1>2, <1>3 DEF Next

(* No particle of an all group ever takes more children than its maximum,  *)
(* and the suffix never begins before every particle has its minimum, for  *)
(* every type and any number of children.                                  *)
THEOREM AllGroupsStayWithinBounds == Spec => []AllGroupWithinBounds
<1>1. Init => AllGroupInv
  BY AllGroupInvInit
<1>2. AllGroupInv /\ [Next]_vars => AllGroupInv'
  BY AllGroupInvNext
<1>3. AllGroupInv => AllGroupWithinBounds
  BY DEF AllGroupInv
<1> QED BY <1>1, <1>2, <1>3, PTL DEF Spec
=============================================================================
