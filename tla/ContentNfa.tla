----------------------------- MODULE ContentNfa -----------------------------
(***************************************************************************)
(* Content models as automata: how the particles of a complex type become  *)
(* an NFA with counters (src/src/compiler/fragment.rs, particle.rs and     *)
(* compile.rs) and how the set of its active configurations moves over the *)
(* children of an element (src/src/compiler/nfa.rs).                       *)
(*                                                                         *)
(* The particles of a type are a sequence of nodes                         *)
(* [term, names, parts, min, max]: a leaf is an "element" or a "wildcard"  *)
(* that takes the children named in names (the element and the members of  *)
(* its substitution group; the names its namespace constraint lets         *)
(* through), a group is a "sequence", a "choice" or an "all" of the nodes  *)
(* parts, which come before it.  States, counters and nodes count from 1.  *)
(***************************************************************************)
EXTENDS Integers, Sequences, FiniteSets

LOCAL INSTANCE SequencesExt

CONSTANTS
    CountedThreshold, \* COUNTED_THRESHOLD: up to it, occurrences are unrolled
    MaxActiveConfigs  \* MAX_ACTIVE_CONFIGS: more of them are a failure

ASSUME ContentNfaAssumption ==
    CountedThreshold \in Nat \ {0} /\ MaxActiveConfigs \in Nat

Unbounded == -1 \* maxOccurs: None

-----------------------------------------------------------------------------
(* A state is [term, arcs], term a node or 0, an arc [to, kind, counter].  *)
State(term, arcs) == [term |-> term, arcs |-> arcs]
Arc(to, kind, counter) == [to |-> to, kind |-> kind, counter |-> counter]
Epsilon(to) == Arc(to, "epsilon", 0)

Fragment(states, start, end, counters, nullable) ==
    [states |-> states, start |-> start, end |-> end,
     counters |-> counters, nullable |-> nullable]

AddArc(states, s, arc) == [states EXCEPT ![s].arcs = @ \cup {arc}]

(* The states of f behind n other states and c other counters.             *)
Offset(f, n, c) ==
    [s \in DOMAIN f.states |->
        State(f.states[s].term,
              {Arc(a.to + n, a.kind, IF a.counter = 0 THEN 0 ELSE a.counter + c)
                  : a \in f.states[s].arcs})]

SingleTerm(node) ==
    Fragment(<<State(node, {Arc(2, "consume", 0)}), State(0, {})>>,
             1, 2, <<>>, FALSE)
EpsilonFragment == Fragment(<<State(0, {})>>, 1, 1, <<>>, TRUE)
DeadFragment == Fragment(<<State(0, {}), State(0, {})>>, 1, 2, <<>>, FALSE)

Concat(f, g) ==
    LET n == Len(f.states) IN
    Fragment(AddArc(f.states, f.end, Epsilon(g.start + n))
                 \o Offset(g, n, Len(f.counters)),
             f.start, g.end + n, f.counters \o g.counters,
             f.nullable /\ g.nullable)

Alternate(f, g) ==
    LET n == Len(f.states)
        start == n + Len(g.states) + 1
        end == start + 1
    IN  Fragment(AddArc(f.states, f.end, Epsilon(end))
                     \o AddArc(Offset(g, n, Len(f.counters)), g.end,
                               Epsilon(end))
                     \o <<State(0, {Epsilon(f.start), Epsilon(g.start + n)}),
                          State(0, {})>>,
                 start, end, f.counters \o g.counters,
                 f.nullable \/ g.nullable)

Optional(f) ==
    [f EXCEPT !.states = AddArc(f.states, f.start, Epsilon(f.end)),
              !.nullable = TRUE]

(* wrap_loop: the edge that repeats the body stays between a fresh entry   *)
(* and a fresh exit.                                                       *)
RepeatPlus(f) ==
    LET entry == Len(f.states) + 1
        exit == entry + 1
    IN  Fragment(AddArc(AddArc(f.states, f.end, Epsilon(f.start)),
                        f.end, Epsilon(exit))
                     \o <<State(0, {Epsilon(f.start)}), State(0, {})>>,
                 entry, exit, f.counters, f.nullable)

(* Mutant of RepeatStar: the loop joins the boundary states of the body.   *)
RepeatStarBare(f) ==
    Optional([f EXCEPT !.states = AddArc(f.states, f.end, Epsilon(f.start))])

RepeatStar(f) == Optional(RepeatPlus(f))

RepeatExact(f, n) ==
    IF n = 0 THEN EpsilonFragment
    ELSE FoldLeft(Concat, f, [i \in 1 .. n - 1 |-> f])

(* n mandatory copies, then m of f?                                        *)
CopiesThenOptional(f, n, m) ==
    FoldLeft(Concat, RepeatExact(f, n), [i \in 1 .. m |-> Optional(f)])

RepeatRange(f, min, max) ==
    CASE min = 0 /\ max = 1 -> Optional(f)
      [] min = 0 /\ max = Unbounded -> RepeatStar(f)
      [] min = 1 /\ max = Unbounded -> RepeatPlus(f)
      [] min > 1 /\ max = Unbounded -> Concat(RepeatExact(f, min), RepeatStar(f))
      [] OTHER -> IF min = max THEN RepeatExact(f, min)
                  ELSE CopiesThenOptional(f, min, max - min)

(* Three more states, and a counter for the completed iterations.          *)
RepeatCounted(f, min, max) ==
    LET c == Len(f.counters) + 1
        entry == Len(f.states) + 1
        guard == entry + 1
        exit == entry + 2
        bypass == IF min = 0 THEN {Epsilon(exit)} ELSE {}
    IN  Fragment(AddArc(f.states, f.end, Arc(guard, "increment", c))
                     \o <<State(0, {Arc(f.start, "reset", c)} \cup bypass),
                          State(0, {Arc(f.start, "max_guard", c),
                                    Arc(exit, "min_guard", c)}),
                          State(0, {})>>,
                 entry, exit,
                 Append(f.counters,
                        [min |-> min, max |-> max, nullable |-> f.nullable]),
                 min = 0 \/ f.nullable)

ApplyOccurs(f, min, max) ==
    CASE max = Unbounded /\ min > CountedThreshold ->
            Concat(RepeatCounted(f, min, min), RepeatStar(f))
      [] max <= CountedThreshold -> RepeatRange(f, min, max)
      [] min = 0 -> RepeatCounted(f, 0, max)
      [] min \in 1 .. CountedThreshold ->
            Concat(RepeatExact(f, min), RepeatCounted(f, 0, max - min))
      [] OTHER -> RepeatCounted(f, min, max)

(* A branch with maxOccurs = 0 is no branch of the choice.                 *)
Joined(frag, term, parts, live) ==
    IF term = "choice"
    THEN IF live = <<>> THEN DeadFragment
         ELSE FoldLeft(Alternate, frag[Head(live)],
                       [i \in DOMAIN Tail(live) |-> frag[Tail(live)[i]]])
    ELSE IF parts = <<>> THEN EpsilonFragment
         ELSE FoldLeft(Concat, frag[Head(parts)],
                       [i \in DOMAIN Tail(parts) |-> frag[Tail(parts)[i]]])

(* The fragments of the nodes, each with its occurrences.                  *)
CompileParticles(nodes) ==
    LET frag[n \in DOMAIN nodes] ==
            LET node == nodes[n]
                live == SelectSeq(node.parts, LAMBDA p : nodes[p].max # 0)
            IN  ApplyOccurs(IF node.term \in {"element", "wildcard"}
                            THEN SingleTerm(n)
                            ELSE Joined(frag, node.term, node.parts, live),
                            node.min, node.max)
    IN  frag

-----------------------------------------------------------------------------
(* A configuration is [state, counters, range].  The counter `ranged' (0:  *)
(* none) has all the values of the range and is 0 in counters; without it  *)
(* the range is [0, 0].  The frontier of a run is [ranged, configs]: the   *)
(* code's Simple (no counters) and Counted frontiers have no ranged        *)
(* counter, its RangedSingle and Hybrid frontiers have one.                *)
Span(lo, hi) == [lo |-> lo, hi |-> hi]
Single(v) == Span(v, v)

Config(nfa) ==
    [state : DOMAIN nfa.states, counters : [DOMAIN nfa.counters -> Nat],
     range : [lo : Nat, hi : Nat]]

(* Mutant of CountAfter: a loop may be left one iteration early.           *)
CountAfterEarly(kind, v, def) ==
    CASE kind = "reset" -> {0}
      [] kind = "increment" -> {v + 1}
      [] kind = "max_guard" -> {v} \cap 0 .. def.max - 1
      [] kind = "min_guard" -> IF v + 1 >= def.min THEN {0} ELSE {}

(* What is left of the value, or of the range, of a counter behind an arc. *)
CountAfter(kind, v, def) ==
    CASE kind = "reset" -> {0}
      [] kind = "increment" -> {v + 1}
      [] kind = "max_guard" -> {v} \cap 0 .. def.max - 1
      [] kind = "min_guard" -> IF v >= def.min THEN {0} ELSE {}

(* The body of a ranged counter can be passed without a child, so that one *)
(* increment reaches every value up to the maximum.                        *)
RangeAfter(kind, r, def) ==
    CASE kind = "reset" -> {Single(0)}
      [] kind = "increment" ->
            IF r.lo + 1 <= def.max THEN {Span(r.lo + 1, def.max)} ELSE {}
      [] kind = "max_guard" ->
            IF r.lo >= def.max THEN {}
            ELSE {Span(r.lo, IF r.hi < def.max THEN r.hi ELSE def.max - 1)}
      [] kind = "min_guard" -> IF r.hi < def.min THEN {} ELSE {Single(0)}

Follow(nfa, ranged, config, arc) ==
    LET there == [config EXCEPT !.state = arc.to]
        c == arc.counter
    IN  CASE arc.kind = "epsilon" -> {there}
          [] arc.kind = "consume" -> {}
          [] OTHER ->
              IF c = ranged
              THEN {[there EXCEPT !.range = r] :
                        r \in RangeAfter(arc.kind, config.range, nfa.counters[c])}
              ELSE {[there EXCEPT !.counters[c] = v] :
                        v \in CountAfter(arc.kind, config.counters[c],
                                         nfa.counters[c])}

EpsilonClosure(nfa, ranged, seeds) ==
    LET follow(configs) ==
            UNION {Follow(nfa, ranged, x[1], x[2]) :
                       x \in UNION {{x} \X nfa.states[x.state].arcs : x \in configs}}
        closure[reached \in SUBSET Config(nfa)] ==
            LET more == follow(reached) \ reached
            IN  IF more = {} THEN reached ELSE closure[reached \cup more]
    IN  closure[seeds]

(* Mutant of Merged: ranges that meet are kept side by side.               *)
MergedNever(configs) == configs

(* One range per state and values of the other counters.                   *)
Merged(configs) ==
    {[x EXCEPT !.range =
        LET same == {y.range : y \in {z \in configs : z.state = x.state
                                         /\ z.counters = x.counters}}
        IN  Span(Min({r.lo : r \in same}), Max({r.hi : r \in same}))]
        : x \in configs}

Dominates(x, y, defs) ==
    /\ x # y
    /\ \A c \in DOMAIN defs : x[c] = y[c] \/ (x[c] < y[c] /\ x[c] >= defs[c].min)

PruneDominated(configs, defs) ==
    {x \in configs : ~ \E y \in configs :
        y.state = x.state /\ Dominates(y.counters, x.counters, defs)}

Rangeable(nfa) ==
    {c \in DOMAIN nfa.counters :
        nfa.counters[c].nullable /\ nfa.counters[c].max > CountedThreshold}

(* The values that are to become one range have none missing between them. *)
NoGap(configs) ==
    \A x \in Merged(configs) :
        x.range.hi - x.range.lo + 1 =
            Cardinality({y \in configs : y.state = x.state
                                            /\ y.counters = x.counters})

(* maybe_switch_ranged_counter: when the ranged counter is 0 everywhere,   *)
(* the rangeable counter whose values spread most (then with the largest   *)
(* maximum, then the first) takes over, if its values leave no gap.        *)
MaybeSwitchRanged(nfa, ranged, configs) ==
    LET unchanged == [ranged |-> ranged, configs |-> configs]
        values(c) == {x.counters[c] : x \in configs}
        spread(c) == Max(values(c)) - Min(values(c)) + 1
        candidates == {c \in Rangeable(nfa) \ {ranged} : spread(c) > 1}
        better(c, d) ==
            \/ spread(c) > spread(d)
            \/ /\ spread(c) = spread(d)
               /\ \/ nfa.counters[c].max > nfa.counters[d].max
                  \/ (nfa.counters[c].max = nfa.counters[d].max /\ c < d)
        best == CHOOSE c \in candidates : \A d \in candidates \ {c} : better(c, d)
        repacked == {[x EXCEPT !.counters[best] = 0,
                               !.range = Single(x.counters[best])] : x \in configs}
    IN  IF configs = {} \/ \E x \in configs : x.range # Single(0) THEN unchanged
        ELSE IF candidates = {} THEN unchanged
        ELSE IF NoGap(repacked)
             THEN [ranged |-> best, configs |-> Merged(repacked)]
             ELSE unchanged

(* try_epsilon_closure: the frontier behind the seeds, and whether it has  *)
(* more configurations than the limit allows.                              *)
Close(nfa, ranged, seeds) ==
    LET reached == EpsilonClosure(nfa, ranged, seeds) IN
    IF ranged = 0
    THEN [frontier |-> [ranged |-> 0,
                        configs |-> PruneDominated(reached, nfa.counters)],
          exceeded |-> /\ nfa.counters # <<>>
                       /\ Cardinality(reached) > MaxActiveConfigs]
    ELSE [frontier |-> MaybeSwitchRanged(nfa, ranged, Merged(reached)),
          exceeded |-> /\ Len(nfa.counters) > 1
                       /\ Cardinality(Merged(reached)) > MaxActiveConfigs]

(* Mutant of InitialRanged: bodies that need a child are ranged as well.   *)
InitialRangedAny(nfa) == IF nfa.counters = <<>> THEN 0 ELSE 1

(* try_from_nfa: the counter that is ranged at first.                      *)
InitialRanged(nfa) ==
    LET nullable == {c \in DOMAIN nfa.counters : nfa.counters[c].nullable}
        max(c) == nfa.counters[c].max
        best == CHOOSE c \in nullable :
                    \A d \in nullable :
                        max(c) > max(d) \/ (max(c) = max(d) /\ c <= d)
    IN  IF Len(nfa.counters) = 1 /\ nullable # {} THEN 1
        ELSE IF nullable # {} /\ max(best) > CountedThreshold THEN best ELSE 0

At(nfa, state) ==
    [state |-> state, counters |-> [c \in DOMAIN nfa.counters |-> 0],
     range |-> Single(0)]

FromNfa(nfa) == Close(nfa, InitialRanged(nfa), {At(nfa, nfa.start)})

ContainsAccept(nfa, frontier) ==
    \E x \in frontier.configs : x.state = nfa.end

(* The configurations that can take the child as a term of this kind.      *)
Matching(nfa, nodes, frontier, term, child) ==
    {x \in frontier.configs :
        LET node == nfa.states[x.state].term IN
        node # 0 /\ nodes[node].term = term /\ child \in nodes[node].names}

Consumed(nfa, configs) ==
    {[x EXCEPT !.state = (CHOOSE a \in nfa.states[x.state].arcs :
                              a.kind = "consume").to] : x \in configs}

(* XSD 1.1 prefers element particles to wildcards.                         *)
Advance(nfa, nodes, version, frontier, child) ==
    LET elements == Matching(nfa, nodes, frontier, "element", child)
        wildcards == Matching(nfa, nodes, frontier, "wildcard", child)
        seeds == IF version = "1.0" THEN elements \cup wildcards
                 ELSE IF elements # {} THEN elements ELSE wildcards
    IN  Close(nfa, frontier.ranged, Merged(Consumed(nfa, seeds)))

(* The terms that the child can be attributed to: of two terms, the one    *)
(* that comes first in the frontier.                                       *)
MatchTerms(nfa, nodes, frontier, child) ==
    LET elements == Matching(nfa, nodes, frontier, "element", child)
        wildcards == Matching(nfa, nodes, frontier, "wildcard", child)
    IN  {nfa.states[x.state].term :
            x \in IF elements # {} THEN elements ELSE wildcards}
=============================================================================
