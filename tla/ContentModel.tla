---------------------------- MODULE ContentModel ----------------------------
(***************************************************************************)
(* The children of an element against the content model of its type        *)
(* (src/src/validation/content.rs, src/src/compiler/compile.rs and         *)
(* all_group.rs, and the calls of src/src/validation/runtime.rs): each     *)
(* child is taken by a particle, by the open content, or rejected, and at  *)
(* the end tag the content is complete or not.                             *)
(***************************************************************************)
EXTENDS ParticleLanguage

LOCAL INSTANCE SequencesExt

CONSTANTS
    Types,      \* the types of elements
    MaxChildren \* bound: children that are accepted

ASSUME ContentModelAssumption ==
    /\ MaxChildren \in Nat
    /\ \A t \in Types :
           /\ DOMAIN t.nodes = 1 .. Len(t.nodes) /\ Len(t.nodes) \in Nat
           /\ {t.base, t.own} \subseteq {0} \cup DOMAIN t.nodes
           /\ \A n \in DOMAIN t.nodes :
                  /\ t.nodes[n].min \in Nat
                  /\ t.nodes[n].max \in Nat \cup {Unbounded}
                  /\ t.nodes[n].parts \in Seq(1 .. n - 1)

VARIABLES
    type,          \* the type of the element
    model,         \* its compiled content model: the matcher
    frontier,      \* active_states of the automaton, closed
    consumed,      \* AllGroupState.consumed
    suffix_locked, \* the all group: only open content may follow
    children,      \* history: the children that were accepted
    last,          \* history: the last child, and the term that took it
    errors,        \* what was reported; it makes the element invalid
    status         \* the element is "open", "closed", or the run "aborted"

vars == <<type, model, frontier, consumed, suffix_locked, children, last, errors, status>>
state == <<frontier, consumed, suffix_locked>>

Rejected == -1
ByOpenContent == 0
Nobody == [child |-> "", term |-> Rejected]

-----------------------------------------------------------------------------
(* The matcher of a type is [kind, nfa, parts, optional, open]: an         *)
(* automaton, or an all group of the leaves parts.                         *)
Present(t, n) == n # 0 /\ t.nodes[n].max # 0
IsAllRoot(t, n) == Present(t, n) /\ t.nodes[n].term = "all"

Automaton(f, open) ==
    [kind |-> "automaton", nfa |-> f, parts |-> <<>>, optional |-> FALSE,
     open |-> open]
AllGroup(parts, optional, open) ==
    [kind |-> "all", nfa |-> EpsilonFragment, parts |-> parts,
     optional |-> optional, open |-> open]

(* The automaton of the base, then that of the type's own particle.        *)
EffectiveNfa(t) ==
    LET frag == CompileParticles(t.nodes)
        roots == SelectSeq(<<t.base, t.own>>, LAMBDA n : Present(t, n))
    IN  IF roots = <<>> THEN EpsilonFragment
        ELSE FoldLeft(LAMBDA f, n : Concat(f, frag[n]),
                      frag[Head(roots)], Tail(roots))

(* In an extension of XSD 1.1, that of the base is inherited or joined.    *)
EffectiveOpenContent(t) ==
    CASE t.base = 0 \/ t.version = "1.0" -> t.own_open
      [] t.own_open = NoOpenContent -> t.base_open
      [] OTHER -> [t.own_open EXCEPT !.names = @ \cup t.base_open.names]

(* An extension of an all group: the base's own model when nothing is      *)
(* added, else the particles of both; open content is the type's own.      *)
AllGroupMatcher(t) ==
    LET parts(n) == t.nodes[n].parts
        optional(n) == t.nodes[n].min = 0
    IN  IF ~ IsAllRoot(t, t.base)
        THEN AllGroup(parts(t.own), optional(t.own), t.own_open)
        ELSE IF Present(t, t.own)
             THEN AllGroup(parts(t.base) \o parts(t.own),
                           optional(t.base) /\ optional(t.own), t.own_open)
             ELSE AllGroup(parts(t.base), optional(t.base),
                           IF t.own_open = NoOpenContent THEN t.base_open
                           ELSE t.own_open)

Matcher ==
    [t \in Types |->
        IF IsAllRoot(t, t.base) \/ IsAllRoot(t, t.own)
        THEN AllGroupMatcher(t)
        ELSE Automaton(EffectiveNfa(t), EffectiveOpenContent(t))]

(* A type whose initial configurations exceed the limit cannot be loaded.  *)
Loadable(t) == Matcher[t].kind = "all" \/ ~ FromNfa(Matcher[t].nfa).exceeded

-----------------------------------------------------------------------------
Init ==
    /\ type \in {t \in Types : Loadable(t)}
    /\ model = Matcher[type]
    /\ frontier = IF model.kind = "automaton" THEN FromNfa(model.nfa).frontier
                  ELSE [ranged |-> 0, configs |-> {}]
    /\ consumed = [i \in DOMAIN model.parts |-> 0]
    /\ suffix_locked = FALSE
    /\ children = <<>> /\ last = Nobody
    /\ errors = {} /\ status = "open"

Accepted(child, term) ==
    /\ children' = Append(children, child)
    /\ last' = [child |-> child, term |-> term]
    /\ UNCHANGED <<type, model, errors, status>>

(* What the automaton makes of the child: the frontier behind it.          *)
Answer(child) ==
    IF model.kind = "automaton"
    THEN Advance(model.nfa, type.nodes, type.version, frontier, child)
    ELSE [frontier |-> frontier, exceeded |-> FALSE]

(* The term that takes the child is that of some configuration.            *)
AdvanceAutomaton(child, next) ==
    /\ model.kind = "automaton"
    /\ next.configs # {}
    /\ frontier' = next
    /\ UNCHANGED <<consumed, suffix_locked>>
    /\ \E term \in MatchTerms(model.nfa, type.nodes, frontier, child) :
           Accepted(child, term)

(* Mutant of CanAccept: one more than the maximum.                         *)
CanAcceptMore(i) ==
    LET max == type.nodes[model.parts[i]].max IN
    max = Unbounded \/ consumed[i] <= max

CanAccept(i) ==
    LET max == type.nodes[model.parts[i]].max IN
    max = Unbounded \/ consumed[i] < max

IsSatisfied ==
    \A i \in DOMAIN model.parts : consumed[i] >= type.nodes[model.parts[i]].min

(* Mutant of Candidates: particles are tried in the order they are given.  *)
CandidatesInOrder(child) ==
    {i \in DOMAIN model.parts :
        ~ suffix_locked /\ CanAccept(i) /\ child \in type.nodes[model.parts[i]].names}

(* The particles of the group that are tried: elements before wildcards.   *)
Candidates(child) ==
    LET open(term) ==
            {i \in DOMAIN model.parts :
                /\ ~ suffix_locked
                /\ CanAccept(i)
                /\ type.nodes[model.parts[i]].term = term
                /\ child \in type.nodes[model.parts[i]].names}
    IN  IF open("element") # {} THEN open("element") ELSE open("wildcard")

AcceptInAllGroup(child) ==
    /\ model.kind = "all"
    /\ \E i \in Candidates(child) :
           /\ \A j \in Candidates(child) : i <= j
           /\ consumed' = [consumed EXCEPT ![i] = @ + 1]
           /\ Accepted(child, model.parts[i])
    /\ UNCHANGED <<frontier, suffix_locked>>

(* Open content is asked when no particle takes the child.                 *)
Declared(child, next) ==
    IF model.kind = "automaton" THEN next.configs # {} ELSE Candidates(child) # {}

OpenContentAllows(child) ==
    /\ child \in model.open.names
    /\ \/ model.open.mode = "interleave"
       \/ /\ model.open.mode = "suffix"
          /\ IF model.kind = "automaton" THEN ContainsAccept(model.nfa, frontier)
             ELSE IsSatisfied

(* In the suffix nothing that is declared is taken any more.               *)
TakeByOpenContent(child) ==
    /\ OpenContentAllows(child)
    /\ IF model.open.mode = "suffix"
       THEN IF model.kind = "automaton"
            THEN /\ frontier' = [ranged |-> 0,
                                 configs |-> {At(model.nfa, model.nfa.end)}]
                 /\ UNCHANGED <<consumed, suffix_locked>>
            ELSE suffix_locked' = TRUE /\ UNCHANGED <<frontier, consumed>>
       ELSE UNCHANGED state
    /\ Accepted(child, ByOpenContent)

(* The content model stays where it is.                                    *)
Reject(child) ==
    /\ ~ OpenContentAllows(child)
    /\ errors' = errors \cup {"not_allowed"}
    /\ last' = [child |-> child, term |-> Rejected]
    /\ UNCHANGED <<type, model, state, children, status>>

Abort ==
    /\ status' = "aborted"
    /\ UNCHANGED <<type, model, state, children, last, errors>>

(* Element-start: the content model of the parent moves on.                *)
StartChild(child) ==
    /\ status = "open"
    /\ \E answer \in {Answer(child)} :
           \/ answer.exceeded /\ Abort
           \/ /\ ~ answer.exceeded
              /\ Len(children) < MaxChildren
              /\ \/ AdvanceAutomaton(child, answer.frontier)
                 \/ AcceptInAllGroup(child)
                 \/ ~ Declared(child, answer.frontier) /\ TakeByOpenContent(child)
           \/ /\ ~ answer.exceeded
              /\ ~ Declared(child, answer.frontier)
              /\ Reject(child)

IsComplete ==
    IF model.kind = "automaton" THEN ContainsAccept(model.nfa, frontier)
    ELSE \/ model.optional /\ \A i \in DOMAIN consumed : consumed[i] = 0
         \/ IsSatisfied

EndElement ==
    /\ status = "open"
    /\ status' = "closed"
    /\ errors' = IF IsComplete THEN errors ELSE errors \cup {"incomplete"}
    /\ UNCHANGED <<type, model, state, children, last>>

Next == (\E child \in Name : StartChild(child)) \/ EndElement

Spec == Init /\ [][Next]_vars

-----------------------------------------------------------------------------
(* The state of a matcher: an automaton has a frontier of configurations   *)
(* (only the ranged counter has a range, one for the values of the others),*)
(* an all group a count for each particle.                                 *)
TypeOK ==
    /\ type \in Types
    /\ frontier.ranged \in 0 .. Len(model.nfa.counters)
    /\ frontier.configs \subseteq Config(model.nfa)
    /\ \A x \in frontier.configs :
           /\ x.range.lo <= x.range.hi
           /\ IF frontier.ranged = 0 THEN x.range = Single(0)
              ELSE x.counters[frontier.ranged] = 0
    /\ \A x, y \in frontier.configs :
           x.state = y.state /\ x.counters = y.counters => x.range = y.range
    /\ consumed \in [DOMAIN model.parts -> Nat]
    /\ suffix_locked \in BOOLEAN
    /\ children \in Seq(Name) /\ Len(children) <= MaxChildren
    /\ last \in [child : Name, term : DOMAIN type.nodes \cup {Rejected, ByOpenContent}]
                    \cup {Nobody}
    /\ errors \subseteq {"not_allowed", "incomplete"}
    /\ status \in {"open", "closed", "aborted"}

(* A child is rejected only if no particle and no open content of the type *)
(* may take it after the children before, by the definitions of XSD; a     *)
(* child that is accepted, some of them may take: automata, counters that  *)
(* are pruned and ranges that are run ahead answer as the particles do.    *)
ChildrenExact ==
    LET before == IF last.term = Rejected THEN children ELSE Front(children) IN
    last # Nobody =>
        (last.term = Rejected <=>
            Takers(type, Reading(type, before), last.child) = {})

(* A child is attributed to a term that may take it: an element particle   *)
(* before a wildcard (XSD 1.1), a particle before open content, and never  *)
(* again a particle in the suffix.                                         *)
AttributionExact ==
    last.term # Rejected =>
        last.term \in Takers(type, Reading(type, Front(children)), last.child)

(* At the end tag the content is reported incomplete exactly when the      *)
(* children that the particles took are not all that they need.            *)
VerdictExact ==
    status = "closed" =>
        ("incomplete" \in errors <=>
            ~ Completes(type, Reading(type, children).declared))

(* No particle of an all group takes more than its maximum, and the suffix *)
(* begins only when every particle has its minimum (3.10.4).               *)
AllGroupWithinBounds ==
    model.kind = "all" =>
        \A i \in DOMAIN model.parts :
            LET node == type.nodes[model.parts[i]] IN
            /\ node.max = Unbounded \/ consumed[i] <= node.max
            /\ suffix_locked => consumed[i] >= node.min

(* The scalar values that a frontier stands for, and all those of a run    *)
(* that neither prunes nor ranges.                                         *)
Scalars(ranged, configs) ==
    UNION {{[state |-> x.state,
             counters |-> IF ranged = 0 THEN x.counters
                          ELSE [x.counters EXCEPT ![ranged] = v]]
               : v \in x.range.lo .. x.range.hi} : x \in configs}

EveryConfig ==
    FoldLeft(LAMBDA configs, child :
                 LET elements == Matching(model.nfa, type.nodes,
                                          [configs |-> configs], "element", child)
                     wildcards == Matching(model.nfa, type.nodes,
                                           [configs |-> configs], "wildcard", child)
                 IN  EpsilonClosure(model.nfa, 0,
                         Consumed(model.nfa,
                             IF type.version = "1.0" THEN elements \cup wildcards
                             ELSE IF elements # {} THEN elements ELSE wildcards)),
             EpsilonClosure(model.nfa, 0, {At(model.nfa, model.nfa.start)}),
             Reading(type, children).declared)

(* What the optimised frontiers drop is what another configuration stands  *)
(* for: ranges hold exactly the values that a run without them would have, *)
(* no phantom value and none missing, and a configuration that was pruned, *)
(* now or before any earlier child, is dominated by one that is kept.      *)
FrontierExact ==
    /\ TypeOK
    /\ model.kind = "automaton" /\ ~ Reading(type, children).suffix =>
        LET kept == Scalars(frontier.ranged, frontier.configs)
            every == Scalars(0, EveryConfig)
        IN  /\ kept \subseteq every
            /\ \A y \in every \ kept :
                   /\ frontier.ranged = 0
                   /\ \E x \in kept :
                          /\ x.state = y.state
                          /\ Dominates(x.counters, y.counters, model.nfa.counters)

=============================================================================
