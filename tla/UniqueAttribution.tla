-------------------------- MODULE UniqueAttribution --------------------------
(***************************************************************************)
(* The Unique Particle Attribution check (src/src/compiler/upa.rs): the    *)
(* content model is compiled with its occurrences capped, so that the      *)
(* automaton has no counters, and from every state of it the terms that    *)
(* could take the next child are compared in pairs; an all group has all   *)
(* its terms compared.                                                     *)
(*                                                                         *)
(* A leaf node has a `name' of its own beside the names it takes: an       *)
(* abstract head takes, in XSD 1.0, only the members of its group.         *)
(***************************************************************************)
EXTENDS ParticleLanguage

LOCAL INSTANCE SequencesExt

CONSTANT Contents \* the types whose content models are checked

VARIABLES
    content,    \* the type
    nfa,        \* the automaton for the check
    at,         \* the next state to look at, 0 before compilation
    conflict    \* the first conflict found, NoConflict until then

upaVars == <<content, nfa, at, conflict>>

-----------------------------------------------------------------------------
(* Mutant of CapForUpa: an optional particle is not repeated.              *)
CapOptionalToOne(min, max) ==
    CASE max = 0 -> <<0, 0>>
      [] max = 1 -> <<min, 1>>
      [] min = max -> <<2, 2>>
      [] min = 0 -> <<0, 1>>
      [] OTHER -> <<1, 2>>

(* cap_for_upa: two occurrences show whatever more of them could.          *)
CapForUpa(min, max) ==
    CASE max = 0 -> <<0, 0>>
      [] max = 1 -> <<min, 1>>
      [] min = max -> <<2, 2>>
      [] min = 0 -> <<0, 2>>
      [] OTHER -> <<1, 2>>

Capped(nodes) ==
    [n \in DOMAIN nodes |->
        LET cap == CapForUpa(nodes[n].min, nodes[n].max)
        IN  [nodes[n] EXCEPT !.min = cap[1], !.max = cap[2]]]

UpaNfa(t) ==
    LET frag == CompileParticles(Capped(t.nodes))
        roots == SelectSeq(Roots(t), LAMBDA n : t.nodes[n].max # 0)
    IN  IF roots = <<>> THEN EpsilonFragment
        ELSE FoldLeft(LAMBDA f, n : Concat(f, frag[n]),
                      frag[Head(roots)], Tail(roots))

-----------------------------------------------------------------------------
(* Two element particles compete if they have the same name or take a      *)
(* common one; the copies that unrolling makes of a particle have the same *)
(* origin and do not compete.  The terms are looked at once, with an index *)
(* from each key a term carries to the first term that carries it.         *)
Keys(term) ==
    {<<"name", term.name>>} \cup ({"substitutable"} \X term.names)

Earlier(p, q) == p[1] < q[1] \/ (p[1] = q[1] /\ p[2] < q[2])

(* Mutant of VisitKey: every later partner of a key is taken.              *)
VisitKeyAlways(run, terms, key, j) ==
    IF run.first[key] = 0 THEN [run EXCEPT !.first[key] = j]
    ELSE IF terms[run.first[key]].origin # terms[j].origin
         THEN [run EXCEPT !.best = <<run.first[key], j>>]
         ELSE run

(* run is [first, paired, best]: for each key the first term that carries  *)
(* it (0: none) and whether it found its partner; the earliest pair.       *)
VisitKey(run, terms, key, j) ==
    LET i == run.first[key] IN
    CASE i = 0 -> [run EXCEPT !.first[key] = j]
      [] i # 0 /\ ~ run.paired[key] /\ terms[i].origin # terms[j].origin ->
            [run EXCEPT
                !.paired[key] = TRUE,
                !.best = IF @ = <<>> \/ Earlier(<<i, j>>, @) THEN <<i, j>> ELSE @]
      [] OTHER -> run

FirstElementConflict(terms) ==
    LET keys == UNION {Keys(terms[i]) : i \in DOMAIN terms}
        visit(run, j) ==
            FoldLeft(LAMBDA r, key : VisitKey(r, terms, key, j),
                     run, SetToSeq(Keys(terms[j])))
    IN  FoldLeft(visit,
                 [first |-> [k \in keys |-> 0], paired |-> [k \in keys |-> FALSE],
                  best |-> <<>>],
                 [j \in DOMAIN terms |-> j]).best

(* Elements first by element, then by wildcard.                            *)
FirstWildcardTaking(elements, wildcards) ==
    LET taking == {p \in (DOMAIN elements) \X (DOMAIN wildcards) :
                      /\ elements[p[1]].origin # wildcards[p[2]].origin
                      /\ elements[p[1]].names \cap wildcards[p[2]].names # {}}
    IN  IF taking = {} THEN <<>>
        ELSE CHOOSE p \in taking : \A q \in taking \ {p} : Earlier(p, q)

FirstWildcardConflict(wildcards) ==
    LET pairs == {p \in (DOMAIN wildcards) \X (DOMAIN wildcards) :
                     /\ p[1] < p[2]
                     /\ wildcards[p[1]].origin # wildcards[p[2]].origin
                     /\ wildcards[p[1]].names \cap wildcards[p[2]].names # {}}
    IN  IF pairs = {} THEN <<>>
        ELSE CHOOSE p \in pairs : \A q \in pairs \ {p} : Earlier(p, q)

NoConflict == <<>>

(* The first conflict among the terms, as the origins of the two.          *)
Conflict(version, terms) ==
    LET elements == SelectSeq(terms, LAMBDA t : t.term = "element")
        wildcards == SelectSeq(terms, LAMBDA t : t.term = "wildcard")
        pair == FirstElementConflict(elements)
        taking == IF version = "1.0" THEN FirstWildcardTaking(elements, wildcards)
                  ELSE <<>>
        both == FirstWildcardConflict(wildcards)
    IN  CASE pair # <<>> ->
                <<"elements", elements[pair[1]].origin, elements[pair[2]].origin>>
          [] pair = <<>> /\ taking # <<>> ->
                <<"element and wildcard", elements[taking[1]].origin,
                  wildcards[taking[2]].origin>>
          [] pair = <<>> /\ taking = <<>> /\ both # <<>> ->
                <<"wildcards", wildcards[both[1]].origin, wildcards[both[2]].origin>>
          [] OTHER -> NoConflict

-----------------------------------------------------------------------------
(* The states behind a state without a child.                              *)
EpsilonReach(automaton, s) ==
    LET reach[seen \in SUBSET DOMAIN automaton.states] ==
            LET more == UNION {{a.to : a \in {b \in automaton.states[q].arcs :
                                                  b.kind = "epsilon"}} : q \in seen}
            IN  IF more \subseteq seen THEN seen ELSE reach[seen \cup more]
    IN  reach[{s}]

Origin(nodes, n) ==
    [term |-> nodes[n].term, name |-> nodes[n].name, names |-> nodes[n].names,
     origin |-> n]

(* The terms of those states, in increasing state order.                   *)
ReachableTerms(automaton, nodes, s) ==
    LET reached == EpsilonReach(automaton, s)
        states == SelectSeq([q \in DOMAIN automaton.states |-> q],
                            LAMBDA q : q \in reached
                                           /\ automaton.states[q].term # 0)
    IN  [i \in DOMAIN states |-> Origin(nodes, automaton.states[states[i]].term)]

AllTerms(t) ==
    LET roots == SelectSeq(Roots(t), LAMBDA n : n \in AllRoots(t))
        parts == FoldLeft(LAMBDA s, n : s \o t.nodes[n].parts, <<>>, roots)
        present == SelectSeq(parts, LAMBDA p : t.nodes[p].max # 0)
    IN  [i \in DOMAIN present |-> Origin(t.nodes, present[i])]

UpaInit ==
    /\ content \in Contents
    /\ nfa = EpsilonFragment
    /\ at = 0
    /\ conflict = NoConflict

CompileForUpa ==
    /\ at = 0 /\ ~ IsAll(content)
    /\ nfa' = UpaNfa(content)
    /\ at' = 1
    /\ UNCHANGED <<content, conflict>>

CheckState ==
    /\ at \in DOMAIN nfa.states /\ conflict = NoConflict /\ ~ IsAll(content)
    /\ conflict' = Conflict(content.version, ReachableTerms(nfa, content.nodes, at))
    /\ at' = at + 1
    /\ UNCHANGED <<content, nfa>>

(* An element may be shadowed by a wildcard: an all group has a wildcard   *)
(* only in XSD 1.1.                                                        *)
CheckAllGroup ==
    /\ at = 0 /\ IsAll(content)
    /\ conflict' = Conflict("1.1", AllTerms(content))
    /\ at' = 2
    /\ UNCHANGED <<content, nfa>>

UpaNext == CompileForUpa \/ CheckState \/ CheckAllGroup
UpaSpec == UpaInit /\ [][UpaNext]_upaVars

Checked == conflict # NoConflict \/ at > Len(nfa.states)

-----------------------------------------------------------------------------
(* The definition (Structures 3.8.6.4): two different particles compete if *)
(* both could take the child that comes next, behind particles that took   *)
(* the children before it.                                                 *)
AnyChild == "any child"
Blind(nodes) == [n \in DOMAIN nodes |-> [nodes[n] EXCEPT !.names = {AnyChild}]]

(* All rests of the content.                                               *)
ReachableRests(t) ==
    LET nodes == Blind(t.nodes)
        step(rests) == UNION {{r.rest : r \in Rests(nodes, rest, AnyChild)} : rest \in rests}
        start == {[i \in DOMAIN Roots(t) |-> Item(t.nodes, Roots(t)[i])]}
        RECURSIVE close(_)
        close(rests) == LET more == rests \cup step(rests)
                        IN  IF more = rests THEN rests ELSE close(more)
    IN  close(start)

Next1(t, rest) == {r.term : r \in Rests(Blind(t.nodes), rest, AnyChild)}

Compete(version, x, y) ==
    LET both == x.names \cap y.names # {}
        kinds == {x.term, y.term}
    IN  CASE kinds = {"element"} -> x.name = y.name \/ both
          [] kinds = {"wildcard"} -> both
          [] OTHER -> version = "1.0" /\ both

Ambiguous(t) ==
    IF IsAll(t)
    THEN \E m, n \in {p \in AllParts(t) : t.nodes[p].max # 0} :
            m # n /\ Compete(t.version, t.nodes[m], t.nodes[n])
    ELSE \E rest \in ReachableRests(t) : \E m, n \in Next1(t, rest) :
            m # n /\ Compete(t.version, t.nodes[m], t.nodes[n])

(* A content model is refused exactly if it is ambiguous: neither the cap  *)
(* on its occurrences nor the copies of unrolling hide a conflict, and     *)
(* they bring no conflict about (compile.rs: the bounds can be capped      *)
(* "without affecting the result").                                        *)
RefusedIfAmbiguous == Checked => ((conflict # NoConflict) <=> Ambiguous(content))

(* The pair that is reported is the first of all pairs, although the terms *)
(* are looked at once (upa.rs: "the pair the former all-pairs scan         *)
(* reported").                                                             *)
FirstPairReported ==
    at \in DOMAIN nfa.states =>
        LET terms == SelectSeq(ReachableTerms(nfa, content.nodes, at),
                               LAMBDA t : t.term = "element")
            pairs == {p \in (DOMAIN terms) \X (DOMAIN terms) :
                         /\ p[1] < p[2]
                         /\ terms[p[1]].origin # terms[p[2]].origin
                         /\ Compete(content.version, terms[p[1]], terms[p[2]])}
            found == FirstElementConflict(terms)
        IN  IF pairs = {} THEN found = <<>>
            ELSE found \in pairs /\ \A p \in pairs \ {found} : Earlier(found, p)
=============================================================================
