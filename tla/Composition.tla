----------------------------- MODULE Composition ------------------------------
(***************************************************************************)
(* What redefine and override directives do to the schema documents that   *)
(* DirectiveWalk loaded (src/src/schema/mod.rs, apply_redefine_override,   *)
(* with redefine.rs and override_dir.rs): every redefinition needs an      *)
(* original declared in the redefined document's view; the redefinitions   *)
(* are applied first, then the overrides, each from the documents that     *)
(* depend on nothing to those that depend on the others.  Applying one     *)
(* component is a step; an error ends the call with what it has done.      *)
(*                                                                         *)
(* A component is named by an identity (kind, namespace, name); its        *)
(* content is what a redefinition says of itself: how often it refers to   *)
(* its own name.                                                           *)
(***************************************************************************)
EXTENDS DirectiveWalk, SequencesExt

CONSTANT NoComponent

VARIABLES
    loaded,               \* the documents, with their resolved directives
    stage,                \* the phase that the schema set is in
    queue,                \* the components still to be applied
    component_index,      \* of each document: identity -> component
    namespace_tables,     \* <<symbol space, namespace, name>> -> component
    effective_components, \* identity -> component and its provenance
    redefine_original,    \* redefinition -> component
    restriction_checks,   \* redefine_requires_restriction_check is set
    schema_defaults_doc,  \* overriding component -> document
    failure               \* what the call returned as an error

compositionVars ==
    <<loaded, stage, queue, component_index, namespace_tables, effective_components,
      redefine_original, restriction_checks, schema_defaults_doc, failure>>

Doc == DOMAIN loaded

SpaceOf(identity) == Space(identity, identity.namespace)

(* A top-level component: the document it stands in, and where.            *)
Declared(d, identity) ==
    [doc |-> d, by |-> "declared", place |-> <<>>, identity |-> identity]
ChildAt(d, by, i, j) ==
    [doc |-> d, by |-> by, place |-> <<i, j>>,
     identity |-> loaded[d][by][i].children[j].identity]

Put(f, x, y) == [z \in DOMAIN f \cup {x} |-> IF z = x THEN y ELSE f[z]]

Resolved(directives) == SelectSeq(directives, LAMBDA r : r.target # NoDocument)
TargetDocs(directives) ==
    LET resolved == Resolved(directives) IN [i \in DOMAIN resolved |-> resolved[i].target]

-----------------------------------------------------------------------------
(* The order of the directives                                             *)

(* Mutants of the two below: includes do not count.                        *)
RedefineTargetsAlone == [d \in Doc |-> TargetDocs(loaded[d].redefine)]
OverrideTargetsAlone == [d \in Doc |-> TargetDocs(loaded[d].override)]

(* The documents that a document's depth is measured over.                 *)
RedefineTargets ==
    [d \in Doc |-> TargetDocs(loaded[d].redefine) \o TargetDocs(loaded[d].include)]
OverrideTargets ==
    [d \in Doc |-> TargetDocs(loaded[d].override) \o TargetDocs(loaded[d].include)]

(* One more than the deepest target.  A document on the path counts as 0,  *)
(* and what is computed under that assumption goes into the cache.         *)
RECURSIVE Depth(_, _, _, _)
Depth(targets, d, cache, visiting) ==
    IF d \in DOMAIN cache THEN [depth |-> cache[d], cache |-> cache]
    ELSE IF d \in visiting THEN [depth |-> 0, cache |-> cache]
    ELSE LET Deeper(found, t) ==
                 LET below == Depth(targets, t, found.cache, visiting \cup {d})
                 IN  [depth |-> IF below.depth + 1 > found.depth THEN below.depth + 1
                                ELSE found.depth,
                      cache |-> below.cache]
             deepest == FoldLeft(Deeper, [depth |-> 0, cache |-> cache], targets[d])
         IN  [deepest EXCEPT !.cache = Put(@, d, deepest.depth)]

Depths(targets) ==
    FoldLeft(LAMBDA cache, d : Depth(targets, d, cache, {}).cache,
             <<>>, [d \in Doc |-> d])

(* The components of the directives, by the depth of their documents; of   *)
(* equal depth in document order.                                          *)
Ordered(by, targets) ==
    LET depths == Depths(targets)
        ChildrenOf(d) ==
            FlattenSeq([i \in DOMAIN loaded[d][by] |->
                [j \in DOMAIN loaded[d][by][i].children |-> ChildAt(d, by, i, j)]])
        AtDepth(n) ==
            FlattenSeq([d \in Doc |-> IF depths[d] = n THEN ChildrenOf(d) ELSE <<>>])
    IN  FlattenSeq([n \in 1 .. Len(loaded) + 1 |-> AtDepth(n - 1)])

DirectiveOf(c) == loaded[c.doc][c.by][c.place[1]]

-----------------------------------------------------------------------------
(* The original of a redefinition                                          *)

(* What the view of a document consists of beside its own components.      *)
CompositionTargets(d) == TargetDocs(loaded[d].redefine) \o TargetDocs(loaded[d].include)

(* First the document's own components, then those of its targets, never   *)
(* entering a document that the path is in.                                *)
LookupOriginal(index, start, identity, seeded) ==
    LET lookup[d \in Doc, visited \in SUBSET Doc] ==
            IF d \in visited THEN NoComponent
            ELSE IF identity \in DOMAIN index[d] THEN index[d][identity]
            ELSE FoldLeft(
                     LAMBDA found, t :
                         IF found # NoComponent THEN found ELSE lookup[t, visited \cup {d}],
                     NoComponent, CompositionTargets(d))
    IN  lookup[start, seeded]

(* Before any is applied: declared where the redefining document is not    *)
(* needed to come to it.                                                   *)
HasParsedOriginal(d, target, identity) ==
    LookupOriginal(component_index, target, identity, {d}) # NoComponent

(* Without a document, whatever the namespace table binds to the name.     *)
Original(c) ==
    LET target == DirectiveOf(c).target IN
    IF target # NoDocument THEN LookupOriginal(component_index, target, c.identity, {})
    ELSE IF SpaceOf(c.identity) \in DOMAIN namespace_tables
         THEN namespace_tables[SpaceOf(c.identity)] ELSE NoComponent

(* A type derives from its own name; a group refers to itself once, from   *)
(* 1 to 1, or not at all, which is then checked to be a restriction.       *)
RefersToItself(c) ==
    LET child == DirectiveOf(c).children[c.place[2]] IN
    IF c.identity.kind \in {"simple", "complex"} THEN child.references = "own"
    ELSE child.references \in {"own", "none"}

NeedsRestrictionCheck(c) ==
    DirectiveOf(c).children[c.place[2]].references = "none"

-----------------------------------------------------------------------------
(* The target set of an override                                           *)

(* Everything the overridden document includes and overrides, the same     *)
(* for what it finds; no document twice.                                   *)
TargetSet(start) ==
    LET Onward(d) == Range(TargetDocs(loaded[d].include) \o TargetDocs(loaded[d].override))
        Step(ds) == ds \cup UNION {Onward(d) : d \in ds}
        closure[n \in 0 .. Len(loaded)] ==
            IF n = 0 THEN {start} ELSE Step(closure[n - 1])
    IN  closure[Len(loaded)]

(* An override without a document replaces unconditionally; any other      *)
(* only what some document of its target set holds.                        *)
Matches(target, identity) ==
    \/ target = NoDocument
    \/ \E d \in TargetSet(target) : identity \in DOMAIN component_index[d]

(* Both without a namespace, both with the same, or the overridden one     *)
(* without (it takes the overriding one's).                                *)
NamespacesFit(d, target) ==
    loaded[target].namespace \in {loaded[d].namespace, NoNamespace}

(* The children of a document's overrides.                                 *)
OverridingChildren(d) ==
    {[block |-> i, place |-> j, target |-> loaded[d].override[i].target,
      identity |-> loaded[d].override[i].children[j].identity] :
        <<i, j>> \in {p \in (1 .. 4) \X (1 .. 4) :
            /\ p[1] \in DOMAIN loaded[d].override
            /\ p[2] \in DOMAIN loaded[d].override[p[1]].children}}

(* Two children of one block with one identity, or of two blocks if both   *)
(* match.                                                                  *)
OverridesTwice(d) ==
    \E o \in OverridingChildren(d), p \in OverridingChildren(d) :
        /\ o # p /\ o.identity = p.identity
        /\ \/ o.block = p.block
           \/ Matches(o.target, o.identity) /\ Matches(p.target, p.identity)

-----------------------------------------------------------------------------
(* The steps                                                               *)

Identity(component, d) ==
    [kind |-> component.kind, name |-> component.name,
     namespace |-> documents[d].target_namespace]

(* resolved_doc_id, as the walk left it.                                   *)
ResolvedTo(d, r) ==
    LET targets == {e.target : e \in {f \in Edges :
            /\ f.source = d /\ f.kind = r.kind
            /\ documents[f.target].location = r.location}}
    IN  IF targets = {} THEN NoDocument ELSE CHOOSE t \in targets : TRUE

(* What the walk made of a document.                                       *)
Parsed(d) ==
    LET Of(kind) ==
            LET rs == SelectSeq(Directives(d), LAMBDA r : r.kind = kind)
            IN  [i \in DOMAIN rs |->
                    [target |-> ResolvedTo(d, rs[i]),
                     children |-> [j \in DOMAIN rs[i].children |->
                         [identity |-> Identity(rs[i].children[j].component, d),
                          references |-> rs[i].children[j].references]]]]
    IN  [namespace |-> documents[d].target_namespace,
         declares |-> {Identity(c, d) : c \in world.declares[documents[d].location]},
         include |-> Of("include"), redefine |-> Of("redefine"), override |-> Of("override")]

(* Assembly has put every declaration into its document's index and into   *)
(* its namespace's table, and refused a second one of the same name.       *)
IndexOf(docs) ==
    [d \in DOMAIN docs |-> [identity \in docs[d].declares |-> Declared(d, identity)]]
TablesOf(docs) ==
    LET declared == {<<d, identity>> \in
                        (DOMAIN docs) \X UNION {docs[d].declares : d \in DOMAIN docs} :
                            identity \in docs[d].declares}
    IN  [space \in {SpaceOf(p[2]) : p \in declared} |->
            LET p == CHOOSE q \in declared : SpaceOf(q[2]) = space
            IN  Declared(p[1], p[2])]

CompositionInit ==
    /\ loaded = <<>> /\ stage = "loading" /\ queue = <<>> /\ failure = "none"
    /\ component_index = <<>> /\ namespace_tables = <<>>
    /\ effective_components = <<>> /\ redefine_original = <<>>
    /\ restriction_checks = {} /\ schema_defaults_doc = <<>>

(* Documents that could not be read do not keep the set from being built;  *)
(* any other error of the walk does (finish).                              *)
BeginComposition ==
    /\ done /\ stage = "loading"
    /\ \A i \in DOMAIN errors : errors[i].code = "unreadable"
    /\ stage' = "originals"
    /\ LET docs == [d \in DOMAIN documents |-> Parsed(d)]
       IN  /\ loaded' = docs
           /\ component_index' = IndexOf(docs) /\ namespace_tables' = TablesOf(docs)
    /\ UNCHANGED <<queue, effective_components, redefine_original,
                   restriction_checks, schema_defaults_doc, failure>>

Fail(what) ==
    /\ stage' = "failed" /\ failure' = what
    /\ UNCHANGED <<loaded, queue, component_index, namespace_tables,
                   effective_components, redefine_original, restriction_checks,
                   schema_defaults_doc>>

(* Every redefinition of a resolved document has an original.              *)
OriginalsExist ==
    \A d \in Doc : \A i \in DOMAIN loaded[d].redefine :
        LET r == loaded[d].redefine[i] IN
        r.target # NoDocument =>
            \A j \in DOMAIN r.children : HasParsedOriginal(d, r.target, r.children[j].identity)

RefuseWithoutOriginal ==
    stage = "originals" /\ ~OriginalsExist /\ Fail("no parsed original")

Provenance(key, owner, action, from, replaced) ==
    [key |-> key, owner |-> owner, action |-> action, from |-> from, replaced |-> replaced]

(* collect_declared_components (which also tells included declarations     *)
(* from others), then the redefinitions are lined up.                      *)
CollectDeclared ==
    /\ stage = "originals" /\ OriginalsExist
    /\ stage' = "redefining" /\ queue' = Ordered("redefine", RedefineTargets)
    /\ effective_components' =
          [identity \in UNION {loaded[d].declares : d \in Doc} |->
              LET d == CHOOSE e \in Doc : identity \in loaded[e].declares
              IN  Provenance(Declared(d, identity), d, "declared", NoDocument, NoDocument)]
    /\ UNCHANGED <<loaded, component_index, namespace_tables, redefine_original,
                   restriction_checks, schema_defaults_doc, failure>>

RefuseRedefinition ==
    /\ stage = "redefining" /\ queue # <<>>
    /\ \/ Original(Head(queue)) = NoComponent /\ Fail("no original")
       \/ /\ Original(Head(queue)) # NoComponent /\ ~RefersToItself(Head(queue))
          /\ Fail("no self-reference")

(* The name is bound to c from now on, with where c comes from.            *)
Bind(c, action) ==
    /\ namespace_tables' = Put(namespace_tables, SpaceOf(c.identity), c)
    /\ effective_components' =
          Put(effective_components, c.identity,
              Provenance(c, c.doc, action, c.doc, DirectiveOf(c).target))

ApplyRedefine ==
    /\ stage = "redefining" /\ queue # <<>>
    /\ LET c == Head(queue)
           original == Original(c)
       IN  /\ original # NoComponent /\ RefersToItself(c)
           /\ redefine_original' =
                 IF original.identity.kind = c.identity.kind
                 THEN Put(redefine_original, c, original) ELSE redefine_original
           /\ restriction_checks' =
                 IF NeedsRestrictionCheck(c) THEN restriction_checks \cup {c}
                 ELSE restriction_checks
           /\ Bind(c, "redefined")
           /\ component_index' = [component_index EXCEPT ![c.doc] = Put(@, c.identity, c)]
    /\ queue' = Tail(queue)
    /\ UNCHANGED <<loaded, stage, schema_defaults_doc, failure>>

OverridesValid ==
    \A d \in Doc :
        /\ \A t \in Range(TargetDocs(loaded[d].override)) : NamespacesFit(d, t)
        /\ ~OverridesTwice(d)

RefuseOverrides ==
    /\ stage = "redefining" /\ queue = <<>> /\ ~OverridesValid
    /\ Fail("invalid override")

LineUpOverrides ==
    /\ stage = "redefining" /\ queue = <<>> /\ OverridesValid
    /\ stage' = "overriding" /\ queue' = Ordered("override", OverrideTargets)
    /\ UNCHANGED <<loaded, component_index, namespace_tables, effective_components,
                   redefine_original, restriction_checks, schema_defaults_doc, failure>>

(* An override takes the overridden document's defaults, matched or not.   *)
ApplyOverride ==
    /\ stage = "overriding" /\ queue # <<>>
    /\ LET c == Head(queue)
           target == DirectiveOf(c).target
       IN  /\ schema_defaults_doc' =
                 IF target = NoDocument THEN schema_defaults_doc
                 ELSE Put(schema_defaults_doc, c, target)
           /\ IF Matches(target, c.identity) THEN Bind(c, "overridden")
              ELSE UNCHANGED <<namespace_tables, effective_components>>
    /\ queue' = Tail(queue)
    /\ UNCHANGED <<loaded, stage, component_index, redefine_original,
                   restriction_checks, failure>>

Composed ==
    /\ stage = "overriding" /\ queue = <<>> /\ stage' = "done"
    /\ UNCHANGED <<loaded, queue, component_index, namespace_tables,
                   effective_components, redefine_original, restriction_checks,
                   schema_defaults_doc, failure>>

CompositionNext ==
    \/ BeginComposition
    \/ RefuseWithoutOriginal \/ CollectDeclared
    \/ RefuseRedefinition \/ ApplyRedefine
    \/ RefuseOverrides \/ LineUpOverrides \/ ApplyOverride \/ Composed

(* The walk, then the composition: one sequential call.                    *)
BuildNext ==
    \/ Next /\ UNCHANGED compositionVars
    \/ done /\ CompositionNext /\ UNCHANGED vars
-----------------------------------------------------------------------------
(* Properties                                                              *)

(* Over the directives of these kinds: which documents a document comes to *)
(* without one that is avoided, by paths of doubled lengths.               *)
Edge(kinds) ==
    [p \in Doc \X Doc |-> \E k \in kinds : p[2] \in Range(TargetDocs(loaded[p[1]][k]))]
Reaches(kinds, avoided) ==
    LET edge == Edge(kinds)
        rest == Doc \ avoided
        within[n \in 0 .. Len(loaded)] ==
            IF n = 0 THEN [p \in rest \X rest |-> p[1] = p[2] \/ edge[p]]
            ELSE LET nearer == within[n - 1]
                 IN  [p \in rest \X rest |->
                         \E d \in rest : nearer[p[1], d] /\ nearer[d, p[2]]]
    IN  within[Len(loaded) \div 2]

(* No document depends on one that depends on it.                          *)
Acyclic ==
    LET reaches == Reaches({"include", "redefine", "override"}, {})
        edge == Edge({"include", "redefine", "override"})
    IN  \A d, e \in Doc : edge[d, e] => ~reaches[e, d]

ChildrenBy(by) ==
    UNION {{ChildAt(p[1], by, p[2], j) : j \in DOMAIN loaded[p[1]][by][p[2]].children} :
              p \in {q \in Doc \X (1 .. 3) : q[2] \in DOMAIN loaded[q[1]][by]}}

(* What a document's view has under a name: its last redefinition, its own *)
(* declaration, or what the first of its targets has.                      *)
ViewOf(start, identity) ==
    LET redefining == {c \in ChildrenBy("redefine") : c.identity = identity}
        view[d \in Doc] ==
            LET own == {c \in redefining : c.doc = d}
                Found(t) == view[t] # NoComponent
            IN  IF own # {} THEN CHOOSE c \in own : \A b \in own : b.place[1] <= c.place[1]
                ELSE IF identity \in loaded[d].declares THEN Declared(d, identity)
                ELSE IF \E t \in Range(CompositionTargets(d)) : Found(t)
                THEN view[SelectSeq(CompositionTargets(d), Found)[1]]
                ELSE NoComponent
    IN  view[start]

(* The original of c is declared where c's document is not needed.         *)
Anchored(c) ==
    LET target == DirectiveOf(c).target
    IN  \/ target = NoDocument
        \/ /\ target # c.doc
           /\ \E d \in Doc \ {c.doc} :
                 /\ Reaches({"include", "redefine"}, {c.doc})[target, d]
                 /\ c.identity \in loaded[d].declares

(* A redefinition builds on what the redefined document makes of the name  *)
(* when its own redefinitions, and those of everything it draws in, are    *)
(* applied, however the documents came to be numbered (mod.rs: "so that    *)
(* every redefine's target document has already had its own redefines      *)
(* applied").  One without a declaration is refused before anything is     *)
(* changed, and with one, also in cycles, no application misses it.        *)
OriginalsExact ==
    /\ stage \notin {"loading", "originals"} =>
          (failure = "no parsed original" <=> \E c \in ChildrenBy("redefine") : ~Anchored(c))
    /\ failure = "no original" => DirectiveOf(Head(queue)).target = NoDocument
    /\ Acyclic /\ stage \in {"overriding", "done"} =>
          \A c \in ChildrenBy("redefine") :
              DirectiveOf(c).target # NoDocument =>
                  /\ c \in DOMAIN redefine_original
                  /\ redefine_original[c] = ViewOf(DirectiveOf(c).target, c.identity)

(* The overriding components of a name that replace something.             *)
Replacing(space) ==
    LET reaches == Reaches({"include", "override"}, {})
        Held(d) == loaded[d].declares
                       \cup {r.identity : r \in {c \in ChildrenBy("redefine") : c.doc = d}}
    IN  {c \in ChildrenBy("override") :
            /\ SpaceOf(c.identity) = space
            /\ \/ DirectiveOf(c).target = NoDocument
               \/ \E d \in Doc : reaches[DirectiveOf(c).target, d] /\ c.identity \in Held(d)}

(* In the end a name is bound to an override that replaces it if there is  *)
(* one, else to a redefinition, and always to one of an outermost document:*)
(* no other document that has one comes to it (mod.rs: "outer overrides of *)
(* the same component always win over inner ones reached through the       *)
(* include/override closure").  The provenance tells the same, and an      *)
(* override has the defaults of the document it overrides.                 *)
WinnersExact ==
    stage = "done" /\ Acyclic =>
        \A space \in DOMAIN namespace_tables :
            LET winner == namespace_tables[space]
                overriding == Replacing(space)
                redefining == {c \in ChildrenBy("redefine") : SpaceOf(c.identity) = space}
                contending == IF overriding # {} THEN overriding ELSE redefining
                outward == Reaches({"include", IF overriding # {} THEN "override" ELSE "redefine"}, {})
            IN  /\ effective_components[winner.identity].key = winner
                /\ IF contending = {} THEN winner.by = "declared"
                   ELSE /\ winner \in contending
                        /\ \A c \in contending :
                              c.doc # winner.doc => ~outward[c.doc, winner.doc]
                /\ winner.by = "override" /\ DirectiveOf(winner).target # NoDocument =>
                      schema_defaults_doc[winner] = DirectiveOf(winner).target

(* What mod.rs says of any documents, cyclic or not: "Processing ascending *)
(* by depth guarantees each target doc's own redefines are applied before  *)
(* any redefine that uses that target."                                    *)
TargetsFirst ==
    stage = "redefining" /\ queue # <<>> =>
        \A i \in 2 .. Len(queue) : queue[i].doc # DirectiveOf(Head(queue)).target
=============================================================================
