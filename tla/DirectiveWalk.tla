----------------------------- MODULE DirectiveWalk -----------------------------
(***************************************************************************)
(* How the documents of a schema set are read: from the documents that     *)
(* were added, through the xs:include, xs:import, xs:redefine and          *)
(* xs:override directives of every document they reach                     *)
(* (src/src/parser/resolver.rs, resolve_directive_closure and what it      *)
(* calls).  The walk is depth first over an explicit stack; a document met *)
(* deeper than the limit is deferred, and resumed when the walk has found  *)
(* a shorter way to it.                                                    *)
(*                                                                         *)
(* A step of the model is an iteration of one of the loops: the processing *)
(* of one directive, one closure_step, one pop.  The asynchronous walk     *)
(* prefetches what a document's directives name and takes the same steps.  *)
(***************************************************************************)
EXTENDS Integers, Sequences, FiniteSets

CONSTANTS
    Location,    \* identities of schema documents
    NoLocation,  \* an import without a schemaLocation
    Namespace,
    NoNamespace, \* an absent targetNamespace, an import without a namespace
    Component,   \* global components: their kinds and names
    World,       \* what the locations hold, and how the resolver is set up
    MaxDocuments \* bound: documents of the set

MaybeNamespace == Namespace \cup {NoNamespace}

(* Only an import may have no location, and only it has a namespace.       *)
Directive ==
    {d \in [kind : {"include", "import", "redefine", "override"},
            location : Location \cup {NoLocation},
            namespace : MaybeNamespace,
            children :                  \* of a redefine or an override
               Seq([component : Component,
                    references : {"own", "other", "none", "twice"}])] :
        d.location = NoLocation => d.kind = "import"}

(* A world gives each location its declared target namespace, its          *)
(* directives in the order they are resolved (includes, imports,           *)
(* redefines, overrides), whether the loader can read it, whether it is a  *)
(* schema document then, and the global components in it.                  *)
ASSUME WorldAssumption ==
    \A w \in World :
        /\ w.declared \in [Location -> MaybeNamespace]
        /\ DOMAIN w.directives = Location
        /\ \A l \in Location : w.directives[l] \in Seq(Directive)
        /\ w.status \in [Location -> {"schema", "unreadable", "unusable"}]
        /\ w.declares \in [Location -> SUBSET Component]
        /\ DOMAIN w.catalog \subseteq Namespace
        /\ \A n \in DOMAIN w.catalog : w.catalog[n] \in Location
        /\ w.roots \in Seq(Location)
        /\ \A i, j \in 1 .. Len(w.roots) : w.roots[i] = w.roots[j] => i = j
        /\ w.max_depth \in Nat

ASSUME MaxDocumentsAssumption == MaxDocuments \in Nat

VARIABLES
    world,              \* what there is to read: never changes
    documents,          \* SchemaSet.documents: location, target_namespace
    loaded_locations,   \* SchemaSet.loaded_locations: location -> document
    chameleon_cache,    \* <<location, namespace>> -> document
    composition_edges,  \* [source, target, kind], in the order of recording
    directive_failures, \* directives whose document could not be read
    starts,             \* documents to walk from, with their depth
    stack,              \* ClosureFrames
    deferred,           \* DirectiveClosure.deferred: <<parent, child>>
    errors,             \* DirectiveClosure.errors and import_errors
    visits,             \* documents walked: how deep, and from a start or not
    done

loading == <<documents, loaded_locations, chameleon_cache>>
vars == <<world, loading, composition_edges, directive_failures, starts, stack,
          deferred, errors, visits, done>>

NoDocument == 0

Start(doc, depth) == [doc |-> doc, depth |-> depth]

ClosureFrame(doc, depth) ==
    [doc |-> doc, depth |-> depth, resolved |-> 0, loaded |-> <<>>,
     next |-> 1, errors |-> <<>>]

Directives(doc) == world.directives[documents[doc].location]

IsChameleon(doc) ==
    /\ world.declared[documents[doc].location] = NoNamespace
    /\ documents[doc].target_namespace # NoNamespace

(* The documents that were added are parsed and marked as loaded.          *)
Init ==
    /\ world \in World
    /\ documents = [i \in 1 .. Len(world.roots) |->
           [location |-> world.roots[i],
            target_namespace |-> world.declared[world.roots[i]]]]
    /\ loaded_locations =
           [l \in {world.roots[i] : i \in 1 .. Len(world.roots)} |->
               CHOOSE i \in 1 .. Len(world.roots) : world.roots[i] = l]
    /\ chameleon_cache = [k \in {} |-> NoDocument]
    /\ composition_edges = <<>>
    /\ directive_failures = {}
    /\ starts = [i \in 1 .. Len(world.roots) |-> Start(i, 0)]
    /\ stack = <<>>
    /\ deferred = <<>>
    /\ errors = <<>>
    /\ visits = <<>>
    /\ done = FALSE

-----------------------------------------------------------------------------
(* Loading the target of a directive.                                      *)

(* Mutant of Cached: the location alone decides.                           *)
CachedByLocation(location, adopt) ==
    IF location \in DOMAIN loaded_locations THEN loaded_locations[location]
    ELSE NoDocument

(* check_loaded_cache: a document adopted into this namespace, or the      *)
(* first one read at this location if it does not depend on who asks.      *)
Cached(location, adopt) ==
    IF adopt # NoNamespace /\ <<location, adopt>> \in DOMAIN chameleon_cache
    THEN chameleon_cache[<<location, adopt>>]
    ELSE IF location \notin DOMAIN loaded_locations THEN NoDocument
    ELSE LET doc == loaded_locations[location] IN
         IF ~ IsChameleon(doc)
            /\ (documents[doc].target_namespace # NoNamespace
                \/ adopt = NoNamespace)
         THEN doc ELSE NoDocument

(* parse_schema_with_chameleon: what a document at this location becomes.  *)
Adopted(location, adopt) ==
    [location |-> location,
     target_namespace |-> IF world.declared[location] = NoNamespace
                          THEN adopt ELSE world.declared[location]]

(* The symbol spaces of a namespace; all types have one in common.         *)
Space(component, namespace) ==
    <<IF component.kind \in {"simple", "complex"} THEN "type" ELSE component.kind,
      namespace, component.name>>

Spaces(document) ==
    {Space(c, document.target_namespace) : c \in world.declares[document.location]}

(* It fails when the target namespaces do not agree, and when a component  *)
(* of the name is already in the set.                                      *)
Parses(location, adopt) ==
    /\ world.status[location] = "schema"
    /\ adopt # NoNamespace =>
          world.declared[location] \in {NoNamespace, adopt}
    /\ \A d \in 1 .. Len(documents) :
          Spaces(documents[d]) \cap Spaces(Adopted(location, adopt)) = {}

(* load_target: what comes of reading this location.                       *)
Attempt(location, adopt) ==
    LET cached == Cached(location, adopt)
        Outcome(result, doc) ==
            [result |-> result, doc |-> doc,
             document |-> Adopted(location, adopt), adopt |-> adopt]
    IN  IF cached # NoDocument THEN Outcome("already", cached)
        ELSE IF world.status[location] = "unreadable"
             THEN Outcome("unreadable", NoDocument)
        ELSE IF ~ Parses(location, adopt) THEN Outcome("unusable", NoDocument)
        ELSE Outcome("loaded", Len(documents) + 1)

Nothing ==
    [result |-> "nothing", doc |-> NoDocument,
     document |-> [location |-> NoLocation, target_namespace |-> NoNamespace],
     adopt |-> NoNamespace]

Succeeds(outcome) == outcome.result \in {"loaded", "already"}

(* process_import: the location hint, then the catalog, which gives way to *)
(* any document of the namespace (try_catalog_load).                       *)
Import(d) ==
    LET hint == IF d.location = NoLocation THEN Nothing
                ELSE Attempt(d.location, NoNamespace)
        target == world.catalog[d.namespace]
        covered ==
            \/ target \in DOMAIN loaded_locations
            \/ \E i \in 1 .. Len(documents) :
                  d.namespace \in {documents[i].target_namespace,
                                   world.declared[documents[i].location]}
    IN  IF Succeeds(hint) \/ d.namespace \notin DOMAIN world.catalog THEN hint
        ELSE IF covered THEN Nothing
        ELSE Attempt(target, NoNamespace)

(* The namespace an outcome's document has.                                *)
TargetNamespace(outcome) ==
    IF outcome.result = "already" THEN documents[outcome.doc].target_namespace
    ELSE outcome.document.target_namespace

-----------------------------------------------------------------------------
(* resolve_all_directives, a directive at a time.                          *)
Top == stack[Len(stack)]
Below == SubSeq(stack, 1, Len(stack) - 1)

Error(doc, code, import) ==
    [doc |-> doc, code |-> code, import |-> import, target |-> NoDocument]

DepthError(parent, child) ==
    [doc |-> parent, code |-> "depth", import |-> FALSE, target |-> child]

(* src-import, clauses 1.1 and 1.2 of the directive itself.                *)
IllFormed(doc, d) ==
    d.kind = "import" /\ d.namespace = documents[doc].target_namespace

Outcome(doc, d) ==
    IF IllFormed(doc, d) THEN Nothing
    ELSE IF d.kind = "import" THEN Import(d)
    ELSE Attempt(d.location, documents[doc].target_namespace)

(* validate_import_target_namespace                                        *)
Mismatched(d, outcome) ==
    /\ d.kind = "import" /\ Succeeds(outcome)
    /\ TargetNamespace(outcome) # d.namespace

(* The errors of the directive d of doc.                                   *)
DirectiveErrors(doc, d, outcome) ==
    IF IllFormed(doc, d) THEN <<Error(doc, "src-import", FALSE)>>
    ELSE IF Mismatched(d, outcome) THEN <<Error(doc, "src-import", TRUE)>>
    ELSE IF outcome.result = "unusable"
         THEN <<Error(doc, "unusable", d.kind = "import")>>
    ELSE IF outcome.result = "unreadable"
         THEN <<Error(doc, IF d.kind = "redefine" /\ d.children # <<>>
                           THEN "src-redefine" ELSE "unreadable",
                      d.kind = "import")>>
    ELSE IF /\ d.kind = "include" /\ Succeeds(outcome)
            /\ documents[doc].target_namespace = NoNamespace
            /\ TargetNamespace(outcome) # NoNamespace
         THEN <<Error(doc, "src-include", FALSE)>>
    ELSE <<>>

(* Mutant of MarkLoaded: adopted documents are not remembered as such.     *)
MarkLoadedPlainly(outcome) ==
    LET location == outcome.document.location IN
    /\ loaded_locations' =
          IF location \in DOMAIN loaded_locations THEN loaded_locations
          ELSE [l \in DOMAIN loaded_locations \cup {location} |->
                   IF l = location THEN outcome.doc ELSE loaded_locations[l]]
    /\ UNCHANGED chameleon_cache

(* mark_loaded_chameleon_aware                                             *)
MarkLoaded(outcome) ==
    LET location == outcome.document.location
        adopted == world.declared[location] = NoNamespace
                   /\ outcome.adopt # NoNamespace
    IN  /\ loaded_locations' =
              IF location \in DOMAIN loaded_locations THEN loaded_locations
              ELSE [l \in DOMAIN loaded_locations \cup {location} |->
                       IF l = location THEN outcome.doc ELSE loaded_locations[l]]
        /\ chameleon_cache' =
              IF ~ adopted THEN chameleon_cache
              ELSE [k \in DOMAIN chameleon_cache
                              \cup {<<location, outcome.adopt>>} |->
                       IF k = <<location, outcome.adopt>> THEN outcome.doc
                       ELSE chameleon_cache[k]]

ResolveDirective ==
    /\ stack # <<>>
    /\ Top.resolved < Len(Directives(Top.doc))
    /\ LET d == Directives(Top.doc)[Top.resolved + 1]
           outcome == Outcome(Top.doc, d)
           accepted == Succeeds(outcome) /\ ~ Mismatched(d, outcome)
           found == DirectiveErrors(Top.doc, d, outcome)
       IN
       /\ IF outcome.result = "loaded"
          THEN /\ Len(documents) < MaxDocuments
               /\ documents' = Append(documents, outcome.document)
               /\ MarkLoaded(outcome)
          ELSE UNCHANGED loading
       /\ composition_edges' =
             IF accepted
             THEN Append(composition_edges,
                     [source |-> Top.doc, target |-> outcome.doc, kind |-> d.kind])
             ELSE composition_edges
       /\ directive_failures' =
             IF \E i \in 1 .. Len(found) : found[i].code = "unreadable"
             THEN directive_failures
                      \cup {[namespace |-> d.namespace, supplied |-> FALSE]}
             ELSE directive_failures
       /\ stack' = Append(Below,
             [Top EXCEPT
                 !.resolved = @ + 1,
                 !.errors = @ \o found,
                 !.loaded = IF accepted /\ outcome.result = "loaded"
                            THEN Append(@, outcome.doc) ELSE @])
    /\ UNCHANGED <<world, starts, deferred, errors, visits, done>>

-----------------------------------------------------------------------------
(* resolve_directive_closure                                               *)
Visit(doc, depth, start) == [doc |-> doc, depth |-> depth, start |-> start]

Begin ==
    /\ stack = <<>> /\ starts # <<>>
    /\ stack' = <<ClosureFrame(Head(starts).doc, Head(starts).depth)>>
    /\ visits' = Append(visits, Visit(Head(starts).doc, Head(starts).depth, TRUE))
    /\ starts' = Tail(starts)
    /\ UNCHANGED <<world, loading, composition_edges, directive_failures,
                   deferred, errors, done>>

(* closure_step, at a document that is read by the top one.                *)
AtChild ==
    /\ stack # <<>>
    /\ Top.resolved = Len(Directives(Top.doc))
    /\ Top.next <= Len(Top.loaded)

Child == Top.loaded[Top.next]

TooDeep(depth) == world.max_depth # 0 /\ depth > world.max_depth

Descend ==
    /\ AtChild
    /\ ~ TooDeep(Top.depth + 1)
    /\ stack' = Append(Append(Below, [Top EXCEPT !.next = @ + 1]),
                       ClosureFrame(Child, Top.depth + 1))
    /\ visits' = Append(visits, Visit(Child, Top.depth + 1, FALSE))
    /\ UNCHANGED <<world, loading, composition_edges, directive_failures,
                   starts, deferred, errors, done>>

Defer ==
    /\ AtChild
    /\ TooDeep(Top.depth + 1)
    /\ stack' = Append(Below, [Top EXCEPT !.next = @ + 1])
    /\ deferred' = Append(deferred, <<Top.doc, Child>>)
    /\ UNCHANGED <<world, loading, composition_edges, directive_failures,
                   starts, errors, visits, done>>

(* Mutant of Return: a document's errors go before the others.             *)
ReturnFirst ==
    /\ stack # <<>>
    /\ Top.resolved = Len(Directives(Top.doc))
    /\ Top.next > Len(Top.loaded)
    /\ stack' = Below
    /\ errors' = Top.errors \o errors
    /\ UNCHANGED <<world, loading, composition_edges, directive_failures,
                   starts, deferred, visits, done>>

(* A document's errors are collected when the documents it read are done.  *)
Return ==
    /\ stack # <<>>
    /\ Top.resolved = Len(Directives(Top.doc))
    /\ Top.next > Len(Top.loaded)
    /\ stack' = Below
    /\ errors' = errors \o Top.errors
    /\ UNCHANGED <<world, loading, composition_edges, directive_failures,
                   starts, deferred, visits, done>>

(* resume_deferred: breadth-first distances from the documents added.      *)
Edges == {composition_edges[i] : i \in 1 .. Len(composition_edges)}

Targets(docs) == {e.target : e \in {edge \in Edges : edge.source \in docs}}

Within ==
    LET reach[n \in 0 .. Len(documents)] ==
            IF n = 0 THEN 1 .. Len(world.roots)
            ELSE LET nearer == reach[n - 1] IN nearer \cup Targets(nearer)
    IN  reach

Reachable(doc) == doc \in Within[Len(documents)]

Distance(doc) ==
    LET within == Within IN
    CHOOSE n \in 0 .. Len(documents) :
        doc \in within[n] /\ \A m \in 0 .. n - 1 : doc \notin within[m]

(* Mutant of Resumable: a document at the limit itself is refused.         *)
ResumableBelow(doc) == Reachable(doc) /\ Distance(doc) < world.max_depth

Resumable(doc) == Reachable(doc) /\ Distance(doc) <= world.max_depth

Walked == stack = <<>> /\ starts = <<>> /\ ~ done

ResumableDeferred == {i \in 1 .. Len(deferred) : Resumable(deferred[i][2])}

(* What a sequence has at some of its places, in its order.                *)
Picked(s, places) ==
    LET picked[n \in 0 .. Len(s)] ==
            IF n = 0 THEN <<>>
            ELSE IF n \in places THEN Append(picked[n - 1], s[n]) ELSE picked[n - 1]
    IN  picked[Len(s)]

StartsOf(resumed) ==
    [i \in 1 .. Len(resumed) |-> Start(resumed[i][2], Distance(resumed[i][2]))]

(* Mutant of Resume: the resumed documents stay deferred.                  *)
ResumeKeeps ==
    /\ Walked
    /\ ResumableDeferred # {}
    /\ starts' = StartsOf(Picked(deferred, ResumableDeferred))
    /\ UNCHANGED <<world, loading, composition_edges, directive_failures,
                   deferred, stack, errors, visits, done>>

Resume ==
    /\ Walked
    /\ ResumableDeferred # {}
    /\ starts' = StartsOf(Picked(deferred, ResumableDeferred))
    /\ deferred' = Picked(deferred, (1 .. Len(deferred)) \ ResumableDeferred)
    /\ UNCHANGED <<world, loading, composition_edges, directive_failures,
                   stack, errors, visits, done>>

(* Mutant of Finish: the walk goes on until nothing is deferred.           *)
FinishUndeferred ==
    /\ Walked
    /\ deferred = <<>>
    /\ done' = TRUE
    /\ UNCHANGED <<world, loading, composition_edges, directive_failures,
                   starts, stack, deferred, errors, visits>>

(* Nothing to resume: what is still deferred is refused, and the failed    *)
(* imports are marked whose namespace a document of the set supplies       *)
(* (refresh_directive_failures).                                           *)
Finish ==
    /\ Walked
    /\ ResumableDeferred = {}
    /\ errors' = errors \o [i \in 1 .. Len(deferred) |->
                               DepthError(deferred[i][1], deferred[i][2])]
    /\ deferred' = <<>>
    /\ directive_failures' =
          {[f EXCEPT !.supplied =
              /\ f.namespace # NoNamespace
              /\ \E i \in 1 .. Len(documents) :
                    f.namespace \in {documents[i].target_namespace,
                                     world.declared[documents[i].location]}] :
              f \in directive_failures}
    /\ done' = TRUE
    /\ UNCHANGED <<world, loading, composition_edges, starts, stack, visits>>

Next ==
    \/ Begin \/ ResolveDirective
    \/ Descend \/ Defer \/ Return
    \/ Resume \/ Finish

Spec == Init /\ [][Next]_vars

(* The walk is one sequential call.                                        *)
FairSpec == Spec /\ WF_vars(Next)
-----------------------------------------------------------------------------
(* Properties                                                              *)

Frames == {stack[i] : i \in 1 .. Len(stack)}
Visits == {visits[i] : i \in 1 .. Len(visits)}
Refused == {errors[i].target : i \in {j \in 1 .. Len(errors) :
                                         errors[j].code = "depth"}}

TypeOK ==
    /\ documents \in
          Seq([location : Location, target_namespace : MaybeNamespace])
    /\ \A l \in DOMAIN loaded_locations :
          loaded_locations[l] \in 1 .. Len(documents)
    /\ \A k \in DOMAIN chameleon_cache : chameleon_cache[k] \in 1 .. Len(documents)
    /\ \A e \in Edges : {e.source, e.target} \subseteq 1 .. Len(documents)
    /\ \A frame \in Frames :
          /\ frame.doc \in 1 .. Len(documents)
          /\ frame.resolved \in 0 .. Len(Directives(frame.doc))
          /\ frame.next \in 1 .. Len(frame.loaded) + 1
    /\ done \in BOOLEAN

(* An import has read a document of a namespace other than its own: the    *)
(* document is in the set and is not walked, and the compilation fails.    *)
Misread ==
    LET Reports(found) ==
            \E i \in 1 .. Len(found) : found[i].import /\ found[i].code = "src-import"
    IN  Reports(errors) \/ \E frame \in Frames : Reports(frame.errors)

(* Where a document is between being read and being done: it waits for     *)
(* its turn in the frame that read it, is deferred, about to be resumed,   *)
(* walked or refused.                                                      *)
Turns(frame, doc) == {j \in frame.next .. Len(frame.loaded) : frame.loaded[j] = doc}

Places(doc) ==
    (UNION {{<<"frame", i, j>> : j \in Turns(stack[i], doc)} : i \in 1 .. Len(stack)})
        \cup {<<"start", i, 0>> : i \in {k \in 1 .. Len(starts) : starts[k].doc = doc}}
        \cup {<<"deferred", i, 0>> : i \in {k \in 1 .. Len(deferred) : deferred[k][2] = doc}}
        \cup {<<"visit", i, 0>> : i \in {k \in 1 .. Len(visits) : visits[k].doc = doc}}
        \cup {<<"error", i, 0>> : i \in {k \in 1 .. Len(errors) : errors[k].target = doc}}

(* No document is lost and none is walked twice, whatever is deferred and  *)
(* resumed: a document that was added, or that a directive accepted, is in *)
(* one of these places and in only one; and no other document is (one that *)
(* only imports of another namespace name).                                *)
EachWalkedOnce ==
    /\ TypeOK
    /\ \A doc \in 1 .. Len(documents) :
        LET added == doc <= Len(world.roots)
            accepted == \E e \in Edges : e.target = doc
        IN  /\ \A p, q \in Places(doc) : p = q
            /\ added \/ (accepted /\ ~ Misread) => Places(doc) # {}
            /\ Places(doc) # {} => added \/ accepted

(* "A document's directive depth is thus its shortest distance from the    *)
(* documents added, whatever order the depth-first walk meets it in": in   *)
(* the end the documents that were reached are walked when that distance   *)
(* is within the limit, and refused when it is not.                        *)
DepthIsShortest ==
    done /\ ~ Misread =>
        \A doc \in 1 .. Len(documents) : Reachable(doc) =>
            /\ (\E v \in Visits : v.doc = doc) <=> ~ TooDeep(Distance(doc))
            /\ doc \in Refused <=> TooDeep(Distance(doc))

(* "A document's errors are collected after those of the documents it      *)
(* read", and so the error that is reported, the first one, is one of a    *)
(* document that no erroneous document was read by (unless the document    *)
(* was resumed, and walked later).                                         *)
ReadBy(doc, reader) ==
    \E i \in 1 .. Len(composition_edges) :
        /\ composition_edges[i].source = reader
        /\ composition_edges[i].target = doc
        /\ \A j \in 1 .. i - 1 : composition_edges[j].target # doc

ErrorsAfterReads ==
    \A i, j \in 1 .. Len(errors) :
        /\ ReadBy(errors[i].doc, errors[j].doc)
        /\ [doc |-> errors[i].doc, start |-> TRUE]
              \notin {[doc |-> v.doc, start |-> v.start] : v \in Visits}
        /\ "depth" \notin {errors[i].code, errors[j].code}
        => i < j

(* One document is loaded once for each namespace it is adopted into, and  *)
(* once as it is: except that a document without a namespace that was      *)
(* adopted first is loaded as it is for every directive that needs it so,  *)
(* since only the first copy is remembered by its location.                *)
LoadedOnce ==
    \A i, j \in 1 .. Len(documents) :
        i < j /\ documents[i] = documents[j] =>
            /\ documents[i].target_namespace = NoNamespace
            /\ \E k \in 1 .. i - 1 :
                  /\ documents[k].location = documents[i].location
                  /\ documents[k].target_namespace # NoNamespace

(* The walk comes to its end.                                              *)
WalkEnds == <>done

-----------------------------------------------------------------------------
(* The documents a walk is to find: a view is a location and the namespace *)
(* its document has, and a directive leads from one view to the next,      *)
(* whatever else was read before.                                          *)
View == [location : Location, target_namespace : MaybeNamespace]

LeadsTo(view, d) ==
    LET imports == d.kind = "import"
        adopt == IF imports THEN NoNamespace ELSE view.target_namespace
        target == Adopted(d.location, adopt)
    IN  IF d.location = NoLocation THEN {} ELSE
        {v \in {target} :
            /\ world.status[d.location] = "schema"
            /\ imports => d.namespace = target.target_namespace
                          /\ d.namespace # view.target_namespace
            /\ ~ imports => adopt \in {NoNamespace, target.target_namespace}}

Views(view) ==
    LET ds == world.directives[view.location] IN
    UNION {LeadsTo(view, ds[k]) : k \in 1 .. Len(ds)}

ViewsWithin ==
    LET reach[n \in 0 .. Cardinality(View)] ==
            IF n = 0
            THEN {Adopted(world.roots[i], NoNamespace) : i \in 1 .. Len(world.roots)}
            ELSE LET nearer == reach[n - 1] IN
                 nearer \cup UNION {Views(view) : view \in nearer}
    IN  reach

(* No document is both adopted and read as it is.  Where one is, it is     *)
(* loaded again and again (see LoadedOnce).                                *)
OneWay ==
    LET views == ViewsWithin[Cardinality(View)] IN
    \A v, w \in views :
        /\ v.location = w.location
        /\ v.target_namespace = NoNamespace
        => w.target_namespace = NoNamespace

(* The set of documents walked depends on the directives only, and not on  *)
(* the order in which the walk came to them.                               *)
FindsAllViews ==
    done /\ ~ Misread /\ OneWay /\ DOMAIN world.catalog = {} =>
        {documents[v.doc] : v \in Visits}
            = ViewsWithin[IF world.max_depth = 0 THEN Cardinality(View)
                          ELSE world.max_depth]
=============================================================================
