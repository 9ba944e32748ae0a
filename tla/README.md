# xsd-schema: TLA+ models and proofs

Models of the stateful core of `xsd-schema`, the XSD 1.0/1.1 schema compiler
and streaming validator in `src/`, with the TLC runs that check them and the
theorems that TLAPS proves about them. Paths below are relative to `src/src/`.

    tlc -workers 2 -config MCKeyIndex_shapes.cfg MCKeyIndex.tla
    tlapm KeyIndexProofs.tla

`PROJECT.json` lists the runs, the source lines of every definition (`map`),
the mutation each property is sensitive to (`mutants`), the hazards of the code
and the disagreements found between documentation and code (`findings`).

## The system

A schema set is built in phases (`builder.rs`, `pipeline.rs`): documents are
read through their directives, their components assembled, references resolved,
compositions applied, derivations checked and content models compiled. A
validator then streams instance documents through a push-style runtime.

| Component | State | Operations | Hard behaviour |
|---|---|---|---|
| Directive walk (`parser/resolver.rs`) | documents, location and chameleon caches, composition edges, stack of closure frames, deferred documents | resolve a directive, descend, defer, resume, refuse | cyclic graphs, shortest depth under a depth-first order, documents adopted into several namespaces, order of errors |
| Parser and assembly (`parser/`) | frame stack, component arenas | events; register or withdraw components | a failed document must leave no trace |
| Composition (`schema/mod.rs`, `redefine.rs`, `override_dir.rs`) | component indexes, namespace tables, effective components, originals | refuse; order the directives; apply a redefinition, an override | chains of redefinitions in documents numbered in any order, transitive overrides, cycles |
| Resolution, derivation (`schema/`) | arenas | passes over finished components | cycles of definitions |
| Content models (`compiler/`, `validation/content.rs`) | automata, counters, frontiers | advance by an element, accept; check for ambiguity | counted particles, all-groups, open content |
| Runtime (`validation/runtime.rs`) | element stack, validity, ID tables, sibling counters, hints | start/attribute/text/end calls | call order, state shared over validation roots |
| Identity constraints (`validation/identity.rs`, `active_axis.rs`) | axes, field frames, node tables, scope maps | advance, match, collect, propagate, look up | nested targets, skipped content, equality that is not transitive |
| Assertions (`validation/assertions.rs`, `runtime.rs`) | fragment buffers, frames, deferred frames | buffer, defer, evaluate | nesting, type alternatives, a buffer that runs out |
| Document buffer (`document/`) | linked node array, id and idrefs indexes, namespace chains | the builder's calls, lookups | indexes kept while bindings and values still change |
| Values and caches (`types/`, `arenas.rs`, `xpath/regex_cache.rs`) | tables and memos behind locks | get, compute, store, evict, empty | concurrent validations, eviction |
| XPath, composer (`xpath/`, `compose/`) | item sequences, the run stack of the sort | evaluate, sort, build | comparisons that fail; otherwise data |

The runtime calls the identity-constraint layer, the content models and the
assertion buffers from each tag and attribute handler; it owns them, so within a
validation nothing runs concurrently. What makes it hard is the sequence of
calls. The directive walk is sequential as well: the asynchronous variant
awaits a prefetch between the same steps, and owns the schema set meanwhile.
Real concurrency occurs only at the shared caches. Nothing is persisted, so
there is no crash recovery.

What makes each modelled component correct:

- *node tables*: the hash index answers what the linear table answers;
- *axes*: the streaming matcher reports what XPath selects;
- *identity constraints*: the violations reported, and the elements turned
  invalid, are those of "Identity-constraint Satisfied" (§3.11.4) on the
  document that was streamed;
- *content models*: each child is accepted, attributed or rejected, and each end
  tag judged, as the particles and the open content of the type say (§3.4.4,
  §3.8.4, §3.10.4), whatever the frontier of the automaton drops or packs;
- *ambiguity check*: a model is refused exactly when two particles compete
  (§3.8.6.4), and the pair reported is the first;
- *directive walk*: each document is read once per namespace it takes and
  walked or refused once, by its shortest distance, whatever the order; the
  walk ends;
- *composition*: a redefinition builds on what the redefined document makes of
  the name, and of several redefinitions or overrides the outermost is in effect;
- *assertions*: each is evaluated once, over the element's own content, and a
  failure reaches every element around it;
- *ID and IDREF*: verdicts and errors are those of the roots so far;
- *document buffer*: lookups are what the tree itself says, at every moment;
- *caches*: nobody can tell that they are there;
- *sort*: an answer is sorted and stable, a failed comparison is an error.

## Modules

`A ── B` is "B extends A"; `A ╌╌ B` is "B refines A".

    FieldValues ── KeyTable ── KeyIndex ── KeyIndexProofs
         │            ╌╌╌╌╌╌╌╌╌╌╌╌┘  └─ MCKeyIndex
         └───────────┐
    AxisMatcher ── IdentityConstraints ─┐
         └─ ActiveAxis ─┬─ MCActiveAxis ┴─ MCIdentityConstraints
                        └─ ActiveAxisProofs ── IdentityConstraintsProofs
    DirectiveWalk ─┬─ MCDirectiveWalk ─┬─ MCComposition
                   ├─ Composition ─────┘
                   └─ DirectiveWalkProofs
    ContentNfa ── ParticleLanguage ─┬─ ContentModel ─┬─ ContentModelProofs
                                    │                └─┐
                                    └─ UniqueAttribution ── MCUniqueAttribution ── MCContentModel
    AssertionBuffers, IdReferences, SiblingPositions ── MCRuntime
    IdReferences, SiblingPositions ── RuntimeProofs
    XmlTree ╌╌ DocumentBuffer ── NamespaceScopes ── MCDocument
    UncachedAnswers ╌╌ PatternCache ── CacheProofs ────────┐
    UncachedAnswers ╌╌ FacetCache ─────────────────────────┤
    RecencyList ╌╌ RegexTable ── CacheProofs               ├─ MCServices
    RunStack, OrderKeys ── TimSort ── MCTimSort ───────────┤
        └─ MCRunStack         └─ TimSortProofs             │
    (MCDocument) ──────────────────────────────────────────┘

(MCServices extends the caches, MCTimSort and MCDocument, not the proofs;
IdentityConstraintsProofs extends IdentityConstraints as well.)

### Identity constraints

**FieldValues** has the values of fields, their equality (`KeyFieldValue::eq`,
`atomic_ic_eq`), key sequences, what a table reports for one, and the classes
and keys that the index hashes. A value is a record of shape, text and members;
a member is a primitive datatype and a point of its value space, so that two
spellings of one number are one point and two texts. Union wrappers are taken
off, as the code does first.

**KeyTable** is the abstract specification: `add_sequence`, the propagation of
another table, `check_keyref`, each one atomic step over a linear sequence.

**KeyIndex** is `IndexedKeyTable`: per-field classes, heads and chains
(`classes`, `heads`, `next`), and every loop of the code taken apart. A call
sets `pc`; `contains` is `Scan` or `WalkHit`/`WalkOn`/`WalkMiss`, `insert` is
`Merge` and then `Link` for each position to be linked — from the first one
when a field became Mixed and `rebuild` cleared the index. Positions count from
1 with `END = 0` for `u32::MAX`. Where the code may index a position twice in
one `rebuild`, the model follows the loop as written.

**AxisMatcher** has the operations of an `ActiveAxis` as operators on a record,
and next to them the declarative meaning of a path (`Leads`, `SelectsElement`,
`SelectsAttribute`). **ActiveAxis** drives one axis with tags:
`AxisStart`, `AxisStartSkipped`, `AxisEnd`, `AxisEndScope`.

**IdentityConstraints** composes axes and tables into the runtime's handlers:

| Action | Code |
|---|---|
| `StartElement` | `push_element`, `advance_constraints_start_element` |
| `StartSkipped` | `push_skipped_element` and the skipped variant |
| `Attribute` | `post_process_attribute`, `count_skipped_attribute_ic_matches`, the same block for default attributes |
| `EndTag` | `finish_identity_constraints` with `process_constraints_end_element`, and the validity step of `finalize_element` |

The document is part of the state: `nodes` and `finished` are what was streamed,
and the properties compare the runtime's verdicts with §3.11.4 evaluated on
them. A `Declaration` says what a schema would: where an element may occur, its
constraints, whether it is assessed, its attributes and contents. Constraints
whose expressions do not compile are left out, and so are errors of other kinds.

### Directive walk

**DirectiveWalk** takes `resolve_directive_closure` one loop iteration at a
time. `ResolveDirective` is one directive of `resolve_all_directives`, from the
cache lookup to the edge, the failure and the error it records; `Descend`,
`Defer`, `Return` are `closure_step` and the pop; `Resume` and `Finish` are the
two outcomes of `resume_deferred`. A `World` is the set of documents on disk
with their directives, readability and catalog; it is chosen in `Init`.
`resolving` and `LoadOutcome::Cycle` are left out: `load_target` adds a location
and removes it on every path before it returns and does not call itself, so the
set is empty whenever it is consulted. `resume_deferred` drops duplicate
children; `EachWalkedOnce` shows there are none.

A document that was read stands in one place at a time (`Places`): it waits its
turn in the frame that read it, is deferred, about to be resumed, walked or
refused. The exception is a document that an import of another namespace reads:
`validate_import_target_namespace` fails, no frame keeps the document, it stays
in the set and in the caches, and a later directive finds it there without
walking it. The compilation fails then (src-import), so the properties about
what is walked have the premise `~Misread`; that no document is walked twice
has none.

**Composition** is the next phase, over the documents that the walk leaves:
`apply_redefine_override`. A component is named by kind, namespace and name; of
what it contains, only how a redefinition refers to its own name is kept.

| Action | Code |
|---|---|
| `BeginComposition` | `SchemaSetBuilder::finish` up to `process_loaded_schemas`: the hand-over, unless the walk met invalid content |
| `RefuseWithoutOriginal` | `validate_redefine_originals_exist` |
| `CollectDeclared` | `collect_declared_components`, `topologically_ordered_redefines` (`Depth` with its cache and its guard, as written) |
| `RefuseRedefinition`, `ApplyRedefine` | `apply_redefine`, one component at a time, over all four kinds |
| `RefuseOverrides` | `validate_override_directives` |
| `LineUpOverrides` | `topologically_ordered_overrides` |
| `ApplyOverride` | `apply_override`: one component, the defaults of the overridden document |

`Next` of the composed system is the walk's until it is done, then these. That a
declaration of an included document is recorded as `Included` is left out.

### Content

**ContentNfa** has the automata as operators: the combinators of `NfaFragment`,
`apply_occurs` around the threshold, and the frontier with its closure, pruning
and ranges. The four kinds of `ActiveStates` are one record: `ranged = 0` is
Simple or Counted, another value the counter that RangedSingle or Hybrid keeps
as a range. The closure is the set that the worklist reaches; ranges are joined
behind it, which gives what joining on arrival gives as long as none has a gap,
and `FrontierExact` says that none has. Constants take the place of
`COUNTED_THRESHOLD` (16) and `MAX_ACTIVE_CONFIGS` (2^18).

**ParticleLanguage** is the reference: what may follow the children so far, by
the rests of the particle (sequences, choices) or by distributing the children
over the particles (all groups), with the priority of elements, and what open
content takes. It knows neither automata nor counters.

**ContentModel** is one element: its type is chosen in `Init` and compiled to a
`Matcher`, then

| Action | Code |
|---|---|
| `StartChild` | `advance_parent_content_model` and `advance_element_impl`; of it `AdvanceAutomaton`, `AcceptInAllGroup`, `TakeByOpenContent` (with the lock of the suffix), `Reject`, and `Abort` for the limit |
| `EndElement` | `finish_content_model`, `is_complete` |

A particle is a node of a sequence, a term the set of names it takes, so that
substitution groups and namespace constraints are data. `children` and `last`
are histories for the properties. Where two configurations could take a child
for different terms, the code takes the first of a hash set: any of them here.

**UniqueAttribution** is `compiler/upa.rs`: `CompileForUpa` builds the capped
automaton without counters, `CheckState` compares the terms behind one state (the
pairs of elements, of an element and a wildcard, of wildcards, with the merged
search over sorted names that 1.1 uses), `CheckAllGroup` the terms of an all
group. Its reference is again `ParticleLanguage`, on the uncapped particles.

### Runtime

**AssertionBuffers** is the part of the runtime that copies events to a fragment
while an asserted element is open. The document is a list of events, the
fragment what the builder was given; a frame names its element and where in the
fragment it starts.

| Action | Code |
|---|---|
| `StartElement` | `push_element` with `begin_assertion_buffer` or a nested frame |
| `Attribute` | the replay of attributes, collected for type alternatives or not |
| `EndOfAttributes` | the selected type replaces the declared one: its frame is dropped, kept or pushed |
| `Text`, `EndElement` | the content calls; deferral of inner frames, evaluation at the outermost end |
| `RunOut` | the fragment builder has no node or binding left |

Whether an assertion holds is chosen at its evaluation; the properties are about
which are evaluated, over what, and where the outcome goes.

**IdReferences** is the table of ID owners and pending IDREFs over the validation
roots of a run, with lists of values, both versions (in 1.1 an element may repeat
its own ID), elements assessed or not, and the errors of `end_validation`. **SiblingPositions** counts same-named siblings by depth in the
three representations of the counter (scan, slots, hash of the collided names)
and builds the path that diagnostics share.

### Documents

**XmlTree** is what a builder promises: items in document order, each at its
depth, adjacent text one item. **DocumentBuffer** implements it with a flat array,
`parent` and `next_sibling` links, pending text and two indexes. Its actions have
the names of the builder's methods: `start_element`, `attribute`,
`copy_attribute`, `end_of_attributes`, `end_element`, `text`, `comment`,
`processing_instruction`, `set_node_binding`, `set_nil`, `register_idrefs`,
`register_xml_id`, `finalize`. **NamespaceScopes** adds the chains of declarations
and the table of scope changes to them.

What the host is assumed to do, as every caller in `src/` does: attributes come
before content; `set_nil` is called on open elements; a node is marked by
`register_idrefs` or bound to a type, not both (a rebind drops the mark);
attributes at the document level come first and in fragments only. A string is
the list of its tokens.

### Caches and sort

**UncachedAnswers** is what a cache promises: a client asks, and is answered with
the result computed from the source as it then is. Two systems refine it:
**PatternCache**, the direct-mapped table of compiled patterns that threads
probe, compile for outside the lock and store to, and that any of them may
clear; and **FacetCache**, the memo of effective facets and enumeration indexes
beside the arenas, which readers fill while nobody holds the arenas mutably and
which every mutable borrow empties. **RecencyList** is a list of the last keys
used; **RegexTable**, the host's table with its recency numbers and the runs'
own tables, refines it for the host's. The branch for a table that is borrowed
already is left out: compiling runs no host code.

**RunStack** has the pending runs of the sort (`push_run`, `merge_collapse`,
`merge_force_collapse`) by base and length; **OrderKeys** the keys of `order by`
and their comparison (where it puts NaN: see the end of the findings);
**TimSort** composes them with the merges, one comparison
after the other in effect: binary insertion (`SortMini`, `CutRun`), `MergePair`,
the two gallops, `FinishMerge`, and `Decorate`/`Undecorate` of `sort_by_keys`
with the error that a comparison leaves behind.

## Runs

`CHECK_DEADLOCK FALSE` is set where the system really stops: the scope element
ends, the document ends, the walk or the sort is done.

Components that share no state are instances of one run where that saves a run:
a variable (`part`, `service`, `world`) picks one, and the others stay as they
began. Each of them is explored fully within its own bounds.

| Run | Question | Instance |
|---|---|---|
| `keyindex_shapes` | does the index implement the table, with complete chains, and does every call end? | 1 field, 9 values (one for each comparison rule and class), 3 sequences, a hash that collides on purpose |
| `ic_documents` | are frames, tables, scopes, verdicts and validity exact, and do matches follow XPath? | documents of 5 elements against 3 schemas: nested targets (`.//i` with child fields); two fields through attributes, unions, self and skipped content; keyrefs and keys on the root and on nested, partly unassessed groups. The matcher: all paths of up to 3 steps and all unions of two short ones, depth 4, skipped subtrees |
| `schema_sets` | is each document loaded, walked or refused once, by distance, whatever the order; do redefinitions build on the right originals, and do the outermost ones win? | 2 roots and 3 documents with up to 2 includes each under limits 1 and 2; 2 namespaces, 2 chameleon documents, an unreadable one and a catalog; a document without a namespace that is adopted and read as it is, also by imports of another; documents that declare, redefine and override one name, walked and then composed. The composition alone: all acyclic graphs of 4 documents over no edge, include, redefine and override, numbered from the outermost or to it; all cycles of includes and redefinitions of 3; 2 documents with every sort of child |
| `content_models` | are children and end tags judged as the particles say, and ambiguous models refused? | 46 types, up to 6 accepted children of 3 names, threshold 2, limit 26; 2,160 contents of up to 4 particles in both versions for the ambiguity check |
| `services` | are the caches invisible and the host's table LRU; is an answer sorted, stable, and given only if all compares; are id and IDREF lookups and namespaces in scope exact, and is the array the document? | 2 threads, 2 lines, 4 keys, 3 of them on one line and one of these invalid; 2 readers, 2 types; host and nested runs; arrays of up to 12 rows with failing keys and comparisons; 5 worlds of documents of up to 6 nodes: scopes, structure, ids, types, marks |
| `runtime_documents` | are assertions evaluated on the right fragment; are ID verdicts and positions exact? | 5 worlds: nesting, alternatives, faults, ids, positions |
| `redefine_order`, `content_suffix`, `ic_overlap`, `document_orphans`, `sort_errors`, `sort_stack` | the findings below | the smallest instances that show them |

*Why the bounds are enough.* A rebuild needs a sequence before the one that
mixes the classes and one after it, so three sequences reach every state of the
index (one field mixed, then another). A field's class has five values, and one
value per class and comparison rule covers their pairs. A path of three steps
has a first, an inner and a last step; depth four lets a descendant path match
inside its own match with a level in between. A field of a
target in a target needs four open elements, and one more element puts it before
or after the inner target. In the walk, a
document met too deep first and found nearer later needs four documents, a
resumed document that reads another one five. Four documents hold a chain of
three redefinitions or overrides, a diamond, and an include around either, and
in both numberings the depth alone puts one before the other; three have all
cycles through a document and one outside it that reads them. Content models have loops of up
to four iterations, at most two of them unrolled, so six children run through a
loop below its minimum, between its bounds and beyond them, and through a loop
in a loop twice; the types have one of each: no, one or two counters, bodies
that can be empty, ranges that move from one counter to another, and a type
whose frontier exceeds the limit behind a few children, so that `Abort` occurs.

For the ambiguity check, four particles give a conflict its two terms, one that
stands between them and one around them. An assertion frame that is deferred
needs an asserted element in an asserted one, a sibling after it, and one level
more for an element between: four. A replaced type needs a sibling behind it, and one
attribute before and one behind the collected ones. IDs need an owner, a
duplicate and two roots (five items and elements). With one linear name and one
collided one, seven elements reach all representations of a counter, and its
reuse at the next parent. Two threads on one line and a clear between a probe
and a store are all the interleavings a cache line has; two readers see a memo
filled behind a miss of their own. Twelve rows with `MinMerge` 4 and `MinGallop`
2 make three runs and gallops from both ends; `sort_errors` and `sort_stack` use
the constants of the code (32 and 7). A document of six nodes has an element in
an element with attributes on both and text behind.

The bounds (`MaxSequences`, `MaxBatch`, `MaxDepth`, `MaxElements`, `MaxOpen`,
`MaxDocuments`, `MaxChildren`, `MaxMembers`, `MaxNesting`, `MaxClock`) are guards of the
actions and constants of the modules; the worlds of `MCRuntime`, `MCDocument`
state theirs.

*Fairness.* `CallsEnd` and `WalkEnds` assume weak fairness of the steps of a
call that is under way (`WF(Step)`, `WF(Next)` of the walk, also where the
composition follows). They are loops of
one sequential function with nothing to wait for, so each next iteration is
taken. Calls themselves are not assumed to come. No other liveness is stated:
the locks of the caches are never held across a wait.

*Refinements checked.* `KeyIndex` implements `KeyTable` (`Spec`), `PatternCache`
and `FacetCache` implement `UncachedAnswers` (`CacheInvisible`,
`MemoInvisible`), `RegexTable` implements `RecencyList` (`HostIsLRU`),
`DocumentBuffer` implements `XmlTree` (`TreeBuilt`). The first three are
proved as well.

*Type invariants* are parts of `IndexInv`, `FramesFollowTargets`,
`EachWalkedOnce`, `FrontierExact` and `CachesInv`, and of the inductive invariants
below (`AxisTypeOK`, `StateTyped`, `PathTyped`, `StackTrue`); they are what the
other conjuncts rely on to be meaningful.

## Proofs

### The index

`KeyIndexProofs` proves for all values, hashes, numbers of fields and sizes:

- `IndexInvariant`: `IndexSpec => []IndexInv`,
- `IndexTypeCorrect`, `ChainsAlwaysComplete`, `EqualAlwaysSharesHash`: the
  type invariant and the two safety properties from it,
- `IndexImplementsTable`: `IndexSpec => Spec` of `KeyTable`, each step a step of
  the table or a stutter.

Assumptions: those stated in `FieldValues`, `KeyTable` and `KeyIndex` — an
atom holds one member, a hash of field keys is a `HashCode`, the bounds are
natural numbers. TLC evaluates them in the runs.

The properties are about the moments between calls and are not inductive:
during an insertion the chains cover some positions only, and the classes some
more. `IndexInv` says how many, by where the call is (`Linked`, `Classed`):
`LinkedUpTo(Linked)` is the shape of heads and chains so far, `ClassesCover(Classed)`
that a field's class covers every value so far, `WalkInv` that no sequence
behind the walk equals the probe, `CallInv` that a keyref check has decided its
earlier members. The argument turns on `EqualValuesOneKey`: values of one
class that are equal have one key. With `ClassesCover` this gives
`EqualSameHash` (equal sequences have one hash when the probe is comparable) and
`EqualInChain`; `ChainsKept`, `LinkExtends` and `MergeCovers` carry the chains
through the steps; `ContainsIsRight` then makes the answer of the walk the
answer of the linear scan, which is what the refinement needs.

### The matcher

`ActiveAxisProofs` proves, for all expressions, names, skipped subtrees and
depths, `AxisInvariant` (`AxisSpec => []AxisInv`) and `MatchesAreExact`
(`AxisSpec => MatchesExact`): at every tag, what the matcher enters, leaves and
says of an attribute is what the path selects. `MatchesExact` speaks of the
innermost element; the matcher goes back to the contexts of outer ones when an
end tag pops, so `AxisInv` has a context for every open element: those that are
visible have one that `Describes` the element — the steps it waits with are
those whose predecessors lead to it, a match is there when the path selects it —
and those below skipped content have `SkippedContext`. `LeadsOn` and
`LeadsByPrefix` say how the declarative meaning of a path changes with one more
open element, `ChildDescribes` that `ChildContext` computes it. Steps of the
self axis are passed over in one go (`SkipSelfIsFirst`, `SkipsTo`), the rest of
the meaning is an induction over the steps of a path (`LeadsIsArrives`). Exactness
holds for regular paths (`IsRegular`), which leaves out `.//@name` and a bare
`.//.`. The lemmas are about `Tracks(expression, a, open)` — an axis `a` of any
expression has followed the tags `open` — one for each call, so that
`ActiveAxis` and every selector and field of the runtime use the same ones.
The module ends with the lemmas about frames, ranks and rows that the proofs about
the runtime's identity constraints cite: the frames that follow the open
elements through a push and a pop (`FramesPushed`, `FramesPopped`), the rank of a
target in document order (`Ranked`, `RanksKept`), the rows of joined tables
(`RowsJoined`) and the comparison of key sequences (`SequencesCompared`).

### Identity constraints

`IdentityConstraintsProofs` proves two invariants of the composed evaluation, for
any schemas, documents and depths (assumptions `ConstraintAssumption`,
`DeclarationAssumption`, `DocumentAssumption`, `SkippedAssumption` and those of
the values).

`OwnersAreInvalid` (`Spec => []OwnersInvalid`): a closed element is invalid
exactly when a report is to its blame. `OwnersInvalid` alone is not inductive:
whether a closing element is invalid depends on its entry on the stack, and that
on what its children left there. `OwnersInv` adds

- the shape of the document: `TreeOK`, the path of an element leads to it by way
  of its ancestors, and the stack is the path of the innermost open element;
- `StructsOK`: the selector of each constraint `Tracks` the tags below its owner,
  so that the constraints whose selectors leave their scope at an end tag
  (`finish_identity_constraints`) are those of the element that ends;
- `OpenOwnersInvalid`: an open element is invalid when it knows of a report
  (`Known`): one to its blame that is not below its open child, which it hears of
  when the child closes (`BlamedParent`, `KnownOfOpen`).

`EndKeepsOwners` is the hard case: reports are made, the closing element and
its parent turn invalid, and the entry is popped, in one step.

`FramesAreOfTargets` (`Spec => []FramesFollowTargets`): every open target of a
constraint has one frame, in the order they were opened, whose fields have
followed the tags since. `FramesInv`, on top of `OwnersInv`, says that each open
element that carries a constraint has its struct, that tables are typed, and
(`FramesAt`) that there are depths `at[1] < at[2] < ...`, exactly those of the open
targets, such that frame `i` `Follows` the tags below depth `at[i]`. A start tag
pushes a frame when the selector enters (`FramesPushed`), an end tag pops the
last one when the selector leaves (`FramesPopped`), and that it is the frame of
the element that ends is the order of `at`. `FramesRanked` and `CountIncreasing`
turn depths into ranks. The hypothesis `RegularSelectors` leaves out selectors
with a bare `.//.`, which the matcher treats as `.`, so that it has other
targets than the definition; fields are any expressions. TLC checked both
inductive invariants on the documents of `ic_documents` before the proofs.

`TablesAreOfTargets` (`Spec => []TablesFollowDocument`): while a constraint is
evaluated, its table has one row for each closed target, in the order of their
end tags, and the row is the key sequence of the target, unless one of its
fields selects two nodes there or the target takes an attribute from another
(`Shadowed`: finding 2). `TablesInv` is inductive on top of the other two:

- `FramesExact`: the frame of an open target knows, of each field, whether it has
  met nodes, and the value of a single one. What it has met (`Gathered`) are the
  attributes so far and the *closed* elements that the field selects: an element
  counts when it ends, its attributes when they come;
- `TableExact`: the rows of the closed targets, by `Row`, the number of targets
  that closed up to then;
- `EveryTagged`: an element is closed or open, so that what a field selects from a
  closed element has been met (`ClosedGathered`).

A step changes what is met only below the innermost open element
(`MeetsInnermost`), hence nothing for a closed one: its row stays (`RowKept`,
`TableKept`). A start tag gives nothing (`PushContinues`). An attribute is bound by
the innermost frame alone; that no outer target selects it is the hypothesis
`~ Shadowed`, which once false stays false (`NestedShadows`, `ShadowedKept`). An end
tag gives the content to all frames whose fields select the element (`EndFrames`)
and then pops the last one, which is the one of the element that ends (`EndPops`,
from `FramesInv`), and `FrameRow` reads the row off it. For this the fields, too,
must be regular (`RegularFields`).

`ScopesAreExact` (`Spec => []ScopesExact`) follows from the tables. `ScopesInv` is
the property itself, with the root as the first element. What an end tag adds to
the scope map of the closing element is its own table, whose rows are the keys of
all its targets since none of them is open any more (`TablesHoldKeys`, from
`RowsAll`: `Row` numbers the closed targets without a gap); what it adds to the
node table of the definition, at every open element, is the same
(`CarriersKept`, with `ClosedKept` for what closed before). `ScopeEntries` and
`PropagatedEntries` say what the maps hold, `ScopesStay` that start tags and
attributes leave them alone. The property is about one constraint and
one scope at a time: only the elements that carry the constraint there must be
`Plain`, that is, neither shadowed nor with a field that selects two nodes.

`VerdictsAreExact` (`Spec => []VerdictsExact`) is about what all this is for: what
has been reported for a constraint when its element closes is what §3.11.4 calls
its violations. The property says nothing while the element is open, when most
of the reports are made, so `VerdictsInv` states a verdict for every prefix of the
document (`SoFarExact`): a missing field has been reported when a target that is
*closed* lacks one, a duplicate when two closed ones have equal keys, complex
content when a field selects a closed element that has it; and once a field has
met two nodes (`MeetsMany`, also of a target still open), a missing field, after
which nothing more is claimed. Only when the element closes are keyrefs looked
up (`KeyrefExact`; before, `OpenCode` are the only codes). Then targets are closed,
what was met is what is selected (`ClosedMeets`), and the property follows
(`VerdictsFollow`).

- A start tag closes nothing and meets nothing (`PushKeepsVerdicts`).
- An attribute meets a node: the innermost frame reports it when it has a value
  already (`BoundTwice`), and by `FramesExact` that is when the field has met a
  node before, for a target that is not shadowed (`AttributeMeets`).
- An end tag does all else. For each evaluated constraint, `EndErrors` are just
  what the verdict so far gains with the closing element (`EndErrorsExact` on the
  side of the code, `SoFarEnds` on that of the definition): the row that is added
  is compared with the rows so far, which are the keys of the closed targets
  (`TablesHoldKeysSoFar`), and the definition's pairs of equal keys are those, as
  `SequenceEqual` is symmetric (`SequencesCompared`). `EndClosesVerdict` adds the
  keyrefs of the closing element: its table has the keys of its targets, and the
  referenced one the entries of the node table (`EndNodeTable`, which is also the
  core of `ScopesAreExact`).
- Of closed elements nothing changes (`ClosedVerdictKept`): reports name open
  owners.

The hypotheses are those of `TablesAreOfTargets`. The property itself leaves out
shadowed targets (finding 2) and keyrefs whose referenced table has such rows.
TLC checked `VerdictsInv` on the documents of `ic_documents` first.

### Directive walk

`DirectiveWalkProofs` proves, for any worlds, depth limits and orders of
directives, `WalkInvariant` (`Spec => []WalkInv`), and from it `WalksEachOnce`
and `LoadsOnce`. `WalkInv` says that the state is typed and every number of a
document is one (`StateTyped`, `DocumentsKnown`); that a document is remembered
by its location or by the namespace it was adopted into (`CachesCover`), without
which the next directive could load it again; and that each document is in one
place (`WellPlaced`). Each action moves places: `OneMoved` is the argument for
`Begin`, `Descend` and `Defer`, where one document changes its place, `ManyMoved`
for `Resume` and `Finish`, where `Picked` splits the deferred ones into those
that go on and those that stay or are refused (`PickedPicks`). `ResolveKeepsInv` is
the only one that makes a place; `LoadingRemembers` carries the caches and
`LoadedOnce` through it.

`ErrorsComeAfterReads` is about the order in which errors are collected
(`ErrorsAfterReads`). `OrderInv`, next to `WalkInv`, says that the open documents
were each read by the one below, from a start up (`StackOrdered`), and that those
whose errors are collected are closed for good (`ErrorsClosed`). The case is
`Return`: a closing document that was not walked from a start has its reader
below it on the stack, so none of the reader's errors is there yet
(`ReturnOrders`). It needs `EachWalkedOnce` — what waits is not visited
(`WaitingUnvisited`), so no document is open twice or opened again — and that a
new edge does not change who read a document first (`ReadersStay`). TLC checked
`OrderInv` on the worlds of `schema_sets` first.

`DepthsAreShortest` (`Spec => []DepthIsShortest`): in the end, a document that the
directives lead to has been walked if its shortest way from the added ones is
within the limit, and refused if not. A way is a function from `0..n` to
documents along the edges (`IsWay`), and `Within` of the model, a recursive
function over as many steps as there are documents, has the distances because
of two facts that are proved by hand: the function exists (`WithinExists`), and a
way that is longer than there are documents meets one twice and can be cut
short (`WayShortened`, by the pigeonhole principle). The invariant `DepthInv` says that
what is open, waits or is walked has a way of the depth it carries, within the
limit (`StackNear`, `StartsNear`, `VisitsNear`), that documents are deferred only
under a limit, that nothing waits in the end, and that only then one is refused,
each beyond the limit by its distance and not by the way it was met on
(`RefusedFar`). The last step (`FinishNear`) is where the shortest distance is
compared; the others only lengthen ways by an edge (`WayExtended`) and add edges, which takes no
way away (`WaysStay`). TLC checked `DepthInv` first. Assumptions: `WorldAssumption`,
`MaxDocumentsAssumption`.

### The runtime

`RuntimeProofs` proves two of the runtime's tables right for every document.

`PathInvariant` and `PositionsAreExact`: the path of a diagnostic is the true one,
for any names, slots and depths, and any `Linear` and `CollidedIndex`
(assumptions `SlotOfAssumption`, `LinearAssumption`). First the counter alone:
`CounterOK` says that it has an entry for a name at most, and what its slots, the
list of collided entries and their index hold of them (`Filed`); with it `FindFinds`, in each
representation, `InsertedOK` through the changes from scan to slots to index,
and `CountedOK`: counting a name adds one to its number and to no other. Then the
stack: `PathInv` says that the counter at a depth has exactly the children of the
element open there, and that the counters below the innermost one are empty
(`ClearedForgets`), since the vector of counters is never cut and the next
element at that depth reuses what it finds. The built prefix of the path
(`path_nodes`) is true, too, however many tags came since it was built.

`IdInvariant` and `IdVerdictsAreExact`: verdicts and errors of IDs and IDREFs over
any elements, roots and lists of up to any `MaxMembers` values, in both versions.
`Exact(table, items, place)` says what the table holds of a sequence of values at
a place in the run: an owner among the right ones for each ID (`IdsHeld`), whether
two clash, in this root and at all (`ClashesHeld`), all IDREFs in order with those of
the current root at the end (`IdrefsHeld`). The subtle part is `ClashesHeld`: the
table keeps one owner for a value, and compares a new owner with that one. In
version 1.1 a second ID of the same owner is no clash, so a clash of the new ID
with a third must have been found before; and the owner that is kept may belong
to an earlier root, so the conflict of this root is right only since an element
binds values in its own root (`RootsApart`). `Collected` takes `Exact` through a
list of values, `VerdictFound` and `VerdictKept` make it the verdict on a root and
keep that when later roots come, `UnresolvedFound` the errors of `end_validation`.

Both invariants were checked by TLC on the instances of `runtime_documents`
before they were proved.

### Content models

`ContentModelProofs` proves for all types, thresholds, limits and children:

- `AllGroupsStayWithinBounds`: `Spec => []AllGroupWithinBounds`. The inductive
  invariant `AllGroupInv` adds that the model is still the matcher of the type:
  the property compares counts of the model's particles with the type's bounds.
  `PartsAreNodes` shows, through the cases of extension, that the parts of a
  compiled group are nodes of the type, with bounds that are numbers. One lemma
  for each of the two actions that change the group; all others leave it alone.
- `DominanceSimulates`: along any arc a configuration that equals or dominates
  another reaches the same state and covers it there again
  (`CountersStayCovered`, by the kinds of arcs). This is why `prune_dominated`
  loses nothing; that whole closures agree is an induction over paths and is
  checked by `FrontierExact`.
- `RangesFollowValues`: an arc on a range yields the values that it yields on
  the members of the range; an increment yields at least them, up to the
  maximum, which is sound only for a body that can be empty. That no other
  counter is ranged is checked by `FrontierExact` (its mutant ranges any).

Assumptions: `ContentNfaAssumption` (the threshold is positive) and
`ContentModelAssumption` (bounds of particles are numbers, parts of a node come
before it), which TLC evaluates.

### The sort

`TimSortProofs` proves, for arrays of any length, any rows, comparisons and
failures, `StackRunsAdjacent` and `SortRunsAdjacent`: in the stack alone and in
the sort that works on it, pending runs lie side by side from the front of the
array to what is cut, none is empty, and a sorted array is one run — the
assertions of `merge_at`. `RunsAdjacent` is almost inductive; `StackInv` adds
that the stack holds runs, that something is pending while runs are merged, and
that the last merges begin when all is cut. `PushedSideBySide` and
`MergedSideBySide` are the two ways the stack changes; `SortStepsTheStack` makes
each step of the sort one of the stack or none. That the stack of the code is
deep enough does not hold (finding 4).

### The caches

`CacheProofs` proves `PatternCacheInvisible`: `PatternSpec =>
CacheInvisible`, for any threads, keys, hash, lines and clears. The invariant
`PatternInv`: a line holds nothing or a key with that key's own program, and
what a thread is about to store has compiled. `HitGivesOwnProgram` is why a hit
on a line that other threads overwrite is right; `CallsEndRight` makes each way
to end a call an `Answer` of the abstract system, and every other step is an
`Ask` or a stutter.

It also proves `RegexAnswersExact`: `RegexSpec => []AnswersExact`, for
any keys, capacities, nesting and lending. The invariant is that the entries of
every table there is, the host's and each run's, carry their own key's program,
and that a table has a place at least: with no place, there would be no
`Victim` for a new key and the lookup would miss what it has just stored
(`VictimIsSlot`, by two uses of the least-number principle).

`FacetMemoInvisible` (`FacetSpec => MemoInvisible`) is the same for the memo of
effective facets, from `FacetInvariant`. The walk over base types is a recursive
function whose existence is proved step by step (`WalkExists`), after which
`FacetsByWalk` says what it gives from what it gives of the base. Two things make
a memo right. An allocation changes no walk: types name only types that are
allocated already, so a walk never comes to the new one (`WalkStays`,
`FacetsStay`). And an edit finds the memos empty and nobody reading: it needs
the arena for itself, and beginning it clears them (`EditedAlone`). Readers'
own facets and answers are then the arena's (`ReadersTrue`), for as long as they
read.

### Model-checked only

Liveness (`CallsEnd`, `WalkEnds`); `Composition`, whose `Depth` threads a cache
through a recursion and is a `RECURSIVE` operator; of the directive walk
`FindsAllViews`; `UniqueAttribution`, `AssertionBuffers`, the document modules, and
`ContentModel` beyond the lemmas above. Of `CachesInv` the part on `RegexTable` and
that on memos are proved, the conjunction is only checked.

What a recursive function gives can be proved here only where its existence is
proved by hand, as for `Within`, the walk of base types and the runs of the
sort: the library's induction takes an operator. What functions over
particles, closures and permutations compute (`FrontierExact`, `OrderExact`) is left
to TLC.

## Findings

Each of these is a run in which TLC finds the property violated.

1. `content_suffix`: in an optional all group (`minOccurs="0"`) with a suffix of
   open content and required particles, an element whose first child is of the
   open content is rejected: the suffix asks for `is_satisfied`, which does not
   know that the group may be left out, while the end tag does (`ChildrenExact`).
   The types of `content_models` leave this construction out.
2. `ic_overlap`: with overlapping targets, an attribute inside an inner target is
   given to the inner frame only (`NestedTargets`): an outer target whose field
   selects it is reported as lacking the field. `VerdictsExact` and the others
   leave such constraints out (`Shadowed`).
3. `document_orphans`: `find_nodes_by_idref` on a parentless attribute answers with
   nodes of its owner's content (`IdrefLookupsExactForAttributes`): the scope runs
   up to the end of a subtree that an attribute does not have.
4. `sort_stack`: for 65,536 elements with runs of certain lengths, 20 runs are
   pending on a stack of 19 (`StackSufficient`). The invariant of `merge_collapse`
   is restored at the top only, so the documented invariant is false further down.
5. `sort_errors`: when a comparison fails, the answers that follow contradict those
   before, and the merge panics instead of returning the error
   (`ErrorsReturned`). In the instances tried it takes two criteria.

6. `redefine_order`: depths computed while a document counts as 0 are cached, which
   the comment says they are not. Where a document includes one that redefines
   it, the redefinition may be applied before those of its target
   (`TargetsFirst`), so it builds on the plain declaration and the target's
   own redefinition replaces it. `OriginalsExact` compares originals in acyclic
   graphs; in cyclic ones it says which sets are refused, and that no redefinition
   misses an original once they are not.

A disagreement with a comment only, which has no run of its own:
`compose/order.rs` 16–19 says that NaN sits "immediately next to" the empty key,
"just before it for `Greatest`", and goes on "so `NaN` precedes every real number
in both". Under `greatest` the two contradict each other. `rank` (lines 301–308)
and the test `nan_sits_next_to_the_empty_key` put NaN behind the numbers there,
and `Place`, by which `OrderExact` says what sorted is, follows the first half. So
the passing `services` run, whose rows have NaN and numbers under both placements,
shows the last words of the comment to be wrong for `Greatest`.

Further deviations, met while modelling, that the instances leave out:

- `.//@name` as a field never matches an attribute: the path is tried below the
  scope element only, and an attribute step is not waited for at the first step
  of a descendant path.
- A no-namespace document that was adopted first is loaded again for each
  directive that reads it as it is: the location cache keeps the first copy
  only. With global components the second copy fails as a duplicate
  declaration; in a cycle of includes without a depth limit it is loaded without
  end. `LoadedOnce` states the exception, and the worlds of `schema_sets` have such
  documents (`MixedWorlds`), without the cycle; `FindsAllViews` leaves them out
  (`OneWay`).
- src-include clause 2.1 is checked when a document is parsed and not when it is
  found in the cache, so the verdict on an include of another namespace depends
  on what was read before.
- What a document makes of a name does not include its overrides: the originals of
  redefinitions are looked up along redefines and includes only, and all overrides
  come after all redefinitions, so that an override in an inner document replaces
  a redefinition in an outer one. An original is the first in depth-first order,
  also when a document behind it redefines the name. Where two documents that do
  not come to each other redefine or override one name, the later in the order
  replaces the other without an error. `ViewOf` and `WinnersExact` state this as
  the code has it.
- A component of an override takes the defaults of the document that the directive
  names, also when what it replaces is declared in one that this document includes.
- When base and extension both have an all group, the merged group gets the open
  content of the extension only.
- When a buffer was begun only for the sake of type alternatives and the selected
  type asserts, the `xsi:` attributes are not replayed into the fragment
  (`runtime.rs` 1653–1688): the `Alternatives` world has such attributes only
  where a frame is open. After a selection, an outer buffer keeps the bindings
  to the declared type; type annotations are not modelled.
- The ID table is the run's: an ID of an earlier root resolves an IDREF of a later
  one and clashes with its IDs, and an IDREF that dangles when its root closes
  makes that root invalid even if a later root resolves it, without an error in
  the end. `IdVerdictsExact` states this as the code has it.

## Not modelled, and the plan

`PROJECT.json` lists every component with its reason. Data-heavy parts (XML
decoding, facets and number types, derivation rules, the XPath interpreter)
have no state worth exploring, and they are most of the lines of `src/`. Of the
modelled parts the following is left out:

- content models: the limit on closure work, all groups below the root of a
  particle (`all_group_to_nfa`), nilled or skipped parents;
- identity constraints: expressions that do not compile, errors of other kinds;
- assertions: a fragment builder that cannot be made
  (`BufferDocumentBuilder::new`), the normalised text that replaces a pending one
  (modelled in `DocumentBuffer` as `replace_pending_text`), sources other than
  the fragment, attributes that are skipped;
- IDs: other errors of the elements;
- documents: the element index, spans, the text reader, fixup in copies;
- directive walk: URIs, rewriters, loaders and the prefetch;
- composition: the contents of components (the references by which a redefinition
  finds its original in its own content, attribute groups' wildcards, the later
  check that a group is a restriction) and `Included` provenance.

Still to come, in this order:

1. withdrawal of a failed document's components; resolution of references after
   the composition, with its cycles;
2. `[validation attempted]` and attribute uses in the runtime; nilled parents;
3. proofs: that assertion frames follow the element stack; that `RegexTable`
   implements `RecencyList` and `DocumentBuffer` `XmlTree`.
