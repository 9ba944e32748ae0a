--------------------------- MODULE AssertionBuffers ---------------------------
(* How the runtime evaluates the assertions of complex types (XSD 1.1,      *)
(* validation/runtime.rs): from the outermost asserted element on, the      *)
(* events are copied to a fragment builder; a nested asserted element is    *)
(* deferred when it ends, and all are evaluated when the outermost one      *)
(* ends.  A type alternative may replace the type between the attributes    *)
(* and the content, and the builder may run out of nodes or bindings.       *)
(*                                                                         *)
(* A document is the list of its events.  Whether an assertion holds is     *)
(* chosen when it is evaluated.                                             *)
EXTENDS Integers, Sequences, FiniteSets, SequencesExt

CONSTANTS
    Type,           \* the complex types
    Asserting,      \* ... with assertions, their own or inherited
    Listed,         \* attributes that are collected for the alternatives
    Unlisted        \* ... and the xsi: ones, which are not

ASSUME AssertingAssumption == Asserting \subseteq Type

(* An element without a type: under a lax wildcard, or a strict one.       *)
Untyped == {"lax", "undeclared"}
ASSUME UntypedAssumption == Untyped \cap Type = {}

VARIABLES
    stack,          \* validation_stack
    buffer,         \* fragment_builder and the frames
    document,       \* the events so far
    elements,       \* what became of each element
    evaluations     \* the assertions evaluated, in order

bufferVars == <<stack, buffer, document, elements, evaluations>>

NULL == 0
Event(op, id) == [op |-> op, id |-> id]
Top == Last(stack)

Asserts(t) == t \in Asserting
Strictly(t) == t \in Type

(* The events of the element that starts at i.                             *)
Subtree(events, i) ==
    LET Count(op, j) == Cardinality({k \in i..j : events[k].op = op})
        ends == {j \in i..Len(events) : Count("start", j) = Count("end", j)}
    IN  IF ends = {} THEN SubSeq(events, i, Len(events))
        ELSE SubSeq(events, i, CHOOSE j \in ends : \A k \in ends : j <= k)

-----------------------------------------------------------------------------
(* The buffer: whether there is a builder, what it holds, what it has run  *)
(* out of, the frames of the open asserted elements and of the ended ones, *)
(* and the elements at which a failure of the buffer was reported.         *)

NoBuffer ==
    [building |-> FALSE, fragment |-> <<>>, full |-> "nothing", frames |-> <<>>,
     pending |-> <<>>, complaints |-> {}]

is_buffering_assertions(b) == b.frames # <<>>
begin_assertion_buffering(b) ==
    [b EXCEPT !.building = TRUE, !.fragment = <<>>, !.full = "nothing"]
TornDown(b) == [b EXCEPT !.building = FALSE, !.fragment = <<>>, !.full = "nothing",
                         !.pending = <<>>]
Complain(b, e) == [b EXCEPT !.complaints = @ \cup {e}]
abort_assertion_buffering(b, e) == Complain([TornDown(b) EXCEPT !.frames = <<>>], e)

Forwarded(b, event) == [b EXCEPT !.fragment = Append(@, event)]
Forwards(b) == is_buffering_assertions(b) /\ b.building

TextPending(b) == b.fragment # <<>> /\ Last(b.fragment).op = "text"
OpenElements(b) ==
    Cardinality({i \in 1..Len(b.fragment) : b.fragment[i].op = "start"})
    - Cardinality({i \in 1..Len(b.fragment) : b.fragment[i].op = "end"})

(* The text that a failed flush takes with it.                             *)
TextLost(b) == IF TextPending(b) THEN [b EXCEPT !.fragment = Front(@)] ELSE b

Frame(ref, e, type) == [ref |-> ref, elem |-> e, type |-> type, propagates_to_outer |-> FALSE]
Pushed(b, frame) == [b EXCEPT !.frames = Append(@, frame)]

(* The buffer after the start of element e, the node e has there, and      *)
(* whether e owns a frame.                                                 *)
detect_assertions_on_element(b, e, type, has_alternatives) ==
    LET begun == IF is_buffering_assertions(b) THEN b ELSE begin_assertion_buffering(b)
        started == Forwarded(begun, Event("start", e))
        ref == Len(started.fragment)
        Result(after, node, owns) == [buffer |-> after, ref |-> node, owns |-> owns]
    IN  IF ~is_buffering_assertions(b) /\ ~Asserts(type) /\ ~has_alternatives
        THEN Result(b, NULL, FALSE)
        ELSE IF ~begun.building THEN Result(begun, NULL, FALSE)
        ELSE IF begun.full = "nodes" THEN Result(Complain(TextLost(begun), e), NULL, FALSE)
        ELSE IF Asserts(type) THEN Result(Pushed(started, Frame(ref, e, type)), ref, TRUE)
        ELSE IF begun.full = "bindings" /\ Strictly(type)
             THEN Result(abort_assertion_buffering(started, e), NULL, FALSE)
        ELSE Result(started, ref, FALSE)

(* An attribute of e, typed at once unless it waits for the selection.     *)
BufferedAttribute(b, e, name, typed) ==
    IF ~Forwards(b) THEN b
    ELSE IF b.full = "nodes" \/ (b.full = "bindings" /\ typed)
         THEN abort_assertion_buffering(b, e)
    ELSE Forwarded(b, Event("attribute", name))

(* The attributes collected before there was a frame.                      *)
Replayed(b, e, collected) ==
    IF ~b.building \/ collected = <<>> THEN b
    ELSE IF b.full = "nodes" THEN abort_assertion_buffering(b, e)
    ELSE [b EXCEPT !.fragment =
            @ \o [i \in 1..Len(collected) |-> Event("attribute", collected[i])]]

(* Mutant of redetect_assertions_after_cta: the frame of the old type      *)
(* stays.                                                                  *)
RedetectedOverOldFrame(b, ev, type) ==
    IF Asserts(type) /\ ev.ref # NULL
    THEN [buffer |-> Replayed(Pushed(b, Frame(ev.ref, ev.id, type)), ev.id,
                              IF ~ev.owns /\ ~is_buffering_assertions(b)
                              THEN ev.collected ELSE <<>>),
          owns |-> TRUE]
    ELSE [buffer |-> b, owns |-> ev.owns]

(* Another type was selected for the element of ev, which has started.     *)
redetect_assertions_after_cta(b, ev, type) ==
    LET popped == ev.owns /\ b.frames # <<>>
        old == IF popped THEN Last(b.frames).ref ELSE NULL
        without == IF popped THEN [b EXCEPT !.frames = Front(@)] ELSE b
        ref == IF old # NULL THEN old ELSE ev.ref
        need_replay == old = NULL /\ ~is_buffering_assertions(without)
        pushed == Pushed(without, Frame(ref, ev.id, type))
        Result(after, owns) == [buffer |-> after, owns |-> owns]
    IN  IF ~Asserts(type)
        THEN Result(IF without.frames = <<>> /\ without.building THEN TornDown(without)
                    ELSE without, FALSE)
        ELSE IF ref = NULL THEN Result(without, FALSE)
        ELSE Result(IF need_replay THEN Replayed(pushed, ev.id, ev.collected) ELSE pushed, TRUE)

(* Mutant of nested_failure_reaches_outer: only the parent is looked at.   *)
ParentIsStrict(open, frames) == frames > 0 /\ open # <<>> /\ Last(open).strict

(* Whether all open elements from the owner of the bottom frame on are     *)
(* strictly assessed; `frames` owners are counted from the top.            *)
nested_failure_reaches_outer(open, frames) ==
    LET Owners(i) == Cardinality({j \in i..Len(open) : open[j].owns})
    IN  \E i \in 1..Len(open) :
            /\ open[i].owns /\ Owners(i) = frames
            /\ \A j \in i..Len(open) : open[j].strict

-----------------------------------------------------------------------------

BufferInit ==
    /\ stack = <<>> /\ buffer = NoBuffer
    /\ document = <<>> /\ elements = <<>> /\ evaluations = <<>>

AtContent == stack # <<>> => Top.in_content

(* An element under a declaration or a wildcard; with a type alternative   *)
(* it has a declaration.                                                   *)
StartElement(type, has_alternatives) ==
    LET e == Len(elements) + 1
        found == detect_assertions_on_element(buffer, e, type, has_alternatives)
    IN  /\ AtContent
        /\ has_alternatives => Strictly(type)
        /\ buffer' = found.buffer
        /\ stack' = Append(stack,
             [id |-> e, type |-> type, has_alternatives |-> has_alternatives,
              strict |-> Strictly(type), owns |-> found.owns, ref |-> found.ref,
              validity |-> IF type = "lax" THEN "notKnown"
                           ELSE IF type = "undeclared" THEN "invalid" ELSE "valid",
              collected |-> <<>>, in_content |-> FALSE])
        /\ document' = Append(document, Event("start", e))
        /\ elements' = Append(elements,
             [parent |-> IF stack = <<>> THEN NULL ELSE Top.id, type |-> type,
              at |-> Len(document) + 1, ended |-> FALSE, broken |-> FALSE, verdict |-> "none"])
        /\ UNCHANGED evaluations

Attribute(name) ==
    /\ stack # <<>> /\ ~Top.in_content
    /\ LET waits == Top.has_alternatives /\ name \in Listed
       IN  /\ buffer' = BufferedAttribute(buffer, Top.id, name, ~waits)
           /\ stack' = IF waits
                       THEN [stack EXCEPT ![Len(stack)].collected = Append(@, name)]
                       ELSE stack
    /\ document' = Append(document, Event("attribute", name))
    /\ UNCHANGED <<elements, evaluations>>

(* With alternatives, one of them selects a type (it may be the declared   *)
(* one) or none does.                                                      *)
EndOfAttributes(selected) ==
    /\ stack # <<>> /\ ~Top.in_content
    /\ ~Top.has_alternatives => selected = Top.type
    /\ LET switched == selected # Top.type
           again == IF switched THEN redetect_assertions_after_cta(buffer, Top, selected)
                    ELSE [buffer |-> buffer, owns |-> Top.owns]
       IN  /\ buffer' = again.buffer
           /\ stack' = [stack EXCEPT ![Len(stack)] =
                [@ EXCEPT !.type = selected, !.owns = again.owns, !.collected = <<>>,
                          !.in_content = TRUE]]
           /\ elements' = [elements EXCEPT ![Top.id].type = selected]
    /\ UNCHANGED <<document, evaluations>>

Text ==
    /\ stack # <<>> /\ Top.in_content /\ Last(document).op # "text"
    /\ buffer' = IF Forwards(buffer) THEN Forwarded(buffer, Event("text", NULL)) ELSE buffer
    /\ document' = Append(document, Event("text", NULL))
    /\ UNCHANGED <<stack, elements, evaluations>>

(* The builder has no room for another node, or another binding.           *)
RunOut(what) ==
    /\ buffer.building /\ buffer.full = "nothing"
    /\ buffer' = [buffer EXCEPT !.full = what]
    /\ UNCHANGED <<stack, document, elements, evaluations>>

Evaluation(b, frame, failing) ==
    [elem |-> frame.elem, type |-> frame.type, content |-> Subtree(b.fragment, frame.ref),
     fails |-> frame.elem \in failing]

(* finish_assertions for the element of ev, of which `open` are the        *)
(* ancestors: the buffer, ev's validity, whether the buffer broke it, and  *)
(* the evaluations, of which those of `failing` fail.                      *)
finish_assertions(b, ev, open, failing) ==
    LET Result(after, validity, broken, evaluated) ==
            [buffer |-> after, validity |-> validity, broken |-> broken,
             evaluated |-> evaluated]
        Broken(after) == Result(after, "invalid", TRUE, <<>>)
        Unharmed(after) == Result(after, ev.validity, FALSE, <<>>)
        ended == IF b.building THEN Forwarded(b, Event("end", NULL)) ELSE b
        frame == Last(b.frames)
        popped == [ended EXCEPT !.frames = Front(@)]
        all == Append(b.pending, frame)
        evaluated == [i \in 1..Len(all) |-> Evaluation(ended, all[i], failing)]
        spoilt == \E i \in 1..Len(all) :
                      /\ evaluated[i].fails
                      /\ i = Len(all) \/ all[i].propagates_to_outer
        deferred == [frame EXCEPT !.propagates_to_outer =
                        nested_failure_reaches_outer(open, Len(popped.frames))]
    IN  IF ~is_buffering_assertions(b)
        THEN Unharmed(IF b.building THEN TornDown(b) ELSE b)
        ELSE IF b.building /\ (OpenElements(b) = 0 \/ (b.full = "nodes" /\ TextPending(b)))
        THEN Broken(abort_assertion_buffering(b, ev.id))
        ELSE IF ~ev.owns THEN Unharmed(ended)
        ELSE IF popped.frames # <<>>
        THEN Unharmed([popped EXCEPT !.pending = Append(@, deferred)])
        ELSE IF ~b.building THEN Unharmed(TornDown(popped))
        ELSE IF b.full = "nodes" THEN Broken(Complain(TornDown(popped), ev.id))
        ELSE Result(TornDown(popped),
                    IF spoilt /\ ev.validity = "valid" THEN "invalid" ELSE ev.validity,
                    FALSE, evaluated)

(* An invalid child makes a strictly assessed parent invalid.              *)
Propagated(open, ev, validity) ==
    IF /\ open # <<>> /\ Last(open).strict /\ Last(open).validity = "valid"
       /\ validity = "invalid" /\ (ev.strict \/ ev.type = "undeclared")
    THEN [open EXCEPT ![Len(open)].validity = "invalid"]
    ELSE open

EndElement(failing) ==
    /\ stack # <<>> /\ Top.in_content
    /\ LET ev == Top
           done == finish_assertions(buffer, ev, Front(stack), failing)
       IN  /\ \A e \in failing :
                \E i \in 1..Len(done.evaluated) : done.evaluated[i].elem = e
           /\ buffer' = done.buffer
           /\ stack' = Propagated(Front(stack), ev, done.validity)
           /\ evaluations' = evaluations \o done.evaluated
           /\ elements' = [elements EXCEPT ![ev.id] =
                [@ EXCEPT !.ended = TRUE, !.broken = done.broken,
                          !.verdict = IF ev.type = "lax" THEN "notKnown" ELSE done.validity]]
    /\ document' = Append(document, Event("end", NULL))

BufferNext ==
    \/ \E type \in Type \cup Untyped, alternatives \in BOOLEAN : StartElement(type, alternatives)
    \/ \E name \in Listed \cup Unlisted : Attribute(name)
    \/ \E selected \in Type \cup Untyped : EndOfAttributes(selected)
    \/ Text
    \/ \E what \in {"nodes", "bindings"} : RunOut(what)
    \/ \E failing \in SUBSET (1..Len(elements)) : EndElement(failing)

AssertionSpec == BufferInit /\ [][BufferNext]_bufferVars

-----------------------------------------------------------------------------

Ids == 1..Len(elements)
Above(e) ==
    LET above[x \in 0..Len(elements)] ==
            IF x = NULL THEN {} ELSE {x} \cup above[elements[x].parent]
    IN  above[e]
Children(e) == {c \in Ids : elements[c].parent = e}
Asserted(e) == Asserts(elements[e].type)

(* The assertions of e are due: it has ended, and so has every asserted    *)
(* element above it.                                                       *)
Due(e) == \A x \in Above(e) : elements[x].ended \/ (x # e /\ ~Asserted(x))

(* A failure of the buffer was reported about e or what it is buffered     *)
(* with.                                                                   *)
Excused(e) ==
    \E x \in buffer.complaints : x \in Above(e) \/ \E o \in Above(e) : Asserted(o) /\ o \in Above(x)

(* Property.  The assertions of each element are those of its final type,  *)
(* they are evaluated on exactly what the element holds in the document,   *)
(* and once, when the outermost asserted element above it has ended; if    *)
(* the buffer failed, an error says so, and what was evaluated all the     *)
(* same saw a whole element ("to prevent a desynchronized fragment from    *)
(* producing wrong assertion results").                                    *)
EvaluationsExact ==
    /\ \A i \in 1..Len(evaluations) :
        LET v == evaluations[i]
        IN  /\ v.type = elements[v.elem].type
            /\ v.content = Subtree(document, elements[v.elem].at)
            /\ \A j \in 1..Len(evaluations) : evaluations[j].elem = v.elem => j = i
    /\ \A e \in Ids :
        Asserted(e) /\ Due(e) /\ ~Excused(e) =>
            \E i \in 1..Len(evaluations) : evaluations[i].elem = e
    /\ stack = <<>> => ~buffer.building /\ buffer.frames = <<>> /\ buffer.pending = <<>>

(* [validity] by the tree (3.3.5.1): an element is invalid by itself, by a *)
(* failed assertion, or by a child that is.                                *)
SpecInvalid ==
    [e \in Ids |->
        LET invalid[x \in Ids] ==
                \/ elements[x].type = "undeclared"
                \/ /\ Strictly(elements[x].type)
                   /\ \/ elements[x].broken
                      \/ \E i \in 1..Len(evaluations) :
                            evaluations[i].elem = x /\ evaluations[i].fails
                      \/ \E c \in Children(x) : invalid[c]
        IN  invalid[e]]

(* Property.  An assertion that fails in a nested element, which is known  *)
(* only when the elements between have closed, makes the outermost         *)
(* asserted element and all above invalid exactly if it would have, had it *)
(* been known at once: through strictly assessed elements only.            *)
VerdictsReachOuter ==
    \A e \in Ids :
        elements[e].ended /\ (\A x \in Above(e) \ {e} : ~Asserted(x)) =>
            (elements[e].verdict = "invalid" <=> SpecInvalid[e])
=============================================================================
