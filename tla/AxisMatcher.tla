----------------------------- MODULE AxisMatcher -----------------------------
(***************************************************************************)
(* The streaming matcher of the selector and field XPaths of identity      *)
(* constraints (src/src/validation/active_axis.rs, over the expressions of *)
(* asttree.rs): what each call does to an ActiveAxis, and what the XPath   *)
(* selects by definition.                                                  *)
(*                                                                         *)
(* An expression is a sequence of paths, the branches of its union; a path *)
(* is [descendant, steps] and a step is [axis, test], where test is the    *)
(* set of the names that its name test matches.  Step indices count from 1.*)
(***************************************************************************)
EXTENDS Integers, Sequences

CONSTANT Name \* element and attribute names (namespace and local name)

Step == [axis : {"self", "child", "attribute"}, test : SUBSET Name]

(* parse_path: an attribute step can only be the last one.                 *)
IsPath(path) ==
    /\ path.descendant \in BOOLEAN
    /\ path.steps \in Seq(Step) /\ path.steps # <<>>
    /\ \A j \in 1 .. Len(path.steps) - 1 : path.steps[j].axis # "attribute"

Skipped == "skipped element"

ASSUME SkippedAssumption == Skipped \notin Name

-----------------------------------------------------------------------------
(* skip_self_nodes: the first step from j on that is not `.'.              *)
SkipSelf(steps, j) ==
    CHOOSE k \in j .. Len(steps) + 1 :
        /\ k = Len(steps) + 1 \/ steps[k].axis # "self"
        /\ \A i \in j .. k - 1 : steps[i].axis = "self"

FirstReal(path) == SkipSelf(path.steps, 1)

(* MatchContext.  active_steps wait for a child element, matched_here      *)
(* completed at this element or wait for an attribute of it.               *)
Context(active, matched, awaiting, try) ==
    [active_steps |-> active, matched_here |-> matched,
     awaiting_attribute |-> awaiting, try_from_start |-> try]

(* activate, for one path: a bare `.' and a leading attribute step are     *)
(* about the scope element itself.                                         *)
ScopeContext(path) ==
    LET first == FirstReal(path) IN
    IF first > Len(path.steps) THEN Context({}, {}, FALSE, FALSE)
    ELSE IF path.steps[first].axis = "attribute" /\ ~ path.descendant
         THEN Context({}, {first}, TRUE, FALSE)
         ELSE Context({first}, {}, FALSE, path.descendant)

(* move_to_start_element, for one path: `steps' tried at an element.       *)
Candidates(path, parent) ==
    parent.active_steps
        \cup (IF parent.try_from_start THEN {FirstReal(path)} ELSE {})

Passed(path, parent, name) ==
    {j \in Candidates(path, parent) :
        /\ j <= Len(path.steps)
        /\ \/ path.steps[j].axis = "self"
           \/ path.steps[j].axis = "child" /\ name \in path.steps[j].test}

(* Mutant of ChildContext: `.//' is tried below the scope element only.    *)
ChildContextShallow(path, parent, name) ==
    LET passed == Passed(path, parent, name)
        after == [j \in passed |-> SkipSelf(path.steps, j + 1)]
        complete == {j \in passed : after[j] > Len(path.steps)}
        going == {after[j] : j \in passed \ complete}
        pending == {k \in going : path.steps[k].axis = "attribute"}
    IN  Context(going \ pending, complete \cup pending, pending # {}, FALSE)

ChildContext(path, parent, name) ==
    LET passed == Passed(path, parent, name)
        after == [j \in passed |-> SkipSelf(path.steps, j + 1)]
        complete == {j \in passed : after[j] > Len(path.steps)}
        going == {after[j] : j \in passed \ complete}
        pending == {k \in going : path.steps[k].axis = "attribute"}
    IN  Context(going \ pending, complete \cup pending,
                pending # {}, path.descendant)

SkippedContext == Context({}, {}, FALSE, FALSE)

-----------------------------------------------------------------------------
(* The operations of an ActiveAxis over the expression ast.                *)
Top(stack) == stack[Len(stack)]
Pop(stack) == SubSeq(stack, 1, Len(stack) - 1)

(* new, before activate                                                    *)
Inactive(ast) ==
    [active |-> FALSE, current_depth |-> -1,
     context_stack |-> [p \in DOMAIN ast |-> <<>>],
     scope_match |-> FALSE, entered_match |-> FALSE, exited_match |-> FALSE]

Activate(ast) ==
    [active |-> TRUE, current_depth |-> 0,
     context_stack |-> [p \in DOMAIN ast |-> <<ScopeContext(ast[p])>>],
     scope_match |-> \E p \in DOMAIN ast :
                         FirstReal(ast[p]) > Len(ast[p].steps),
     entered_match |-> FALSE, exited_match |-> FALSE]

MoveToStartElement(ast, axis, name) ==
    IF ~ axis.active THEN axis ELSE
    LET context == [p \in DOMAIN ast |->
                       ChildContext(ast[p], Top(axis.context_stack[p]), name)]
    IN  [axis EXCEPT
            !.current_depth = @ + 1,
            !.context_stack = [p \in DOMAIN ast |-> Append(@[p], context[p])],
            !.entered_match = \E p \in DOMAIN ast :
                                  context[p].matched_here # {}]

MoveToSkippedElement(ast, axis) ==
    IF ~ axis.active THEN axis ELSE
    [axis EXCEPT
        !.current_depth = @ + 1,
        !.context_stack = [p \in DOMAIN ast |-> Append(@[p], SkippedContext)],
        !.entered_match = FALSE]

(* Mutant of EndElement: an awaited attribute is a match.                  *)
EndElementHasty(ast, axis) ==
    IF ~ axis.active THEN axis ELSE
    LET depth == axis.current_depth - 1 IN
    [axis EXCEPT
        !.current_depth = depth,
        !.context_stack = [p \in DOMAIN ast |-> Pop(@[p])],
        !.exited_match =
            \/ \E p \in DOMAIN ast : Top(axis.context_stack[p]).matched_here # {}
            \/ depth < 0 /\ axis.scope_match,
        !.active = depth >= 0]

(* A context that still awaits an attribute is no element match; the scope *)
(* element is exited when the depth goes below 0.                          *)
EndElement(ast, axis) ==
    IF ~ axis.active THEN axis ELSE
    LET closing(p) == Top(axis.context_stack[p])
        matched == \E p \in DOMAIN ast :
                       /\ closing(p).matched_here # {}
                       /\ ~ closing(p).awaiting_attribute
        depth == axis.current_depth - 1
    IN  [axis EXCEPT
            !.current_depth = depth,
            !.context_stack = [p \in DOMAIN ast |-> Pop(@[p])],
            !.exited_match = matched \/ (depth < 0 /\ axis.scope_match),
            !.active = depth >= 0]

(* Mutant of MatchesAttribute: only the first path of the union counts.    *)
MatchesAttributeFirst(ast, axis, name) ==
    /\ axis.active
    /\ LET context == Top(axis.context_stack[1]) IN
       /\ context.awaiting_attribute
       /\ \E j \in context.matched_here :
             /\ j <= Len(ast[1].steps)
             /\ ast[1].steps[j].axis = "attribute"
             /\ name \in ast[1].steps[j].test

MatchesAttribute(ast, axis, name) ==
    /\ axis.active
    /\ \E p \in DOMAIN ast :
          LET context == Top(axis.context_stack[p]) IN
          /\ context.awaiting_attribute
          /\ \E j \in context.matched_here :
                /\ j <= Len(ast[p].steps)
                /\ ast[p].steps[j].axis = "attribute"
                /\ name \in ast[p].steps[j].test

-----------------------------------------------------------------------------
(* What the expression selects, as XPath defines it: the first n steps of  *)
(* a path lead from the scope element to the open element at depth d when  *)
(* each `.' stays at a node and each child step goes down to one whose     *)
(* name it tests; `.//' begins at any open element.                        *)
Leads(path, n, d, open) ==
    \E at \in [0 .. n -> 0 .. d] :
        /\ at[0] = 0 \/ path.descendant
        /\ at[n] = d
        /\ \A j \in 1 .. n :
              \/ path.steps[j].axis = "self" /\ at[j] = at[j - 1]
              \/ /\ path.steps[j].axis = "child"
                 /\ at[j] = at[j - 1] + 1
                 /\ open[at[j]] \in path.steps[j].test

EndsInAttribute(path) == path.steps[Len(path.steps)].axis = "attribute"

(* The innermost open element is one of the selected nodes, or the owner   *)
(* of the attributes that are.                                             *)
SelectsElement(path, open) ==
    ~ EndsInAttribute(path) /\ Leads(path, Len(path.steps), Len(open), open)

SelectsOwner(path, open) ==
    EndsInAttribute(path) /\ Leads(path, Len(path.steps) - 1, Len(open), open)

SelectsAttribute(path, open, name) ==
    SelectsOwner(path, open) /\ name \in path.steps[Len(path.steps)].test

(* No element can be reached by way of a skipped one.                      *)
Visible(open) == \A i \in 1 .. Len(open) : open[i] # Skipped

(* The paths whose `.//' is followed by a child step (after any `.').  The *)
(* matcher treats a bare `.//.' as `.' and never matches `.//@name'.       *)
IsRegular(path) ==
    path.descendant =>
        /\ FirstReal(path) <= Len(path.steps)
        /\ path.steps[FirstReal(path)].axis = "child"
=============================================================================
