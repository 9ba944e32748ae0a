------------------------------ MODULE ActiveAxis ------------------------------
(***************************************************************************)
(* One ActiveAxis driven by the start and end tags of the elements below   *)
(* its scope element (src/src/validation/active_axis.rs).                  *)
(***************************************************************************)
EXTENDS AxisMatcher

CONSTANTS
    Expressions, \* the expressions of the instance
    ElementName, \* the names of its elements
    MaxDepth     \* bound: open elements below the scope element

ASSUME ExpressionAssumption ==
    \A ast \in Expressions :
        DOMAIN ast = 1 .. Len(ast) /\ \A p \in DOMAIN ast : IsPath(ast[p])

ASSUME InstanceAssumption == MaxDepth \in Nat /\ ElementName \subseteq Name

-----------------------------------------------------------------------------
VARIABLES
    ast,   \* the expression
    axis,  \* the matcher
    trail  \* names of the open elements below the scope, outermost first

axisVars == <<ast, axis, trail>>

AxisInit ==
    /\ ast \in Expressions
    /\ axis = Activate(ast)
    /\ trail = <<>>

BelowSkipped == trail # <<>> /\ trail[Len(trail)] = Skipped

AxisStart(name) ==
    /\ axis.active /\ Len(trail) < MaxDepth
    /\ ~ BelowSkipped
    /\ axis' = MoveToStartElement(ast, axis, name)
    /\ trail' = Append(trail, name)
    /\ UNCHANGED ast

(* An element a skip wildcard accepts, or one below such an element.       *)
AxisStartSkipped ==
    /\ axis.active /\ Len(trail) < MaxDepth
    /\ axis' = MoveToSkippedElement(ast, axis)
    /\ trail' = Append(trail, Skipped)
    /\ UNCHANGED ast

AxisEnd ==
    /\ axis.active /\ trail # <<>>
    /\ axis' = EndElement(ast, axis)
    /\ trail' = Pop(trail)
    /\ UNCHANGED ast

AxisEndScope ==
    /\ axis.active /\ trail = <<>>
    /\ axis' = EndElement(ast, axis)
    /\ UNCHANGED <<ast, trail>>

AxisNext ==
    \/ \E name \in ElementName : AxisStart(name)
    \/ AxisStartSkipped \/ AxisEnd \/ AxisEndScope

AxisSpec == AxisInit /\ [][AxisNext]_axisVars

Regular == \A p \in DOMAIN ast : IsRegular(ast[p])

-----------------------------------------------------------------------------
(* Properties                                                              *)

(* While an element is the innermost open one, and also after its children *)
(* closed, an attribute matches exactly when a field path selects it.      *)
AttributesSelected ==
    axis.active /\ Regular =>
        \A name \in ElementName :
            MatchesAttribute(ast, axis, name) <=>
                /\ Visible(trail)
                /\ \E p \in DOMAIN ast : SelectsAttribute(ast[p], trail, name)

(* A start tag reports a match exactly when the element is selected or     *)
(* owns the attributes that are: by whichever path of the union, at        *)
(* whatever depth, and again inside an element that already matched.  Its  *)
(* end tag reports one exactly when the element is selected, so every      *)
(* element match that was entered is exited once, and an element that only *)
(* owns a selected attribute is not exited; and between its tags exactly   *)
(* the attributes match that a path selects.                               *)
MatchesExact ==
    [][/\ AttributesSelected
       /\ Regular =>
             /\ Len(trail') > Len(trail) =>
                   (axis'.entered_match <=>
                       /\ Visible(trail')
                       /\ \E p \in DOMAIN ast : SelectsElement(ast[p], trail')
                                                \/ SelectsOwner(ast[p], trail'))
             /\ axis'.current_depth < axis.current_depth =>
                   (axis'.exited_match <=>
                       /\ Visible(trail)
                       /\ \E p \in DOMAIN ast : SelectsElement(ast[p], trail))]_axisVars
=============================================================================
