------------------------------ MODULE MCRuntime -------------------------------
(* TLC instances of three parts of the runtime that share no state: a       *)
(* behaviour is one of one of them, in one of the worlds below, while the   *)
(* others stay as they began.                                               *)
EXTENDS AssertionBuffers, IdReferences, SiblingPositions

CONSTANT World

VARIABLE world

runtimeVars == <<world, bufferVars, idVars, positionVars>>

(* Three names that share a slot and one on its own.                       *)
MCSlotOf == [n \in Name |-> IF n = "d" THEN 2 ELSE 1]

OneRoot == stack = <<>> => document = <<>>

(* Nested elements of every kind; nothing but elements.                    *)
Nesting ==
    /\ \/ \E type \in Type \cup Untyped : StartElement(type, FALSE)
       \/ EndOfAttributes(Top.type)
       \/ \E failing \in SUBSET (1..Len(elements)) : EndElement(failing)
    /\ Len(elements') <= 4

(* Type alternatives, with the attributes they are tested on, and others   *)
(* that are not collected for them: the latter only where the fragment was *)
(* begun for the declared type or around the element.                      *)
Alternatives ==
    /\ \/ \E type \in Type \cup {"lax"}, alternatives \in BOOLEAN : StartElement(type, alternatives)
       \/ \E name \in Listed : Attribute(name)
       \/ Len(buffer.frames) > 0 /\ \E name \in Unlisted : Attribute(name)
       \/ \E selected \in Type : EndOfAttributes(selected)
       \/ EndElement({})
    /\ Len(elements') <= 3
    /\ Cardinality({i \in 1..Len(document') : document'[i].op = "attribute"}) <= 2

(* The builder runs out of nodes or bindings.                              *)
Faults ==
    /\ \/ \E type \in {"plain", "old", "lax"} : StartElement(type, FALSE)
       \/ \E name \in Listed : Attribute(name)
       \/ EndOfAttributes(Top.type)
       \/ Text
       \/ \E what \in {"nodes", "bindings"} : RunOut(what)
       \/ EndElement({})
    /\ Len(elements') <= 3
    /\ Len(document') <= 8

Identifiers ==
    /\ IdNext
    /\ Len(items') + Len(tree') <= 5
    /\ items' # <<>> => items'[1].value = "x"

Positions ==
    /\ PositionNext
    /\ Len(opened') <= 7 /\ Len(path_steps') <= 2
    /\ \A i \in 1..Len(opened') : opened'[i].parent = 0 => opened'[i].name = "d"

RuntimeInit ==
    /\ world \in World
    /\ BufferInit /\ IdInit /\ PositionInit
    /\ world # "ids" => xsd11

RuntimeNext ==
    \/ /\ world = "nesting" /\ UNCHANGED <<world, idVars, positionVars>>
       /\ OneRoot /\ Nesting
    \/ /\ world = "alternatives" /\ UNCHANGED <<world, idVars, positionVars>>
       /\ OneRoot /\ Alternatives
    \/ /\ world = "faults" /\ UNCHANGED <<world, idVars, positionVars>>
       /\ OneRoot /\ Faults
    \/ world = "ids" /\ UNCHANGED <<world, bufferVars, positionVars>> /\ Identifiers
    \/ world = "positions" /\ UNCHANGED <<world, bufferVars, idVars>> /\ Positions

RuntimeSpec == RuntimeInit /\ [][RuntimeNext]_runtimeVars
=============================================================================
