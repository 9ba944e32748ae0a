-------------------------------- MODULE XmlTree --------------------------------
(* What a document builder promises, whatever it stores: the document is    *)
(* the sequence of its items in document order, each at its depth.  An      *)
(* attribute comes before the content of its element, text that meets text  *)
(* is one item, and only the last item, while it is text, can still change. *)
EXTENDS Integers, Sequences

CONSTANTS ItemValue, ItemName

VARIABLES
    items,      \* [depth, kind, name, value], in document order
    depth,      \* the open elements
    growing     \* the last item is text that the next text joins

treeVars == <<items, depth, growing>>

Item(k, name, value) == [depth |-> depth, kind |-> k, name |-> name, value |-> value]

TreeInit == items = <<>> /\ depth = 0 /\ growing = FALSE

(* The place of the last item that is not an attribute of the open element *)
(* is the open element itself, or there is none.                           *)
InStartTag ==
    \A i \in 1..Len(items) :
        items[i].kind # "Attribute" /\ (\A j \in i + 1..Len(items) : items[j].kind = "Attribute")
            => items[i].kind = "Element" /\ items[i].depth = depth - 1

Open ==
    /\ items' = Append(items, Item("Element", "", <<>>))
    /\ depth' = depth + 1 /\ growing' = FALSE

Close ==
    /\ depth > 0
    /\ depth' = depth - 1 /\ growing' = FALSE
    /\ UNCHANGED items

AddAttribute(name, value) ==
    /\ InStartTag /\ ~growing
    /\ items' = Append(items, Item("Attribute", name, value))
    /\ UNCHANGED <<depth, growing>>

(* The first attribute of that name of the open element.                   *)
ReplaceAttribute(name, value) ==
    /\ InStartTag /\ ~growing
    /\ \E i \in 1..Len(items) :
        /\ items[i].kind = "Attribute" /\ items[i].name = name /\ items[i].depth = depth
        /\ \A j \in i + 1..Len(items) : items[j].kind = "Attribute"
        /\ items' = [items EXCEPT ![i].value = value]
    /\ UNCHANGED <<depth, growing>>

AddText(value) ==
    /\ value # <<>>
    /\ items' = IF growing
                THEN [items EXCEPT ![Len(items)].value = @ \o value]
                ELSE Append(items, Item("Text", "", value))
    /\ growing' = TRUE
    /\ UNCHANGED depth

(* The text that was still growing is another one, or nothing at all.      *)
ReplaceText(value) ==
    /\ growing
    /\ items' = IF value = <<>> THEN SubSeq(items, 1, Len(items) - 1)
                ELSE [items EXCEPT ![Len(items)].value = value]
    /\ growing' = (value # <<>>)
    /\ UNCHANGED depth

AddLeaf(k) ==
    /\ items' = Append(items, Item(k, "", <<>>))
    /\ growing' = FALSE
    /\ UNCHANGED depth

(* An error, or the end of the document: text no longer grows.             *)
Settle == growing' = FALSE /\ UNCHANGED <<items, depth>>

TreeNext ==
    \/ Open \/ Close \/ Settle
    \/ \E k \in {"Comment", "ProcessingInstruction"} : AddLeaf(k)
    \/ \E value \in ItemValue :
        \/ AddText(value) \/ ReplaceText(value)
        \/ \E name \in ItemName : AddAttribute(name, value) \/ ReplaceAttribute(name, value)

TreeSpec == TreeInit /\ [][TreeNext]_treeVars
=============================================================================
