------------------------------ MODULE MCServices ------------------------------
(* TLC instances of what the rest of the program calls: the three caches,  *)
(* the sort and the document buffer.  They have no state in common, so a   *)
(* behaviour is one of one of them while the others stay as they began.    *)
EXTENDS PatternCache, FacetCache, RegexTable, MCTimSort, MCDocument

VARIABLE service

bufferVars == <<scopedVars, world>>
serviceVars == <<service, patternVars, facetVars, regexVars, sortVars, bufferVars>>

(* Three keys that share a line, one of them invalid, and one on its own;  *)
(* two facets with the same key.                                           *)
MCLineOf == [k \in PatternKey |-> IF k = "b" THEN 2 ELSE 1]
MCKeyOf == [f1 |-> "a", f2 |-> "c", f3 |-> "bad", f4 |-> "b"]

NoSort ==
    /\ call = [specs |-> <<>>, keys |-> <<>>]
    /\ length = 0 /\ lo = 0 /\ stack = <<>> /\ stage = "called"
    /\ rows = <<>> /\ answered = "none" /\ sort = NewSort

NoDocument == Init /\ ScopesInit /\ kind = "Full" /\ world = "scopes"

NoEdits ==
    \A t \in DOMAIN arena :
        /\ arena[t].base = NoType /\ arena[t].member = NoType
        /\ service # "facets" => arena[t].own = NoLiteral

ServicesInit ==
    /\ PatternInit /\ FacetInit /\ RegexInit
    /\ \/ service \in {"patterns", "facets", "regexes"} /\ NoEdits /\ NoSort /\ NoDocument
       \/ service = "sort" /\ NoEdits /\ SortInit /\ NoDocument
       \/ service = "document" /\ NoEdits /\ NoSort /\ MCInit

ServicesNext ==
    \/ service = "patterns" /\ PatternNext
          /\ UNCHANGED <<service, facetVars, regexVars, sortVars, bufferVars>>
    \/ service = "facets" /\ FacetNext
          /\ UNCHANGED <<service, patternVars, regexVars, sortVars, bufferVars>>
    \/ service = "regexes" /\ RegexNext
          /\ UNCHANGED <<service, patternVars, facetVars, sortVars, bufferVars>>
    \/ service = "sort" /\ SortNext
          /\ UNCHANGED <<service, patternVars, facetVars, regexVars, bufferVars>>
    \/ service = "document" /\ MCNext
          /\ UNCHANGED <<service, patternVars, facetVars, regexVars, sortVars>>

ServicesSpec == ServicesInit /\ [][ServicesNext]_serviceVars

(* The types of the caches, and the memos' entries are current (arenas.rs: *)
(* "provably consistent with the live arenas").                            *)
CachesInv == PatternTypeOK /\ FacetTypeOK /\ RegexTypeOK /\ MemosCurrent
=============================================================================
