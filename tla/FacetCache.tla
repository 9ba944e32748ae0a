------------------------------ MODULE FacetCache ------------------------------
(***************************************************************************)
(* The memo of effective facets and of enumeration indexes beside the      *)
(* component arenas.  Validations share the arenas and fill the memo; the  *)
(* composer and the resolvers edit components through one gate that        *)
(* empties it; allocating a new component does not.                        *)
(*                                                                         *)
(* A simple type's facets are the one facet the memo has to merge, an      *)
(* enumeration: the most derived one on the base chain counts.             *)
(***************************************************************************)
EXTENDS Naturals

CONSTANTS
    Reader,
    SimpleType,
    Literals,       \* what an enumeration facet may hold
    Initial,        \* the types the arenas start with
    MaxWalk,        \* the bound of the walk over the bases, 100 in the code
    MaxEdits,
    NoType, NoLiteral, Absent

ASSUME FacetCacheAssumption ==
    /\ Initial \subseteq SimpleType
    /\ NoType \notin SimpleType
    /\ NoLiteral \notin Literals
    /\ MaxWalk \in Nat /\ MaxEdits \in Nat

VARIABLES
    arena,          \* the allocated types: own facet, base, first member type
    facetMemo,
    indexMemo,
    editing,        \* whether a mutable borrow of the arenas is out
    edits,
    reading,        \* the query of each reader, NoQuery when it has none
    phase,          \* where in the query the reader is
    facets,         \* the effective facet a reader works with
    result          \* the last query of each reader and what it gave

facetVars ==
    <<arena, facetMemo, indexMemo, editing, edits, reading, phase, facets, result>>

NoQuery == <<NoType, NoType>>
NoIndex == <<>>
Query == SimpleType \X {"facets", "index"}
Entry(a, t) ==
    [own : Literals \cup {NoLiteral},
     base : (a \ {t}) \cup {NoType}, member : (a \ {t}) \cup {NoType}]

(* The base chain, nearest first, is walked at most MaxWalk steps: a chain *)
(* that closes on itself ends the walk there.                              *)
EffectiveFacets(a, t) ==
    LET walk[n \in 0..MaxWalk] ==
            IF n = 0 THEN <<a[t].own, a[t].base>>
            ELSE LET before == walk[n - 1] IN
                 IF before[2] = NoType THEN before
                 ELSE <<IF before[1] = NoLiteral THEN a[before[2]].own ELSE before[1],
                        a[before[2]].base>>
    IN walk[MaxWalk][1]

(* The index prepares the effective literals with the member types of a    *)
(* union, which bring their own effective facets.                          *)
IndexOf(a, t, effective) ==
    <<effective,
      IF a[t].member = NoType THEN NoLiteral ELSE EffectiveFacets(a, a[t].member)>>

(* A query for the index of a type without an enumeration has no index.    *)
QueryResult(a, q) ==
    LET effective == EffectiveFacets(a, q[1]) IN
    IF q[2] = "facets" \/ effective = NoLiteral THEN <<effective>>
    ELSE IndexOf(a, q[1], effective)

Indexes == Literals \X (Literals \cup {NoLiteral})

FacetTypeOK ==
    /\ DOMAIN arena \subseteq SimpleType
    /\ \A t \in DOMAIN arena : arena[t] \in Entry(DOMAIN arena, t)
    /\ facetMemo \in [SimpleType -> Literals \cup {NoLiteral, Absent}]
    /\ indexMemo \in [SimpleType -> Indexes \cup {NoIndex}]
    /\ editing \in BOOLEAN /\ edits \in 0..MaxEdits
    /\ reading \in [Reader -> Query \cup {NoQuery}]
    /\ phase \in [Reader -> {"idle", "facets", "compute", "index", "build"}]
    /\ facets \in [Reader -> Literals \cup {NoLiteral}]
    /\ \A r \in Reader :
        /\ phase[r] = "idle" <=> reading[r] = NoQuery
        /\ phase[r] \in {"index", "build"} => facets[r] \in Literals
    /\ \A r \in Reader : result[r] # <<>> => result[r][1] \in Query

FacetInit ==
    /\ arena \in [Initial -> UNION {Entry(Initial, t) : t \in Initial}]
    /\ \A t \in Initial : arena[t] \in Entry(Initial, t)
    /\ facetMemo = [t \in SimpleType |-> Absent]
    /\ indexMemo = [t \in SimpleType |-> NoIndex]
    /\ editing = FALSE /\ edits = 0
    /\ reading = [r \in Reader |-> NoQuery]
    /\ phase = [r \in Reader |-> "idle"]
    /\ facets = [r \in Reader |-> NoLiteral]
    /\ result = [r \in Reader |-> <<>>]
-----------------------------------------------------------------------------
NobodyReads == \A r \in Reader : phase[r] = "idle"
Readers == <<reading, phase, facets, result>>

(* Mutants of EmptyMemos: the gate empties one of the memos only.          *)
EmptyFacetMemoOnly ==
    facetMemo' = [t \in SimpleType |-> Absent] /\ UNCHANGED indexMemo

EmptyIndexMemoOnly ==
    indexMemo' = [t \in SimpleType |-> NoIndex] /\ UNCHANGED facetMemo

(* entries_mut: both memos are emptied before the borrow is handed out.    *)
EmptyMemos ==
    /\ facetMemo' = [t \in SimpleType |-> Absent]
    /\ indexMemo' = [t \in SimpleType |-> NoIndex]

BorrowMut ==
    /\ NobodyReads /\ ~editing /\ edits < MaxEdits
    /\ editing' = TRUE
    /\ EmptyMemos
    /\ UNCHANGED <<arena, edits, Readers>>

EditType ==
    /\ editing /\ edits < MaxEdits
    /\ edits' = edits + 1
    /\ \E t \in DOMAIN arena : \E e \in Entry(DOMAIN arena, t) :
        arena' = [arena EXCEPT ![t] = e]
    /\ UNCHANGED <<facetMemo, indexMemo, editing, Readers>>

EndBorrow ==
    /\ editing
    /\ editing' = FALSE
    /\ UNCHANGED <<arena, facetMemo, indexMemo, edits, Readers>>

(* alloc_simple_type also takes the arenas exclusively, but leaves the     *)
(* memos as they are: the new key is in neither.                           *)
AllocType ==
    /\ NobodyReads /\ ~editing
    /\ \E t \in SimpleType \ DOMAIN arena :
        \E e \in Entry(DOMAIN arena, t) :
            arena' = [u \in DOMAIN arena \cup {t} |->
                        IF u = t THEN e ELSE arena[u]]
    /\ UNCHANGED <<facetMemo, indexMemo, editing, edits, Readers>>
-----------------------------------------------------------------------------
TypeRead(r) == reading[r][1]

BeginQuery(r) ==
    /\ phase[r] = "idle" /\ ~editing
    /\ \E q \in {q \in Query : q[1] \in DOMAIN arena} :
        reading' = [reading EXCEPT ![r] = q]
    /\ phase' = [phase EXCEPT ![r] = "facets"]
    /\ result' = [result EXCEPT ![r] = <<>>]
    /\ UNCHANGED <<arena, facetMemo, indexMemo, editing, edits, facets>>

Return(r, answer) ==
    /\ result' = [result EXCEPT ![r] = <<reading[r], answer>>]
    /\ reading' = [reading EXCEPT ![r] = NoQuery]
    /\ phase' = [phase EXCEPT ![r] = "idle"]
    /\ facets' = [facets EXCEPT ![r] = NoLiteral]

(* With the effective facets at hand, a facet query is over, and so is an  *)
(* index query if there is no enumeration.                                 *)
QueryOver(r, effective) == reading[r][2] = "facets" \/ effective = NoLiteral

HaveFacets(r, effective) ==
    IF QueryOver(r, effective)
    THEN Return(r, <<effective>>)
    ELSE /\ facets' = [facets EXCEPT ![r] = effective]
         /\ phase' = [phase EXCEPT ![r] = "index"]
         /\ UNCHANGED <<reading, result>>

FacetsHit(r) ==
    /\ phase[r] = "facets"
    /\ facetMemo[TypeRead(r)] # Absent
    /\ HaveFacets(r, facetMemo[TypeRead(r)])
    /\ UNCHANGED <<arena, facetMemo, indexMemo, editing, edits>>

FacetsMiss(r) ==
    /\ phase[r] = "facets"
    /\ facetMemo[TypeRead(r)] = Absent
    /\ facets' = [facets EXCEPT ![r] = EffectiveFacets(arena, TypeRead(r))]
    /\ phase' = [phase EXCEPT ![r] = "compute"]
    /\ UNCHANGED <<arena, facetMemo, indexMemo, editing, edits, reading, result>>

(* The insert comes after the lock was given up: another reader may have   *)
(* inserted the same type meanwhile, and its entry is overwritten.         *)
FacetsInsert(r) ==
    /\ phase[r] = "compute"
    /\ facetMemo' = [facetMemo EXCEPT ![TypeRead(r)] = facets[r]]
    /\ HaveFacets(r, facets[r])
    /\ UNCHANGED <<arena, indexMemo, editing, edits>>

IndexHit(r) ==
    /\ phase[r] = "index"
    /\ indexMemo[TypeRead(r)] # NoIndex
    /\ Return(r, indexMemo[TypeRead(r)])
    /\ UNCHANGED <<arena, facetMemo, indexMemo, editing, edits>>

IndexMiss(r) ==
    /\ phase[r] = "index"
    /\ indexMemo[TypeRead(r)] = NoIndex
    /\ phase' = [phase EXCEPT ![r] = "build"]
    /\ UNCHANGED <<arena, facetMemo, indexMemo, editing, edits, reading, facets, result>>

IndexInsert(r) ==
    /\ phase[r] = "build"
    /\ LET built == IndexOf(arena, TypeRead(r), facets[r]) IN
        /\ indexMemo' = [indexMemo EXCEPT ![TypeRead(r)] = built]
        /\ Return(r, built)
    /\ UNCHANGED <<arena, facetMemo, editing, edits>>

QueryStep(r) ==
    \/ FacetsHit(r) \/ FacetsMiss(r) \/ FacetsInsert(r)
    \/ IndexHit(r) \/ IndexMiss(r) \/ IndexInsert(r)

FacetNext ==
    \/ BorrowMut \/ EditType \/ EndBorrow \/ AllocType
    \/ \E r \in Reader : BeginQuery(r) \/ QueryStep(r)

FacetSpec == FacetInit /\ [][FacetNext]_facetVars
-----------------------------------------------------------------------------
(* Arenas and memos agree at all times (arenas.rs: "the cache is provably  *)
(* consistent with the live arenas at all times"): every entry is what     *)
(* computing it now would give, an index included whose member type, not   *)
(* its own type, was edited.                                               *)
MemosCurrent ==
    \A t \in DOMAIN arena :
        /\ facetMemo[t] \in {Absent, EffectiveFacets(arena, t)}
        /\ indexMemo[t] \in {NoIndex, QueryResult(arena, <<t, "index">>)}

(* Readers cannot tell the memo is there, however their lookups and        *)
(* inserts interleave with each other and edits come between queries.      *)
UncachedFacets == INSTANCE UncachedAnswers WITH
    Client <- Reader, Request <- Query, NoRequest <- NoQuery,
    Result <- QueryResult, source <- arena, asked <- reading, answered <- result
MemoInvisible == UncachedFacets!UncachedSpec
=============================================================================
