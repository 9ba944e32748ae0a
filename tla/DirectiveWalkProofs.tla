-------------------------- MODULE DirectiveWalkProofs --------------------------
(***************************************************************************)
(* Proof that the walk over the directives loses no document and walks     *)
(* none twice, when it loads one again, in which order its errors are      *)
(* collected, and that a document is walked at the depth of its shortest   *)
(* way from a root, for every world.                                       *)
(***************************************************************************)
EXTENDS DirectiveWalk, FiniteSetTheorems, WellFoundedInduction, TLAPS

-----------------------------------------------------------------------------
Doc == 1 .. Len(documents)

Code == {"depth", "src-import", "src-include", "src-redefine", "unreadable", "unusable"}
ErrorType == [doc : Nat, code : Code, import : BOOLEAN, target : Nat]
FrameType ==
    [doc : Nat, depth : Nat, resolved : Nat, loaded : Seq(Nat), next : Nat,
     errors : Seq(ErrorType)]
StartType == [doc : Nat, depth : Nat]
VisitType == [doc : Nat, depth : Nat, start : BOOLEAN]
EdgeType ==
    [source : Nat, target : Nat,
     kind : {"include", "import", "redefine", "override"}]

StateTyped ==
    /\ world \in World
    /\ documents \in Seq(View)
    /\ composition_edges \in Seq(EdgeType)
    /\ starts \in Seq(StartType)
    /\ stack \in Seq(FrameType)
    /\ deferred \in Seq(Nat \X Nat)
    /\ errors \in Seq(ErrorType)
    /\ visits \in Seq(VisitType)
    /\ done \in BOOLEAN

(* Every number that stands for a document is one.                         *)
FrameKnown(frame) ==
    /\ frame.doc \in Doc
    /\ frame.resolved \in 0 .. Len(Directives(frame.doc))
    /\ frame.next \in 1 .. Len(frame.loaded) + 1
    /\ \A j \in 1 .. Len(frame.loaded) : frame.loaded[j] \in Doc
    /\ \A j \in 1 .. Len(frame.errors) : frame.errors[j].target = NoDocument

DocumentsKnown ==
    /\ Len(world.roots) <= Len(documents)
    /\ \A i \in 1 .. Len(composition_edges) :
          composition_edges[i].source \in Doc /\ composition_edges[i].target \in Doc
    /\ \A i \in 1 .. Len(starts) : starts[i].doc \in Doc
    /\ \A i \in 1 .. Len(stack) : FrameKnown(stack[i])
    /\ \A i \in 1 .. Len(deferred) : deferred[i][1] \in Doc /\ deferred[i][2] \in Doc
    /\ \A i \in 1 .. Len(errors) : errors[i].target \in 0 .. Len(documents)
    /\ \A i \in 1 .. Len(visits) : visits[i].doc \in Doc

(* The first document of a location is remembered by it, and every adopted *)
(* one by the namespace that it was adopted into.                          *)
First(d) == loaded_locations[documents[d].location]

CachesCover ==
    /\ DOMAIN loaded_locations = {documents[d].location : d \in Doc}
    /\ \A d \in Doc : First(d) \in 1 .. d
                      /\ documents[First(d)].location = documents[d].location
    /\ \A k \in DOMAIN chameleon_cache : chameleon_cache[k] \in Doc
    /\ \A d \in Doc :
          LET location == documents[d].location
              namespace == documents[d].target_namespace
          IN  IF world.declared[location] # NoNamespace
              THEN namespace = world.declared[location]
              ELSE namespace # NoNamespace =>
                      <<location, namespace>> \in DOMAIN chameleon_cache

Added(doc) == doc <= Len(world.roots)
Accepted(doc) ==
    \E i \in 1 .. Len(composition_edges) : composition_edges[i].target = doc

(* A document in no place was read by a failed import.                     *)
WellPlaced(doc) ==
    /\ \A p, q \in Places(doc) : p = q
    /\ Places(doc) = {} => Misread /\ ~ Added(doc)
    /\ Places(doc) # {} => Added(doc) \/ Accepted(doc)

WalkInv ==
    /\ StateTyped /\ DocumentsKnown /\ CachesCover /\ LoadedOnce
    /\ \A doc \in Doc : WellPlaced(doc)

-----------------------------------------------------------------------------
(* Numbers have a least one among them.                                    *)
LEMMA LeastNatural ==
    ASSUME NEW S, S \subseteq Nat, S # {}
    PROVE  \E n \in S : \A m \in S : n <= m
<1> DEFINE R == OpToRel(<, Nat)
<1>1. \A m, n \in Nat : m < n => <<m, n>> \in R
  BY DEF OpToRel
<1>2. IsWellFoundedOn(R, Nat)
  BY NatLessThanWellFounded
<1> HIDE DEF R
<1>3. PICK n \in S : \A m \in S : ~(<<m, n>> \in R)
  BY <1>2, WFMin
<1>4. ASSUME NEW m \in S PROVE n <= m
  <2>1. m \in Nat /\ n \in Nat /\ ~(m < n)
    BY <1>1, <1>3
  <2> QED BY <2>1
<1> QED BY <1>4

(* Induction up to a bound, over a set of numbers.                         *)
LEMMA BoundedInduction ==
    ASSUME NEW N \in Nat, NEW S, 0 \in S,
           \A m \in 0 .. N - 1 : m \in S => m + 1 \in S
    PROVE  \A m \in 0 .. N : m \in S
<1> DEFINE Missing == {m \in 0 .. N : m \notin S}
<1> SUFFICES ASSUME Missing # {} PROVE FALSE
  OBVIOUS
<1>1. PICK n \in Missing : \A m \in Missing : n <= m
  <2>1. Missing \subseteq Nat
    OBVIOUS
  <2> HIDE DEF Missing
  <2> QED BY <2>1, LeastNatural
<1>2. n \in Nat \ {0} /\ n - 1 \in 0 .. N - 1 /\ n - 1 \notin Missing
  BY <1>1
<1> QED BY <1>1, <1>2

(* Sequences with their last element replaced or removed.                  *)
LEMMA LastReplaced ==
    ASSUME NEW E, NEW s \in Seq(E), s # <<>>, NEW x \in E
    PROVE  LET below == SubSeq(s, 1, Len(s) - 1)
               replaced == Append(below, x)
           IN  /\ Len(s) \in Nat \ {0} /\ s[Len(s)] \in E
               /\ below \in Seq(E) /\ Len(below) = Len(s) - 1
               /\ \A i \in 1 .. Len(s) - 1 : below[i] = s[i]
               /\ replaced \in Seq(E) /\ Len(replaced) = Len(s)
               /\ replaced[Len(s)] = x
               /\ \A i \in 1 .. Len(s) - 1 : replaced[i] = s[i]
<1> DEFINE below == SubSeq(s, 1, Len(s) - 1)
           replaced == Append(below, x)
<1>1. Len(s) \in Nat \ {0}
  OBVIOUS
<1>2. s[Len(s)] \in E
  BY <1>1
<1>3. /\ below \in Seq(E) /\ Len(below) = Len(s) - 1
      /\ \A i \in 1 .. Len(s) - 1 : below[i] = s[i]
  <2> DEFINE n == Len(s) - 1
  <2>1. n \in Nat /\ n \in 0 .. Len(s)
    BY <1>1
  <2>2. below = [i \in 1 .. n |-> s[i]]
    BY <1>1, <2>1
  <2>3. \A i \in 1 .. n : s[i] \in E
    BY <1>1, <2>1
  <2> HIDE DEF n, below
  <2>4. below \in Seq(E) /\ Len(below) = n /\ \A i \in 1 .. n : below[i] = s[i]
    BY <2>1, <2>2, <2>3
  <2> QED BY <2>4 DEF n
<1> HIDE DEF below
<1>4. /\ replaced \in Seq(E) /\ Len(replaced) = Len(s) /\ replaced[Len(s)] = x
      /\ \A i \in 1 .. Len(s) - 1 : replaced[i] = s[i]
  BY <1>1, <1>3
<1> QED BY <1>1, <1>2, <1>3, <1>4 DEF below

LEMMA Appended ==
    ASSUME NEW E, NEW s \in Seq(E), NEW x \in E
    PROVE  /\ Append(s, x) \in Seq(E) /\ Len(Append(s, x)) = Len(s) + 1
           /\ Append(s, x)[Len(s) + 1] = x
           /\ \A i \in 1 .. Len(s) : Append(s, x)[i] = s[i]
OBVIOUS

LongerBy(t, s, x) ==
    /\ Len(t) = Len(s) + 1 /\ t[Len(s) + 1] = x
    /\ \A i \in 1 .. Len(s) : t[i] = s[i]
    /\ \A i : i \in 1 .. Len(t) <=> (i \in 1 .. Len(s) \/ i = Len(s) + 1)

LEMMA AppendedTo ==
    ASSUME NEW E, NEW s \in Seq(E), NEW x \in E
    PROVE  /\ Append(s, x) \in Seq(E) /\ Len(s) \in Nat
           /\ LongerBy(Append(s, x), s, x)
<1>1. /\ Append(s, x) \in Seq(E) /\ Len(Append(s, x)) = Len(s) + 1
      /\ Append(s, x)[Len(s) + 1] = x /\ Len(s) \in Nat
  BY Appended
<1>2. \A i \in 1 .. Len(s) : Append(s, x)[i] = s[i]
  BY Appended
<1>3. \A i : i \in 1 .. Len(s) + 1 <=> (i \in 1 .. Len(s) \/ i = Len(s) + 1)
  BY <1>1
<1> QED BY <1>1, <1>2, <1>3 DEF LongerBy

LEMMA Concatenated ==
    ASSUME NEW E, NEW s \in Seq(E), NEW t \in Seq(E)
    PROVE  /\ s \o t \in Seq(E) /\ Len(s \o t) = Len(s) + Len(t)
           /\ Len(s) \in Nat /\ Len(t) \in Nat
           /\ \A i \in 1 .. Len(s) : (s \o t)[i] = s[i]
           /\ \A i \in 1 .. Len(t) : (s \o t)[Len(s) + i] = t[i]
           /\ \A i \in 1 .. Len(s) + Len(t) :
                 i \in 1 .. Len(s) \/ (i - Len(s) \in 1 .. Len(t) /\ (s \o t)[i] = t[i - Len(s)])
OBVIOUS

-----------------------------------------------------------------------------
(* Picked: the elements at the places, once each.                          *)

PickStep(s, places, picked, n) ==
    IF n = 0 THEN <<>>
    ELSE IF n \in places THEN Append(picked[n - 1], s[n]) ELSE picked[n - 1]

Picks(s, places, n, r) ==
    \E at \in Seq(Nat) :
        /\ Len(at) = Len(r)
        /\ \A i \in 1 .. Len(r) : at[i] \in places /\ at[i] \in 1 .. n /\ r[i] = s[at[i]]
        /\ \A i, j \in 1 .. Len(r) : at[i] = at[j] => i = j
        /\ \A k \in 1 .. n : k \in places => \E i \in 1 .. Len(r) : at[i] = k

LEMMA PickedExists ==
    ASSUME NEW s, Len(s) \in Nat, NEW places
    PROVE  \E picked : picked = [n \in 0 .. Len(s) |-> PickStep(s, places, picked, n)]
<1> DEFINE N == Len(s)
           Upto(m, f) == \A n \in 0 .. m : f[n] = PickStep(s, places, f, n)
           S == {m \in 0 .. N : \E f : f = [n \in 0 .. m |-> f[n]] /\ Upto(m, f)}
<1>1. 0 \in S
  <2> DEFINE f == [n \in 0 .. 0 |-> <<>>]
  <2>1. f = [n \in 0 .. 0 |-> f[n]] /\ Upto(0, f)
    BY DEF PickStep
  <2> HIDE DEF f
  <2> QED BY <2>1
<1>2. ASSUME NEW m \in 0 .. N - 1, m \in S PROVE m + 1 \in S
  <2>1. PICK f : f = [n \in 0 .. m |-> f[n]] /\ Upto(m, f)
    BY <1>2
  <2> DEFINE g == [n \in 0 .. m + 1 |->
                     IF n = m + 1 THEN PickStep(s, places, f, m + 1) ELSE f[n]]
  <2>2. \A n \in 0 .. m : g[n] = f[n]
    OBVIOUS
  <2>3. g[m + 1] = PickStep(s, places, f, m + 1)
    OBVIOUS
  <2>4. g = [n \in 0 .. m + 1 |-> g[n]]
    OBVIOUS
  <2> HIDE DEF g
  <2>5. ASSUME NEW n \in 0 .. m + 1 PROVE g[n] = PickStep(s, places, g, n)
    <3>1. n = 0 \/ n - 1 \in 0 .. m
      OBVIOUS
    <3>2. PickStep(s, places, g, n) = PickStep(s, places, f, n)
      BY <2>2, <3>1 DEF PickStep
    <3> QED BY <2>1, <2>2, <2>3, <3>2
  <2> QED BY <2>4, <2>5
<1> HIDE DEF S
<1>3. N \in S
  <2>1. \A m \in 0 .. N : m \in S
    BY <1>1, <1>2, BoundedInduction
  <2> QED BY <2>1
<1>4. PICK f : f = [n \in 0 .. N |-> f[n]] /\ Upto(N, f)
  BY <1>3 DEF S
<1>5. f = [n \in 0 .. N |-> PickStep(s, places, f, n)]
  BY <1>4
<1> QED BY <1>5

LEMMA PickedPicks ==
    ASSUME NEW E, NEW s \in Seq(E), NEW places
    PROVE  Picked(s, places) \in Seq(E) /\ Picks(s, places, Len(s), Picked(s, places))
<1> DEFINE N == Len(s)
           picked == CHOOSE f : f = [n \in 0 .. N |-> PickStep(s, places, f, n)]
           S == {m \in 0 .. N : picked[m] \in Seq(E) /\ Picks(s, places, m, picked[m])}
<1>1. N \in Nat
  OBVIOUS
<1>2. picked = [n \in 0 .. N |-> PickStep(s, places, picked, n)]
  BY <1>1, PickedExists
<1>3. Picked(s, places) = picked[N]
  BY DEF Picked, PickStep
<1> HIDE DEF picked
<1>4. \A n \in 0 .. N : picked[n] = PickStep(s, places, picked, n)
  BY <1>2
<1>5. 0 \in S
  <2>1. picked[0] = <<>>
    BY <1>1, <1>4 DEF PickStep
  <2>2. Picks(s, places, 0, <<>>)
    <3> DEFINE at == <<>>
    <3>1. at \in Seq(Nat) /\ Len(at) = 0
      OBVIOUS
    <3>2. 1 .. 0 = {}
      OBVIOUS
    <3> HIDE DEF at
    <3>3. Len(<<>>) = 0
      OBVIOUS
    <3>4. \E f \in Seq(Nat) :
             /\ Len(f) = Len(<<>>)
             /\ \A i \in 1 .. Len(<<>>) :
                  f[i] \in places /\ f[i] \in 1 .. 0 /\ <<>>[i] = s[f[i]]
             /\ \A i, j \in 1 .. Len(<<>>) : f[i] = f[j] => i = j
             /\ \A k \in 1 .. 0 : k \in places => \E i \in 1 .. Len(<<>>) : f[i] = k
      <4> WITNESS at \in Seq(Nat)
      <4> QED BY <3>1, <3>2, <3>3
    <3> QED BY <3>4 DEF Picks
  <2>3. <<>> \in Seq(E) /\ 0 \in 0 .. N
    BY <1>1
  <2> HIDE DEF N
  <2> QED BY <2>1, <2>2, <2>3
<1>6. ASSUME NEW m \in 0 .. N - 1, m \in S PROVE m + 1 \in S
  <2> DEFINE r == picked[m]
             t == picked[m + 1]
  <2>1. r \in Seq(E) /\ Picks(s, places, m, r)
    BY <1>6
  <2>2. m + 1 \in 1 .. N /\ m + 1 \in 0 .. N /\ (m + 1) - 1 = m /\ m + 1 # 0
    BY <1>1
  <2>3. t = IF m + 1 \in places THEN Append(r, s[m + 1]) ELSE r
    BY <1>4, <2>2 DEF PickStep
  <2>4. PICK at \in Seq(Nat) :
           /\ Len(at) = Len(r)
           /\ \A i \in 1 .. Len(r) : at[i] \in places /\ at[i] \in 1 .. m /\ r[i] = s[at[i]]
           /\ \A i, j \in 1 .. Len(r) : at[i] = at[j] => i = j
           /\ \A k \in 1 .. m : k \in places => \E i \in 1 .. Len(r) : at[i] = k
    BY <2>1 DEF Picks
  <2> HIDE DEF r, t
  <2>5. CASE m + 1 \notin places
    <3>1. t = r
      BY <2>3, <2>5
    <3>2. Picks(s, places, m + 1, r)
      <4>1. \A i \in 1 .. Len(r) : at[i] \in 1 .. m + 1
        BY <2>4
      <4>2. \A k \in 1 .. m + 1 : k \in places => \E i \in 1 .. Len(r) : at[i] = k
        BY <2>4, <2>5
      <4> QED BY <2>4, <4>1, <4>2 DEF Picks
    <3> QED BY <2>1, <2>2, <3>1, <3>2 DEF t
  <2>6. CASE m + 1 \in places
    <3> DEFINE further == Append(at, m + 1)
    <3>1. t = Append(r, s[m + 1]) /\ s[m + 1] \in E /\ m + 1 \in Nat
      BY <2>2, <2>3, <2>6
    <3>2. /\ t \in Seq(E) /\ Len(t) = Len(r) + 1 /\ t[Len(r) + 1] = s[m + 1]
          /\ \A i \in 1 .. Len(r) : t[i] = r[i]
      BY <2>1, <3>1, Appended
    <3>3. /\ further \in Seq(Nat) /\ Len(further) = Len(r) + 1
          /\ further[Len(r) + 1] = m + 1
          /\ \A i \in 1 .. Len(r) : further[i] = at[i]
      BY <2>4, <3>1, Appended
    <3> HIDE DEF further
    <3>4. Len(r) \in Nat
      BY <2>1
    <3>5. \A i \in 1 .. Len(t) :
             further[i] \in places /\ further[i] \in 1 .. m + 1 /\ t[i] = s[further[i]]
      <4> SUFFICES ASSUME NEW i \in 1 .. Len(r) + 1
                   PROVE  further[i] \in places /\ further[i] \in 1 .. m + 1
                          /\ t[i] = s[further[i]]
        BY <3>2
      <4>1. CASE i \in 1 .. Len(r)
        <5>1. at[i] \in 1 .. m
          BY <2>4, <4>1
        <5> QED BY SMTT(30), <2>4, <3>2, <3>3, <4>1, <5>1
      <4>2. CASE i = Len(r) + 1
        BY <2>2, <2>6, <3>2, <3>3, <4>2
      <4> QED BY <3>4, <4>1, <4>2
    <3>6. \A i, j \in 1 .. Len(t) : further[i] = further[j] => i = j
      <4> SUFFICES ASSUME NEW i \in 1 .. Len(r) + 1, NEW j \in 1 .. Len(r) + 1,
                          further[i] = further[j]
                   PROVE  i = j
        BY <3>2
      <4>1. \A k \in 1 .. Len(r) : further[k] # m + 1
        <5> SUFFICES ASSUME NEW k \in 1 .. Len(r) PROVE at[k] # m + 1
          BY <3>3
        <5>1. at[k] \in 1 .. m
          BY <2>4
        <5> QED BY <5>1
      <4>2. (i \in 1 .. Len(r) \/ i = Len(r) + 1) /\ (j \in 1 .. Len(r) \/ j = Len(r) + 1)
        BY <3>4
      <4> QED BY <2>4, <3>3, <4>1, <4>2
    <3>7. \A k \in 1 .. m + 1 : k \in places => \E i \in 1 .. Len(t) : further[i] = k
      <4> SUFFICES ASSUME NEW k \in 1 .. m + 1, k \in places
                   PROVE  \E i \in 1 .. Len(r) + 1 : further[i] = k
        BY <3>2
      <4>1. CASE k = m + 1
        <5>1. Len(r) + 1 \in 1 .. Len(r) + 1
          BY <3>4
        <5> QED BY <3>3, <4>1, <5>1
      <4>2. CASE k # m + 1
        <5>1. PICK i \in 1 .. Len(r) : at[i] = k
          BY <2>4, <4>2
        <5>2. i \in 1 .. Len(r) + 1 /\ further[i] = k
          BY <3>3, <3>4, <5>1
        <5> QED BY <5>2
      <4> QED BY <4>1, <4>2
    <3>8. Picks(s, places, m + 1, t)
      BY <3>2, <3>3, <3>5, <3>6, <3>7 DEF Picks
    <3> QED BY <2>2, <3>2, <3>8 DEF t
  <2> QED BY <2>5, <2>6
<1> HIDE DEF S
<1>7. N \in S
  <2>1. \A m \in 0 .. N : m \in S
    BY <1>1, <1>5, <1>6, BoundedInduction
  <2> QED BY <1>1, <2>1
<1> QED BY <1>3, <1>7 DEF S

-----------------------------------------------------------------------------
(* Where a document is.                                                    *)
PlaceOf(doc, p) ==
    \/ \E i \in 1 .. Len(stack) : \E j \in Turns(stack[i], doc) : p = <<"frame", i, j>>
    \/ \E i \in 1 .. Len(starts) : starts[i].doc = doc /\ p = <<"start", i, 0>>
    \/ \E i \in 1 .. Len(deferred) : deferred[i][2] = doc /\ p = <<"deferred", i, 0>>
    \/ \E i \in 1 .. Len(visits) : visits[i].doc = doc /\ p = <<"visit", i, 0>>
    \/ \E i \in 1 .. Len(errors) : errors[i].target = doc /\ p = <<"error", i, 0>>

LEMMA PlaceForms == \A doc, p : p \in Places(doc) <=> PlaceOf(doc, p)
BY DEF Places, PlaceOf

LEMMA NextPlaceForms == \A doc, p : p \in Places(doc)' <=> PlaceOf(doc, p)'
<1>1. (\A doc, p : p \in Places(doc) <=> PlaceOf(doc, p))'
  BY PlaceForms, PTL
<1> QED BY <1>1

LEMMA SamePlace ==
    ASSUME NEW a, NEW b, NEW c, NEW d, NEW e, NEW f, <<a, b, c>> = <<d, e, f>>
    PROVE  a = d /\ b = e /\ c = f
OBVIOUS

(* A document that has moved is still in one place.                        *)
LEMMA OneMoved ==
    ASSUME NEW A, NEW B, NEW a, NEW b,
           \A p, q \in A : p = q,
           \A p \in B : p = b \/ (p \in A /\ p # a),
           \A p \in A : p = a \/ p \in B,
           a \in A <=> b \in B
    PROVE  (\A p, q \in B : p = q) /\ (A = {} <=> B = {})
OBVIOUS

LEMMA ManyMoved ==
    ASSUME NEW A, NEW B, NEW f,
           \A p, q \in A : p = q,
           \A p \in B : f[p] \in A,
           \A p, q \in B : f[p] = f[q] => p = q,
           A # {} => B # {}
    PROVE  (\A p, q \in B : p = q) /\ (A = {} <=> B = {})
OBVIOUS

Kept(doc) == (\A p, q \in Places(doc)' : p = q) /\ (Places(doc) = {} <=> Places(doc)' = {})

LEMMA DirectivesTyped ==
    ASSUME StateTyped, NEW doc \in Doc
    PROVE  /\ documents[doc] \in View
           /\ Directives(doc) \in Seq(Directive) /\ Len(Directives(doc)) \in Nat
<1>1. documents[doc] \in View
  BY DEF StateTyped, Doc
<1>2. documents[doc].location \in Location
  BY <1>1 DEF View
<1>3. Directives(doc) \in Seq(Directive)
  BY <1>2, WorldAssumption DEF StateTyped, Directives
<1> QED BY <1>1, <1>3

(* The documents, what is remembered of them and the world stay.           *)
LEMMA LoadingKept ==
    ASSUME CachesCover, LoadedOnce, UNCHANGED <<world, loading>>
    PROVE  CachesCover' /\ LoadedOnce'
<1>1. UNCHANGED <<world, documents, loaded_locations, chameleon_cache>>
  BY DEF loading
<1>2. Doc' = Doc
  BY <1>1 DEF Doc
<1>3. CachesCover'
  BY <1>1, <1>2 DEF CachesCover, First
<1>4. LoadedOnce'
  BY <1>1 DEF LoadedOnce
<1> QED BY <1>3, <1>4

LEMMA WellPlacedKept ==
    ASSUME \A doc \in Doc : WellPlaced(doc),
           UNCHANGED <<world, loading, composition_edges>>,
           Misread => Misread',
           \A doc \in Doc : Kept(doc)
    PROVE  \A doc \in Doc' : WellPlaced(doc)'
<1>1. UNCHANGED <<world, documents, composition_edges>>
  BY DEF loading
<1>2. Doc' = Doc
  BY <1>1 DEF Doc
<1> SUFFICES ASSUME NEW doc \in Doc PROVE WellPlaced(doc)'
  BY <1>2
<1>3. (Added(doc)' = Added(doc)) /\ (Accepted(doc)' = Accepted(doc))
  BY <1>1 DEF Added, Accepted
<1>4. WellPlaced(doc) /\ Kept(doc)
  OBVIOUS
<1> QED BY <1>3, <1>4 DEF WellPlaced, Kept

-----------------------------------------------------------------------------
(* The steps of the walk that load nothing.                                *)

LEMMA TopTyped ==
    StateTyped /\ DocumentsKnown /\ stack # <<>> =>
        /\ Len(stack) \in Nat \ {0} /\ Top = stack[Len(stack)]
        /\ Top \in FrameType /\ FrameKnown(Top)
        /\ Below \in Seq(FrameType) /\ Len(Below) = Len(stack) - 1
        /\ \A i \in 1 .. Len(stack) - 1 : Below[i] = stack[i]
<1> SUFFICES ASSUME StateTyped, DocumentsKnown, stack # <<>>
             PROVE  /\ Len(stack) \in Nat \ {0} /\ Top = stack[Len(stack)]
                    /\ Top \in FrameType /\ FrameKnown(Top)
                    /\ Below \in Seq(FrameType) /\ Len(Below) = Len(stack) - 1
                    /\ \A i \in 1 .. Len(stack) - 1 : Below[i] = stack[i]
  OBVIOUS
<1>1. stack \in Seq(FrameType)
  BY DEF StateTyped
<1>2. Len(stack) \in Nat \ {0} /\ stack[Len(stack)] \in FrameType
  BY <1>1
<1>3. FrameKnown(stack[Len(stack)])
  BY <1>2 DEF DocumentsKnown
<1>4. /\ SubSeq(stack, 1, Len(stack) - 1) \in Seq(FrameType)
      /\ Len(SubSeq(stack, 1, Len(stack) - 1)) = Len(stack) - 1
      /\ \A i \in 1 .. Len(stack) - 1 : SubSeq(stack, 1, Len(stack) - 1)[i] = stack[i]
  BY <1>1, <1>2, LastReplaced
<1> QED BY <1>2, <1>3, <1>4 DEF Top, Below

LEMMA NewFrame ==
    ASSUME NEW doc \in Nat, NEW depth \in Nat
    PROVE  /\ ClosureFrame(doc, depth) \in FrameType
           /\ Start(doc, depth) \in StartType
           /\ \A b \in BOOLEAN : Visit(doc, depth, b) \in VisitType
           /\ \A d : Turns(ClosureFrame(doc, depth), d) = {}
BY DEF ClosureFrame, FrameType, Start, StartType, Visit, VisitType, Turns

(* A document is walked from a start.                                      *)
LEMMA BeginKeeps ==
    ASSUME WalkInv, Begin
    PROVE  WalkInv'
<1>0. /\ StateTyped /\ DocumentsKnown /\ CachesCover /\ LoadedOnce
      /\ \A doc \in Doc : WellPlaced(doc)
  BY DEF WalkInv
<1>1. /\ stack = <<>> /\ starts # <<>>
      /\ UNCHANGED <<world, loading, composition_edges, deferred, errors, done>>
      /\ UNCHANGED documents
  BY DEF Begin, loading
<1> PICK s : s = Head(starts)
  OBVIOUS
<1> PICK new : new = ClosureFrame(s.doc, s.depth)
  OBVIOUS
<1> PICK visit : visit = Visit(s.doc, s.depth, TRUE)
  OBVIOUS
<1>2. stack' = <<new>> /\ visits' = Append(visits, visit) /\ starts' = Tail(starts)
  BY DEF Begin
<1>3. /\ starts \in Seq(StartType) /\ Len(starts) \in Nat \ {0} /\ s = starts[1]
      /\ s \in StartType /\ s.doc \in Doc
      /\ starts' \in Seq(StartType) /\ Len(starts') = Len(starts) - 1
      /\ \A i \in 1 .. Len(starts) - 1 : starts'[i] = starts[i + 1]
  <2>1. starts \in Seq(StartType)
    BY <1>0 DEF StateTyped
  <2>2. /\ Len(starts) \in Nat \ {0} /\ s = starts[1]
        /\ s \in StartType
        /\ starts' \in Seq(StartType) /\ Len(starts') = Len(starts) - 1
        /\ \A i \in 1 .. Len(starts) - 1 : starts'[i] = starts[i + 1]
    BY <1>1, <1>2, <2>1
  <2>3. s.doc \in Doc
    BY <1>0, <2>2 DEF DocumentsKnown
  <2> QED BY <2>1, <2>2, <2>3
<1>4. s.doc \in Nat /\ s.depth \in Nat
  BY <1>3 DEF StartType
<1>5. /\ new \in FrameType /\ visit \in VisitType /\ visit.doc = s.doc
      /\ \A d : Turns(new, d) = {}
      /\ new.doc = s.doc /\ new.resolved = 0 /\ new.loaded = <<>> /\ new.next = 1
      /\ new.errors = <<>>
  BY <1>4, NewFrame DEF ClosureFrame, Visit
<1>6. /\ visits' \in Seq(VisitType) /\ Len(visits) \in Nat
      /\ Len(visits') = Len(visits) + 1
      /\ visits'[Len(visits) + 1] = visit
      /\ \A i \in 1 .. Len(visits) : visits'[i] = visits[i]
      /\ \A i : i \in 1 .. Len(visits') <=> (i \in 1 .. Len(visits) \/ i = Len(visits) + 1)
  <2>1. visits \in Seq(VisitType)
    BY <1>0 DEF StateTyped
  <2>2. visits' = Append(visits, visit) /\ visit \in VisitType
    BY <1>2, <1>5
  <2>3. Len(visits) \in Nat /\ visits' \in Seq(VisitType) /\ LongerBy(visits', visits, visit)
    BY <2>1, <2>2, AppendedTo
  <2> QED BY <2>3 DEF LongerBy
<1>7. stack' \in Seq(FrameType) /\ Len(stack') = 1 /\ stack'[1] = new
  BY <1>2, <1>5
<1>8. StateTyped'
  BY <1>0, <1>1, <1>3, <1>6, <1>7 DEF StateTyped
<1>9. DocumentsKnown'
  <2>1. Doc' = Doc /\ (\A d \in Doc : Directives(d)' = Directives(d))
    BY <1>1 DEF Doc, Directives
  <2>2. Len(Directives(s.doc)) \in Nat
    BY <1>0, <1>3, DirectivesTyped
  <2>3. (\A i \in 1 .. Len(stack) : FrameKnown(stack[i]))'
    <3> SUFFICES FrameKnown(new)'
      BY <1>7
    <3> QED BY <1>3, <1>5, <2>1, <2>2 DEF FrameKnown
  <2>4. \A i \in 1 .. Len(starts') : starts'[i].doc \in Doc
    <3>1. \A i \in 1 .. Len(starts) : starts[i].doc \in Doc
      BY <1>0 DEF DocumentsKnown
    <3>2. \A i \in 1 .. Len(starts') : i \in 1 .. Len(starts) - 1 /\ i + 1 \in 1 .. Len(starts)
      BY <1>3
    <3> QED BY <1>3, <3>1, <3>2
  <2>5. \A i \in 1 .. Len(visits') : visits'[i].doc \in Doc
    <3>1. \A i \in 1 .. Len(visits) : visits[i].doc \in Doc
      BY <1>0 DEF DocumentsKnown
    <3> QED BY ZenonT(60), <1>3, <1>5, <1>6, <3>1
  <2> QED BY <1>0, <1>1, <2>1, <2>3, <2>4, <2>5 DEF DocumentsKnown
<1>10. Misread => Misread'
  BY <1>1 DEF Misread, Frames
<1>11. ASSUME NEW doc \in Doc PROVE Kept(doc)
  <2> DEFINE A == Places(doc)
             B == Places(doc)'
             last == <<"visit", Len(visits) + 1, 0>>
             F(p) == IF p = last THEN <<"start", 1, 0>>
                     ELSE IF p[1] = "start" THEN <<"start", p[2] + 1, 0>>
                     ELSE p
             f == [p \in B |-> F(p)]
  <2>1. \A p : p \in A <=> PlaceOf(doc, p)
    BY PlaceForms
  <2>2. \A p : p \in B <=> PlaceOf(doc, p)'
    BY NextPlaceForms
  <2>3. \A p : p \in B <=>
            \/ \E i \in 1 .. Len(starts) - 1 :
                  starts[i + 1].doc = doc /\ p = <<"start", i, 0>>
            \/ \E i \in 1 .. Len(deferred) :
                  deferred[i][2] = doc /\ p = <<"deferred", i, 0>>
            \/ \E i \in 1 .. Len(visits) : visits[i].doc = doc /\ p = <<"visit", i, 0>>
            \/ visit.doc = doc /\ p = last
            \/ \E i \in 1 .. Len(errors) :
                  errors[i].target = doc /\ p = <<"error", i, 0>>
    <3> SUFFICES ASSUME NEW p PROVE PlaceOf(doc, p)' <=>
            \/ \E i \in 1 .. Len(starts) - 1 :
                  starts[i + 1].doc = doc /\ p = <<"start", i, 0>>
            \/ \E i \in 1 .. Len(deferred) :
                  deferred[i][2] = doc /\ p = <<"deferred", i, 0>>
            \/ \E i \in 1 .. Len(visits) : visits[i].doc = doc /\ p = <<"visit", i, 0>>
            \/ visit.doc = doc /\ p = last
            \/ \E i \in 1 .. Len(errors) :
                  errors[i].target = doc /\ p = <<"error", i, 0>>
      BY <2>2
    <3>1. (\E i \in 1 .. Len(stack') : \E j \in Turns(stack'[i], doc) :
              p = <<"frame", i, j>>) <=> FALSE
      BY <1>5, <1>7
    <3>2. (\E i \in 1 .. Len(starts') : starts'[i].doc = doc /\ p = <<"start", i, 0>>)
          <=> (\E i \in 1 .. Len(starts) - 1 :
                  starts[i + 1].doc = doc /\ p = <<"start", i, 0>>)
      BY <1>3
    <3>3. (\E i \in 1 .. Len(visits') : visits'[i].doc = doc /\ p = <<"visit", i, 0>>)
          <=> \/ \E i \in 1 .. Len(visits) : visits[i].doc = doc /\ p = <<"visit", i, 0>>
              \/ visit.doc = doc /\ p = last
      BY <1>6
    <3> QED BY <1>1, <3>1, <3>2, <3>3 DEF PlaceOf
  <2> HIDE DEF A, B
  <2>4. \A p \in B : F(p) \in A
    <3> SUFFICES ASSUME NEW p \in B PROVE PlaceOf(doc, F(p))
      BY <2>1
    <3>1. CASE \E i \in 1 .. Len(starts) - 1 :
                  starts[i + 1].doc = doc /\ p = <<"start", i, 0>>
      <4>1. PICK i \in 1 .. Len(starts) - 1 :
                  starts[i + 1].doc = doc /\ p = <<"start", i, 0>>
        BY <3>1
      <4>2. F(p) = <<"start", i + 1, 0>> /\ i + 1 \in 1 .. Len(starts)
        BY <1>3, <4>1
      <4> QED BY <4>1, <4>2 DEF PlaceOf
    <3>2. CASE visit.doc = doc /\ p = last
      <4>1. F(p) = <<"start", 1, 0>> /\ 1 \in 1 .. Len(starts) /\ starts[1].doc = doc
        BY <1>3, <1>5, <3>2
      <4> QED BY <4>1 DEF PlaceOf
    <3>3. CASE \/ \E i \in 1 .. Len(deferred) :
                     deferred[i][2] = doc /\ p = <<"deferred", i, 0>>
               \/ \E i \in 1 .. Len(visits) :
                     visits[i].doc = doc /\ p = <<"visit", i, 0>>
               \/ \E i \in 1 .. Len(errors) :
                     errors[i].target = doc /\ p = <<"error", i, 0>>
      <4>1. p # last /\ p[1] # "start"
        BY <1>6, <3>3
      <4>2. F(p) = p
        BY <4>1
      <4> QED BY <3>3, <4>2 DEF PlaceOf
    <3> QED BY <2>3, <3>1, <3>2, <3>3
  <2>5. \A p, q \in B : F(p) = F(q) => p = q
    <3>1. \A p \in B : \/ p = last
                       \/ \E i \in 1 .. Len(starts) - 1 : p = <<"start", i, 0>>
                       \/ \E t \in {"deferred", "visit", "error"} : \E i :
                             p = <<t, i, 0>> /\ p # last
      <4> SUFFICES ASSUME NEW p \in B, p # last,
                          ~ \E i \in 1 .. Len(starts) - 1 : p = <<"start", i, 0>>
                   PROVE  \E t \in {"deferred", "visit", "error"} : \E i : p = <<t, i, 0>>
        OBVIOUS
      <4>1. PICK i : p \in {<<"deferred", i, 0>>, <<"visit", i, 0>>, <<"error", i, 0>>}
        BY <2>3
      <4> QED BY <4>1
    <3>2. F(last) = <<"start", 1, 0>>
      OBVIOUS
    <3>3. \A i \in 1 .. Len(starts) - 1 :
             F(<<"start", i, 0>>) = <<"start", i + 1, 0>> /\ i \in Nat /\ i + 1 # 1
      BY <1>3
    <3>4. \A t \in {"deferred", "visit", "error"} : \A i :
             <<t, i, 0>> # last => F(<<t, i, 0>>) = <<t, i, 0>> /\ t # "start"
      OBVIOUS
    <3> HIDE DEF F, last
    <3> QED BY <3>1, <3>2, <3>3, <3>4, SamePlace
  <2>6. A # {} => B # {}
    <3> SUFFICES ASSUME NEW p \in A PROVE B # {}
      OBVIOUS
    <3>1. PlaceOf(doc, p)
      BY <2>1
    <3>2. ASSUME NEW i \in 1 .. Len(starts), starts[i].doc = doc PROVE B # {}
      <4>1. CASE i = 1
        BY ZenonT(60), <1>3, <1>5, <2>3, <3>2, <4>1
      <4>2. CASE i # 1
        <5>1. i - 1 \in 1 .. Len(starts) - 1 /\ starts[(i - 1) + 1].doc = doc
          BY <3>2, <4>2
        <5>2. <<"start", i - 1, 0>> \in B
          BY <2>3, <5>1
        <5> QED BY <5>2
      <4> QED BY <4>1, <4>2
    <3>3. ~ \E i \in 1 .. Len(stack) : \E j \in Turns(stack[i], doc) : p = <<"frame", i, j>>
      BY <1>1
    <3> QED BY <2>3, <3>1, <3>2, <3>3 DEF PlaceOf
  <2>7. \A p, q \in A : p = q
    BY <1>0 DEF WellPlaced, A
  <2> HIDE DEF F
  <2>8. (\A p \in B : f[p] \in A) /\ (\A p, q \in B : f[p] = f[q] => p = q)
    BY <2>4, <2>5
  <2> HIDE DEF f
  <2>9. (\A p, q \in B : p = q) /\ (A = {} <=> B = {})
    BY <2>6, <2>7, <2>8, ManyMoved
  <2> QED BY <2>9 DEF Kept, A, B
<1>12. CachesCover' /\ LoadedOnce'
  BY <1>0, <1>1, LoadingKept
<1>13. \A doc \in Doc' : WellPlaced(doc)'
  BY <1>0, <1>1, <1>10, <1>11, WellPlacedKept
<1> QED BY <1>8, <1>9, <1>12, <1>13 DEF WalkInv

(* What the next turn of the top frame does to it.                         *)
LEMMA Advanced ==
    ASSUME StateTyped, DocumentsKnown, AtChild,
           NEW new, new = [Top EXCEPT !.next = @ + 1]
    PROVE  /\ Child \in Doc /\ Top.doc \in Doc /\ Top.depth \in Nat
           /\ new \in FrameType /\ FrameKnown(new)
           /\ new.errors = Top.errors /\ new.doc = Top.doc
           /\ new.resolved = Top.resolved /\ new.loaded = Top.loaded
           /\ new.next = Top.next + 1
           /\ \A d, j : j \in Turns(new, d) <=> (j \in Turns(Top, d) /\ j # Top.next)
           /\ \A d : Top.next \in Turns(Top, d) <=> d = Child
<1>1. /\ Top \in FrameType /\ FrameKnown(Top) /\ Top.next <= Len(Top.loaded)
  BY TopTyped DEF AtChild
<1>2. /\ Top.doc \in Nat /\ Top.depth \in Nat /\ Top.resolved \in Nat
      /\ Top.loaded \in Seq(Nat) /\ Top.next \in Nat /\ Top.errors \in Seq(ErrorType)
      /\ Len(Top.loaded) \in Nat
  BY <1>1 DEF FrameType
<1>3. /\ new.errors = Top.errors /\ new.doc = Top.doc
      /\ new.resolved = Top.resolved /\ new.loaded = Top.loaded
      /\ new.next = Top.next + 1 /\ new.depth = Top.depth
      /\ new \in FrameType
  BY <1>1, <1>2 DEF FrameType
<1>4. /\ Top.doc \in Doc /\ Top.resolved \in 0 .. Len(Directives(Top.doc))
      /\ Top.next \in 1 .. Len(Top.loaded)
      /\ \A j \in 1 .. Len(Top.loaded) : Top.loaded[j] \in Doc
      /\ \A j \in 1 .. Len(Top.errors) : Top.errors[j].target = NoDocument
  BY <1>1, <1>2 DEF FrameKnown
<1>5. Child \in Doc
  BY <1>4 DEF Child
<1>6. FrameKnown(new)
  <2>1. new.next \in 1 .. Len(new.loaded) + 1
    BY SMTT(30), <1>2, <1>3, <1>4
  <2> QED BY <1>3, <1>4, <2>1 DEF FrameKnown
<1>7. \A d, j : j \in Turns(new, d) <=> (j \in Turns(Top, d) /\ j # Top.next)
  <2> TAKE d, j
  <2>1. j \in new.next .. Len(new.loaded)
        <=> (j \in Top.next .. Len(Top.loaded) /\ j # Top.next)
    BY <1>2, <1>3, <1>4
  <2> QED BY <1>3, <2>1 DEF Turns
<1>8. \A d : Top.next \in Turns(Top, d) <=> d = Child
  BY <1>2, <1>4 DEF Turns, Child
<1> QED BY <1>2, <1>3, <1>4, <1>5, <1>6, <1>7, <1>8

LEMMA TopReplaced ==
    ASSUME StateTyped, DocumentsKnown, stack # <<>>, NEW new \in FrameType
    PROVE  LET s == Append(Below, new) IN
           /\ s \in Seq(FrameType) /\ Len(stack) \in Nat \ {0} /\ Len(s) = Len(stack)
           /\ s[Len(stack)] = new
           /\ \A i \in 1 .. Len(stack) - 1 : s[i] = stack[i]
           /\ \A i : i \in 1 .. Len(stack) <=> (i \in 1 .. Len(stack) - 1 \/ i = Len(stack))
<1> DEFINE s == Append(Below, new)
<1>1. /\ Len(stack) \in Nat \ {0} /\ Below \in Seq(FrameType)
      /\ Len(Below) = Len(stack) - 1
      /\ \A i \in 1 .. Len(stack) - 1 : Below[i] = stack[i]
  BY TopTyped
<1>2. s \in Seq(FrameType) /\ LongerBy(s, Below, new)
  BY <1>1, AppendedTo
<1> HIDE DEF s
<1>3. /\ Len(s) = Len(stack) /\ s[Len(stack)] = new
      /\ \A i \in 1 .. Len(stack) - 1 : s[i] = stack[i]
  BY <1>1, <1>2 DEF LongerBy
<1>4. \A i : i \in 1 .. Len(stack) <=> (i \in 1 .. Len(stack) - 1 \/ i = Len(stack))
  BY <1>1
<1> QED BY <1>1, <1>2, <1>3, <1>4 DEF s

(* A document is walked from the one that read it.                         *)
LEMMA DescendKeeps ==
    ASSUME WalkInv, Descend
    PROVE  WalkInv'
<1>0. /\ StateTyped /\ DocumentsKnown /\ CachesCover /\ LoadedOnce
      /\ \A doc \in Doc : WellPlaced(doc)
  BY DEF WalkInv
<1>1. /\ AtChild /\ stack # <<>>
      /\ UNCHANGED <<world, loading, composition_edges, starts, deferred, errors, done>>
      /\ UNCHANGED documents
  BY DEF Descend, AtChild, loading
<1> PICK N : N = Len(stack)
  OBVIOUS
<1> PICK top : top = Top
  OBVIOUS
<1> PICK child : child = Child
  OBVIOUS
<1> PICK new : new = [top EXCEPT !.next = @ + 1]
  OBVIOUS
<1> PICK frame : frame = ClosureFrame(child, top.depth + 1)
  OBVIOUS
<1> PICK visit : visit = Visit(child, top.depth + 1, FALSE)
  OBVIOUS
<1>2. stack' = Append(Append(Below, new), frame) /\ visits' = Append(visits, visit)
  BY DEF Descend
<1>3. /\ child \in Doc /\ child \in Nat /\ top.depth \in Nat /\ top.depth + 1 \in Nat
      /\ new \in FrameType /\ FrameKnown(new) /\ new.errors = top.errors
      /\ \A d, j : j \in Turns(new, d) <=> (j \in Turns(top, d) /\ j # top.next)
      /\ \A d : top.next \in Turns(top, d) <=> d = child
  BY <1>0, <1>1, Advanced DEF Doc
<1>4. /\ frame \in FrameType /\ visit \in VisitType /\ visit.doc = child
      /\ \A d : Turns(frame, d) = {}
      /\ frame.doc = child /\ frame.resolved = 0 /\ frame.loaded = <<>> /\ frame.next = 1
      /\ frame.errors = <<>>
  <2>1. frame \in FrameType /\ \A d : Turns(frame, d) = {}
    BY <1>3, NewFrame
  <2>2. visit \in VisitType
    BY <1>3, NewFrame
  <2> QED BY <2>1, <2>2 DEF ClosureFrame, Visit
<1>5. /\ visits' \in Seq(VisitType) /\ Len(visits) \in Nat /\ LongerBy(visits', visits, visit)
  <2>1. visits \in Seq(VisitType)
    BY <1>0 DEF StateTyped
  <2> QED BY <1>2, <1>4, <2>1, AppendedTo
<1> PICK s : s = Append(Below, new)
  OBVIOUS
<1>6. /\ s \in Seq(FrameType) /\ N \in Nat \ {0} /\ Len(s) = N /\ s[N] = new
      /\ \A i \in 1 .. N - 1 : s[i] = stack[i]
      /\ \A i : i \in 1 .. N <=> (i \in 1 .. N - 1 \/ i = N)
  BY <1>0, <1>1, <1>3, TopReplaced
<1>7. /\ stack' \in Seq(FrameType) /\ LongerBy(stack', s, frame)
  BY <1>2, <1>4, <1>6, AppendedTo
<1>8. /\ Len(stack') = N + 1 /\ stack'[N] = new /\ stack'[N + 1] = frame
      /\ \A i \in 1 .. N - 1 : stack'[i] = stack[i]
      /\ \A i : i \in 1 .. Len(stack') <=> (i \in 1 .. N - 1 \/ i = N \/ i = N + 1)
  BY <1>6, <1>7 DEF LongerBy
<1>9. top = stack[N] /\ N \in 1 .. Len(stack)
  BY <1>6 DEF Top
<1>10. StateTyped'
  BY <1>0, <1>1, <1>5, <1>7 DEF StateTyped
<1>11. DocumentsKnown'
  <2>1. Doc' = Doc /\ (\A d \in Doc : Directives(d)' = Directives(d))
    BY <1>1 DEF Doc, Directives
  <2>2. Len(Directives(child)) \in Nat
    BY <1>0, <1>3, DirectivesTyped
  <2>3. FrameKnown(frame)'
    BY SMTT(30), <1>3, <1>4, <2>1, <2>2 DEF FrameKnown
  <2>4. \A f : FrameKnown(f)' = FrameKnown(f)
    BY <2>1 DEF FrameKnown
  <2>5. (\A i \in 1 .. Len(stack) : FrameKnown(stack[i]))'
    <3> SUFFICES ASSUME NEW i \in 1 .. Len(stack') PROVE FrameKnown(stack[i])'
      OBVIOUS
    <3>1. ASSUME NEW k \in 1 .. N - 1 PROVE FrameKnown(stack[k])
      BY <1>0, <1>6 DEF DocumentsKnown
    <3> QED BY <1>3, <1>8, <2>3, <2>4, <3>1
  <2>6. \A i \in 1 .. Len(visits') : visits'[i].doc \in Doc
    <3>1. \A i \in 1 .. Len(visits) : visits[i].doc \in Doc
      BY <1>0 DEF DocumentsKnown
    <3>2. \A i \in 1 .. Len(visits') :
             \/ i \in 1 .. Len(visits) /\ visits'[i] = visits[i]
             \/ visits'[i] = visit
      BY <1>5 DEF LongerBy
    <3> QED BY ZenonT(60), <1>3, <1>4, <3>1, <3>2
  <2> QED BY <1>0, <1>1, <2>1, <2>5, <2>6 DEF DocumentsKnown
<1>12. Misread => Misread'
  <2>1. \A i \in 1 .. Len(stack) :
           i \in 1 .. Len(stack') /\ stack'[i].errors = stack[i].errors
    <3> TAKE i \in 1 .. Len(stack)
    <3>1. i \in 1 .. N - 1 \/ i = N
      BY <1>6
    <3> QED BY <1>3, <1>8, <1>9, <3>1
  <2> QED BY SMTT(30), <1>1, <2>1 DEF Misread, Frames
<1>13. ASSUME NEW doc \in Doc PROVE Kept(doc)
  <2> DEFINE A == Places(doc)
             B == Places(doc)'
             from == <<"frame", N, top.next>>
             to == <<"visit", Len(visits) + 1, 0>>
  <2>1. \A p : p \in A <=> PlaceOf(doc, p)
    BY PlaceForms
  <2>2. \A p : p \in B <=> PlaceOf(doc, p)'
    BY NextPlaceForms
  <2> HIDE DEF A, B
  <2>3. \A p : p \in B <=> (p = to /\ child = doc) \/ (p \in A /\ p # from)
    <3> TAKE p
    <3>1. (\E i \in 1 .. Len(stack') : \E j \in Turns(stack'[i], doc) :
              p = <<"frame", i, j>>)
          <=> /\ \E i \in 1 .. Len(stack) : \E j \in Turns(stack[i], doc) :
                    p = <<"frame", i, j>>
              /\ p # from
      <4>1. ASSUME NEW i \in 1 .. Len(stack'), NEW j \in Turns(stack'[i], doc),
                   p = <<"frame", i, j>>
            PROVE  /\ i \in 1 .. Len(stack) /\ j \in Turns(stack[i], doc) /\ p # from
        BY ZenonT(60), <1>3, <1>4, <1>6, <1>8, <1>9, <4>1, SamePlace
      <4>2. ASSUME NEW i \in 1 .. Len(stack), NEW j \in Turns(stack[i], doc),
                   p = <<"frame", i, j>>, p # from
            PROVE  i \in 1 .. Len(stack') /\ j \in Turns(stack'[i], doc)
        BY <1>3, <1>6, <1>8, <1>9, <4>2
      <4> QED BY <4>1, <4>2
    <3>2. (\E i \in 1 .. Len(visits') : visits'[i].doc = doc /\ p = <<"visit", i, 0>>)
          <=> \/ \E i \in 1 .. Len(visits) : visits[i].doc = doc /\ p = <<"visit", i, 0>>
              \/ child = doc /\ p = to
      BY <1>4, <1>5 DEF LongerBy
    <3>3. p = to => p # from
      BY SamePlace
    <3>4. \A i : p \in {<<"start", i, 0>>, <<"deferred", i, 0>>, <<"visit", i, 0>>,
                        <<"error", i, 0>>} => p # from
      BY SamePlace
    <3> HIDE DEF from, to
    <3> QED BY <1>1, <2>1, <2>2, <3>1, <3>2, <3>3, <3>4 DEF PlaceOf
  <2>4. from \in A <=> child = doc
    <3>1. from \in A <=> top.next \in Turns(top, doc)
      <4>1. from \in A => top.next \in Turns(top, doc)
        BY <1>9, <2>1, SamePlace DEF PlaceOf
      <4>2. top.next \in Turns(top, doc) => from \in A
        BY <1>9, <2>1 DEF PlaceOf
      <4> QED BY <4>1, <4>2
    <3> QED BY <1>3, <3>1
  <2>5. to \notin A
    <3>1. ASSUME NEW i \in 1 .. Len(visits) PROVE i # Len(visits) + 1
      BY <1>5
    <3> QED BY <2>1, <3>1, SamePlace DEF PlaceOf
  <2>6. \A p, q \in A : p = q
    BY <1>0 DEF WellPlaced, A
  <2> HIDE DEF from, to
  <2>7. /\ \A p \in B : p = to \/ (p \in A /\ p # from)
        /\ \A p \in A : p = from \/ p \in B
        /\ from \in A <=> to \in B
    BY <2>3, <2>4, <2>5
  <2>8. (\A p, q \in B : p = q) /\ (A = {} <=> B = {})
    BY <2>6, <2>7, OneMoved
  <2> QED BY <2>8 DEF Kept, A, B
<1>14. CachesCover' /\ LoadedOnce'
  BY <1>0, <1>1, LoadingKept
<1>15. \A doc \in Doc' : WellPlaced(doc)'
  BY <1>0, <1>1, <1>12, <1>13, WellPlacedKept
<1> QED BY <1>10, <1>11, <1>14, <1>15 DEF WalkInv

(* A document that is too deep is deferred.                                *)
LEMMA DeferKeeps ==
    ASSUME WalkInv, Defer
    PROVE  WalkInv'
<1>0. /\ StateTyped /\ DocumentsKnown /\ CachesCover /\ LoadedOnce
      /\ \A doc \in Doc : WellPlaced(doc)
  BY DEF WalkInv
<1>1. /\ AtChild /\ stack # <<>>
      /\ UNCHANGED <<world, loading, composition_edges, starts, errors, visits, done>>
      /\ UNCHANGED documents
  BY DEF Defer, AtChild, loading
<1> PICK N : N = Len(stack)
  OBVIOUS
<1> PICK top : top = Top
  OBVIOUS
<1> PICK child : child = Child
  OBVIOUS
<1> PICK new : new = [top EXCEPT !.next = @ + 1]
  OBVIOUS
<1> PICK late : late = <<top.doc, child>>
  OBVIOUS
<1>2. stack' = Append(Below, new) /\ deferred' = Append(deferred, late)
  BY DEF Defer
<1>3. /\ child \in Doc /\ top.doc \in Doc
      /\ new \in FrameType /\ FrameKnown(new) /\ new.errors = top.errors
      /\ \A d, j : j \in Turns(new, d) <=> (j \in Turns(top, d) /\ j # top.next)
      /\ \A d : top.next \in Turns(top, d) <=> d = child
  BY <1>0, <1>1, Advanced
<1>4. late \in Nat \X Nat /\ late[1] \in Doc /\ late[2] = child
  BY <1>3 DEF Doc
<1>5. /\ deferred' \in Seq(Nat \X Nat) /\ Len(deferred) \in Nat
      /\ LongerBy(deferred', deferred, late)
  <2>1. deferred \in Seq(Nat \X Nat)
    BY <1>0 DEF StateTyped
  <2> QED BY <1>2, <1>4, <2>1, AppendedTo
<1>6. /\ stack' \in Seq(FrameType) /\ N \in Nat \ {0} /\ Len(stack') = N /\ stack'[N] = new
      /\ \A i \in 1 .. N - 1 : stack'[i] = stack[i]
      /\ \A i : i \in 1 .. N <=> (i \in 1 .. N - 1 \/ i = N)
  BY SMTT(30), <1>0, <1>1, <1>2, <1>3, TopReplaced
<1>7. top = stack[N] /\ N \in 1 .. Len(stack)
  BY <1>6 DEF Top
<1>8. StateTyped'
  BY <1>0, <1>1, <1>5, <1>6 DEF StateTyped
<1>9. DocumentsKnown'
  <2>1. Doc' = Doc /\ (\A d \in Doc : Directives(d)' = Directives(d))
    BY <1>1 DEF Doc, Directives
  <2>2. \A f : FrameKnown(f)' = FrameKnown(f)
    BY <2>1 DEF FrameKnown
  <2>3. (\A i \in 1 .. Len(stack) : FrameKnown(stack[i]))'
    <3> SUFFICES ASSUME NEW i \in 1 .. Len(stack') PROVE FrameKnown(stack[i])'
      OBVIOUS
    <3>1. ASSUME NEW k \in 1 .. N - 1 PROVE FrameKnown(stack[k])
      BY <1>0, <1>6 DEF DocumentsKnown
    <3> QED BY <1>3, <1>6, <2>2, <3>1
  <2>4. \A i \in 1 .. Len(deferred') : deferred'[i][1] \in Doc /\ deferred'[i][2] \in Doc
    <3>1. \A i \in 1 .. Len(deferred) : deferred[i][1] \in Doc /\ deferred[i][2] \in Doc
      BY <1>0 DEF DocumentsKnown
    <3>2. \A i \in 1 .. Len(deferred') :
             \/ i \in 1 .. Len(deferred) /\ deferred'[i] = deferred[i]
             \/ deferred'[i] = late
      BY <1>5 DEF LongerBy
    <3> QED BY <1>3, <1>4, <3>1, <3>2
  <2> QED BY <1>0, <1>1, <2>1, <2>3, <2>4 DEF DocumentsKnown
<1>10. Misread => Misread'
  <2>1. \A i \in 1 .. Len(stack) :
           i \in 1 .. Len(stack') /\ stack'[i].errors = stack[i].errors
    <3> TAKE i \in 1 .. Len(stack)
    <3>1. i \in 1 .. N - 1 \/ i = N
      BY <1>6
    <3> QED BY <1>3, <1>6, <1>7, <3>1
  <2> QED BY SMTT(30), <1>1, <2>1 DEF Misread, Frames
<1>11. ASSUME NEW doc \in Doc PROVE Kept(doc)
  <2> DEFINE A == Places(doc)
             B == Places(doc)'
             from == <<"frame", N, top.next>>
             to == <<"deferred", Len(deferred) + 1, 0>>
  <2>1. \A p : p \in A <=> PlaceOf(doc, p)
    BY PlaceForms
  <2>2. \A p : p \in B <=> PlaceOf(doc, p)'
    BY NextPlaceForms
  <2> HIDE DEF A, B
  <2>3. \A p : p \in B <=> (p = to /\ child = doc) \/ (p \in A /\ p # from)
    <3> TAKE p
    <3>1. (\E i \in 1 .. Len(stack') : \E j \in Turns(stack'[i], doc) :
              p = <<"frame", i, j>>)
          <=> /\ \E i \in 1 .. Len(stack) : \E j \in Turns(stack[i], doc) :
                    p = <<"frame", i, j>>
              /\ p # from
      <4>1. ASSUME NEW i \in 1 .. Len(stack'), NEW j \in Turns(stack'[i], doc),
                   p = <<"frame", i, j>>
            PROVE  /\ i \in 1 .. Len(stack) /\ j \in Turns(stack[i], doc) /\ p # from
        BY <1>3, <1>6, <1>7, <4>1, SamePlace
      <4>2. ASSUME NEW i \in 1 .. Len(stack), NEW j \in Turns(stack[i], doc),
                   p = <<"frame", i, j>>, p # from
            PROVE  i \in 1 .. Len(stack') /\ j \in Turns(stack'[i], doc)
        BY <1>3, <1>6, <1>7, <4>2
      <4> QED BY <4>1, <4>2
    <3>2. (\E i \in 1 .. Len(deferred') :
              deferred'[i][2] = doc /\ p = <<"deferred", i, 0>>)
          <=> \/ \E i \in 1 .. Len(deferred) :
                    deferred[i][2] = doc /\ p = <<"deferred", i, 0>>
              \/ child = doc /\ p = to
      BY <1>4, <1>5 DEF LongerBy
    <3>3. p = to => p # from
      BY SamePlace
    <3>4. \A i : p \in {<<"start", i, 0>>, <<"deferred", i, 0>>, <<"visit", i, 0>>,
                        <<"error", i, 0>>} => p # from
      BY SamePlace
    <3> HIDE DEF from, to
    <3> QED BY <1>1, <2>1, <2>2, <3>1, <3>2, <3>3, <3>4 DEF PlaceOf
  <2>4. from \in A <=> child = doc
    <3>1. from \in A => top.next \in Turns(top, doc)
      BY <1>7, <2>1, SamePlace DEF PlaceOf
    <3>2. top.next \in Turns(top, doc) => from \in A
      BY <1>7, <2>1 DEF PlaceOf
    <3> QED BY <1>3, <3>1, <3>2
  <2>5. to \notin A
    <3>1. ASSUME NEW i \in 1 .. Len(deferred) PROVE i # Len(deferred) + 1
      BY <1>5
    <3> QED BY <2>1, <3>1, SamePlace DEF PlaceOf
  <2>6. \A p, q \in A : p = q
    BY <1>0 DEF WellPlaced, A
  <2> HIDE DEF from, to
  <2>7. /\ \A p \in B : p = to \/ (p \in A /\ p # from)
        /\ \A p \in A : p = from \/ p \in B
        /\ from \in A <=> to \in B
    BY <2>3, <2>4, <2>5
  <2>8. (\A p, q \in B : p = q) /\ (A = {} <=> B = {})
    BY <2>6, <2>7, OneMoved
  <2> QED BY <2>8 DEF Kept, A, B
<1>12. CachesCover' /\ LoadedOnce'
  BY <1>0, <1>1, LoadingKept
<1>13. \A doc \in Doc' : WellPlaced(doc)'
  BY <1>0, <1>1, <1>10, <1>11, WellPlacedKept
<1> QED BY <1>8, <1>9, <1>12, <1>13 DEF WalkInv

(* A document is done, and its errors are collected.                       *)
LEMMA ReturnKeeps ==
    ASSUME WalkInv, Return
    PROVE  WalkInv'
<1>0. /\ StateTyped /\ DocumentsKnown /\ CachesCover /\ LoadedOnce
      /\ \A doc \in Doc : WellPlaced(doc)
  BY DEF WalkInv
<1>1. /\ stack # <<>>
      /\ UNCHANGED <<world, loading, composition_edges, starts, deferred, visits, done>>
      /\ UNCHANGED documents
      /\ stack' = Below /\ Top.next > Len(Top.loaded)
  BY DEF Return, loading
<1> PICK N : N = Len(stack)
  OBVIOUS
<1> PICK top : top = Top
  OBVIOUS
<1>2. errors' = errors \o top.errors
  BY DEF Return
<1>3. /\ N \in Nat \ {0} /\ top = stack[N] /\ top \in FrameType /\ FrameKnown(top)
      /\ stack' \in Seq(FrameType) /\ Len(stack') = N - 1
      /\ \A i \in 1 .. N - 1 : stack'[i] = stack[i]
      /\ \A i : i \in 1 .. N <=> (i \in 1 .. N - 1 \/ i = N)
  <2>1. /\ N \in Nat \ {0} /\ top = stack[N] /\ top \in FrameType /\ FrameKnown(top)
        /\ stack' \in Seq(FrameType) /\ Len(stack') = N - 1
        /\ \A i \in 1 .. N - 1 : stack'[i] = stack[i]
    BY <1>0, <1>1, TopTyped
  <2>2. \A i : i \in 1 .. N <=> (i \in 1 .. N - 1 \/ i = N)
    BY <2>1
  <2> QED BY <2>1, <2>2
<1>4. /\ top.errors \in Seq(ErrorType) /\ top.next \in Nat /\ top.loaded \in Seq(Nat)
      /\ top.next > Len(top.loaded)
  BY <1>1, <1>3 DEF FrameType
<1>5. \A j \in 1 .. Len(top.errors) : top.errors[j].target = NoDocument
  BY <1>3 DEF FrameKnown
<1>6. \A d : Turns(top, d) = {}
  <2>1. top.next .. Len(top.loaded) = {}
    BY <1>4
  <2> QED BY <2>1 DEF Turns
<1>7. errors \in Seq(ErrorType)
  BY <1>0 DEF StateTyped
<1>8. /\ errors' \in Seq(ErrorType) /\ Len(errors') = Len(errors) + Len(top.errors)
      /\ Len(errors) \in Nat /\ Len(top.errors) \in Nat
      /\ \A i \in 1 .. Len(errors) : errors'[i] = errors[i]
      /\ \A i \in 1 .. Len(top.errors) : errors'[Len(errors) + i] = top.errors[i]
      /\ \A i \in 1 .. Len(errors) + Len(top.errors) :
            \/ i \in 1 .. Len(errors)
            \/ i - Len(errors) \in 1 .. Len(top.errors)
               /\ errors'[i] = top.errors[i - Len(errors)]
  BY <1>2, <1>4, <1>7, Concatenated
<1>9. /\ \A i \in 1 .. Len(errors) : i \in 1 .. Len(errors')
      /\ \A i \in 1 .. Len(top.errors) : Len(errors) + i \in 1 .. Len(errors')
      /\ \A i \in 1 .. Len(errors') :
            \/ i \in 1 .. Len(errors) /\ errors'[i] = errors[i]
            \/ errors'[i].target = NoDocument
  BY SMTT(30), <1>5, <1>8
<1>10. StateTyped'
  BY <1>0, <1>1, <1>3, <1>8 DEF StateTyped
<1>11. DocumentsKnown'
  <2>1. Doc' = Doc /\ (\A d \in Doc : Directives(d)' = Directives(d))
    BY <1>1 DEF Doc, Directives
  <2>2. \A f : FrameKnown(f)' = FrameKnown(f)
    BY <2>1 DEF FrameKnown
  <2>3. (\A i \in 1 .. Len(stack) : FrameKnown(stack[i]))'
    <3> SUFFICES ASSUME NEW i \in 1 .. Len(stack') PROVE FrameKnown(stack[i])'
      OBVIOUS
    <3>1. ASSUME NEW k \in 1 .. N - 1 PROVE FrameKnown(stack[k])
      BY <1>0, <1>3 DEF DocumentsKnown
    <3> QED BY <1>3, <2>2, <3>1
  <2>4. \A i \in 1 .. Len(errors') : errors'[i].target \in 0 .. Len(documents)
    <3>1. \A i \in 1 .. Len(errors) : errors[i].target \in 0 .. Len(documents)
      BY <1>0 DEF DocumentsKnown
    <3>2. NoDocument \in 0 .. Len(documents)
      BY <1>0 DEF NoDocument, StateTyped
    <3> QED BY <1>9, <3>1, <3>2
  <2> QED BY <1>0, <1>1, <2>1, <2>3, <2>4 DEF DocumentsKnown
<1>12. Misread => Misread'
  <2> SUFFICES ASSUME Misread PROVE Misread'
    OBVIOUS
  <2>1. \/ \E i \in 1 .. Len(errors) : errors[i].import /\ errors[i].code = "src-import"
        \/ \E k \in 1 .. Len(stack) : \E i \in 1 .. Len(stack[k].errors) :
              stack[k].errors[i].import /\ stack[k].errors[i].code = "src-import"
    BY DEF Misread, Frames
  <2>2. \/ \E i \in 1 .. Len(errors') : errors'[i].import /\ errors'[i].code = "src-import"
        \/ \E k \in 1 .. Len(stack') : \E i \in 1 .. Len(stack'[k].errors) :
              stack'[k].errors[i].import /\ stack'[k].errors[i].code = "src-import"
    <3>1. ASSUME NEW i \in 1 .. Len(errors),
                 errors[i].import /\ errors[i].code = "src-import"
          PROVE  \E j \in 1 .. Len(errors') :
                    errors'[j].import /\ errors'[j].code = "src-import"
      BY <1>8, <1>9, <3>1
    <3>2. ASSUME NEW i \in 1 .. Len(top.errors),
                 top.errors[i].import /\ top.errors[i].code = "src-import"
          PROVE  \E j \in 1 .. Len(errors') :
                    errors'[j].import /\ errors'[j].code = "src-import"
      BY <1>8, <1>9, <3>2
    <3> QED BY SMTT(30), <1>3, <2>1, <3>1, <3>2
  <2> QED BY <2>2 DEF Misread, Frames
<1>13. ASSUME NEW doc \in Doc PROVE Kept(doc)
  <2>1. \A p : p \in Places(doc) <=> PlaceOf(doc, p)
    BY PlaceForms
  <2>2. \A p : p \in Places(doc)' <=> PlaceOf(doc, p)'
    BY NextPlaceForms
  <2>3. doc # NoDocument
    BY DEF Doc, NoDocument
  <2>4. \A p : PlaceOf(doc, p)' <=> PlaceOf(doc, p)
    <3> TAKE p
    <3>1. (\E i \in 1 .. Len(stack') : \E j \in Turns(stack'[i], doc) :
              p = <<"frame", i, j>>)
          <=> (\E i \in 1 .. Len(stack) : \E j \in Turns(stack[i], doc) :
                    p = <<"frame", i, j>>)
      BY <1>3, <1>6
    <3>2. (\E i \in 1 .. Len(errors') : errors'[i].target = doc /\ p = <<"error", i, 0>>)
          <=> (\E i \in 1 .. Len(errors) : errors[i].target = doc /\ p = <<"error", i, 0>>)
      BY <1>8, <1>9, <2>3
    <3> QED BY <1>1, <3>1, <3>2 DEF PlaceOf
  <2>5. Places(doc)' = Places(doc)
    BY <2>1, <2>2, <2>4
  <2>6. \A p, q \in Places(doc) : p = q
    BY <1>0 DEF WellPlaced
  <2> QED BY <2>5, <2>6 DEF Kept
<1>14. CachesCover' /\ LoadedOnce'
  BY <1>0, <1>1, LoadingKept
<1>15. \A doc \in Doc' : WellPlaced(doc)'
  BY <1>0, <1>1, <1>12, <1>13, WellPlacedKept
<1> QED BY <1>10, <1>11, <1>14, <1>15 DEF WalkInv

(* A document that is reached has a distance.                              *)
LEMMA DistanceTyped ==
    ASSUME StateTyped, NEW doc, Reachable(doc)
    PROVE  Distance(doc) \in 0 .. Len(documents)
<1> DEFINE W == Within
           S == {n \in 0 .. Len(documents) : doc \in W[n]}
<1>1. Len(documents) \in Nat
  BY DEF StateTyped
<1>2. Len(documents) \in S
  BY <1>1 DEF Reachable
<1>3. S \subseteq Nat /\ S # {}
  BY <1>2
<1> HIDE DEF S
<1>4. PICK n \in S : \A m \in S : n <= m
  BY <1>3, LeastNatural
<1>5. n \in 0 .. Len(documents) /\ doc \in W[n] /\ \A m \in 0 .. n - 1 : doc \notin W[m]
  <2>1. n \in 0 .. Len(documents) /\ doc \in W[n]
    BY <1>4 DEF S
  <2>2. ASSUME NEW m \in 0 .. n - 1 PROVE m \notin S /\ m \in 0 .. Len(documents)
    BY <1>1, <1>4, <2>1
  <2> QED BY <2>1, <2>2 DEF S
<1>6. \E k \in 0 .. Len(documents) : doc \in W[k] /\ \A m \in 0 .. k - 1 : doc \notin W[m]
  BY <1>5
<1> HIDE DEF W
<1>7. (CHOOSE k \in 0 .. Len(documents) : doc \in W[k] /\ \A m \in 0 .. k - 1 : doc \notin W[m])
         \in 0 .. Len(documents)
  BY <1>6
<1> QED BY <1>7 DEF Distance, W

(* The documents that are near enough after all become starts.             *)
LEMMA ResumeKeepsInv ==
    ASSUME WalkInv, Resume
    PROVE  WalkInv'
<1>0. /\ StateTyped /\ DocumentsKnown /\ CachesCover /\ LoadedOnce
      /\ \A doc \in Doc : WellPlaced(doc)
  BY DEF WalkInv
<1>1. /\ stack = <<>> /\ starts = <<>>
      /\ UNCHANGED <<world, loading, composition_edges, stack, errors, visits, done>>
      /\ UNCHANGED documents
  BY DEF Resume, Walked, loading
<1> PICK places : places = ResumableDeferred
  OBVIOUS
<1> PICK others : others = (1 .. Len(deferred)) \ places
  OBVIOUS
<1> PICK early : early = Picked(deferred, places)
  OBVIOUS
<1>2. starts' = StartsOf(early) /\ deferred' = Picked(deferred, others)
  BY DEF Resume
<1>3. deferred \in Seq(Nat \X Nat) /\ Len(deferred) \in Nat
  BY <1>0 DEF StateTyped
<1>4. /\ early \in Seq(Nat \X Nat) /\ Picks(deferred, places, Len(deferred), early)
      /\ deferred' \in Seq(Nat \X Nat) /\ Picks(deferred, others, Len(deferred), deferred')
  BY <1>2, <1>3, PickedPicks
<1>5. PICK at \in Seq(Nat) :
         /\ \A i \in 1 .. Len(early) :
               at[i] \in places /\ at[i] \in 1 .. Len(deferred) /\ early[i] = deferred[at[i]]
         /\ \A i, j \in 1 .. Len(early) : at[i] = at[j] => i = j
         /\ \A k \in 1 .. Len(deferred) : k \in places => \E i \in 1 .. Len(early) : at[i] = k
  BY <1>4 DEF Picks
<1>6. PICK to \in Seq(Nat) :
         /\ \A i \in 1 .. Len(deferred') :
               to[i] \in others /\ to[i] \in 1 .. Len(deferred)
               /\ deferred'[i] = deferred[to[i]]
         /\ \A i, j \in 1 .. Len(deferred') : to[i] = to[j] => i = j
         /\ \A k \in 1 .. Len(deferred) :
               k \in others => \E i \in 1 .. Len(deferred') : to[i] = k
  BY <1>4 DEF Picks
<1>7. \A k \in 1 .. Len(deferred) : deferred[k][1] \in Doc /\ deferred[k][2] \in Doc
  BY <1>0 DEF DocumentsKnown
<1>8. /\ starts' \in Seq(StartType) /\ Len(starts') = Len(early) /\ Len(early) \in Nat
      /\ \A i \in 1 .. Len(early) : starts'[i].doc = deferred[at[i]][2]
  <2>1. ASSUME NEW i \in 1 .. Len(early)
        PROVE  /\ Start(early[i][2], Distance(early[i][2])) \in StartType
               /\ Start(early[i][2], Distance(early[i][2])).doc = deferred[at[i]][2]
    <3>1. at[i] \in ResumableDeferred /\ early[i] = deferred[at[i]]
      BY <1>5
    <3>2. Reachable(early[i][2]) /\ early[i][2] \in Doc
      BY <1>5, <1>7, <3>1 DEF ResumableDeferred, Resumable
    <3>3. Distance(early[i][2]) \in 0 .. Len(documents)
      BY <1>0, <3>2, DistanceTyped
    <3>4. Distance(early[i][2]) \in Nat /\ early[i][2] \in Nat
      BY <3>2, <3>3 DEF Doc
    <3> QED BY <3>1, <3>4 DEF Start, StartType
  <2>2. Len(early) \in Nat
    BY <1>4
  <2>3. starts' = [i \in 1 .. Len(early) |-> Start(early[i][2], Distance(early[i][2]))]
    BY <1>2 DEF StartsOf
  <2> QED BY <2>1, <2>2, <2>3
<1>9. StateTyped'
  BY <1>0, <1>1, <1>4, <1>8 DEF StateTyped
<1>10. DocumentsKnown'
  <2>1. Doc' = Doc /\ (\A d \in Doc : Directives(d)' = Directives(d))
    BY <1>1 DEF Doc, Directives
  <2>2. (\A i \in 1 .. Len(stack) : FrameKnown(stack[i]))'
    BY <1>1
  <2>3. \A i \in 1 .. Len(starts') : starts'[i].doc \in Doc
    <3> SUFFICES ASSUME NEW i \in 1 .. Len(starts') PROVE starts'[i].doc \in Doc
      OBVIOUS
    <3>1. i \in 1 .. Len(early) /\ at[i] \in 1 .. Len(deferred)
      BY <1>5, <1>8
    <3> QED BY <1>7, <1>8, <3>1
  <2>4. \A i \in 1 .. Len(deferred') : deferred'[i][1] \in Doc /\ deferred'[i][2] \in Doc
    BY SMTT(30), <1>6, <1>7
  <2> QED BY <1>0, <1>1, <2>1, <2>2, <2>3, <2>4 DEF DocumentsKnown
<1>11. Misread => Misread'
  BY <1>1 DEF Misread, Frames
<1>12. ASSUME NEW doc \in Doc PROVE Kept(doc)
  <2> DEFINE A == Places(doc)
             B == Places(doc)'
             F(p) == IF p[1] = "start" THEN <<"deferred", at[p[2]], 0>>
                     ELSE IF p[1] = "deferred" THEN <<"deferred", to[p[2]], 0>>
                     ELSE p
             f == [p \in B |-> F(p)]
             Other(p) ==
                \/ \E i \in 1 .. Len(visits) : visits[i].doc = doc /\ p = <<"visit", i, 0>>
                \/ \E i \in 1 .. Len(errors) : errors[i].target = doc /\ p = <<"error", i, 0>>
  <2>1. \A p : p \in A <=>
            \/ \E k \in 1 .. Len(deferred) : deferred[k][2] = doc /\ p = <<"deferred", k, 0>>
            \/ Other(p)
    BY <1>1, PlaceForms DEF PlaceOf
  <2>2. \A p : p \in B <=>
            \/ \E i \in 1 .. Len(early) : deferred[at[i]][2] = doc /\ p = <<"start", i, 0>>
            \/ \E i \in 1 .. Len(deferred') :
                  deferred[to[i]][2] = doc /\ p = <<"deferred", i, 0>>
            \/ Other(p)
    <3> TAKE p
    <3>1. PlaceOf(doc, p)' <=>
            \/ \E i \in 1 .. Len(starts') : starts'[i].doc = doc /\ p = <<"start", i, 0>>
            \/ \E i \in 1 .. Len(deferred') :
                  deferred'[i][2] = doc /\ p = <<"deferred", i, 0>>
            \/ Other(p)
      BY <1>1 DEF PlaceOf
    <3>2. (\E i \in 1 .. Len(starts') : starts'[i].doc = doc /\ p = <<"start", i, 0>>)
          <=> (\E i \in 1 .. Len(early) : deferred[at[i]][2] = doc /\ p = <<"start", i, 0>>)
      BY <1>8
    <3>3. (\E i \in 1 .. Len(deferred') :
              deferred'[i][2] = doc /\ p = <<"deferred", i, 0>>)
          <=> (\E i \in 1 .. Len(deferred') :
                  deferred[to[i]][2] = doc /\ p = <<"deferred", i, 0>>)
      BY <1>6
    <3> HIDE DEF Other
    <3> QED BY <3>1, <3>2, <3>3, NextPlaceForms
  <2> HIDE DEF A, B
  <2>3. \A p : Other(p) => F(p) = p /\ p[1] \notin {"start", "deferred"}
    OBVIOUS
  <2>4. /\ \A i : F(<<"start", i, 0>>) = <<"deferred", at[i], 0>>
        /\ \A i : F(<<"deferred", i, 0>>) = <<"deferred", to[i], 0>>
    OBVIOUS
  <2>5. /\ \A i : ~ Other(<<"start", i, 0>>) /\ ~ Other(<<"deferred", i, 0>>)
    BY <2>3
  <2> HIDE DEF F, Other
  <2>6. \A p \in B : F(p) \in A
    <3>1. \A i \in 1 .. Len(early) :
             deferred[at[i]][2] = doc => F(<<"start", i, 0>>) \in A
      BY <1>5, <2>1, <2>4
    <3>2. \A i \in 1 .. Len(deferred') :
             deferred[to[i]][2] = doc => F(<<"deferred", i, 0>>) \in A
      BY SMTT(30), <1>6, <2>1, <2>4
    <3>3. \A p : Other(p) => F(p) \in A
      BY <2>1, <2>3
    <3> QED BY <2>2, <3>1, <3>2, <3>3
  <2>7. \A p, q \in B : F(p) = F(q) => p = q
    <3>1. \A i \in 1 .. Len(early), j \in 1 .. Len(deferred') : at[i] # to[j]
      BY <1>5, <1>6
    <3>2. \A p \in B : \/ \E i \in 1 .. Len(early) : p = <<"start", i, 0>>
                       \/ \E i \in 1 .. Len(deferred') : p = <<"deferred", i, 0>>
                       \/ Other(p)
      BY <2>2
    <3> SUFFICES ASSUME NEW p \in B, NEW q \in B, F(p) = F(q) PROVE p = q
      OBVIOUS
    <3>3. CASE Other(p) \/ Other(q)
      <4>1. \A r \in B : ~ Other(r) => \E i : F(r) = <<"deferred", i, 0>>
        BY <2>4, <3>2
      <4>2. \A r : Other(r) => F(r) = r /\ \A i : r # <<"deferred", i, 0>>
        BY <2>3, <2>5
      <4> QED BY <3>3, <4>1, <4>2
    <3>4. CASE ~ Other(p) /\ ~ Other(q)
      <4>1. ASSUME NEW i \in 1 .. Len(early), p = <<"start", i, 0>>,
                   NEW j \in 1 .. Len(early), q = <<"start", j, 0>>
            PROVE  p = q
        <5>1. <<"deferred", at[i], 0>> = <<"deferred", at[j], 0>>
          BY <2>4, <4>1
        <5>2. at[i] = at[j]
          BY <5>1, SamePlace
        <5> QED BY <1>5, <4>1, <5>2
      <4>2. ASSUME NEW i \in 1 .. Len(deferred'), p = <<"deferred", i, 0>>,
                   NEW j \in 1 .. Len(deferred'), q = <<"deferred", j, 0>>
            PROVE  p = q
        <5>1. <<"deferred", to[i], 0>> = <<"deferred", to[j], 0>>
          BY <2>4, <4>2
        <5>2. to[i] = to[j]
          BY <5>1, SamePlace
        <5> QED BY <1>6, <4>2, <5>2
      <4>3. ASSUME NEW i \in 1 .. Len(early), NEW j \in 1 .. Len(deferred'),
                   F(<<"start", i, 0>>) = F(<<"deferred", j, 0>>)
            PROVE  FALSE
        <5>1. <<"deferred", at[i], 0>> = <<"deferred", to[j], 0>>
          BY <2>4, <4>3
        <5>2. at[i] = to[j]
          BY <5>1, SamePlace
        <5> QED BY <3>1, <5>2
      <4> QED BY <3>2, <3>4, <4>1, <4>2, <4>3
    <3> QED BY <3>3, <3>4
  <2>8. A # {} => B # {}
    <3> SUFFICES ASSUME NEW p \in A PROVE B # {}
      OBVIOUS
    <3>1. ASSUME NEW k \in 1 .. Len(deferred), deferred[k][2] = doc PROVE B # {}
      <4>1. CASE k \in places
        <5>1. PICK i \in 1 .. Len(early) : at[i] = k
          BY <1>5, <4>1
        <5> QED BY <2>2, <3>1, <5>1
      <4>2. CASE k \notin places
        <5>1. PICK i \in 1 .. Len(deferred') : to[i] = k
          BY <1>6, <4>2
        <5> QED BY <2>2, <3>1, <5>1
      <4> QED BY <4>1, <4>2
    <3>2. Other(p) => B # {}
      BY <2>2
    <3> QED BY <2>1, <3>1, <3>2
  <2>9. \A p, q \in A : p = q
    BY <1>0 DEF WellPlaced, A
  <2>10. (\A p \in B : f[p] \in A) /\ (\A p, q \in B : f[p] = f[q] => p = q)
    BY <2>6, <2>7
  <2> HIDE DEF f
  <2>11. (\A p, q \in B : p = q) /\ (A = {} <=> B = {})
    <3>1. ASSUME NEW p \in B, NEW q \in B PROVE p = q
      <4>1. f[p] \in A /\ f[q] \in A
        BY <2>10
      <4>2. f[p] = f[q]
        BY <2>9, <4>1
      <4> QED BY <2>10, <4>2
    <3>2. B # {} => A # {}
      BY <2>10
    <3> QED BY <2>8, <3>1, <3>2
  <2> QED BY <2>11 DEF Kept, A, B
<1>13. CachesCover' /\ LoadedOnce'
  BY <1>0, <1>1, LoadingKept
<1>14. \A doc \in Doc' : WellPlaced(doc)'
  BY <1>0, <1>1, <1>11, <1>12, WellPlacedKept
<1> QED BY <1>9, <1>10, <1>13, <1>14 DEF WalkInv

(* What is still deferred is refused.                                      *)
LEMMA FinishKeeps ==
    ASSUME WalkInv, Finish
    PROVE  WalkInv'
<1>0. /\ StateTyped /\ DocumentsKnown /\ CachesCover /\ LoadedOnce
      /\ \A doc \in Doc : WellPlaced(doc)
  BY DEF WalkInv
<1>1. /\ stack = <<>> /\ starts = <<>>
      /\ UNCHANGED <<world, loading, composition_edges, starts, stack, visits>>
      /\ UNCHANGED documents
      /\ deferred' = <<>> /\ done' = TRUE
  BY DEF Finish, Walked, loading
<1> PICK refused : refused = [i \in 1 .. Len(deferred) |->
                                 DepthError(deferred[i][1], deferred[i][2])]
  OBVIOUS
<1>2. errors' = errors \o refused
  BY DEF Finish
<1>3. deferred \in Seq(Nat \X Nat) /\ Len(deferred) \in Nat /\ errors \in Seq(ErrorType)
  BY <1>0 DEF StateTyped
<1>4. /\ refused \in Seq(ErrorType) /\ Len(refused) = Len(deferred)
      /\ \A i \in 1 .. Len(deferred) :
            /\ refused[i].target = deferred[i][2]
            /\ refused[i] = DepthError(deferred[i][1], deferred[i][2])
  <2>1. ASSUME NEW i \in 1 .. Len(deferred)
        PROVE  /\ DepthError(deferred[i][1], deferred[i][2]) \in ErrorType
               /\ DepthError(deferred[i][1], deferred[i][2]).target = deferred[i][2]
    <3>1. deferred[i][1] \in Nat /\ deferred[i][2] \in Nat
      <4>1. deferred[i] \in Nat \X Nat
        BY <1>3
      <4> QED BY <4>1
    <3> QED BY <3>1 DEF DepthError, ErrorType, Code
  <2> QED BY <1>3, <2>1
<1>5. /\ errors' \in Seq(ErrorType) /\ Len(errors') = Len(errors) + Len(deferred)
      /\ Len(errors) \in Nat
      /\ \A i \in 1 .. Len(errors) : errors'[i] = errors[i]
      /\ \A i \in 1 .. Len(deferred) : errors'[Len(errors) + i] = refused[i]
      /\ \A i \in 1 .. Len(errors) + Len(deferred) :
            i \in 1 .. Len(errors) \/ i - Len(errors) \in 1 .. Len(deferred)
  BY <1>2, <1>3, <1>4, Concatenated
<1>6. /\ \A i \in 1 .. Len(errors) : i \in 1 .. Len(errors')
      /\ \A i \in 1 .. Len(deferred) :
            Len(errors) + i \in 1 .. Len(errors') /\ Len(errors) + i \notin 1 .. Len(errors)
            /\ errors'[Len(errors) + i].target = deferred[i][2]
      /\ \A i \in 1 .. Len(errors') :
            \/ i \in 1 .. Len(errors)
            \/ \E k \in 1 .. Len(deferred) : i = Len(errors) + k
  <2>1. \A i \in 1 .. Len(errors') :
            \/ i \in 1 .. Len(errors)
            \/ i - Len(errors) \in 1 .. Len(deferred) /\ i = Len(errors) + (i - Len(errors))
    BY <1>3, <1>5
  <2>2. /\ \A i \in 1 .. Len(errors) : i \in 1 .. Len(errors')
        /\ \A i \in 1 .. Len(deferred) :
              Len(errors) + i \in 1 .. Len(errors') /\ Len(errors) + i \notin 1 .. Len(errors)
    BY <1>3, <1>5
  <2> QED BY <1>4, <1>5, <2>1, <2>2
<1>7. StateTyped'
  BY <1>0, <1>1, <1>5 DEF StateTyped
<1>8. DocumentsKnown'
  <2>1. Doc' = Doc /\ (\A d \in Doc : Directives(d)' = Directives(d))
    BY <1>1 DEF Doc, Directives
  <2>2. (\A i \in 1 .. Len(stack) : FrameKnown(stack[i]))'
    BY <1>1
  <2>3. \A i \in 1 .. Len(errors') : errors'[i].target \in 0 .. Len(documents)
    <3>1. \A i \in 1 .. Len(errors) : errors[i].target \in 0 .. Len(documents)
      BY <1>0 DEF DocumentsKnown
    <3>2. \A i \in 1 .. Len(deferred) : deferred[i][2] \in Doc
      BY <1>0 DEF DocumentsKnown
    <3>3. \A d \in Doc : d \in 0 .. Len(documents)
      BY DEF Doc
    <3> TAKE i \in 1 .. Len(errors')
    <3>4. CASE i \in 1 .. Len(errors)
      BY <1>5, <3>1, <3>4
    <3>5. ASSUME NEW k \in 1 .. Len(deferred), i = Len(errors) + k
          PROVE  errors'[i].target \in 0 .. Len(documents)
      BY <1>6, <3>2, <3>3, <3>5
    <3> QED BY <1>6, <3>4, <3>5
  <2>4. \A i \in 1 .. Len(deferred') : deferred'[i][1] \in Doc' /\ deferred'[i][2] \in Doc'
    BY <1>1
  <2> QED BY <1>0, <1>1, <2>1, <2>2, <2>3, <2>4 DEF DocumentsKnown
<1>9. Misread => Misread'
  <2> SUFFICES ASSUME Misread PROVE Misread'
    OBVIOUS
  <2>1. Frames = {}
    BY <1>1 DEF Frames
  <2>2. PICK i \in 1 .. Len(errors) : errors[i].import /\ errors[i].code = "src-import"
    BY <2>1 DEF Misread
  <2>3. i \in 1 .. Len(errors') /\ errors'[i] = errors[i]
    BY <1>5, <1>6
  <2> QED BY <2>2, <2>3 DEF Misread
<1>10. ASSUME NEW doc \in Doc PROVE Kept(doc)
  <2> DEFINE A == Places(doc)
             B == Places(doc)'
             n == Len(errors)
             F(p) == IF p[1] = "error" /\ p[2] \notin 1 .. n
                     THEN <<"deferred", p[2] - n, 0>> ELSE p
             f == [p \in B |-> F(p)]
             Same(p) ==
                \/ \E i \in 1 .. Len(visits) : visits[i].doc = doc /\ p = <<"visit", i, 0>>
                \/ \E i \in 1 .. n : errors[i].target = doc /\ p = <<"error", i, 0>>
  <2>1. \A p : p \in A <=>
            \/ \E k \in 1 .. Len(deferred) : deferred[k][2] = doc /\ p = <<"deferred", k, 0>>
            \/ Same(p)
    BY <1>1, PlaceForms DEF PlaceOf
  <2>2. \A p : p \in B <=>
            \/ \E k \in 1 .. Len(deferred) : deferred[k][2] = doc /\ p = <<"error", n + k, 0>>
            \/ Same(p)
    <3> TAKE p
    <3>1. PlaceOf(doc, p)' <=>
            \/ \E i \in 1 .. Len(visits) : visits[i].doc = doc /\ p = <<"visit", i, 0>>
            \/ \E i \in 1 .. Len(errors') :
                  errors'[i].target = doc /\ p = <<"error", i, 0>>
      BY <1>1 DEF PlaceOf
    <3>2. (\E i \in 1 .. Len(errors') : errors'[i].target = doc /\ p = <<"error", i, 0>>)
          <=> \/ \E i \in 1 .. n : errors[i].target = doc /\ p = <<"error", i, 0>>
              \/ \E k \in 1 .. Len(deferred) :
                    deferred[k][2] = doc /\ p = <<"error", n + k, 0>>
      <4>1. ASSUME NEW i \in 1 .. Len(errors'), errors'[i].target = doc,
                   p = <<"error", i, 0>>
            PROVE  \/ \E j \in 1 .. n : errors[j].target = doc /\ p = <<"error", j, 0>>
                   \/ \E k \in 1 .. Len(deferred) :
                         deferred[k][2] = doc /\ p = <<"error", n + k, 0>>
        BY ZenonT(60), <1>5, <1>6, <4>1
      <4>2. ASSUME NEW j \in 1 .. n, errors[j].target = doc, p = <<"error", j, 0>>
            PROVE  \E i \in 1 .. Len(errors') :
                      errors'[i].target = doc /\ p = <<"error", i, 0>>
        BY <1>5, <1>6, <4>2
      <4>3. ASSUME NEW k \in 1 .. Len(deferred), deferred[k][2] = doc,
                   p = <<"error", n + k, 0>>
            PROVE  \E i \in 1 .. Len(errors') :
                      errors'[i].target = doc /\ p = <<"error", i, 0>>
        BY <1>6, <4>3
      <4> QED BY <4>1, <4>2, <4>3
    <3> QED BY <3>1, <3>2, NextPlaceForms
  <2> HIDE DEF A, B
  <2>3. \A p : Same(p) => F(p) = p /\ \A k : p # <<"deferred", k, 0>>
    OBVIOUS
  <2>4. \A k \in 1 .. Len(deferred) : F(<<"error", n + k, 0>>) = <<"deferred", k, 0>>
    <3> TAKE k \in 1 .. Len(deferred)
    <3>1. n + k \notin 1 .. n /\ (n + k) - n = k
      BY <1>3, <1>5, <1>6
    <3> QED BY <3>1
  <2> HIDE DEF F, Same
  <2>5. \A p \in B : F(p) \in A
    <3>1. \A k \in 1 .. Len(deferred) :
             deferred[k][2] = doc => F(<<"error", n + k, 0>>) \in A
      BY <2>1, <2>4
    <3>2. \A p : Same(p) => F(p) \in A
      BY <2>1, <2>3
    <3> QED BY <2>2, <3>1, <3>2
  <2>6. \A p, q \in B : F(p) = F(q) => p = q
    <3>1. \A p \in B : \/ \E k \in 1 .. Len(deferred) : p = <<"error", n + k, 0>>
                       \/ Same(p)
      BY <2>2
    <3> SUFFICES ASSUME NEW p \in B, NEW q \in B, F(p) = F(q) PROVE p = q
      OBVIOUS
    <3>2. CASE Same(p) \/ Same(q)
      <4>1. \A r \in B : ~ Same(r) => \E i : F(r) = <<"deferred", i, 0>>
        BY <2>4, <3>1
      <4> QED BY <2>3, <3>2, <4>1
    <3>3. CASE ~ Same(p) /\ ~ Same(q)
      <4>1. ASSUME NEW i \in 1 .. Len(deferred), p = <<"error", n + i, 0>>,
                   NEW j \in 1 .. Len(deferred), q = <<"error", n + j, 0>>
            PROVE  p = q
        <5>1. <<"deferred", i, 0>> = <<"deferred", j, 0>>
          BY <2>4, <4>1
        <5>2. i = j
          BY <5>1, SamePlace
        <5> QED BY <4>1, <5>2
      <4> QED BY <3>1, <3>3, <4>1
    <3> QED BY <3>2, <3>3
  <2>7. A # {} => B # {}
    <3> SUFFICES ASSUME NEW p \in A PROVE B # {}
      OBVIOUS
    <3>1. ASSUME NEW k \in 1 .. Len(deferred), deferred[k][2] = doc
          PROVE  <<"error", n + k, 0>> \in B
      BY <2>2, <3>1
    <3>2. Same(p) => p \in B
      BY <2>2
    <3> QED BY <2>1, <3>1, <3>2
  <2>8. \A p, q \in A : p = q
    BY <1>0 DEF WellPlaced, A
  <2>9. (\A p \in B : f[p] \in A) /\ (\A p, q \in B : f[p] = f[q] => p = q)
    BY <2>5, <2>6
  <2> HIDE DEF f
  <2>10. (\A p, q \in B : p = q) /\ (A = {} <=> B = {})
    <3>1. ASSUME NEW p \in B, NEW q \in B PROVE p = q
      <4>1. f[p] \in A /\ f[q] \in A
        BY <2>9
      <4>2. f[p] = f[q]
        BY <2>8, <4>1
      <4> QED BY <2>9, <4>2
    <3>2. B # {} => A # {}
      BY <2>9
    <3> QED BY <2>7, <3>1, <3>2
  <2> QED BY <2>10 DEF Kept, A, B
<1>11. CachesCover' /\ LoadedOnce'
  BY <1>0, <1>1, LoadingKept
<1>12. \A doc \in Doc' : WellPlaced(doc)'
  BY <1>0, <1>1, <1>9, <1>10, WellPlacedKept
<1> QED BY <1>7, <1>8, <1>11, <1>12 DEF WalkInv

-----------------------------------------------------------------------------
(* What comes of a directive.                                              *)

LEMMA CachedKnown ==
    ASSUME CachesCover, NEW location, NEW adopt
    PROVE  Cached(location, adopt) \in Doc \cup {NoDocument}
<1>1. ASSUME location \in DOMAIN loaded_locations
      PROVE  loaded_locations[location] \in Doc
  <2>1. PICK d \in Doc : documents[d].location = location
    BY <1>1 DEF CachesCover
  <2>2. loaded_locations[location] \in 1 .. d
    BY <2>1 DEF CachesCover, First
  <2> QED BY <2>1, <2>2 DEF Doc
<1> QED BY <1>1 DEF CachesCover, Cached

Loads(outcome, location, adopt) ==
    /\ location \in Location /\ adopt \in MaybeNamespace
    /\ outcome.document = Adopted(location, adopt) /\ outcome.adopt = adopt
    /\ outcome.doc = Len(documents) + 1
    /\ Cached(location, adopt) = NoDocument
    /\ Parses(location, adopt)

OutcomeOK(o) ==
    /\ o.result \in {"nothing", "already", "unreadable", "unusable", "loaded"}
    /\ o.result = "already" => o.doc \in Doc
    /\ o.result = "loaded" => \E location, adopt : Loads(o, location, adopt)

LEMMA AttemptOK ==
    ASSUME CachesCover, NEW location \in Location, NEW adopt \in MaybeNamespace
    PROVE  OutcomeOK(Attempt(location, adopt))
<1> DEFINE o == Attempt(location, adopt)
<1>1. Cached(location, adopt) \in Doc \cup {NoDocument}
  BY CachedKnown
<1>2. CASE Cached(location, adopt) # NoDocument
  <2>1. o.result = "already" /\ o.doc = Cached(location, adopt)
    BY <1>2 DEF Attempt
  <2> QED BY <1>1, <1>2, <2>1 DEF OutcomeOK
<1>3. CASE Cached(location, adopt) = NoDocument /\ world.status[location] = "unreadable"
  <2>1. o.result = "unreadable"
    BY <1>3 DEF Attempt
  <2> QED BY <2>1 DEF OutcomeOK
<1>4. CASE /\ Cached(location, adopt) = NoDocument /\ world.status[location] # "unreadable"
           /\ ~ Parses(location, adopt)
  <2>1. o.result = "unusable"
    BY <1>4 DEF Attempt
  <2> QED BY <2>1 DEF OutcomeOK
<1>5. CASE /\ Cached(location, adopt) = NoDocument /\ world.status[location] # "unreadable"
           /\ Parses(location, adopt)
  <2>1. /\ o.result = "loaded" /\ o.doc = Len(documents) + 1
        /\ o.document = Adopted(location, adopt) /\ o.adopt = adopt
    BY <1>5 DEF Attempt
  <2>2. Loads(o, location, adopt)
    BY <1>5, <2>1 DEF Loads
  <2> QED BY <2>1, <2>2 DEF OutcomeOK
<1> QED BY <1>2, <1>3, <1>4, <1>5

LEMMA OutcomeIsOK ==
    ASSUME StateTyped, CachesCover, NEW doc \in Doc, NEW d \in Directive
    PROVE  OutcomeOK(Outcome(doc, d))
<1>1. OutcomeOK(Nothing)
  BY DEF Nothing, OutcomeOK
<1>2. d.location # NoLocation => d.location \in Location
  BY DEF Directive
<1>3. d.kind # "import" => d.location \in Location
  BY <1>2 DEF Directive
<1>4. NoNamespace \in MaybeNamespace /\ documents[doc].target_namespace \in MaybeNamespace
  <2>1. documents[doc] \in View
    BY DirectivesTyped
  <2> QED BY <2>1 DEF View, MaybeNamespace
<1>5. \A n \in DOMAIN world.catalog : world.catalog[n] \in Location
  BY WorldAssumption DEF StateTyped
<1>6. CASE IllFormed(doc, d)
  BY <1>1, <1>6 DEF Outcome
<1>7. CASE ~ IllFormed(doc, d) /\ d.kind # "import"
  <2>1. OutcomeOK(Attempt(d.location, documents[doc].target_namespace))
    BY <1>3, <1>4, <1>7, AttemptOK
  <2> QED BY <1>7, <2>1 DEF Outcome
<1>8. CASE ~ IllFormed(doc, d) /\ d.kind = "import"
  <2>1. d.location # NoLocation => OutcomeOK(Attempt(d.location, NoNamespace))
    BY <1>2, <1>4, AttemptOK
  <2>2. d.namespace \in DOMAIN world.catalog
           => OutcomeOK(Attempt(world.catalog[d.namespace], NoNamespace))
    BY <1>4, <1>5, AttemptOK
  <2>3. OutcomeOK(Import(d))
    BY <1>1, <2>1, <2>2 DEF Import
  <2> QED BY <1>8, <2>3 DEF Outcome
<1> QED BY <1>6, <1>7, <1>8

(* A directive names no document in its errors, and reports an import that *)
(* has read a document of another namespace.                               *)
LEMMA ErrorsTyped ==
    ASSUME NEW doc \in Doc, NEW d \in Directive, NEW outcome
    PROVE  /\ DirectiveErrors(doc, d, outcome) \in Seq(ErrorType)
           /\ \A i \in 1 .. Len(DirectiveErrors(doc, d, outcome)) :
                 DirectiveErrors(doc, d, outcome)[i].target = NoDocument
           /\ outcome = Outcome(doc, d) /\ outcome.result = "loaded"
                 /\ Mismatched(d, outcome)
              => /\ Len(DirectiveErrors(doc, d, outcome)) = 1
                 /\ DirectiveErrors(doc, d, outcome)[1].import
                 /\ DirectiveErrors(doc, d, outcome)[1].code = "src-import"
<1>1. ASSUME NEW code \in Code, NEW import \in BOOLEAN
      PROVE  /\ <<Error(doc, code, import)>> \in Seq(ErrorType)
             /\ Len(<<Error(doc, code, import)>>) = 1
             /\ <<Error(doc, code, import)>>[1].target = NoDocument
             /\ <<Error(doc, code, import)>>[1].import = import
             /\ <<Error(doc, code, import)>>[1].code = code
  <2>1. doc \in Nat /\ NoDocument \in Nat
    BY DEF Doc, NoDocument
  <2>2. Error(doc, code, import) \in ErrorType
    BY <2>1 DEF Error, ErrorType
  <2> QED BY <2>2 DEF Error
<1>2. <<>> \in Seq(ErrorType) /\ Len(<<>>) = 0
  OBVIOUS
<1> DEFINE found == DirectiveErrors(doc, d, outcome)
<1>3. \/ found = <<>>
      \/ \E code \in Code, import \in BOOLEAN : found = <<Error(doc, code, import)>>
  BY DEF DirectiveErrors, Code
<1>4. ASSUME outcome = Outcome(doc, d), outcome.result = "loaded", Mismatched(d, outcome)
      PROVE  found = <<Error(doc, "src-import", TRUE)>>
  <2>1. ~ IllFormed(doc, d)
    BY <1>4 DEF Outcome, Nothing
  <2> QED BY <1>4, <2>1 DEF DirectiveErrors
<1>5. found \in Seq(ErrorType) /\ \A i \in 1 .. Len(found) : found[i].target = NoDocument
  <2> HIDE DEF found
  <2>1. CASE found = <<>>
    BY <1>2, <2>1
  <2>2. ASSUME NEW code \in Code, NEW import \in BOOLEAN,
               found = <<Error(doc, code, import)>>
        PROVE  found \in Seq(ErrorType)
               /\ \A i \in 1 .. Len(found) : found[i].target = NoDocument
    <3>1. found \in Seq(ErrorType) /\ Len(found) = 1 /\ found[1].target = NoDocument
      BY <1>1, <2>2
    <3> QED BY <3>1
  <2> QED BY <1>3, <2>1, <2>2
<1>6. "src-import" \in Code /\ TRUE \in BOOLEAN
  BY DEF Code
<1>7. ASSUME outcome = Outcome(doc, d), outcome.result = "loaded", Mismatched(d, outcome)
      PROVE  Len(found) = 1 /\ found[1].import /\ found[1].code = "src-import"
  BY <1>1, <1>4, <1>6, <1>7
<1> QED BY <1>5, <1>7

(* What is remembered of a document that is loaded.                        *)
LEMMA LoadingRemembers ==
    ASSUME StateTyped, CachesCover, LoadedOnce, world' = world,
           NEW outcome, NEW location, NEW adopt, Loads(outcome, location, adopt),
           documents' = Append(documents, outcome.document),
           MarkLoaded(outcome)
    PROVE  CachesCover' /\ LoadedOnce'
<1> PICK new : new = Len(documents) + 1
  OBVIOUS
<1>1. /\ location \in Location /\ adopt \in MaybeNamespace
      /\ outcome.document = Adopted(location, adopt) /\ outcome.adopt = adopt
      /\ outcome.doc = new /\ Cached(location, adopt) = NoDocument
      /\ Parses(location, adopt)
  BY DEF Loads
<1> PICK document : document = Adopted(location, adopt)
  OBVIOUS
<1>2. /\ document.location = location
      /\ document.target_namespace = IF world.declared[location] = NoNamespace
                                     THEN adopt ELSE world.declared[location]
      /\ document \in View
  <2>1. world.declared[location] \in MaybeNamespace
    BY <1>1, WorldAssumption DEF StateTyped
  <2> QED BY <1>1, <2>1 DEF Adopted, View
<1>3. /\ Len(documents) \in Nat /\ LongerBy(documents', documents, document)
  <2>1. documents \in Seq(View)
    BY DEF StateTyped
  <2> QED BY <1>1, <1>2, <2>1, AppendedTo
<1>4. /\ documents'[new] = document
      /\ \A d \in Doc : documents'[d] = documents[d] /\ d < new /\ d \in Nat
      /\ \A d : d \in Doc' <=> (d \in Doc \/ d = new)
      /\ new \in Nat \ {0}
  BY <1>3 DEF LongerBy, Doc
<1>5. loaded_locations' =
         IF location \in DOMAIN loaded_locations THEN loaded_locations
         ELSE [l \in DOMAIN loaded_locations \cup {location} |->
                  IF l = location THEN new ELSE loaded_locations[l]]
  BY <1>1, <1>2 DEF MarkLoaded
<1>6. chameleon_cache' =
         IF ~ (world.declared[location] = NoNamespace /\ adopt # NoNamespace)
         THEN chameleon_cache
         ELSE [k \in DOMAIN chameleon_cache \cup {<<location, adopt>>} |->
                  IF k = <<location, adopt>> THEN new ELSE chameleon_cache[k]]
  BY <1>1, <1>2 DEF MarkLoaded
<1>7. /\ DOMAIN loaded_locations = {documents[d].location : d \in Doc}
      /\ \A d \in Doc : First(d) \in 1 .. d
                        /\ documents[First(d)].location = documents[d].location
      /\ \A k \in DOMAIN chameleon_cache : chameleon_cache[k] \in Doc
      /\ \A d \in Doc :
            IF world.declared[documents[d].location] # NoNamespace
            THEN documents[d].target_namespace = world.declared[documents[d].location]
            ELSE documents[d].target_namespace # NoNamespace =>
                    <<documents[d].location, documents[d].target_namespace>>
                       \in DOMAIN chameleon_cache
  BY DEF CachesCover
<1>8. DOMAIN loaded_locations' = {documents'[d].location : d \in Doc'}
  <2>1. DOMAIN loaded_locations' = DOMAIN loaded_locations \cup {location}
    BY <1>5
  <2> QED BY <1>2, <1>4, <1>7, <2>1
<1>9. ASSUME NEW d \in Doc'
      PROVE  /\ loaded_locations'[documents'[d].location] \in 1 .. d
             /\ documents'[loaded_locations'[documents'[d].location]].location
                   = documents'[d].location
  <2>1. ASSUME NEW e \in Doc
        PROVE  /\ loaded_locations'[documents[e].location] = First(e)
               /\ First(e) \in 1 .. e /\ First(e) \in Doc
               /\ documents'[First(e)].location = documents[e].location
    <3>1. documents[e].location \in DOMAIN loaded_locations
      BY <1>7
    <3>2. loaded_locations'[documents[e].location] = loaded_locations[documents[e].location]
      BY <1>5, <3>1
    <3>3. First(e) \in 1 .. e /\ First(e) \in Doc
      BY <1>7 DEF Doc
    <3> QED BY <1>4, <1>7, <3>2, <3>3 DEF First
  <2>2. CASE d \in Doc
    BY <1>4, <2>1, <2>2
  <2>3. CASE d = new /\ location \in DOMAIN loaded_locations
    <3>1. PICK e \in Doc : documents[e].location = location
      BY <1>7, <2>3
    <3>2. First(e) \in 1 .. new
      BY <1>4, <2>1, <3>1
    <3> QED BY <1>2, <1>4, <2>1, <2>3, <3>1, <3>2
  <2>4. CASE d = new /\ location \notin DOMAIN loaded_locations
    <3>1. loaded_locations'[location] = new
      BY <1>5, <2>4
    <3> QED BY <1>2, <1>4, <2>4, <3>1
  <2> QED BY <1>4, <2>2, <2>3, <2>4
<1>10. \A k \in DOMAIN chameleon_cache' : chameleon_cache'[k] \in Doc'
  BY <1>4, <1>6, <1>7
<1>11. ASSUME NEW d \in Doc'
       PROVE  IF world.declared[documents'[d].location] # NoNamespace
              THEN documents'[d].target_namespace = world.declared[documents'[d].location]
              ELSE documents'[d].target_namespace # NoNamespace =>
                      <<documents'[d].location, documents'[d].target_namespace>>
                         \in DOMAIN chameleon_cache'
  <2>1. DOMAIN chameleon_cache \subseteq DOMAIN chameleon_cache'
    BY <1>6
  <2>2. CASE d \in Doc
    BY <1>4, <1>7, <2>1, <2>2
  <2>3. CASE d = new
    BY <1>2, <1>4, <1>6, <2>3
  <2> QED BY <1>4, <2>2, <2>3
<1>12. CachesCover'
  BY <1>8, <1>9, <1>10, <1>11 DEF CachesCover, First
<1>13. ASSUME NEW i \in Doc, documents[i] = document
       PROVE  /\ document.target_namespace = NoNamespace
              /\ \E k \in 1 .. i - 1 :
                    /\ documents[k].location = documents[i].location
                    /\ documents[k].target_namespace # NoNamespace
  <2> PICK f : f = First(i)
    OBVIOUS
  <2>1. /\ f \in 1 .. i /\ f \in Doc /\ documents[f].location = location
        /\ documents[i].location = location
        /\ location \in DOMAIN loaded_locations /\ f = loaded_locations[location]
    BY SMTT(30), <1>2, <1>7, <1>13 DEF First, Doc
  <2>2. ~ (adopt # NoNamespace /\ <<location, adopt>> \in DOMAIN chameleon_cache)
    <3> SUFFICES ASSUME adopt # NoNamespace, <<location, adopt>> \in DOMAIN chameleon_cache
                 PROVE  FALSE
      OBVIOUS
    <3>1. Cached(location, adopt) \in Doc
      BY <1>7 DEF Cached
    <3> QED BY <1>1, <3>1 DEF Doc, NoDocument
  <2>3. f # NoDocument
    BY <2>1 DEF Doc, NoDocument
  <2>4. IsChameleon(f) \/ (documents[f].target_namespace = NoNamespace
                           /\ adopt # NoNamespace)
    BY <1>1, <2>1, <2>2, <2>3 DEF Cached
  <2>5. world.declared[location] = NoNamespace
    BY <1>7, <2>1, <2>4 DEF IsChameleon
  <2>6. adopt = NoNamespace
    BY <1>2, <1>7, <1>13, <2>1, <2>2, <2>5
  <2>7. documents[f].target_namespace # NoNamespace /\ document.target_namespace = NoNamespace
    BY <1>2, <2>4, <2>5, <2>6 DEF IsChameleon
  <2>8. f \in 1 .. i - 1
    BY <1>13, <2>1, <2>7 DEF Doc
  <2> QED BY <2>1, <2>7, <2>8
<1>14. LoadedOnce'
  <2> SUFFICES ASSUME NEW i \in Doc', NEW j \in Doc', i < j, documents'[i] = documents'[j]
               PROVE  /\ documents'[i].target_namespace = NoNamespace
                      /\ \E k \in 1 .. i - 1 :
                            /\ documents'[k].location = documents'[i].location
                            /\ documents'[k].target_namespace # NoNamespace
    BY DEF LoadedOnce, Doc
  <2>1. i \in Doc
    BY <1>4
  <2>2. /\ documents[i].target_namespace = NoNamespace
        /\ \E k \in 1 .. i - 1 :
              /\ documents[k].location = documents[i].location
              /\ documents[k].target_namespace # NoNamespace
    <3>1. CASE j \in Doc
      BY <1>4, <2>1, <3>1 DEF LoadedOnce, Doc
    <3>2. CASE j = new
      BY <1>4, <1>13, <2>1, <3>2
    <3> QED BY <1>4, <3>1, <3>2
  <2>3. \A k \in 1 .. i - 1 : k \in Doc
    BY <1>3, <2>1 DEF Doc
  <2> QED BY <1>4, <2>1, <2>2, <2>3
<1> QED BY <1>12, <1>14

(* The top frame when one more of its directives is resolved.              *)
LEMMA ResolvedFrame ==
    ASSUME NEW top \in FrameType, NEW found \in Seq(ErrorType), NEW loaded \in Seq(Nat)
    PROVE  \E new \in FrameType :
              /\ new = [top EXCEPT !.resolved = @ + 1, !.errors = @ \o found,
                                   !.loaded = loaded]
              /\ new.doc = top.doc /\ new.resolved = top.resolved + 1
              /\ new.loaded = loaded /\ new.next = top.next
              /\ new.errors = top.errors \o found
<1>1. top.resolved \in Nat /\ top.errors \in Seq(ErrorType)
  BY DEF FrameType
<1>2. top.errors \o found \in Seq(ErrorType) /\ top.resolved + 1 \in Nat
  BY <1>1
<1> DEFINE new == [top EXCEPT !.resolved = @ + 1, !.errors = @ \o found,
                              !.loaded = loaded]
<1>3. /\ new \in FrameType
      /\ new.doc = top.doc /\ new.resolved = top.resolved + 1
      /\ new.loaded = loaded /\ new.next = top.next
      /\ new.errors = top.errors \o found
  BY <1>2 DEF FrameType
<1> QED BY <1>3

(* A directive of the top document is resolved.                            *)
LEMMA ResolveKeepsInv ==
    ASSUME WalkInv, ResolveDirective
    PROVE  WalkInv'
<1>0. /\ StateTyped /\ DocumentsKnown /\ CachesCover /\ LoadedOnce
      /\ \A doc \in Doc : WellPlaced(doc)
  BY DEF WalkInv
<1>N. PICK N : N = Len(stack)
  OBVIOUS
<1>t. PICK top : top = Top
  OBVIOUS
<1>d. PICK d : d = Directives(top.doc)[top.resolved + 1]
  OBVIOUS
<1>o. PICK outcome : outcome = Outcome(top.doc, d)
  OBVIOUS
<1>f. PICK found : found = DirectiveErrors(top.doc, d, outcome)
  OBVIOUS
<1> DEFINE accepted == Succeeds(outcome) /\ ~ Mismatched(d, outcome)
           edge == [source |-> top.doc, target |-> outcome.doc, kind |-> d.kind]
           Grown == outcome.result = "loaded"
           reads == accepted /\ Grown
           frame == [top EXCEPT !.resolved = @ + 1, !.errors = @ \o found,
                                !.loaded = IF reads THEN Append(@, outcome.doc) ELSE @]
<1>l. PICK loaded : loaded = IF reads THEN Append(top.loaded, outcome.doc) ELSE top.loaded
  OBVIOUS
<1>n. PICK fresh : fresh = Len(documents) + 1
  OBVIOUS
<1>1. /\ stack # <<>> /\ top.resolved < Len(Directives(top.doc))
      /\ UNCHANGED <<world, starts, deferred, errors, visits, done>>
  BY <1>t DEF ResolveDirective
<1>2. /\ IF Grown
         THEN documents' = Append(documents, outcome.document) /\ MarkLoaded(outcome)
         ELSE UNCHANGED loading
      /\ composition_edges' = IF accepted THEN Append(composition_edges, edge)
                              ELSE composition_edges
      /\ stack' = Append(Below, frame)
  BY <1>t, <1>d, <1>o, <1>f DEF ResolveDirective
<1>3. frame = [top EXCEPT !.resolved = @ + 1, !.errors = @ \o found, !.loaded = loaded]
  BY <1>l
<1> HIDE DEF accepted, edge, Grown, reads, frame
<1>4. /\ N \in Nat \ {0} /\ top = stack[N] /\ top \in FrameType /\ FrameKnown(top)
  BY <1>N, <1>t, <1>0, <1>1, TopTyped
<1>5. /\ top.doc \in Nat /\ top.resolved \in Nat /\ top.loaded \in Seq(Nat)
      /\ top.next \in Nat /\ top.errors \in Seq(ErrorType) /\ Len(top.loaded) \in Nat
  BY <1>4 DEF FrameType
<1>6. /\ top.doc \in Doc /\ top.resolved \in 0 .. Len(Directives(top.doc))
      /\ top.next \in 1 .. Len(top.loaded) + 1
      /\ \A j \in 1 .. Len(top.loaded) : top.loaded[j] \in Doc
      /\ \A j \in 1 .. Len(top.errors) : top.errors[j].target = NoDocument
  BY <1>4 DEF FrameKnown
<1>7. Directives(top.doc) \in Seq(Directive) /\ Len(Directives(top.doc)) \in Nat
  BY <1>0, <1>6, DirectivesTyped
<1>8. d \in Directive /\ top.resolved + 1 \in 0 .. Len(Directives(top.doc))
  <2>1. top.resolved + 1 \in 1 .. Len(Directives(top.doc))
    BY <1>1, <1>5, <1>7
  <2> QED BY <1>d, <1>7, <2>1
<1>9. OutcomeOK(outcome)
  BY <1>o, <1>0, <1>6, <1>8, OutcomeIsOK
<1>10. /\ found \in Seq(ErrorType)
       /\ \A i \in 1 .. Len(found) : found[i].target = NoDocument
       /\ Grown /\ Mismatched(d, outcome) =>
             Len(found) = 1 /\ found[1].import /\ found[1].code = "src-import"
  BY <1>o, <1>f, <1>6, <1>8, ErrorsTyped DEF Grown
<1>11. Len(documents) \in Nat /\ fresh \in Nat \ {0} /\ \A doc \in Doc : doc # fresh
  <2>1. Len(documents) \in Nat
    BY <1>0 DEF StateTyped
  <2> QED BY <1>n, <2>1 DEF Doc
<1>12. Grown => outcome.doc = fresh
  BY <1>n, <1>9 DEF OutcomeOK, Loads, Grown
<1>13. /\ \A doc : doc \in Doc' <=> (doc \in Doc \/ (Grown /\ doc = fresh))
       /\ \A doc \in Doc : documents'[doc] = documents[doc]
       /\ documents' \in Seq(View)
       /\ Len(documents) <= Len(documents') /\ Len(documents') \in Nat
  <2>1. documents \in Seq(View)
    BY <1>0 DEF StateTyped
  <2>2. CASE Grown
    <3>1. PICK location, adopt : Loads(outcome, location, adopt)
      BY <1>9, <2>2 DEF OutcomeOK, Grown
    <3>2. world.declared[location] \in MaybeNamespace
      BY <1>0, <3>1, WorldAssumption DEF StateTyped, Loads
    <3>3. outcome.document \in View
      BY <3>1, <3>2 DEF Loads, Adopted, View
    <3>4. documents' \in Seq(View) /\ LongerBy(documents', documents, outcome.document)
      BY <1>2, <2>1, <2>2, <3>3, AppendedTo
    <3>5. Len(documents') = fresh
      BY <1>n, <3>4 DEF LongerBy
    <3> QED BY <1>n, <1>11, <2>2, <3>4, <3>5 DEF LongerBy, Doc
  <2>3. CASE ~ Grown
    <3>1. documents' = documents
      BY <1>2, <2>3 DEF loading
    <3> QED BY <1>11, <2>1, <2>3, <3>1 DEF Doc
  <2> QED BY <2>2, <2>3
<1>14. accepted => outcome.doc \in Doc'
  BY <1>9, <1>12, <1>13 DEF accepted, Succeeds, OutcomeOK, Grown
<1>15. /\ loaded \in Seq(Nat) /\ Len(loaded) \in Nat
       /\ reads => LongerBy(loaded, top.loaded, fresh)
       /\ ~ reads => loaded = top.loaded
  <2>1. CASE reads
    <3>1. loaded = Append(top.loaded, fresh) /\ fresh \in Nat
      BY <1>l, <1>11, <1>12, <2>1 DEF reads
    <3>2. loaded \in Seq(Nat) /\ LongerBy(loaded, top.loaded, fresh)
      BY <1>5, <3>1, AppendedTo
    <3> QED BY <2>1, <3>2
  <2>2. CASE ~ reads
    BY <1>l, <1>5, <2>2
  <2> QED BY <2>1, <2>2
<1>16. PICK new \in FrameType :
       /\ new = frame /\ new.doc = top.doc /\ new.resolved = top.resolved + 1
       /\ new.loaded = loaded /\ new.next = top.next
       /\ new.errors = top.errors \o found
  <2>1. PICK new \in FrameType :
           /\ new = [top EXCEPT !.resolved = @ + 1, !.errors = @ \o found,
                                !.loaded = loaded]
           /\ new.doc = top.doc /\ new.resolved = top.resolved + 1
           /\ new.loaded = loaded /\ new.next = top.next
           /\ new.errors = top.errors \o found
    BY <1>4, <1>10, <1>15, ResolvedFrame
  <2>2. new = frame
    BY <1>3, <2>1
  <2> QED BY <2>1, <2>2
<1>17. /\ stack' \in Seq(FrameType) /\ Len(stack') = N /\ stack'[N] = new
       /\ \A i \in 1 .. N - 1 : stack'[i] = stack[i]
       /\ \A i : i \in 1 .. N <=> (i \in 1 .. N - 1 \/ i = N)
  BY <1>N, <1>0, <1>1, <1>2, <1>16, TopReplaced
<1>18. /\ Len(new.errors) \in Nat
       /\ \A i \in 1 .. Len(top.errors) :
             i \in 1 .. Len(new.errors) /\ new.errors[i] = top.errors[i]
       /\ \A i \in 1 .. Len(found) :
             \E k \in 1 .. Len(new.errors) : new.errors[k] = found[i]
       /\ \A i \in 1 .. Len(new.errors) : new.errors[i].target = NoDocument
  <2>1. /\ Len(new.errors) = Len(top.errors) + Len(found)
        /\ Len(top.errors) \in Nat /\ Len(found) \in Nat
        /\ \A i \in 1 .. Len(top.errors) : new.errors[i] = top.errors[i]
        /\ \A i \in 1 .. Len(found) : new.errors[Len(top.errors) + i] = found[i]
        /\ \A i \in 1 .. Len(top.errors) + Len(found) :
              \/ i \in 1 .. Len(top.errors)
              \/ i - Len(top.errors) \in 1 .. Len(found)
                 /\ new.errors[i] = found[i - Len(top.errors)]
    BY <1>5, <1>10, <1>16, Concatenated
  <2>2. \A i \in 1 .. Len(found) : Len(top.errors) + i \in 1 .. Len(new.errors)
    BY <2>1
  <2>3. \A i \in 1 .. Len(top.errors) : i \in 1 .. Len(new.errors)
    BY <2>1
  <2>4. \A i \in 1 .. Len(new.errors) : new.errors[i].target = NoDocument
    <3> TAKE i \in 1 .. Len(new.errors)
    <3>1. i \in 1 .. Len(top.errors) + Len(found)
      BY <2>1
    <3>2. CASE i \in 1 .. Len(top.errors)
      BY <1>6, <2>1, <3>2
    <3>3. CASE i - Len(top.errors) \in 1 .. Len(found)
               /\ new.errors[i] = found[i - Len(top.errors)]
      BY <1>10, <3>3
    <3> QED BY <2>1, <3>1, <3>2, <3>3
  <2>5. \A i \in 1 .. Len(found) : \E k \in 1 .. Len(new.errors) : new.errors[k] = found[i]
    BY <2>1, <2>2
  <2>6. Len(new.errors) \in Nat
    BY <2>1
  <2> QED BY <2>1, <2>3, <2>4, <2>5, <2>6
<1>19. composition_edges \in Seq(EdgeType)
  BY <1>0 DEF StateTyped
<1>20. /\ composition_edges' \in Seq(EdgeType)
       /\ accepted => LongerBy(composition_edges', composition_edges, edge)
       /\ ~ accepted => composition_edges' = composition_edges
  <2>1. CASE accepted
    <3>1. d.kind \in {"include", "import", "redefine", "override"}
      BY <1>8 DEF Directive
    <3>2. outcome.doc \in Nat
      BY <1>13, <1>14, <2>1 DEF Doc
    <3>3. edge \in EdgeType
      BY <1>5, <3>1, <3>2 DEF edge, EdgeType
    <3>4. composition_edges' = Append(composition_edges, edge)
      BY <1>2, <2>1
    <3>5. /\ composition_edges' \in Seq(EdgeType)
          /\ LongerBy(composition_edges', composition_edges, edge)
      BY <1>19, <3>3, <3>4, AppendedTo
    <3> QED BY <2>1, <3>5
  <2>2. CASE ~ accepted
    BY <1>2, <1>19, <2>2
  <2> QED BY <2>1, <2>2
<1>21. StateTyped'
  BY <1>0, <1>1, <1>13, <1>17, <1>20 DEF StateTyped
<1>22. (\A e \in Doc : Directives(e)' = Directives(e)) /\ \A e \in Doc : e \in Doc'
  BY <1>1, <1>13 DEF Directives
<1>23. DocumentsKnown'
  <2>1. \A f : FrameKnown(f) => FrameKnown(f)'
    BY <1>22 DEF FrameKnown
  <2>2. FrameKnown(new)'
    <3>1. new.resolved \in 0 .. Len(Directives(new.doc))' /\ new.doc \in Doc'
      BY <1>6, <1>8, <1>16, <1>22
    <3>2. new.next \in 1 .. Len(new.loaded) + 1
      <4>1. CASE reads
        <5>1. Len(loaded) = Len(top.loaded) + 1
          BY <1>15, <4>1 DEF LongerBy
        <5> QED BY <1>5, <1>6, <1>16, <5>1
      <4>2. CASE ~ reads
        BY <1>6, <1>15, <1>16, <4>2
      <4> QED BY <4>1, <4>2
    <3>3. \A j \in 1 .. Len(new.loaded) : new.loaded[j] \in Doc'
      <4>1. CASE reads
        <5>1. fresh \in Doc'
          BY <1>13, <4>1 DEF reads
        <5> QED BY <1>6, <1>15, <1>16, <1>22, <4>1, <5>1 DEF LongerBy
      <4>2. CASE ~ reads
        BY <1>6, <1>15, <1>16, <1>22, <4>2
      <4> QED BY <4>1, <4>2
    <3> QED BY <1>18, <3>1, <3>2, <3>3 DEF FrameKnown
  <2>3. (\A i \in 1 .. Len(stack) : FrameKnown(stack[i]))'
    <3> SUFFICES ASSUME NEW i \in 1 .. Len(stack') PROVE FrameKnown(stack[i])'
      OBVIOUS
    <3>1. ASSUME NEW k \in 1 .. N - 1 PROVE FrameKnown(stack[k])
      BY <1>N, <1>0, <1>17 DEF DocumentsKnown
    <3> QED BY <1>17, <2>1, <2>2, <3>1
  <2>4. \A i \in 1 .. Len(composition_edges') :
           composition_edges'[i].source \in Doc' /\ composition_edges'[i].target \in Doc'
    <3>1. \A i \in 1 .. Len(composition_edges) :
             composition_edges[i].source \in Doc' /\ composition_edges[i].target \in Doc'
      BY <1>0, <1>22 DEF DocumentsKnown
    <3>2. CASE accepted
      <4>1. edge.source \in Doc' /\ edge.target \in Doc'
        BY <1>6, <1>14, <1>22, <3>2 DEF edge
      <4>2. \A i \in 1 .. Len(composition_edges') :
               \/ i \in 1 .. Len(composition_edges)
                  /\ composition_edges'[i] = composition_edges[i]
               \/ composition_edges'[i] = edge
        BY <1>20, <3>2 DEF LongerBy
      <4> QED BY <3>1, <4>1, <4>2
    <3>3. CASE ~ accepted
      BY <1>20, <3>1, <3>3
    <3> QED BY <3>2, <3>3
  <2>5. Len(world.roots)' <= Len(documents')
    <3>1. Len(world.roots) <= Len(documents) /\ Len(world.roots) \in Nat
      BY <1>0, WorldAssumption DEF DocumentsKnown, StateTyped
    <3> QED BY <1>1, <1>11, <1>13, <3>1
  <2>6. \A i \in 1 .. Len(errors) : errors[i].target \in 0 .. Len(documents')
    <3>1. \A i \in 1 .. Len(errors) : errors[i].target \in 0 .. Len(documents)
      BY <1>0 DEF DocumentsKnown
    <3> QED BY <1>11, <1>13, <3>1
  <2>7. /\ \A i \in 1 .. Len(starts) : starts[i].doc \in Doc'
        /\ \A i \in 1 .. Len(deferred) :
              deferred[i][1] \in Doc' /\ deferred[i][2] \in Doc'
        /\ \A i \in 1 .. Len(visits) : visits[i].doc \in Doc'
    BY <1>0, <1>22 DEF DocumentsKnown
  <2> QED BY <1>1, <2>3, <2>4, <2>5, <2>6, <2>7 DEF DocumentsKnown
<1>24. CachesCover' /\ LoadedOnce'
  <2>1. CASE Grown
    <3>1. PICK location, adopt : Loads(outcome, location, adopt)
      BY <1>9, <2>1 DEF OutcomeOK, Grown
    <3>2. documents' = Append(documents, outcome.document) /\ MarkLoaded(outcome)
      BY <1>2, <2>1
    <3> QED BY <1>0, <1>1, <3>1, <3>2, LoadingRemembers
  <2>2. CASE ~ Grown
    BY <1>0, <1>1, <1>2, <2>2, LoadingKept
  <2> QED BY <2>1, <2>2
<1>25. \A i \in 1 .. Len(stack) :
          /\ i \in 1 .. Len(stack')
          /\ \A j \in 1 .. Len(stack[i].errors) :
                j \in 1 .. Len(stack'[i].errors) /\ stack'[i].errors[j] = stack[i].errors[j]
  <2> TAKE i \in 1 .. Len(stack)
  <2>1. i \in 1 .. N - 1 \/ i = N
    BY <1>N, <1>17
  <2> QED BY <1>N, <1>4, <1>17, <1>18, <2>1
<1>26. Misread => Misread'
  <2> SUFFICES ASSUME Misread PROVE Misread'
    OBVIOUS
  <2>1. CASE \E i \in 1 .. Len(errors) :
                errors[i].import /\ errors[i].code = "src-import"
    BY <1>1, <2>1 DEF Misread
  <2>2. ASSUME NEW k \in 1 .. Len(stack), NEW i \in 1 .. Len(stack[k].errors),
               stack[k].errors[i].import, stack[k].errors[i].code = "src-import"
        PROVE  Misread'
    <3>1. /\ k \in 1 .. Len(stack') /\ i \in 1 .. Len(stack'[k].errors)
          /\ stack'[k].errors[i].import /\ stack'[k].errors[i].code = "src-import"
      BY <1>25, <2>2
    <3> QED BY <3>1 DEF Misread, Frames
  <2> QED BY <2>1, <2>2 DEF Misread, Frames
<1>27. Grown /\ ~ reads => Misread'
  <2> SUFFICES ASSUME Grown, ~ reads PROVE Misread'
    OBVIOUS
  <2>1. Mismatched(d, outcome)
    BY DEF reads, accepted, Grown, Succeeds
  <2>2. Len(found) = 1 /\ found[1].import /\ found[1].code = "src-import"
    BY <1>10, <2>1
  <2>3. PICK k \in 1 .. Len(new.errors) : new.errors[k] = found[1]
    BY <1>18, <2>2
  <2>4. N \in 1 .. Len(stack') /\ stack'[N] = new
    BY <1>4, <1>17
  <2> QED BY <2>2, <2>3, <2>4 DEF Misread, Frames
<1>28. /\ \A doc : Added(doc)' = Added(doc)
       /\ \A doc : Accepted(doc) => Accepted(doc)'
       /\ reads => Accepted(fresh)'
  <2>1. \A doc : Accepted(doc) => Accepted(doc)'
    <3>1. CASE accepted
      BY <1>20, <3>1 DEF Accepted, LongerBy
    <3>2. CASE ~ accepted
      BY <1>20, <3>2 DEF Accepted
    <3> QED BY <3>1, <3>2
  <2>2. reads => Accepted(fresh)'
    <3> SUFFICES ASSUME reads PROVE Accepted(fresh)'
      OBVIOUS
    <3>1. LongerBy(composition_edges', composition_edges, edge) /\ edge.target = fresh
      BY <1>12, <1>20 DEF reads, edge
    <3>2. Len(composition_edges) + 1 \in 1 .. Len(composition_edges')
          /\ composition_edges'[Len(composition_edges) + 1].target = fresh
      BY <3>1 DEF LongerBy
    <3> QED BY <3>2 DEF Accepted
  <2> QED BY <1>1, <2>1, <2>2 DEF Added
<1>29. \A doc : doc # fresh => Turns(new, doc) = Turns(top, doc)
  <2> SUFFICES ASSUME NEW doc, doc # fresh PROVE Turns(new, doc) = Turns(top, doc)
    OBVIOUS
  <2>1. CASE reads
    <3>1. \A j \in top.next .. Len(top.loaded) : j \in 1 .. Len(top.loaded)
      BY <1>5, <1>6
    <3>2. \A j : j \in top.next .. Len(loaded)
                    <=> (j \in top.next .. Len(top.loaded) \/ j = Len(top.loaded) + 1)
      BY <1>5, <1>6, <1>15, <2>1 DEF LongerBy
    <3> QED BY <1>15, <1>16, <2>1, <3>1, <3>2 DEF Turns, LongerBy
  <2>2. CASE ~ reads
    BY <1>15, <1>16, <2>2 DEF Turns
  <2> QED BY <2>1, <2>2
<1>30. ASSUME NEW doc \in Doc PROVE WellPlaced(doc)'
  <2>1. \A p : PlaceOf(doc, p)' <=> PlaceOf(doc, p)
    <3> TAKE p
    <3>1. doc # fresh
      BY <1>11
    <3>2. (\E i \in 1 .. Len(stack') : \E j \in Turns(stack'[i], doc) :
              p = <<"frame", i, j>>)
          <=> (\E i \in 1 .. Len(stack) : \E j \in Turns(stack[i], doc) :
                  p = <<"frame", i, j>>)
      <4>1. ASSUME NEW i \in 1 .. N
            PROVE  Turns(stack'[i], doc) = Turns(stack[i], doc)
        BY <1>4, <1>17, <1>29, <3>1
      <4> QED BY <1>N, <1>17, <4>1
    <3> QED BY <1>1, <3>2 DEF PlaceOf
  <2>2. Places(doc)' = Places(doc)
    <3>1. \A p : p \in Places(doc) <=> PlaceOf(doc, p)
      BY PlaceForms
    <3>2. \A p : p \in Places(doc)' <=> PlaceOf(doc, p)'
      BY NextPlaceForms
    <3> QED BY <2>1, <3>1, <3>2
  <2>3. WellPlaced(doc)
    BY <1>0
  <2> QED BY <1>26, <1>28, <2>2, <2>3 DEF WellPlaced
<1>31. ASSUME Grown PROVE WellPlaced(fresh)'
  <2> DEFINE turn == <<"frame", N, Len(top.loaded) + 1>>
  <2>1. /\ \A i \in 1 .. N - 1 : Turns(stack[i], fresh) = {}
        /\ Turns(top, fresh) = {}
    <3>1. ASSUME NEW f, f \in FrameType, FrameKnown(f) PROVE Turns(f, fresh) = {}
      <4>1. f.next \in 1 .. Len(f.loaded) + 1 /\ Len(f.loaded) \in Nat
        BY <3>1 DEF FrameKnown, FrameType
      <4>2. \A j \in f.next .. Len(f.loaded) : j \in 1 .. Len(f.loaded)
        BY <4>1
      <4>3. \A j \in 1 .. Len(f.loaded) : f.loaded[j] # fresh
        BY <1>11, <3>1 DEF FrameKnown
      <4> QED BY <4>2, <4>3 DEF Turns
    <3>2. ASSUME NEW i \in 1 .. N - 1
          PROVE  stack[i] \in FrameType /\ FrameKnown(stack[i])
      <4>1. stack \in Seq(FrameType) /\ i \in 1 .. Len(stack)
        BY <1>N, <1>0, <1>17 DEF StateTyped
      <4> QED BY <1>0, <4>1 DEF DocumentsKnown
    <3> QED BY <1>4, <3>1, <3>2
  <2>2. \A j : j \in Turns(new, fresh) <=> reads /\ j = Len(top.loaded) + 1
    <3>1. CASE reads
      <4>1. \A j : j \in top.next .. Len(loaded)
                      <=> (j \in top.next .. Len(top.loaded) \/ j = Len(top.loaded) + 1)
        BY <1>5, <1>6, <1>15, <3>1 DEF LongerBy
      <4>2. \A j \in top.next .. Len(top.loaded) :
               j \in 1 .. Len(top.loaded) /\ top.loaded[j] # fresh
        <5>1. \A j \in top.next .. Len(top.loaded) : j \in 1 .. Len(top.loaded)
          BY <1>5, <1>6
        <5> QED BY <1>6, <1>11, <5>1
      <4>3. loaded[Len(top.loaded) + 1] = fresh
            /\ \A j \in 1 .. Len(top.loaded) : loaded[j] = top.loaded[j]
        BY <1>15, <3>1 DEF LongerBy
      <4> QED BY <1>16, <3>1, <4>1, <4>2, <4>3 DEF Turns
    <3>2. CASE ~ reads
      <4>1. Turns(new, fresh) = Turns(top, fresh)
        BY <1>15, <1>16, <3>2 DEF Turns
      <4> QED BY <2>1, <3>2, <4>1
    <3> QED BY <3>1, <3>2
  <2>3. \A p : p \in Places(fresh)' <=> reads /\ p = turn
    <3> TAKE p
    <3>1. (\E i \in 1 .. Len(stack') : \E j \in Turns(stack'[i], fresh) :
              p = <<"frame", i, j>>)
          <=> reads /\ p = turn
      BY <1>4, <1>17, <2>1, <2>2
    <3>2. /\ \A i \in 1 .. Len(starts) : starts[i].doc # fresh
          /\ \A i \in 1 .. Len(deferred) : deferred[i][2] # fresh
          /\ \A i \in 1 .. Len(visits) : visits[i].doc # fresh
      BY <1>0, <1>11 DEF DocumentsKnown
    <3>3. \A i \in 1 .. Len(errors) : errors[i].target # fresh
      <4>1. \A i \in 1 .. Len(errors) : errors[i].target \in 0 .. Len(documents)
        BY <1>0 DEF DocumentsKnown
      <4>2. \A k \in 0 .. Len(documents) : k # fresh
        BY <1>n, <1>11
      <4> QED BY <4>1, <4>2
    <3>4. PlaceOf(fresh, p)' <=> reads /\ p = turn
      BY <1>1, <3>1, <3>2, <3>3 DEF PlaceOf
    <3>5. p \in Places(fresh)' <=> PlaceOf(fresh, p)'
      BY NextPlaceForms
    <3> QED BY <3>4, <3>5
  <2>4. ~ Added(fresh)
    <3>1. Len(world.roots) <= Len(documents) /\ Len(world.roots) \in Nat
      BY <1>0, WorldAssumption DEF DocumentsKnown, StateTyped
    <3> QED BY <1>n, <1>11, <3>1 DEF Added
  <2> HIDE DEF turn
  <2> QED BY <1>27, <1>28, <1>31, <2>3, <2>4 DEF WellPlaced
<1>32. \A doc \in Doc' : WellPlaced(doc)'
  BY <1>13, <1>30, <1>31
<1> QED BY <1>21, <1>23, <1>24, <1>32 DEF WalkInv

-----------------------------------------------------------------------------
(* The documents that were added are to be walked first.                   *)
LEMMA InitWalkInv == Init => WalkInv
<1> SUFFICES ASSUME Init PROVE WalkInv
  OBVIOUS
<1> PICK n : n = Len(world.roots)
  OBVIOUS
<1>1. /\ world \in World /\ world.roots \in Seq(Location) /\ n \in Nat
      /\ \A i, j \in 1 .. n : world.roots[i] = world.roots[j] => i = j
      /\ world.declared \in [Location -> MaybeNamespace]
  BY WorldAssumption DEF Init
<1>2. \A i \in 1 .. n : world.roots[i] \in Location
                        /\ world.declared[world.roots[i]] \in MaybeNamespace
  BY <1>1
<1>3. /\ documents \in Seq(View) /\ Len(documents) = n
      /\ \A i \in 1 .. n :
            /\ documents[i].location = world.roots[i]
            /\ documents[i].target_namespace = world.declared[world.roots[i]]
  <2>1. documents = [i \in 1 .. n |->
           [location |-> world.roots[i],
            target_namespace |-> world.declared[world.roots[i]]]]
    BY DEF Init
  <2> QED BY <1>1, <1>2, <2>1 DEF View
<1>4. /\ starts \in Seq(StartType) /\ Len(starts) = n
      /\ \A i \in 1 .. n : starts[i].doc = i
  <2>1. starts = [i \in 1 .. n |-> Start(i, 0)]
    BY DEF Init
  <2>2. \A i \in 1 .. n : Start(i, 0) \in StartType /\ Start(i, 0).doc = i
    BY <1>1 DEF Start, StartType
  <2> QED BY <1>1, <2>1, <2>2
<1>5. Doc = 1 .. n
  BY <1>3 DEF Doc
<1>6. /\ stack = <<>> /\ deferred = <<>> /\ errors = <<>> /\ visits = <<>>
      /\ composition_edges = <<>> /\ done = FALSE
  BY DEF Init
<1>7. StateTyped
  <2>1. /\ composition_edges \in Seq(EdgeType) /\ stack \in Seq(FrameType)
        /\ deferred \in Seq(Nat \X Nat) /\ errors \in Seq(ErrorType)
        /\ visits \in Seq(VisitType)
    BY <1>6
  <2>2. done \in BOOLEAN
    BY <1>6
  <2> QED BY <1>1, <1>3, <1>4, <2>1, <2>2 DEF StateTyped
<1>8. DocumentsKnown
  BY <1>1, <1>3, <1>4, <1>5, <1>6 DEF DocumentsKnown
<1>9. ASSUME NEW i \in 1 .. n
      PROVE  /\ world.roots[i] \in DOMAIN loaded_locations
             /\ loaded_locations[world.roots[i]] = i
  <2>1. loaded_locations =
           [l \in {world.roots[k] : k \in 1 .. n} |->
               CHOOSE k \in 1 .. n : world.roots[k] = l]
    BY DEF Init
  <2>2. (CHOOSE k \in 1 .. n : world.roots[k] = world.roots[i]) = i
    BY <1>1
  <2> QED BY <2>1, <2>2
<1>10. CachesCover
  <2>1. DOMAIN loaded_locations = {documents[d].location : d \in Doc}
    BY <1>3, <1>5 DEF Init
  <2>2. \A d \in Doc : First(d) = d
    BY <1>3, <1>5, <1>9 DEF First
  <2>3. \A d \in Doc : d \in 1 .. d
    BY <1>1, <1>5
  <2>4. DOMAIN chameleon_cache = {}
    BY DEF Init
  <2>5. \A d \in Doc :
           IF world.declared[documents[d].location] # NoNamespace
           THEN documents[d].target_namespace = world.declared[documents[d].location]
           ELSE documents[d].target_namespace = NoNamespace
    BY <1>3, <1>5
  <2> QED BY <2>1, <2>2, <2>3, <2>4, <2>5 DEF CachesCover
<1>11. LoadedOnce
  BY <1>1, <1>3 DEF LoadedOnce
<1>12. ASSUME NEW doc \in Doc PROVE WellPlaced(doc)
  <2>1. \A p : p \in Places(doc) <=> p = <<"start", doc, 0>>
    <3>1. \A p : PlaceOf(doc, p) <=> p = <<"start", doc, 0>>
      BY <1>4, <1>5, <1>6 DEF PlaceOf
    <3> QED BY <3>1, PlaceForms
  <2>2. Added(doc)
    BY <1>1, <1>5 DEF Added
  <2>3. Places(doc) # {} /\ \A p, q \in Places(doc) : p = q
    <3>1. PICK place : place = <<"start", doc, 0>>
      OBVIOUS
    <3>2. \A p : p \in Places(doc) <=> p = place
      BY <2>1, <3>1
    <3> QED BY <3>2
  <2> QED BY <2>2, <2>3 DEF WellPlaced
<1> QED BY <1>7, <1>8, <1>10, <1>11, <1>12 DEF WalkInv

LEMMA StutterKeeps ==
    ASSUME WalkInv, UNCHANGED vars
    PROVE  WalkInv'
<1>0. /\ StateTyped /\ DocumentsKnown /\ CachesCover /\ LoadedOnce
      /\ \A doc \in Doc : WellPlaced(doc)
  BY DEF WalkInv
<1>1. UNCHANGED <<world, documents, loaded_locations, chameleon_cache,
                  composition_edges, starts, stack, deferred, errors, visits, done>>
  BY DEF vars, loading
<1>2. UNCHANGED <<world, loading, composition_edges>>
  BY DEF vars, loading
<1>3. StateTyped'
  BY <1>0, <1>1 DEF StateTyped
<1>4. DocumentsKnown'
  BY <1>0, <1>1 DEF DocumentsKnown, FrameKnown, Doc, Directives
<1>5. Misread => Misread'
  BY <1>1 DEF Misread, Frames
<1>6. ASSUME NEW doc \in Doc PROVE Kept(doc)
  <2>1. \A p : PlaceOf(doc, p)' <=> PlaceOf(doc, p)
    BY <1>1 DEF PlaceOf
  <2>2. Places(doc)' = Places(doc)
    <3>1. \A p : p \in Places(doc) <=> PlaceOf(doc, p)
      BY PlaceForms
    <3>2. \A p : p \in Places(doc)' <=> PlaceOf(doc, p)'
      BY NextPlaceForms
    <3> QED BY <2>1, <3>1, <3>2
  <2>3. \A p, q \in Places(doc) : p = q
    BY <1>0 DEF WellPlaced
  <2> QED BY <2>2, <2>3 DEF Kept
<1>7. CachesCover' /\ LoadedOnce'
  BY <1>0, <1>2, LoadingKept
<1>8. \A doc \in Doc' : WellPlaced(doc)'
  BY <1>0, <1>2, <1>5, <1>6, WellPlacedKept
<1> QED BY <1>3, <1>4, <1>7, <1>8 DEF WalkInv

LEMMA NextWalkInv == WalkInv /\ [Next]_vars => WalkInv'
<1> SUFFICES ASSUME WalkInv, [Next]_vars PROVE WalkInv'
  OBVIOUS
<1>1. CASE Begin
  BY <1>1, BeginKeeps
<1>2. CASE ResolveDirective
  BY <1>2, ResolveKeepsInv
<1>3. CASE Descend
  BY <1>3, DescendKeeps
<1>4. CASE Defer
  BY <1>4, DeferKeeps
<1>5. CASE Return
  BY <1>5, ReturnKeeps
<1>6. CASE Resume
  BY <1>6, ResumeKeepsInv
<1>7. CASE Finish
  BY <1>7, FinishKeeps
<1>8. CASE UNCHANGED vars
  BY <1>8, StutterKeeps
<1> QED BY <1>1, <1>2, <1>3, <1>4, <1>5, <1>6, <1>7, <1>8 DEF Next

-----------------------------------------------------------------------------
(* Every state of the walk is well formed: its documents are in one place  *)
(* each, and the caches of loaded locations cover what was loaded.         *)
THEOREM WalkInvariant == Spec => []WalkInv
BY InitWalkInv, NextWalkInv, PTL DEF Spec

LEMMA PlacedOnce == WalkInv => EachWalkedOnce
<1> SUFFICES ASSUME WalkInv PROVE EachWalkedOnce
  OBVIOUS
<1>0. /\ StateTyped /\ DocumentsKnown /\ CachesCover
      /\ \A doc \in Doc : WellPlaced(doc)
  BY DEF WalkInv
<1>1. TypeOK
  <2>1. documents \in Seq([location : Location, target_namespace : MaybeNamespace])
    BY <1>0 DEF StateTyped, View
  <2>2. \A l \in DOMAIN loaded_locations : loaded_locations[l] \in Doc
    <3> SUFFICES ASSUME NEW l \in DOMAIN loaded_locations
                 PROVE  loaded_locations[l] \in Doc
      OBVIOUS
    <3>1. PICK d \in Doc : documents[d].location = l
      BY <1>0 DEF CachesCover
    <3>2. loaded_locations[l] \in 1 .. d
      BY <1>0, <3>1 DEF CachesCover, First
    <3> QED BY <3>1, <3>2 DEF Doc
  <2>3. \A k \in DOMAIN chameleon_cache : chameleon_cache[k] \in Doc
    BY <1>0 DEF CachesCover
  <2>4. \A e \in Edges : {e.source, e.target} \subseteq Doc
    BY <1>0 DEF DocumentsKnown, Edges
  <2>5. \A frame \in Frames :
           /\ frame.doc \in Doc
           /\ frame.resolved \in 0 .. Len(Directives(frame.doc))
           /\ frame.next \in 1 .. Len(frame.loaded) + 1
    BY <1>0 DEF DocumentsKnown, FrameKnown, Frames
  <2>6. done \in BOOLEAN
    BY <1>0 DEF StateTyped
  <2> QED BY <2>1, <2>2, <2>3, <2>4, <2>5, <2>6 DEF TypeOK, Doc
<1>2. ASSUME NEW doc \in Doc
      PROVE  /\ \A p, q \in Places(doc) : p = q
             /\ doc <= Len(world.roots)
                   \/ ((\E e \in Edges : e.target = doc) /\ ~ Misread)
                => Places(doc) # {}
             /\ Places(doc) # {} =>
                   doc <= Len(world.roots) \/ \E e \in Edges : e.target = doc
  <2>1. Accepted(doc) <=> \E e \in Edges : e.target = doc
    BY DEF Accepted, Edges
  <2> QED BY <1>0, <2>1 DEF WellPlaced, Added
<1> QED BY <1>1, <1>2 DEF EachWalkedOnce, Doc

(* No document is lost by the walk and none is walked twice, whatever is   *)
(* deferred and resumed (resolve_directive_closure, resume_deferred).      *)
THEOREM WalksEachOnce == Spec => []EachWalkedOnce
BY WalkInvariant, PlacedOnce, PTL

(* A document is loaded again only as it is, after it was adopted into a   *)
(* namespace (check_loaded_cache, mark_loaded_chameleon_aware).            *)
THEOREM LoadsOnce == Spec => []LoadedOnce
<1>1. WalkInv => LoadedOnce
  BY DEF WalkInv
<1> QED BY <1>1, WalkInvariant, PTL
-----------------------------------------------------------------------------
(* The order of the errors.  Each open document was reached from the one   *)
(* that read it, below a start, and its errors are collected when it       *)
(* closes, after which it is not walked again.                             *)
Visited(doc) == \E v \in 1 .. Len(visits) : visits[v].doc = doc
VisitedFromStart(doc) == \E v \in 1 .. Len(visits) : visits[v].doc = doc /\ visits[v].start

FrameOrdered(frame) ==
    /\ Visited(frame.doc)
    /\ \A j \in 1 .. Len(frame.errors) : frame.errors[j].doc = frame.doc
    /\ \A j \in 1 .. Len(frame.loaded) : ReadBy(frame.loaded[j], frame.doc)

StackOrdered ==
    /\ \A k \in 1 .. Len(stack) : FrameOrdered(stack[k])
    /\ \A k, l \in 1 .. Len(stack) : stack[k].doc = stack[l].doc => k = l
    /\ stack # <<>> => VisitedFromStart(stack[1].doc)
    /\ \A k \in 1 .. Len(stack) - 1 : ReadBy(stack[k + 1].doc, stack[k].doc)

VisitsAccepted == \A v \in 1 .. Len(visits) : visits[v].start \/ Accepted(visits[v].doc)

(* The documents of the errors collected so far are closed.                *)
ErrorsClosed ==
    \A i \in 1 .. Len(errors) :
        errors[i].code # "depth" =>
            /\ Visited(errors[i].doc)
            /\ \A k \in 1 .. Len(stack) : stack[k].doc # errors[i].doc

(* ErrorsAfterReads, over the predicates above.                            *)
ErrorsInOrder ==
    \A i, j \in 1 .. Len(errors) :
        /\ errors[i].code # "depth" /\ errors[j].code # "depth"
        /\ ReadBy(errors[i].doc, errors[j].doc)
        /\ ~ VisitedFromStart(errors[i].doc)
        => i < j

OrderInv == StackOrdered /\ VisitsAccepted /\ ErrorsClosed /\ ErrorsInOrder

(* The document that read another is the source of the first edge to it.   *)
LEMMA ReadOnce ==
    ASSUME NEW doc, NEW a, NEW b, ReadBy(doc, a), ReadBy(doc, b)
    PROVE  a = b
<1>1. PICK i \in 1 .. Len(composition_edges) :
         /\ composition_edges[i].source = a /\ composition_edges[i].target = doc
         /\ \A k \in 1 .. i - 1 : composition_edges[k].target # doc
  BY DEF ReadBy
<1>2. PICK j \in 1 .. Len(composition_edges) :
         /\ composition_edges[j].source = b /\ composition_edges[j].target = doc
         /\ \A k \in 1 .. j - 1 : composition_edges[k].target # doc
  BY DEF ReadBy
<1>3. ~ i < j /\ ~ j < i
  <2>1. i < j => i \in 1 .. j - 1
    OBVIOUS
  <2>2. j < i => j \in 1 .. i - 1
    OBVIOUS
  <2> QED BY <1>1, <1>2, <2>1, <2>2
<1>4. i = j
  BY <1>3
<1> QED BY <1>1, <1>2, <1>4

LEMMA ReadIsAccepted ==
    ASSUME NEW doc, NEW reader, ReadBy(doc, reader)
    PROVE  Accepted(doc)
BY DEF ReadBy, Accepted

(* One more edge makes no other reader of a document that was read.        *)
LEMMA ReadersStay ==
    ASSUME composition_edges \in Seq(EdgeType), NEW edge \in EdgeType,
           composition_edges' \in {composition_edges, Append(composition_edges, edge)}
    PROVE  /\ \A doc, reader : ReadBy(doc, reader) => ReadBy(doc, reader)'
           /\ \A doc, reader : Accepted(doc) /\ ReadBy(doc, reader)' => ReadBy(doc, reader)
           /\ \A doc : Accepted(doc) => Accepted(doc)'
           /\ composition_edges' = Append(composition_edges, edge) /\ ~ Accepted(edge.target)
                 => ReadBy(edge.target, edge.source)'
<1>1. PICK es, n : es = composition_edges /\ n = Len(es)
  OBVIOUS
<1>2. PICK fs : fs = composition_edges'
  OBVIOUS
<1>3. n \in Nat /\ es \in Seq(EdgeType)
  BY <1>1
<1>4. /\ Len(fs) >= n /\ Len(fs) \in Nat
      /\ \A i \in 1 .. n : fs[i] = es[i] /\ i \in 1 .. Len(fs)
      /\ \A i \in 1 .. Len(fs) : i \in 1 .. n \/ i = n + 1
  <2>1. CASE fs = es
    BY <1>1, <1>3, <2>1
  <2>2. CASE fs = Append(es, edge)
    <3>1. LongerBy(fs, es, edge)
      BY <1>3, <2>2, AppendedTo
    <3> QED BY <1>1, <1>3, <3>1 DEF LongerBy
  <2> QED BY <1>1, <1>2, <2>1, <2>2
<1>5. ASSUME NEW doc, NEW reader, ReadBy(doc, reader) PROVE ReadBy(doc, reader)'
  <2>1. PICK i \in 1 .. n : /\ es[i].source = reader /\ es[i].target = doc
                            /\ \A k \in 1 .. i - 1 : es[k].target # doc
    BY <1>1, <1>5 DEF ReadBy
  <2>2. \A k \in 1 .. i - 1 : k \in 1 .. n
    BY <1>3
  <2>3. /\ i \in 1 .. Len(fs) /\ fs[i].source = reader /\ fs[i].target = doc
        /\ \A k \in 1 .. i - 1 : fs[k].target # doc
    BY <1>4, <2>1, <2>2
  <2> QED BY <1>2, <2>3 DEF ReadBy
<1>6. ASSUME NEW doc, NEW reader, Accepted(doc), ReadBy(doc, reader)'
      PROVE  ReadBy(doc, reader)
  <2>1. PICK i \in 1 .. Len(fs) : /\ fs[i].source = reader /\ fs[i].target = doc
                                  /\ \A k \in 1 .. i - 1 : fs[k].target # doc
    BY <1>2, <1>6 DEF ReadBy
  <2>2. PICK j \in 1 .. n : es[j].target = doc
    BY <1>1, <1>6 DEF Accepted
  <2>3. i \in 1 .. n
    <3> SUFFICES ASSUME i = n + 1 PROVE FALSE
      BY <1>4
    <3>1. j \in 1 .. i - 1
      BY <1>3
    <3> QED BY <1>4, <2>1, <2>2, <3>1
  <2>4. \A k \in 1 .. i - 1 : k \in 1 .. n
    BY <1>3, <2>3
  <2>5. /\ es[i].source = reader /\ es[i].target = doc
        /\ \A k \in 1 .. i - 1 : es[k].target # doc
    BY <1>4, <2>1, <2>3, <2>4
  <2> QED BY <1>1, <2>3, <2>5 DEF ReadBy
<1>7. ASSUME NEW doc, Accepted(doc) PROVE Accepted(doc)'
  <2>1. PICK i \in 1 .. n : es[i].target = doc
    BY <1>1, <1>7 DEF Accepted
  <2>2. i \in 1 .. Len(fs) /\ fs[i].target = doc
    BY <1>4, <2>1
  <2> QED BY <1>2, <2>2 DEF Accepted
<1>8. ASSUME fs = Append(es, edge), ~ Accepted(edge.target)
      PROVE  ReadBy(edge.target, edge.source)'
  <2>1. LongerBy(fs, es, edge)
    BY <1>3, <1>8, AppendedTo
  <2>2. n + 1 \in 1 .. Len(fs) /\ fs[n + 1] = edge /\ \A k \in 1 .. n : fs[k] = es[k]
    BY <1>1, <1>3, <2>1 DEF LongerBy
  <2>3. \A k \in 1 .. n : es[k].target # edge.target
    BY <1>1, <1>8 DEF Accepted
  <2>4. \A k \in 1 .. (n + 1) - 1 : fs[k].target # edge.target
    <3>1. (n + 1) - 1 = n
      BY <1>3
    <3> QED BY <2>2, <2>3, <3>1
  <2> QED BY <1>2, <2>2, <2>4 DEF ReadBy
<1> QED BY <1>1, <1>2, <1>5, <1>6, <1>7, <1>8

(* What was visited stays visited.                                         *)
VisitsGrow ==
    /\ \A doc : Visited(doc) => Visited(doc)'
    /\ \A doc : VisitedFromStart(doc) => VisitedFromStart(doc)'

LEMMA VisitAdded ==
    ASSUME visits \in Seq(VisitType), NEW visit \in VisitType,
           visits' = Append(visits, visit)
    PROVE  /\ VisitsGrow /\ Visited(visit.doc)'
           /\ visit.start => VisitedFromStart(visit.doc)'
           /\ VisitsAccepted /\ (\A doc : Accepted(doc) => Accepted(doc)')
              /\ (visit.start \/ Accepted(visit.doc)) => VisitsAccepted'
<1>1. PICK vs, ws : vs = visits /\ ws = visits'
  OBVIOUS
<1>2. LongerBy(ws, vs, visit) /\ Len(vs) \in Nat
  BY <1>1, AppendedTo
<1>3. /\ \A i \in 1 .. Len(vs) : i \in 1 .. Len(ws) /\ ws[i] = vs[i]
      /\ Len(vs) + 1 \in 1 .. Len(ws) /\ ws[Len(vs) + 1] = visit
      /\ \A i \in 1 .. Len(ws) : i \in 1 .. Len(vs) \/ i = Len(vs) + 1
  BY <1>2 DEF LongerBy
<1>4. VisitsGrow
  BY <1>1, <1>3 DEF VisitsGrow, Visited, VisitedFromStart
<1>5. Visited(visit.doc)' /\ (visit.start => VisitedFromStart(visit.doc)')
  BY <1>1, <1>3 DEF Visited, VisitedFromStart
<1>6. ASSUME VisitsAccepted, \A doc : Accepted(doc) => Accepted(doc)',
             visit.start \/ Accepted(visit.doc)
      PROVE  VisitsAccepted'
  <2> SUFFICES ASSUME NEW v \in 1 .. Len(ws)
               PROVE  ws[v].start \/ Accepted(ws[v].doc)'
    BY <1>1 DEF VisitsAccepted
  <2>1. CASE v \in 1 .. Len(vs)
    BY <1>1, <1>3, <1>6, <2>1 DEF VisitsAccepted
  <2>2. CASE v = Len(vs) + 1
    BY <1>3, <1>6, <2>2
  <2> QED BY <1>3, <2>1, <2>2
<1> QED BY <1>4, <1>5, <1>6

(* A document that waits for its turn, or to be started, is not visited.   *)
LEMMA WaitingUnvisited ==
    ASSUME WalkInv, NEW doc \in Doc,
           \/ \E i \in 1 .. Len(starts) : starts[i].doc = doc
           \/ \E i \in 1 .. Len(stack) : \E j : j \in Turns(stack[i], doc)
    PROVE  ~ Visited(doc)
<1> SUFFICES ASSUME NEW v \in 1 .. Len(visits), visits[v].doc = doc PROVE FALSE
  BY DEF Visited
<1>1. \A p, q \in Places(doc) : p = q
  BY DEF WalkInv, WellPlaced
<1>2. <<"visit", v, 0>> \in Places(doc)
  BY DEF Places
<1>3. CASE \E i \in 1 .. Len(starts) : starts[i].doc = doc
  <2>1. PICK i \in 1 .. Len(starts) : starts[i].doc = doc
    BY <1>3
  <2>2. <<"start", i, 0>> \in Places(doc)
    BY <2>1 DEF Places
  <2>3. <<"start", i, 0>> # <<"visit", v, 0>>
    OBVIOUS
  <2> QED BY <1>1, <1>2, <2>2, <2>3
<1>4. CASE \E i \in 1 .. Len(stack) : \E j : j \in Turns(stack[i], doc)
  <2>1. PICK i \in 1 .. Len(stack) : \E j : j \in Turns(stack[i], doc)
    BY <1>4
  <2>2. PICK j : j \in Turns(stack[i], doc)
    BY <2>1
  <2>3. <<"frame", i, j>> \in Places(doc)
    BY <2>2 DEF Places
  <2>4. <<"frame", i, j>> # <<"visit", v, 0>>
    OBVIOUS
  <2> QED BY <1>1, <1>2, <2>3, <2>4
<1> QED BY <1>3, <1>4

(* The errors stay in order while none is collected.                       *)
LEMMA OrderStays ==
    ASSUME VisitsAccepted, ErrorsClosed, ErrorsInOrder, VisitsGrow, errors' = errors,
           \A doc, reader : Accepted(doc) /\ ReadBy(doc, reader)' => ReadBy(doc, reader)
    PROVE  ErrorsInOrder'
<1> SUFFICES ASSUME NEW i \in 1 .. Len(errors), NEW j \in 1 .. Len(errors),
                    errors[i].code # "depth", errors[j].code # "depth",
                    ReadBy(errors[i].doc, errors[j].doc)',
                    ~ VisitedFromStart(errors[i].doc)'
             PROVE  i < j
  BY DEF ErrorsInOrder
<1>1. PICK x, y : x = errors[i].doc /\ y = errors[j].doc
  OBVIOUS
<1>2. ReadBy(x, y)' /\ ~ VisitedFromStart(x)'
  BY <1>1
<1>3. ~ VisitedFromStart(x) /\ Visited(x)
  BY <1>1, <1>2 DEF VisitsGrow, ErrorsClosed
<1>4. Accepted(x)
  BY <1>3 DEF Visited, VisitedFromStart, VisitsAccepted
<1>5. ReadBy(x, y)
  BY <1>2, <1>4
<1> QED BY <1>1, <1>3, <1>5 DEF ErrorsInOrder

(* The top frame goes on with the same document.                           *)
LEMMA TopOrdered ==
    ASSUME StateTyped, DocumentsKnown, OrderInv, stack # <<>>, NEW new \in FrameType,
           stack' = Append(Below, new), new.doc = Top.doc, FrameOrdered(new)',
           VisitsGrow, errors' = errors,
           \A doc, reader : ReadBy(doc, reader) => ReadBy(doc, reader)'
    PROVE  StackOrdered' /\ ErrorsClosed'
<1>1. PICK s, t, n : s = stack /\ t = stack' /\ n = Len(stack)
  OBVIOUS
<1>2. /\ n \in Nat \ {0} /\ Len(t) = n /\ t[n] = new /\ s[n].doc = new.doc
      /\ \A i \in 1 .. n - 1 : t[i] = s[i]
      /\ \A i : i \in 1 .. n <=> (i \in 1 .. n - 1 \/ i = n)
  BY <1>1, TopReplaced, TopTyped
<1>3. \A i \in 1 .. n : t[i].doc = s[i].doc
  BY <1>2
<1>4. ASSUME NEW i \in 1 .. n PROVE FrameOrdered(t[i])'
  <2>1. CASE i \in 1 .. n - 1
    <3>1. PICK frame : frame = s[i]
      OBVIOUS
    <3>2. FrameOrdered(frame)
      BY <1>1, <1>2, <2>1, <3>1 DEF OrderInv, StackOrdered
    <3>3. FrameOrdered(frame)'
      BY <3>2 DEF FrameOrdered, VisitsGrow
    <3> QED BY <1>2, <2>1, <3>1, <3>3
  <2>2. CASE i = n
    BY <1>2, <2>2
  <2> QED BY <1>2, <2>1, <2>2
<1>5. \A k, l \in 1 .. n : t[k].doc = t[l].doc => k = l
  BY <1>1, <1>3 DEF OrderInv, StackOrdered
<1>6. VisitedFromStart(t[1].doc)'
  <2>1. VisitedFromStart(s[1].doc) /\ 1 \in 1 .. n
    BY <1>1, <1>2 DEF OrderInv, StackOrdered
  <2> QED BY <1>3, <2>1 DEF VisitsGrow
<1>7. \A k \in 1 .. n - 1 : ReadBy(t[k + 1].doc, t[k].doc)'
  <2> SUFFICES ASSUME NEW k \in 1 .. n - 1 PROVE ReadBy(t[k + 1].doc, t[k].doc)'
    OBVIOUS
  <2>1. ReadBy(s[k + 1].doc, s[k].doc)
    BY <1>1 DEF OrderInv, StackOrdered
  <2>2. k \in 1 .. n /\ k + 1 \in 1 .. n
    BY <1>2
  <2> QED BY <1>3, <2>1, <2>2
<1>8. StackOrdered'
  BY <1>1, <1>2, <1>4, <1>5, <1>6, <1>7 DEF StackOrdered
<1>9. ErrorsClosed'
  <2> SUFFICES ASSUME NEW i \in 1 .. Len(errors), errors[i].code # "depth"
               PROVE  /\ Visited(errors[i].doc)'
                      /\ \A k \in 1 .. n : t[k].doc # errors[i].doc
    BY <1>1, <1>2 DEF ErrorsClosed
  <2>1. /\ Visited(errors[i].doc)
        /\ \A k \in 1 .. n : s[k].doc # errors[i].doc
    BY <1>1 DEF OrderInv, ErrorsClosed
  <2> QED BY <1>3, <2>1 DEF VisitsGrow
<1> QED BY <1>8, <1>9

LEMMA BeginOrders ==
    ASSUME WalkInv, OrderInv, Begin
    PROVE  OrderInv'
<1>0. /\ StateTyped /\ DocumentsKnown
      /\ StackOrdered /\ VisitsAccepted /\ ErrorsClosed /\ ErrorsInOrder
  BY DEF WalkInv, OrderInv
<1>1. PICK doc, depth : doc = Head(starts).doc /\ depth = Head(starts).depth
  OBVIOUS
<1>2. PICK frame, visit : frame = ClosureFrame(doc, depth) /\ visit = Visit(doc, depth, TRUE)
  OBVIOUS
<1>3. /\ starts # <<>> /\ stack' = <<frame>> /\ visits' = Append(visits, visit)
      /\ UNCHANGED <<composition_edges, errors>>
  BY <1>1, <1>2 DEF Begin
<1>4. 1 \in 1 .. Len(starts) /\ doc = starts[1].doc /\ depth \in Nat /\ doc \in Doc
  <2>1. starts \in Seq(StartType) /\ 1 \in 1 .. Len(starts)
    BY <1>0, <1>3 DEF StateTyped
  <2>2. doc = starts[1].doc /\ depth = starts[1].depth /\ starts[1] \in StartType
    BY <1>1, <1>3, <2>1
  <2> QED BY <1>0, <2>1, <2>2 DEF DocumentsKnown, StartType
<1>5. ~ Visited(doc)
  BY <1>4, WaitingUnvisited
<1>6. /\ visit \in VisitType /\ visit.doc = doc /\ visit.start = TRUE
      /\ frame.doc = doc /\ frame.errors = <<>> /\ frame.loaded = <<>>
  <2>1. doc \in Nat
    BY <1>4 DEF Doc
  <2> QED BY <1>2, <1>4, <2>1, NewFrame DEF Visit, ClosureFrame
<1>7. \A d : Accepted(d) => Accepted(d)'
  BY <1>3 DEF Accepted
<1>8. VisitsGrow /\ Visited(doc)' /\ VisitedFromStart(doc)' /\ VisitsAccepted'
  BY <1>0, <1>3, <1>6, <1>7, VisitAdded DEF StateTyped
<1>9. \A d, reader : ReadBy(d, reader)' <=> ReadBy(d, reader)
  BY <1>3 DEF ReadBy
<1>10. ErrorsInOrder'
  BY <1>0, <1>3, <1>8, <1>9, OrderStays
<1>11. StackOrdered'
  <2>1. FrameOrdered(frame)'
    BY <1>6, <1>8 DEF FrameOrdered
  <2>2. Len(stack') = 1 /\ stack'[1] = frame
    BY <1>3
  <2> QED BY <1>6, <1>8, <2>1, <2>2 DEF StackOrdered
<1>12. ErrorsClosed'
  <2>1. Len(stack') = 1 /\ stack'[1].doc = doc
    BY <1>3, <1>6
  <2>2. ASSUME NEW i \in 1 .. Len(errors), errors[i].code # "depth"
        PROVE  Visited(errors[i].doc)' /\ errors[i].doc # doc
    <3>1. Visited(errors[i].doc)
      BY <1>0, <2>2 DEF ErrorsClosed
    <3> QED BY <1>3, <1>5, <1>8, <3>1 DEF VisitsGrow
  <2> QED BY <1>3, <2>1, <2>2 DEF ErrorsClosed
<1> QED BY <1>8, <1>10, <1>11, <1>12 DEF OrderInv

LEMMA DescendOrders ==
    ASSUME WalkInv, OrderInv, Descend
    PROVE  OrderInv'
<1>0. /\ StateTyped /\ DocumentsKnown
      /\ StackOrdered /\ VisitsAccepted /\ ErrorsClosed /\ ErrorsInOrder
  BY DEF WalkInv, OrderInv
<1>1. PICK top, child, n : top = Top /\ child = Child /\ n = Len(stack)
  OBVIOUS
<1>2. PICK new : new = [top EXCEPT !.next = @ + 1]
  OBVIOUS
<1>3. PICK frame, visit :
         /\ frame = ClosureFrame(child, top.depth + 1)
         /\ visit = Visit(child, top.depth + 1, FALSE)
  OBVIOUS
<1>4. /\ AtChild /\ stack # <<>> /\ top.next <= Len(top.loaded)
      /\ stack' = Append(Append(Below, new), frame) /\ visits' = Append(visits, visit)
      /\ UNCHANGED <<composition_edges, errors>>
  BY <1>1, <1>2, <1>3 DEF Descend, AtChild
<1>5. /\ n \in Nat \ {0} /\ top = stack[n] /\ top \in FrameType /\ FrameKnown(top)
  BY <1>0, <1>1, <1>4, TopTyped
<1>6. /\ child \in Doc /\ top.depth \in Nat /\ new \in FrameType
      /\ new.errors = top.errors /\ new.doc = top.doc /\ new.loaded = top.loaded
      /\ top.next \in Turns(top, child)
  BY <1>0, <1>1, <1>2, <1>4, Advanced
<1>7. ~ Visited(child)
  <2>1. n \in 1 .. Len(stack) /\ top.next \in Turns(stack[n], child)
    BY <1>1, <1>5, <1>6
  <2> QED BY <1>6, <2>1, WaitingUnvisited
<1>8. /\ visit \in VisitType /\ visit.doc = child /\ visit.start = FALSE
      /\ frame \in FrameType
      /\ frame.doc = child /\ frame.errors = <<>> /\ frame.loaded = <<>>
  <2>1. child \in Nat /\ top.depth + 1 \in Nat
    BY <1>6 DEF Doc
  <2> QED BY <1>3, <2>1, NewFrame DEF Visit, ClosureFrame
<1>9. FrameOrdered(top)
  BY <1>0, <1>1, <1>5 DEF StackOrdered
<1>10. ReadBy(child, top.doc)
  <2>1. top.next \in 1 .. Len(top.loaded) /\ top.loaded[top.next] = child
    BY <1>1, <1>4, <1>5 DEF Child, FrameKnown, FrameType
  <2> QED BY <1>9, <2>1 DEF FrameOrdered
<1>11. \A d, reader : ReadBy(d, reader)' <=> ReadBy(d, reader)
  BY <1>4 DEF ReadBy
<1>12. \A d : Accepted(d) => Accepted(d)'
  BY <1>4 DEF Accepted
<1>13. VisitsGrow /\ Visited(child)' /\ VisitsAccepted'
  <2>1. Accepted(child)
    BY <1>10, ReadIsAccepted
  <2> QED BY <1>0, <1>4, <1>8, <1>12, <2>1, VisitAdded DEF StateTyped
<1>14. ErrorsInOrder'
  BY <1>0, <1>4, <1>11, <1>13, OrderStays
<1>15. PICK t : t = stack'
  OBVIOUS
<1>16. /\ Len(t) = n + 1 /\ t[n + 1] = frame /\ t[n] = new
       /\ \A i \in 1 .. n - 1 : t[i] = stack[i]
       /\ \A i : i \in 1 .. n + 1 <=> (i \in 1 .. n - 1 \/ i = n \/ i = n + 1)
  <2>1. PICK s : s = Append(Below, new)
    OBVIOUS
  <2>2. /\ s \in Seq(FrameType) /\ Len(s) = n /\ s[n] = new
        /\ \A i \in 1 .. n - 1 : s[i] = stack[i]
    BY <1>0, <1>1, <1>4, <1>6, <2>1, TopReplaced
  <2>3. LongerBy(t, s, frame)
    BY <1>4, <1>8, <1>15, <2>1, <2>2, AppendedTo
  <2>4. \A i \in 1 .. n : t[i] = s[i]
    BY <2>2, <2>3 DEF LongerBy
  <2>5. \A i : i \in 1 .. n + 1 <=> (i \in 1 .. n - 1 \/ i = n \/ i = n + 1)
    BY <1>5
  <2>6. \A i \in 1 .. n - 1 : i \in 1 .. n
    BY <1>5
  <2>7. n \in 1 .. n
    BY <1>5
  <2> QED BY <2>2, <2>3, <2>4, <2>5, <2>6, <2>7 DEF LongerBy
<1>17. \A i \in 1 .. n : t[i].doc = stack[i].doc
  <2> SUFFICES ASSUME NEW i \in 1 .. n PROVE t[i].doc = stack[i].doc
    OBVIOUS
  <2>1. i \in 1 .. n - 1 \/ i = n
    BY <1>5
  <2> QED BY <1>5, <1>6, <1>16, <2>1
<1>18. \A i \in 1 .. n : Visited(stack[i].doc)
  BY <1>0, <1>1 DEF StackOrdered, FrameOrdered
<1>19. t[n + 1].doc = child /\ \A i \in 1 .. n : t[i].doc # child
  BY <1>7, <1>8, <1>16, <1>17, <1>18
<1>20. StackOrdered'
  <2>1. ASSUME NEW i \in 1 .. n + 1 PROVE FrameOrdered(t[i])'
    <3>1. CASE i \in 1 .. n - 1
      <4>1. PICK f : f = stack[i]
        OBVIOUS
      <4>2. i \in 1 .. Len(stack)
        BY <1>1, <1>5, <3>1
      <4>3. FrameOrdered(f)
        BY <1>0, <4>1, <4>2 DEF StackOrdered
      <4>4. FrameOrdered(f)'
        BY <1>11, <1>13, <4>3 DEF FrameOrdered, VisitsGrow
      <4> QED BY <1>16, <3>1, <4>1, <4>4
    <3>2. CASE i = n
      <4>1. FrameOrdered(new)'
        BY <1>6, <1>9, <1>11, <1>13 DEF FrameOrdered, VisitsGrow
      <4> QED BY <1>16, <3>2, <4>1
    <3>3. CASE i = n + 1
      <4>1. FrameOrdered(frame)'
        BY <1>8, <1>13 DEF FrameOrdered
      <4> QED BY <1>16, <3>3, <4>1
    <3> QED BY <1>16, <3>1, <3>2, <3>3
  <2>2. \A k \in 1 .. n + 1 : k \in 1 .. n \/ k = n + 1
    BY <1>5
  <2>3. \A k, l \in 1 .. n + 1 : t[k].doc = t[l].doc => k = l
    <3>1. \A k, l \in 1 .. n : stack[k].doc = stack[l].doc => k = l
      BY <1>0, <1>1 DEF StackOrdered
    <3> QED BY <1>17, <1>19, <2>2, <3>1
  <2>4. VisitedFromStart(t[1].doc)'
    <3>1. VisitedFromStart(stack[1].doc) /\ 1 \in 1 .. n
      BY <1>0, <1>4, <1>5 DEF StackOrdered
    <3> QED BY <1>13, <1>17, <3>1 DEF VisitsGrow
  <2>5. ASSUME NEW k \in 1 .. n PROVE ReadBy(t[k + 1].doc, t[k].doc)'
    <3>1. CASE k \in 1 .. n - 1
      <4>1. k + 1 \in 1 .. n
        BY <1>5, <3>1
      <4>2. ReadBy(stack[k + 1].doc, stack[k].doc)
        BY <1>0, <1>1, <3>1 DEF StackOrdered
      <4> QED BY <1>11, <1>17, <4>1, <4>2
    <3>2. CASE k = n
      <4>1. t[k + 1].doc = child /\ t[k].doc = top.doc
        BY <1>6, <1>16, <1>19, <3>2
      <4> QED BY <1>10, <1>11, <4>1
    <3>3. k \in 1 .. n - 1 \/ k = n
      BY <1>5
    <3> QED BY <3>1, <3>2, <3>3
  <2>6. Len(t) - 1 = n
    BY <1>5, <1>16
  <2> QED BY <1>15, <1>16, <2>1, <2>3, <2>4, <2>5, <2>6 DEF StackOrdered
<1>21. ErrorsClosed'
  <2>1. ASSUME NEW i \in 1 .. Len(errors), errors[i].code # "depth",
               NEW k \in 1 .. n + 1
        PROVE  Visited(errors[i].doc)' /\ t[k].doc # errors[i].doc
    <3>1. /\ Visited(errors[i].doc)
          /\ \A l \in 1 .. n : stack[l].doc # errors[i].doc
      BY <1>0, <1>1, <2>1 DEF ErrorsClosed
    <3>2. CASE k \in 1 .. n
      BY <1>4, <1>13, <1>17, <3>1, <3>2 DEF VisitsGrow
    <3>3. CASE k = n + 1
      BY <1>4, <1>7, <1>13, <1>19, <3>1, <3>3 DEF VisitsGrow
    <3>4. k \in 1 .. n \/ k = n + 1
      BY <1>5
    <3> QED BY <3>2, <3>3, <3>4
  <2>2. 1 \in 1 .. n + 1
    BY <1>5
  <2> QED BY <1>4, <1>15, <1>16, <2>1, <2>2 DEF ErrorsClosed
<1> QED BY <1>13, <1>14, <1>20, <1>21 DEF OrderInv

LEMMA DeferOrders ==
    ASSUME WalkInv, OrderInv, Defer
    PROVE  OrderInv'
<1>0. /\ StateTyped /\ DocumentsKnown
      /\ StackOrdered /\ VisitsAccepted /\ ErrorsClosed /\ ErrorsInOrder
  BY DEF WalkInv, OrderInv
<1>1. PICK top : top = Top
  OBVIOUS
<1>2. PICK new : new = [top EXCEPT !.next = @ + 1]
  OBVIOUS
<1>3. /\ AtChild /\ stack # <<>> /\ stack' = Append(Below, new)
      /\ UNCHANGED <<composition_edges, errors, visits>>
  BY <1>1, <1>2 DEF Defer, AtChild
<1>4. /\ new \in FrameType /\ new.errors = top.errors /\ new.doc = top.doc
      /\ new.loaded = top.loaded
  BY <1>0, <1>1, <1>2, <1>3, Advanced
<1>5. VisitsGrow
  BY <1>3 DEF VisitsGrow, Visited, VisitedFromStart
<1>6. \A d, reader : ReadBy(d, reader)' <=> ReadBy(d, reader)
  BY <1>3 DEF ReadBy
<1>7. FrameOrdered(new)'
  <2>1. FrameOrdered(top)
    <3>1. Len(stack) \in 1 .. Len(stack) /\ top = stack[Len(stack)]
      BY <1>0, <1>1, <1>3, TopTyped
    <3> QED BY <1>0, <3>1 DEF StackOrdered
  <2> QED BY <1>4, <1>5, <1>6, <2>1 DEF FrameOrdered, VisitsGrow
<1>8. StackOrdered' /\ ErrorsClosed'
  BY <1>0, <1>1, <1>3, <1>4, <1>5, <1>6, <1>7, TopOrdered
<1>9. VisitsAccepted'
  BY <1>0, <1>3 DEF VisitsAccepted, Accepted
<1>10. ErrorsInOrder'
  BY <1>0, <1>3, <1>5, <1>6, OrderStays
<1> QED BY <1>8, <1>9, <1>10 DEF OrderInv

(* A document closes: its errors come after those collected before, none   *)
(* of which is of the document that read it, which is still open.          *)
LEMMA ReturnOrders ==
    ASSUME WalkInv, OrderInv, Return
    PROVE  OrderInv'
<1>0. /\ StateTyped /\ DocumentsKnown
      /\ StackOrdered /\ VisitsAccepted /\ ErrorsClosed /\ ErrorsInOrder
  BY DEF WalkInv, OrderInv
<1>1. PICK top, n, t : top = Top /\ n = Len(stack) /\ t = stack'
  OBVIOUS
<1>2. PICK old, es : old = errors /\ es = errors'
  OBVIOUS
<1>3. /\ stack # <<>> /\ stack' = Below /\ es = old \o top.errors
      /\ UNCHANGED <<composition_edges, visits>>
  BY <1>1, <1>2 DEF Return
<1>4. /\ n \in Nat \ {0} /\ top = stack[n] /\ n \in 1 .. n
      /\ Len(t) = n - 1 /\ \A i \in 1 .. n - 1 : t[i] = stack[i] /\ i \in 1 .. n
      /\ top.errors \in Seq(ErrorType) /\ old \in Seq(ErrorType)
  <2>1. /\ n \in Nat \ {0} /\ top = stack[n] /\ top \in FrameType
        /\ Len(t) = n - 1 /\ \A i \in 1 .. n - 1 : t[i] = stack[i]
    BY <1>0, <1>1, <1>3, TopTyped
  <2>2. n \in 1 .. n /\ \A i \in 1 .. n - 1 : i \in 1 .. n
    BY <2>1
  <2>3. old \in Seq(ErrorType)
    BY <1>0, <1>2 DEF StateTyped
  <2> QED BY <2>1, <2>2, <2>3 DEF FrameType
<1>5. PICK m : m = Len(old)
  OBVIOUS
<1>6. /\ m \in Nat
      /\ \A i \in 1 .. m : es[i] = old[i] /\ i \in 1 .. Len(es)
      /\ \A i \in 1 .. Len(es) : i \in 1 .. m \/ (i > m /\ es[i].doc = top.doc)
  <2>1. FrameOrdered(top)
    BY <1>0, <1>1, <1>4 DEF StackOrdered
  <2>2. /\ m \in Nat /\ Len(es) = m + Len(top.errors) /\ Len(top.errors) \in Nat
        /\ \A i \in 1 .. m : es[i] = old[i]
        /\ \A i \in 1 .. Len(top.errors) : es[m + i] = top.errors[i]
    BY <1>3, <1>4, <1>5, Concatenated
  <2>3. ASSUME NEW i \in 1 .. Len(es) PROVE i \in 1 .. m \/ (i > m /\ es[i].doc = top.doc)
    <3>1. CASE i > m
      <4>1. i - m \in 1 .. Len(top.errors) /\ m + (i - m) = i
        BY <2>2, <3>1
      <4>2. es[i] = top.errors[i - m]
        BY <2>2, <4>1
      <4> QED BY <2>1, <3>1, <4>1, <4>2 DEF FrameOrdered
    <3>2. CASE ~ i > m
      BY <2>2, <3>2
    <3> QED BY <3>1, <3>2
  <2>4. \A i \in 1 .. m : i \in 1 .. Len(es)
    BY <2>2
  <2> QED BY <2>2, <2>3, <2>4
<1>7. VisitsGrow /\ \A d : Visited(d)' <=> Visited(d)
  BY <1>3 DEF VisitsGrow, Visited, VisitedFromStart
<1>8. \A d, reader : ReadBy(d, reader)' <=> ReadBy(d, reader)
  BY <1>3 DEF ReadBy
<1>9. \A d : VisitedFromStart(d)' <=> VisitedFromStart(d)
  BY <1>3 DEF VisitedFromStart
<1>10. /\ \A k, l \in 1 .. n : stack[k].doc = stack[l].doc => k = l
       /\ \A k \in 1 .. n - 1 : ReadBy(stack[k + 1].doc, stack[k].doc)
       /\ VisitedFromStart(stack[1].doc)
       /\ \A k \in 1 .. n : FrameOrdered(stack[k])
  BY <1>0, <1>1, <1>3 DEF StackOrdered
<1>11. StackOrdered'
  <2>1. ASSUME NEW k \in 1 .. n - 1 PROVE FrameOrdered(t[k])'
    <3>1. PICK f : f = stack[k]
      OBVIOUS
    <3>2. FrameOrdered(f)
      BY <1>4, <1>10, <3>1
    <3>3. FrameOrdered(f)'
      BY <1>7, <1>8, <3>2 DEF FrameOrdered
    <3>4. t[k] = f
      BY <1>4, <3>1
    <3> QED BY <3>3, <3>4
  <2>2. \A k, l \in 1 .. n - 1 : t[k].doc = t[l].doc => k = l
    BY <1>4, <1>10
  <2>3. t # <<>> => VisitedFromStart(t[1].doc)'
    <3> SUFFICES ASSUME t # <<>> PROVE VisitedFromStart(t[1].doc)'
      OBVIOUS
    <3>1. t \in Seq(FrameType)
      BY <1>0, <1>1, <1>3, TopTyped
    <3>2. 1 \in 1 .. n - 1
      BY <1>4, <3>1
    <3>3. PICK d : d = stack[1].doc
      OBVIOUS
    <3>4. t[1].doc = d /\ VisitedFromStart(d)'
      BY <1>4, <1>9, <1>10, <3>2, <3>3
    <3> QED BY <3>4
  <2>4. ASSUME NEW k \in 1 .. n - 1 - 1 PROVE ReadBy(t[k + 1].doc, t[k].doc)'
    <3>1. k \in 1 .. n - 1 /\ k + 1 \in 1 .. n - 1
      BY <1>4
    <3>2. PICK d, reader : d = stack[k + 1].doc /\ reader = stack[k].doc
      OBVIOUS
    <3>3. ReadBy(d, reader)'
      BY <1>8, <1>10, <3>1, <3>2
    <3>4. t[k + 1].doc = d /\ t[k].doc = reader
      BY <1>4, <3>1, <3>2
    <3> QED BY <3>3, <3>4
  <2> QED BY <1>1, <1>4, <2>1, <2>2, <2>3, <2>4 DEF StackOrdered
<1>12. ErrorsClosed'
  <2>1. ASSUME NEW i \in 1 .. Len(es), es[i].code # "depth", NEW d, d = es[i].doc
        PROVE  Visited(d) /\ \A k \in 1 .. n - 1 : stack[k].doc # d
    <3>1. CASE i \in 1 .. m
      <4>1. Visited(d) /\ \A k \in 1 .. n : stack[k].doc # d
        BY <1>0, <1>1, <1>2, <1>5, <1>6, <2>1, <3>1 DEF ErrorsClosed
      <4> QED BY <1>4, <4>1
    <3>2. CASE d = top.doc
      <4>1. Visited(d)
        BY <1>4, <1>10, <3>2 DEF FrameOrdered
      <4>2. ASSUME NEW k \in 1 .. n - 1, stack[k].doc = d PROVE FALSE
        <5>1. k = n
          BY <1>4, <1>10, <3>2, <4>2
        <5> QED BY <1>4, <5>1
      <4> QED BY <4>1, <4>2
    <3> QED BY <1>6, <2>1, <3>1, <3>2
  <2>2. ASSUME NEW i \in 1 .. Len(es), es[i].code # "depth"
        PROVE  Visited(es[i].doc)' /\ \A k \in 1 .. n - 1 : t[k].doc # es[i].doc
    <3>1. PICK d : d = es[i].doc
      OBVIOUS
    <3>2. Visited(d) /\ \A k \in 1 .. n - 1 : stack[k].doc # d
      BY <2>1, <2>2, <3>1
    <3> QED BY <1>4, <1>7, <3>1, <3>2
  <2> QED BY <1>1, <1>2, <1>4, <2>2 DEF ErrorsClosed
<1>13. ErrorsInOrder'
  <2> SUFFICES ASSUME NEW i \in 1 .. Len(es), NEW j \in 1 .. Len(es),
                      es[i].code # "depth", es[j].code # "depth",
                      ReadBy(es[i].doc, es[j].doc)', ~ VisitedFromStart(es[i].doc)'
               PROVE  i < j
    BY <1>2 DEF ErrorsInOrder
  <2>1. PICK x, y : x = es[i].doc /\ y = es[j].doc
    OBVIOUS
  <2>2. ReadBy(x, y) /\ ~ VisitedFromStart(x)
    BY <1>8, <1>9, <2>1
  <2>3. CASE i \in 1 .. m /\ j \in 1 .. m
    <3>1. /\ old[i].code # "depth" /\ old[j].code # "depth"
          /\ old[i].doc = x /\ old[j].doc = y
      BY <1>6, <2>1, <2>3
    <3> QED BY <1>0, <1>2, <1>5, <2>2, <2>3, <3>1 DEF ErrorsInOrder
  <2>4. CASE i \in 1 .. m /\ j > m
    BY <1>6, <2>4
  <2>5. CASE x = top.doc
    <3>1. n # 1
      BY <1>4, <1>10, <2>2, <2>5
    <3>2. n - 1 \in 1 .. n - 1 /\ (n - 1) + 1 = n /\ n - 1 \in 1 .. n /\ n - 1 # n
      BY <1>4, <3>1
    <3>3. ReadBy(x, stack[n - 1].doc)
      BY <1>4, <1>10, <2>5, <3>2
    <3>4. y = stack[n - 1].doc
      BY <2>2, <3>3, ReadOnce
    <3>5. y # top.doc
      BY <1>4, <1>10, <3>2, <3>4
    <3>6. j \in 1 .. m
      BY <1>6, <2>1, <3>5
    <3>7. old[j].doc = y /\ old[j].code # "depth"
      BY <1>6, <2>1, <3>6
    <3>8. stack[n - 1].doc # y
      BY <1>0, <1>1, <1>2, <1>5, <3>2, <3>6, <3>7 DEF ErrorsClosed
    <3> QED BY <3>4, <3>8
  <2>6. /\ i \in 1 .. m \/ x = top.doc
        /\ j \in 1 .. m \/ j > m
    BY <1>6, <2>1
  <2> QED BY <2>3, <2>4, <2>5, <2>6
<1>14. VisitsAccepted'
  BY <1>0, <1>3 DEF VisitsAccepted, Accepted
<1> QED BY <1>11, <1>12, <1>13, <1>14 DEF OrderInv

(* The errors of a directive are its document's.                           *)
LEMMA ErrorsOfDocument ==
    ASSUME NEW doc, NEW d, NEW outcome
    PROVE  \A i \in 1 .. Len(DirectiveErrors(doc, d, outcome)) :
              DirectiveErrors(doc, d, outcome)[i].doc = doc
<1>1. \A code, import : /\ Len(<<Error(doc, code, import)>>) = 1
                        /\ <<Error(doc, code, import)>>[1].doc = doc
  BY DEF Error
<1> DEFINE found == DirectiveErrors(doc, d, outcome)
<1>2. found = <<>> \/ \E code, import : found = <<Error(doc, code, import)>>
  BY DEF DirectiveErrors
<1> HIDE DEF found
<1>3. CASE found = <<>>
  BY <1>3 DEF found
<1>4. ASSUME NEW code, NEW import, found = <<Error(doc, code, import)>>
      PROVE  \A i \in 1 .. Len(found) : found[i].doc = doc
  <2>1. Len(found) = 1 /\ found[1].doc = doc
    BY <1>1, <1>4
  <2> QED BY <2>1
<1> QED BY <1>2, <1>3, <1>4 DEF found

LEMMA ResolveOrders ==
    ASSUME WalkInv, OrderInv, ResolveDirective
    PROVE  OrderInv'
<1>0. /\ StateTyped /\ DocumentsKnown /\ CachesCover
      /\ StackOrdered /\ VisitsAccepted /\ ErrorsClosed /\ ErrorsInOrder
  BY DEF WalkInv, OrderInv
<1>1. PICK top : top = Top
  OBVIOUS
<1>2. PICK d : d = Directives(top.doc)[top.resolved + 1]
  OBVIOUS
<1>3. PICK outcome : outcome = Outcome(top.doc, d)
  OBVIOUS
<1>4. PICK found : found = DirectiveErrors(top.doc, d, outcome)
  OBVIOUS
<1> DEFINE accepted == Succeeds(outcome) /\ ~ Mismatched(d, outcome)
           reads == accepted /\ outcome.result = "loaded"
           frame == [top EXCEPT !.resolved = @ + 1, !.errors = @ \o found,
                                !.loaded = IF reads THEN Append(@, outcome.doc) ELSE @]
<1>5. PICK edge : edge = [source |-> top.doc, target |-> outcome.doc, kind |-> d.kind]
  OBVIOUS
<1>6. PICK loaded : loaded = IF reads THEN Append(top.loaded, outcome.doc) ELSE top.loaded
  OBVIOUS
<1>7. /\ stack # <<>> /\ top.resolved < Len(Directives(top.doc))
      /\ UNCHANGED <<errors, visits>>
      /\ composition_edges' = IF accepted THEN Append(composition_edges, edge)
                              ELSE composition_edges
      /\ stack' = Append(Below, frame)
  BY <1>1, <1>2, <1>3, <1>4, <1>5 DEF ResolveDirective
<1>8. frame = [top EXCEPT !.resolved = @ + 1, !.errors = @ \o found, !.loaded = loaded]
  BY <1>6
<1> HIDE DEF accepted, reads, frame
<1>9. /\ Len(stack) \in 1 .. Len(stack) /\ top = stack[Len(stack)]
      /\ top \in FrameType /\ FrameKnown(top)
  <2>1. /\ Len(stack) \in Nat \ {0} /\ top = stack[Len(stack)]
        /\ top \in FrameType /\ FrameKnown(top)
    BY <1>0, <1>1, <1>7, TopTyped
  <2> QED BY <2>1
<1>10. /\ top.doc \in Doc /\ top.doc \in Nat /\ top.resolved \in Nat
       /\ top.loaded \in Seq(Nat) /\ top.errors \in Seq(ErrorType)
  BY <1>9 DEF FrameType, FrameKnown
<1>11. d \in Directive
  <2>1. Directives(top.doc) \in Seq(Directive) /\ Len(Directives(top.doc)) \in Nat
    BY <1>0, <1>10, DirectivesTyped
  <2>2. top.resolved + 1 \in 1 .. Len(Directives(top.doc))
    BY <1>7, <1>10, <2>1
  <2> QED BY <1>2, <2>1, <2>2
<1>12. OutcomeOK(outcome)
  BY <1>0, <1>3, <1>10, <1>11, OutcomeIsOK
<1>13. Len(documents) \in Nat
  BY <1>0 DEF StateTyped
<1>14. ASSUME reads PROVE outcome.doc = Len(documents) + 1 /\ ~ Accepted(outcome.doc)
  <2>1. outcome.doc = Len(documents) + 1
    BY <1>12, <1>14 DEF reads, OutcomeOK, Loads
  <2>2. outcome.doc \notin Doc
    BY <1>13, <2>1 DEF Doc
  <2> QED BY <1>0, <2>1, <2>2 DEF Accepted, DocumentsKnown
<1>15. ASSUME accepted PROVE edge \in EdgeType
  <2>1. outcome.doc \in Nat
    BY <1>12, <1>13, <1>15 DEF accepted, Succeeds, OutcomeOK, Loads, Doc
  <2>2. d.kind \in {"include", "import", "redefine", "override"}
    BY <1>11 DEF Directive
  <2> QED BY <1>5, <1>10, <2>1, <2>2 DEF EdgeType
<1>16. /\ \A doc, reader : ReadBy(doc, reader) => ReadBy(doc, reader)'
       /\ \A doc, reader : Accepted(doc) /\ ReadBy(doc, reader)' => ReadBy(doc, reader)
       /\ \A doc : Accepted(doc) => Accepted(doc)'
       /\ reads => ReadBy(outcome.doc, top.doc)'
  <2>1. composition_edges \in Seq(EdgeType)
    BY <1>0 DEF StateTyped
  <2>2. CASE ~ accepted
    BY <1>7, <2>2 DEF ReadBy, Accepted, reads
  <2>3. CASE accepted
    <3>1. composition_edges' = Append(composition_edges, edge) /\ edge \in EdgeType
      BY <1>7, <1>15, <2>3
    <3>2. /\ \A doc, reader : ReadBy(doc, reader) => ReadBy(doc, reader)'
          /\ \A doc, reader : Accepted(doc) /\ ReadBy(doc, reader)' => ReadBy(doc, reader)
          /\ \A doc : Accepted(doc) => Accepted(doc)'
          /\ ~ Accepted(edge.target) => ReadBy(edge.target, edge.source)'
      BY <2>1, <3>1, ReadersStay
    <3>3. edge.target = outcome.doc /\ edge.source = top.doc
      BY <1>5
    <3> QED BY <1>14, <3>2, <3>3
  <2> QED BY <2>2, <2>3
<1>17. /\ found \in Seq(ErrorType)
       /\ \A i \in 1 .. Len(found) : found[i].doc = top.doc
  BY <1>4, <1>10, <1>11, ErrorsTyped, ErrorsOfDocument
<1>18. /\ loaded \in Seq(Nat)
       /\ reads => LongerBy(loaded, top.loaded, outcome.doc)
       /\ ~ reads => loaded = top.loaded
  <2>1. CASE reads
    <3>1. outcome.doc \in Nat
      BY <1>13, <1>14, <2>1
    <3> QED BY <1>6, <1>10, <2>1, <3>1, AppendedTo
  <2>2. CASE ~ reads
    BY <1>6, <1>10, <2>2
  <2> QED BY <2>1, <2>2
<1>19. PICK new \in FrameType :
         /\ new = frame /\ new.doc = top.doc /\ new.loaded = loaded
         /\ new.errors = top.errors \o found
  <2>1. top.errors \o found \in Seq(ErrorType) /\ top.resolved + 1 \in Nat
    BY <1>10, <1>17
  <2>2. /\ frame \in FrameType /\ frame.doc = top.doc /\ frame.loaded = loaded
        /\ frame.errors = top.errors \o found
    BY <1>8, <1>9, <1>18, <2>1 DEF FrameType
  <2> QED BY <2>2
<1>20. VisitsGrow
  BY <1>7 DEF VisitsGrow, Visited, VisitedFromStart
<1>21. FrameOrdered(new)'
  <2>1. FrameOrdered(top)
    BY <1>0, <1>9 DEF StackOrdered
  <2>2. Visited(top.doc)'
    BY <1>20, <2>1 DEF VisitsGrow, FrameOrdered
  <2>3. \A j \in 1 .. Len(new.errors) : new.errors[j].doc = top.doc
    <3> SUFFICES ASSUME NEW j \in 1 .. Len(new.errors) PROVE new.errors[j].doc = top.doc
      OBVIOUS
    <3>1. \A i \in 1 .. Len(top.errors) : top.errors[i].doc = top.doc
      BY <2>1 DEF FrameOrdered
    <3>2. /\ Len(new.errors) = Len(top.errors) + Len(found)
          /\ \A i \in 1 .. Len(top.errors) : new.errors[i] = top.errors[i]
          /\ \A i \in 1 .. Len(top.errors) + Len(found) :
                \/ i \in 1 .. Len(top.errors)
                \/ /\ i - Len(top.errors) \in 1 .. Len(found)
                   /\ new.errors[i] = found[i - Len(top.errors)]
      BY <1>10, <1>17, <1>19, Concatenated
    <3>3. CASE j \in 1 .. Len(top.errors)
      BY <3>1, <3>2, <3>3
    <3>4. CASE /\ j - Len(top.errors) \in 1 .. Len(found)
               /\ new.errors[j] = found[j - Len(top.errors)]
      BY <1>17, <3>4
    <3> QED BY <3>2, <3>3, <3>4
  <2>4. ASSUME NEW j \in 1 .. Len(loaded) PROVE ReadBy(loaded[j], top.doc)'
    <3>1. CASE j \in 1 .. Len(top.loaded) /\ loaded[j] = top.loaded[j]
      <4>1. ReadBy(top.loaded[j], top.doc)
        BY <2>1, <3>1 DEF FrameOrdered
      <4> QED BY <1>16, <3>1, <4>1
    <3>2. CASE reads /\ loaded[j] = outcome.doc
      BY <1>16, <3>2
    <3> QED BY <1>18, <3>1, <3>2 DEF LongerBy
  <2> QED BY <1>19, <2>2, <2>3, <2>4 DEF FrameOrdered
<1>22. StackOrdered' /\ ErrorsClosed'
  BY <1>0, <1>1, <1>7, <1>16, <1>19, <1>20, <1>21, TopOrdered
<1>23. VisitsAccepted'
  BY <1>0, <1>7, <1>16 DEF VisitsAccepted
<1>24. ErrorsInOrder'
  BY <1>0, <1>7, <1>16, <1>20, OrderStays
<1> QED BY <1>22, <1>23, <1>24 DEF OrderInv

(* Nothing is open, and nothing is visited or collected.                   *)
LEMMA ResumeOrders ==
    ASSUME OrderInv, UNCHANGED <<composition_edges, stack, errors, visits>>
    PROVE  OrderInv'
<1>1. \A doc, reader : ReadBy(doc, reader)' <=> ReadBy(doc, reader)
  BY DEF ReadBy
<1>2. \A doc : /\ Visited(doc)' <=> Visited(doc)
               /\ VisitedFromStart(doc)' <=> VisitedFromStart(doc)
               /\ Accepted(doc)' <=> Accepted(doc)
  BY DEF Visited, VisitedFromStart, Accepted
<1>3. VisitsGrow
  BY <1>2 DEF VisitsGrow
<1>4. StackOrdered'
  <2>1. \A frame : FrameOrdered(frame) => FrameOrdered(frame)'
    BY <1>1, <1>2 DEF FrameOrdered
  <2> QED BY <1>1, <1>2, <2>1 DEF OrderInv, StackOrdered
<1>5. VisitsAccepted' /\ ErrorsClosed'
  BY <1>2 DEF OrderInv, VisitsAccepted, ErrorsClosed
<1>6. ErrorsInOrder'
  BY <1>1, <1>3, OrderStays DEF OrderInv
<1> QED BY <1>4, <1>5, <1>6 DEF OrderInv

(* What is refused in the end has errors of its own kind.                  *)
LEMMA FinishOrders ==
    ASSUME WalkInv, OrderInv, Finish
    PROVE  OrderInv'
<1>0. /\ StateTyped
      /\ StackOrdered /\ VisitsAccepted /\ ErrorsClosed /\ ErrorsInOrder
  BY DEF WalkInv, OrderInv
<1>1. PICK refused : refused = [i \in 1 .. Len(deferred) |->
                                   DepthError(deferred[i][1], deferred[i][2])]
  OBVIOUS
<1>2. PICK old, es : old = errors /\ es = errors'
  OBVIOUS
<1>3. /\ stack = <<>> /\ UNCHANGED <<composition_edges, stack, visits>>
      /\ es = old \o refused
  BY <1>1, <1>2 DEF Finish, Walked
<1>4. /\ refused \in Seq(ErrorType) /\ old \in Seq(ErrorType)
      /\ \A i \in 1 .. Len(refused) : refused[i].code = "depth"
  <2>1. deferred \in Seq(Nat \X Nat) /\ Len(deferred) \in Nat
    BY <1>0 DEF StateTyped
  <2>2. ASSUME NEW i \in 1 .. Len(deferred)
        PROVE  /\ DepthError(deferred[i][1], deferred[i][2]) \in ErrorType
               /\ DepthError(deferred[i][1], deferred[i][2]).code = "depth"
    <3>1. deferred[i] \in Nat \X Nat
      BY <2>1
    <3>2. deferred[i][1] \in Nat /\ deferred[i][2] \in Nat
      BY <3>1
    <3> QED BY <3>2 DEF DepthError, ErrorType, Code
  <2>3. Len(refused) = Len(deferred)
    BY <1>1, <2>1
  <2> QED BY <1>0, <1>1, <1>2, <2>1, <2>2, <2>3 DEF StateTyped
<1>5. PICK m : m = Len(old)
  OBVIOUS
<1>6. \A i \in 1 .. Len(es) : es[i].code # "depth" => i \in 1 .. m /\ es[i] = old[i]
  <2>1. /\ Len(es) = m + Len(refused)
        /\ \A i \in 1 .. m : es[i] = old[i]
        /\ \A i \in 1 .. m + Len(refused) :
              \/ i \in 1 .. m
              \/ i - m \in 1 .. Len(refused) /\ es[i] = refused[i - m]
    BY <1>3, <1>4, <1>5, Concatenated
  <2> QED BY <1>4, <2>1
<1>7. \A doc, reader : ReadBy(doc, reader)' <=> ReadBy(doc, reader)
  BY <1>3 DEF ReadBy
<1>8. \A doc : /\ Visited(doc)' <=> Visited(doc)
               /\ VisitedFromStart(doc)' <=> VisitedFromStart(doc)
               /\ Accepted(doc)' <=> Accepted(doc)
  BY <1>3 DEF Visited, VisitedFromStart, Accepted
<1>9. StackOrdered' /\ VisitsAccepted'
  BY <1>0, <1>3, <1>8 DEF StackOrdered, VisitsAccepted
<1>10. ErrorsClosed'
  <2> SUFFICES ASSUME NEW i \in 1 .. Len(es), es[i].code # "depth"
               PROVE  Visited(es[i].doc)'
    BY <1>2, <1>3 DEF ErrorsClosed
  <2>1. i \in 1 .. Len(old) /\ es[i] = old[i]
    BY <1>5, <1>6
  <2>2. Visited(old[i].doc)
    BY <1>0, <1>2, <2>1 DEF ErrorsClosed
  <2> QED BY <1>8, <2>1, <2>2
<1>11. ErrorsInOrder'
  <2> SUFFICES ASSUME NEW i \in 1 .. Len(es), NEW j \in 1 .. Len(es),
                      es[i].code # "depth", es[j].code # "depth",
                      ReadBy(es[i].doc, es[j].doc)', ~ VisitedFromStart(es[i].doc)'
               PROVE  i < j
    BY <1>2 DEF ErrorsInOrder
  <2>1. /\ i \in 1 .. Len(old) /\ es[i] = old[i]
        /\ j \in 1 .. Len(old) /\ es[j] = old[j]
    BY <1>5, <1>6
  <2>2. ReadBy(old[i].doc, old[j].doc) /\ ~ VisitedFromStart(old[i].doc)
    BY <1>7, <1>8, <2>1
  <2> QED BY <1>0, <1>2, <2>1, <2>2 DEF ErrorsInOrder
<1> QED BY <1>9, <1>10, <1>11 DEF OrderInv

LEMMA NextOrders == WalkInv /\ OrderInv /\ [Next]_vars => OrderInv'
<1> SUFFICES ASSUME WalkInv, OrderInv, [Next]_vars PROVE OrderInv'
  OBVIOUS
<1>1. CASE Begin
  BY <1>1, BeginOrders
<1>2. CASE ResolveDirective
  BY <1>2, ResolveOrders
<1>3. CASE Descend
  BY <1>3, DescendOrders
<1>4. CASE Defer
  BY <1>4, DeferOrders
<1>5. CASE Return
  BY <1>5, ReturnOrders
<1>6. CASE Resume
  BY <1>6, ResumeOrders DEF Resume
<1>7. CASE Finish
  BY <1>7, FinishOrders
<1>8. CASE UNCHANGED vars
  BY <1>8, ResumeOrders DEF vars
<1> QED BY <1>1, <1>2, <1>3, <1>4, <1>5, <1>6, <1>7, <1>8 DEF Next

(* Whatever is deferred and resumed, the errors of a document come after   *)
(* those of the documents it read, unless they were walked later           *)
(* (closure_step, DirectiveClosure of resolver.rs).                        *)
THEOREM ErrorsComeAfterReads == Spec => []ErrorsAfterReads
<1>1. Init => OrderInv
  BY DEF Init, OrderInv, StackOrdered, VisitsAccepted, ErrorsClosed, ErrorsInOrder
<1>2. OrderInv => ErrorsAfterReads
  <2> SUFFICES ASSUME OrderInv, NEW i \in 1 .. Len(errors), NEW j \in 1 .. Len(errors),
                      ReadBy(errors[i].doc, errors[j].doc),
                      [doc |-> errors[i].doc, start |-> TRUE]
                         \notin {[doc |-> v.doc, start |-> v.start] : v \in Visits},
                      "depth" \notin {errors[i].code, errors[j].code}
               PROVE  i < j
    BY DEF ErrorsAfterReads
  <2>1. ~ VisitedFromStart(errors[i].doc)
    <3> SUFFICES ASSUME NEW k \in 1 .. Len(visits),
                        visits[k].doc = errors[i].doc, visits[k].start
                 PROVE  FALSE
      BY DEF VisitedFromStart
    <3>1. visits[k] \in Visits
      BY DEF Visits
    <3> QED BY <3>1
  <2> QED BY <2>1 DEF OrderInv, ErrorsInOrder
<1> QED BY <1>1, <1>2, InitWalkInv, NextWalkInv, NextOrders, PTL DEF Spec

-----------------------------------------------------------------------------
(* How deep a document is: the lengths of the ways to it from a document   *)
(* that was added.                                                         *)
Joined(a, b) ==
    \E i \in 1 .. Len(composition_edges) :
        composition_edges[i].source = a /\ composition_edges[i].target = b

IsWay(way, n, doc) ==
    /\ way \in [0 .. n -> Nat]
    /\ way[0] \in 1 .. Len(world.roots) /\ way[n] = doc
    /\ \A k \in 1 .. n : Joined(way[k - 1], way[k])

Reached(doc, n) == \E way : IsWay(way, n, doc)

LEMMA RootsReached ==
    ASSUME NEW doc \in Nat
    PROVE  Reached(doc, 0) <=> doc \in 1 .. Len(world.roots)
<1>1. ASSUME doc \in 1 .. Len(world.roots) PROVE Reached(doc, 0)
  <2> DEFINE way == [k \in 0 .. 0 |-> doc]
  <2>1. way \in [0 .. 0 -> Nat] /\ way[0] = doc /\ 1 .. 0 = {}
    OBVIOUS
  <2> HIDE DEF way
  <2>2. IsWay(way, 0, doc)
    BY <1>1, <2>1 DEF IsWay
  <2> QED BY <2>2 DEF Reached
<1>2. ASSUME Reached(doc, 0) PROVE doc \in 1 .. Len(world.roots)
  BY <1>2 DEF Reached, IsWay
<1> QED BY <1>1, <1>2

LEMMA WayExtended ==
    ASSUME NEW a, NEW b \in Nat, NEW n \in Nat, Reached(a, n), Joined(a, b)
    PROVE  Reached(b, n + 1)
<1>1. PICK way : IsWay(way, n, a)
  BY DEF Reached
<1> DEFINE further == [k \in 0 .. n + 1 |-> IF k = n + 1 THEN b ELSE way[k]]
<1>2. /\ further \in [0 .. n + 1 -> Nat] /\ further[n + 1] = b
      /\ \A k \in 0 .. n : further[k] = way[k]
  BY <1>1 DEF IsWay
<1> HIDE DEF further
<1>3. ASSUME NEW k \in 1 .. n + 1 PROVE Joined(further[k - 1], further[k])
  <2>1. CASE k = n + 1
    <3>1. k - 1 = n /\ n \in 0 .. n
      BY <2>1
    <3>2. further[k - 1] = a /\ further[k] = b
      BY <1>1, <1>2, <2>1, <3>1 DEF IsWay
    <3> QED BY <3>2
  <2>2. CASE k \in 1 .. n
    <3>1. k - 1 \in 0 .. n /\ k \in 0 .. n
      BY <2>2
    <3> QED BY <1>1, <1>2, <2>2, <3>1 DEF IsWay
  <2> QED BY <2>1, <2>2
<1>4. 0 \in 0 .. n
  OBVIOUS
<1>5. IsWay(further, n + 1, b)
  BY <1>1, <1>2, <1>3, <1>4 DEF IsWay
<1> QED BY <1>5 DEF Reached

LEMMA WayLastStep ==
    ASSUME NEW b, NEW n \in Nat, Reached(b, n + 1)
    PROVE  \E a \in Nat : Reached(a, n) /\ Joined(a, b)
<1>1. PICK way : IsWay(way, n + 1, b)
  BY DEF Reached
<1> DEFINE part == [k \in 0 .. n |-> way[k]]
<1>2. /\ part \in [0 .. n -> Nat] /\ \A k \in 0 .. n : part[k] = way[k]
  BY <1>1 DEF IsWay
<1> HIDE DEF part
<1>3. ASSUME NEW k \in 1 .. n PROVE Joined(part[k - 1], part[k])
  <2>1. k - 1 \in 0 .. n /\ k \in 0 .. n /\ k \in 1 .. n + 1
    OBVIOUS
  <2> QED BY <1>1, <1>2, <2>1 DEF IsWay
<1>4. 0 \in 0 .. n /\ n \in 0 .. n /\ n + 1 \in 1 .. n + 1 /\ (n + 1) - 1 = n
  OBVIOUS
<1>5. IsWay(part, n, way[n]) /\ Joined(way[n], b) /\ way[n] \in Nat
  BY <1>1, <1>2, <1>3, <1>4 DEF IsWay
<1> QED BY <1>5 DEF Reached

(* The shortest way visits no document twice, and so is shorter than the   *)
(* number of documents.                                                    *)
LEMMA WayShortened ==
    ASSUME NEW way, NEW n \in Nat, NEW doc, IsWay(way, n, doc),
           NEW i \in 0 .. n, NEW j \in 0 .. n, i < j, way[i] = way[j]
    PROVE  n - (j - i) \in Nat /\ n - (j - i) < n /\ Reached(doc, n - (j - i))
<1> DEFINE m == n - (j - i)
           short == [k \in 0 .. m |-> IF k <= i THEN way[k] ELSE way[k + (j - i)]]
<1>1. /\ m \in Nat /\ m < n /\ i \in 0 .. m
      /\ \A k \in 0 .. m : k \in 0 .. n /\ k + (j - i) \in 0 .. n
  OBVIOUS
<1>2. way \in [0 .. n -> Nat]
  BY DEF IsWay
<1>3. /\ short \in [0 .. m -> Nat]
      /\ \A k \in 0 .. i : short[k] = way[k]
      /\ \A k \in i .. m : short[k] = way[k + (j - i)]
  <2>1. \A k \in i .. m : k \in 0 .. m /\ (k <= i => k = i /\ k + (j - i) = j)
    BY <1>1
  <2>2. \A k \in 0 .. i : k \in 0 .. m /\ k <= i
    BY <1>1
  <2> QED BY <1>1, <1>2, <2>1, <2>2
<1> HIDE DEF short
<1>4. ASSUME NEW k \in 1 .. m PROVE Joined(short[k - 1], short[k])
  <2>1. CASE k <= i
    <3>1. k \in 0 .. i /\ k - 1 \in 0 .. i /\ k \in 1 .. n
      BY <1>1, <2>1
    <3> QED BY <1>3, <3>1 DEF IsWay
  <2>2. CASE i < k
    <3>1. /\ k \in i .. m /\ k - 1 \in i .. m /\ k + (j - i) \in 1 .. n
          /\ (k - 1) + (j - i) = (k + (j - i)) - 1
      BY <1>1, <2>2
    <3>2. Joined(way[(k + (j - i)) - 1], way[k + (j - i)])
      BY <3>1 DEF IsWay
    <3> QED BY <1>3, <3>1, <3>2
  <2> QED BY <1>1, <2>1, <2>2
<1>5. 0 \in 0 .. i /\ m \in i .. m /\ m + (j - i) = n
  BY <1>1
<1>6. short[0] = way[0] /\ short[m] = way[n]
  BY <1>3, <1>5
<1>7. IsWay(short, m, doc)
  BY <1>3, <1>4, <1>6 DEF IsWay
<1> HIDE DEF m
<1>8. Reached(doc, m)
  BY <1>7 DEF Reached
<1> QED BY <1>1, <1>8 DEF m

LEMMA WaysStayInside ==
    ASSUME StateTyped, DocumentsKnown, NEW n \in Nat, NEW doc, NEW way, IsWay(way, n, doc)
    PROVE  \A k \in 0 .. n : way[k] \in Doc
<1> SUFFICES ASSUME NEW k \in 0 .. n PROVE way[k] \in Doc
  OBVIOUS
<1>1. CASE k = 0
  <2>1. way[0] \in 1 .. Len(world.roots) /\ Len(world.roots) <= Len(documents)
    BY DEF IsWay, DocumentsKnown
  <2>2. Len(documents) \in Nat /\ Len(world.roots) \in Nat
    BY WorldAssumption DEF StateTyped
  <2> QED BY <1>1, <2>1, <2>2 DEF Doc
<1>2. CASE k \in 1 .. n
  <2>1. Joined(way[k - 1], way[k])
    BY <1>2 DEF IsWay
  <2> QED BY <2>1 DEF Joined, DocumentsKnown
<1> QED BY <1>1, <1>2

LEMMA ShortestWay ==
    ASSUME StateTyped, DocumentsKnown, NEW doc, NEW n \in Nat, Reached(doc, n)
    PROVE  \E m \in 0 .. Len(documents) :
              /\ Reached(doc, m) /\ m <= n
              /\ \A k \in Nat : Reached(doc, k) => m <= k
<1> DEFINE S == {k \in Nat : Reached(doc, k)}
<1>1. S \subseteq Nat /\ S # {} /\ n \in S
  OBVIOUS
<1>2. PICK m \in S : \A k \in S : m <= k
  <2> HIDE DEF S
  <2> QED BY <1>1, LeastNatural
<1>3. PICK way : IsWay(way, m, doc)
  BY <1>2 DEF Reached
<1>4. m \in Nat /\ Len(documents) \in Nat
  BY <1>2 DEF StateTyped
<1>5. \A k \in 0 .. m : way[k] \in Doc
  BY <1>3, <1>4, WaysStayInside
<1>6. ASSUME m > Len(documents) PROVE FALSE
  <2> DEFINE A == 0 .. m
             B == 1 .. Len(documents)
  <2>1. IsFiniteSet(A) /\ Cardinality(A) = m + 1
    BY <1>4, FS_Interval
  <2>2. IsFiniteSet(B) /\ Cardinality(B) = Len(documents)
    <3>1. ASSUME NEW N \in Nat PROVE IsFiniteSet(1 .. N) /\ Cardinality(1 .. N) = N
      BY FS_Interval
    <3> QED BY <1>4, <3>1
  <2>3. way \in [A -> B]
    BY <1>3, <1>5 DEF IsWay, Doc
  <2>4. Cardinality(B) < Cardinality(A)
    BY <1>4, <1>6, <2>1, <2>2
  <2> HIDE DEF A, B
  <2>5. PICK x, y \in A : x # y /\ way[x] = way[y]
    BY <2>1, <2>2, <2>3, <2>4, FS_PigeonHole
  <2>6. PICK i, j \in 0 .. m : i < j /\ way[i] = way[j]
    <3>1. x \in 0 .. m /\ y \in 0 .. m /\ (x < y \/ y < x)
      BY <2>5 DEF A
    <3> QED BY <2>5, <3>1
  <2>7. m - (j - i) \in Nat /\ m - (j - i) < m /\ Reached(doc, m - (j - i))
    BY <1>3, <1>4, <2>6, WayShortened
  <2>8. ~ m <= m - (j - i)
    BY <1>4, <2>7
  <2> QED BY <1>2, <2>7, <2>8
<1>7. m \in 0 .. Len(documents)
  BY <1>4, <1>6
<1> QED BY <1>1, <1>2, <1>7

(* What Within computes.                                                   *)
ReachStep(reach, n) ==
    IF n = 0 THEN 1 .. Len(world.roots)
    ELSE LET nearer == reach[n - 1] IN nearer \cup Targets(nearer)

LEMMA WithinExists ==
    ASSUME Len(documents) \in Nat
    PROVE  \E reach : reach = [n \in 0 .. Len(documents) |-> ReachStep(reach, n)]
<1> DEFINE N == Len(documents)
           Upto(m, f) == \A n \in 0 .. m : f[n] = ReachStep(f, n)
           S == {m \in 0 .. N : \E f : f = [n \in 0 .. m |-> f[n]] /\ Upto(m, f)}
<1>1. 0 \in S
  <2> DEFINE f == [n \in 0 .. 0 |-> 1 .. Len(world.roots)]
  <2>1. f = [n \in 0 .. 0 |-> f[n]] /\ Upto(0, f)
    BY DEF ReachStep
  <2> HIDE DEF f
  <2> QED BY <2>1
<1>2. ASSUME NEW m \in 0 .. N - 1, m \in S PROVE m + 1 \in S
  <2>1. PICK f : f = [n \in 0 .. m |-> f[n]] /\ Upto(m, f)
    BY <1>2
  <2> DEFINE g == [n \in 0 .. m + 1 |->
                     IF n = m + 1 THEN ReachStep(f, m + 1) ELSE f[n]]
  <2>2. \A n \in 0 .. m : g[n] = f[n]
    OBVIOUS
  <2>3. g[m + 1] = ReachStep(f, m + 1)
    OBVIOUS
  <2>4. g = [n \in 0 .. m + 1 |-> g[n]]
    OBVIOUS
  <2> HIDE DEF g
  <2>5. ASSUME NEW n \in 0 .. m + 1 PROVE g[n] = ReachStep(g, n)
    <3>1. n = 0 \/ n - 1 \in 0 .. m
      OBVIOUS
    <3>2. ReachStep(g, n) = ReachStep(f, n)
      BY <2>2, <3>1 DEF ReachStep
    <3> QED BY <2>1, <2>2, <2>3, <3>2
  <2> QED BY <2>4, <2>5
<1> HIDE DEF S
<1>3. N \in S
  <2>1. \A m \in 0 .. N : m \in S
    BY <1>1, <1>2, BoundedInduction
  <2> QED BY <2>1
<1>4. PICK f : f = [n \in 0 .. N |-> f[n]] /\ Upto(N, f)
  BY <1>3 DEF S
<1>5. f = [n \in 0 .. N |-> ReachStep(f, n)]
  BY <1>4
<1> QED BY <1>5

LEMMA WithinReaches ==
    ASSUME Len(documents) \in Nat
    PROVE  \A n \in 0 .. Len(documents) : Within[n] = ReachStep(Within, n)
<1>1. PICK f : f = [n \in 0 .. Len(documents) |-> ReachStep(f, n)]
  BY WithinExists
<1>2. Within = CHOOSE reach : reach = [n \in 0 .. Len(documents) |-> ReachStep(reach, n)]
  BY DEF Within, ReachStep
<1>3. Within = [n \in 0 .. Len(documents) |-> ReachStep(Within, n)]
  BY <1>1, <1>2
<1> QED BY <1>3

LEMMA WithinForms ==
    ASSUME StateTyped, DocumentsKnown
    PROVE  \A n \in 0 .. Len(documents) : \A doc \in Nat :
              doc \in Within[n] <=> \E m \in 0 .. n : Reached(doc, m)
<1> DEFINE N == Len(documents)
           Form(n) == \A doc : doc \in Within[n] <=>
                                  doc \in Nat /\ \E m \in 0 .. n : Reached(doc, m)
           S == {n \in 0 .. N : Form(n)}
<1>1. N \in Nat /\ Len(world.roots) \in Nat
  BY WorldAssumption DEF StateTyped
<1>2. \A n \in 0 .. N : Within[n] = ReachStep(Within, n)
  BY <1>1, WithinReaches
<1>3. 0 \in S
  <2>1. Within[0] = 1 .. Len(world.roots)
    <3>1. Within[0] = ReachStep(Within, 0)
      BY <1>1, <1>2
    <3> QED BY <3>1 DEF ReachStep
  <2>2. \A doc \in Nat : Reached(doc, 0) <=> doc \in 1 .. Len(world.roots)
    BY RootsReached
  <2> QED BY <1>1, <2>1, <2>2
<1>4. ASSUME NEW n \in 0 .. N - 1, n \in S PROVE n + 1 \in S
  <2>1. Within[n + 1] = Within[n] \cup Targets(Within[n])
    <3>1. n + 1 \in 0 .. N /\ n + 1 # 0 /\ (n + 1) - 1 = n
      BY <1>1
    <3>2. Within[n + 1] = ReachStep(Within, n + 1)
      BY <1>2, <3>1
    <3> QED BY <3>1, <3>2 DEF ReachStep
  <2>2. \A doc : doc \in Targets(Within[n]) <=> \E a \in Within[n] : Joined(a, doc)
    BY DEF Targets, Edges, Joined
  <2>3. ASSUME NEW doc, doc \in Within[n + 1]
        PROVE  doc \in Nat /\ \E m \in 0 .. n + 1 : Reached(doc, m)
    <3>1. CASE doc \in Within[n]
      BY <1>4, <3>1
    <3>2. CASE \E a \in Within[n] : Joined(a, doc)
      <4>1. PICK a \in Within[n] : Joined(a, doc)
        BY <3>2
      <4>2. PICK m \in 0 .. n : Reached(a, m)
        BY <1>4
      <4>3. doc \in Nat
        BY <4>1 DEF Joined, DocumentsKnown, Doc
      <4>4. Reached(doc, m + 1)
        BY <4>1, <4>2, <4>3, WayExtended
      <4> QED BY <4>2, <4>3, <4>4
    <3> QED BY <2>1, <2>2, <2>3, <3>1, <3>2
  <2>4. ASSUME NEW doc \in Nat, NEW m \in 0 .. n + 1, Reached(doc, m)
        PROVE  doc \in Within[n + 1]
    <3>1. CASE m \in 0 .. n
      BY <1>4, <2>1, <2>4, <3>1
    <3>2. CASE m = n + 1
      <4>1. PICK a \in Nat : Reached(a, n) /\ Joined(a, doc)
        BY <2>4, <3>2, WayLastStep
      <4>2. a \in Within[n]
        BY <1>4, <4>1
      <4> QED BY <2>1, <2>2, <4>1, <4>2
    <3> QED BY <3>1, <3>2
  <2>5. n + 1 \in 0 .. N
    BY <1>1
  <2> QED BY <2>3, <2>4, <2>5
<1> HIDE DEF S
<1>5. \A n \in 0 .. N : n \in S
  BY <1>1, <1>3, <1>4, BoundedInduction
<1> QED BY <1>5 DEF S

(* What the distances of the walk are.                                     *)
LEMMA DistanceForms ==
    ASSUME StateTyped, DocumentsKnown, NEW doc \in Nat
    PROVE  /\ Reachable(doc) <=> \E n \in Nat : Reached(doc, n)
           /\ Reachable(doc) =>
                 /\ Distance(doc) \in Nat /\ Reached(doc, Distance(doc))
                 /\ \A n \in Nat : Reached(doc, n) => Distance(doc) <= n
<1>1. PICK N : N = Len(documents)
  OBVIOUS
<1>2. N \in Nat
  BY <1>1 DEF StateTyped
<1>3. \A n \in 0 .. N : doc \in Within[n] <=> \E m \in 0 .. n : Reached(doc, m)
  BY <1>1, WithinForms
<1>4. Reachable(doc) => \E n \in Nat : Reached(doc, n)
  BY <1>1, <1>2, <1>3 DEF Reachable
<1>5. ASSUME NEW n \in Nat, Reached(doc, n)
      PROVE  Reachable(doc) /\ Distance(doc) \in Nat /\ Reached(doc, Distance(doc))
             /\ \A k \in Nat : Reached(doc, k) => Distance(doc) <= k
  <2>1. PICK m \in 0 .. N : Reached(doc, m) /\ \A k \in Nat : Reached(doc, k) => m <= k
    BY <1>1, <1>5, ShortestWay
  <2>2. Reachable(doc)
    <3>1. N \in 0 .. N
      BY <1>2
    <3> QED BY <1>1, <1>3, <2>1, <3>1 DEF Reachable
  <2>3. doc \in Within[m] /\ \A k \in 0 .. m - 1 : doc \notin Within[k]
    <3>1. m \in 0 .. m
      BY <1>2
    <3>2. ASSUME NEW k \in 0 .. m - 1 PROVE doc \notin Within[k]
      <4>1. k \in 0 .. N /\ \A l \in 0 .. k : l \in Nat /\ ~ m <= l
        BY <1>2
      <4> QED BY <1>3, <2>1, <4>1
    <3> QED BY <1>3, <2>1, <3>1, <3>2
  <2>4. ASSUME NEW k \in 0 .. N, doc \in Within[k], \A l \in 0 .. k - 1 : doc \notin Within[l]
        PROVE  k = m
    <3>1. PICK l \in 0 .. k : Reached(doc, l)
      BY <1>3, <2>4
    <3>2. m <= l
      BY <2>1, <3>1
    <3>3. ~ m \in 0 .. k - 1
      BY <2>3, <2>4
    <3> QED BY <1>2, <3>1, <3>2, <3>3
  <2>5. Distance(doc) = CHOOSE k \in 0 .. N :
           doc \in Within[k] /\ \A l \in 0 .. k - 1 : doc \notin Within[l]
    BY <1>1 DEF Distance
  <2>6. \E k \in 0 .. N : doc \in Within[k] /\ \A l \in 0 .. k - 1 : doc \notin Within[l]
    BY <2>3
  <2>7. Distance(doc) = m
    BY <2>4, <2>5, <2>6
  <2> QED BY <2>1, <2>2, <2>7
<1> QED BY <1>4, <1>5

-----------------------------------------------------------------------------
(* What waits or is walked is as near as it is said to be, and what is     *)
(* refused in the end is too far away.                                     *)
Near(doc, depth) == Reached(doc, depth) /\ ~ TooDeep(depth)

FrameNear(frame) ==
    /\ Near(frame.doc, frame.depth)
    /\ \A j \in 1 .. Len(frame.loaded) : Joined(frame.doc, frame.loaded[j])

StackNear == \A i \in 1 .. Len(stack) : FrameNear(stack[i])
StartsNear == \A i \in 1 .. Len(starts) : Near(starts[i].doc, starts[i].depth)
VisitsNear == \A i \in 1 .. Len(visits) : Near(visits[i].doc, visits[i].depth)
DeferredFar == deferred # <<>> => world.max_depth # 0
NothingLeft == done => stack = <<>> /\ starts = <<>> /\ deferred = <<>>
Far(doc) == Reachable(doc) => TooDeep(Distance(doc))
RefusedFar ==
    \A i \in 1 .. Len(errors) : errors[i].target # NoDocument =>
        done /\ errors[i].code = "depth" /\ Far(errors[i].target)

DepthInv ==
    /\ StackNear /\ StartsNear /\ VisitsNear
    /\ DeferredFar /\ NothingLeft /\ RefusedFar

(* Ways stay when edges are added.                                         *)
LEMMA WaysStay ==
    ASSUME world' = world, \A a, b : Joined(a, b) => Joined(a, b)'
    PROVE  /\ \A doc, n : Reached(doc, n) => Reached(doc, n)'
           /\ \A doc, n : Near(doc, n) => Near(doc, n)'
           /\ \A frame : FrameNear(frame) => FrameNear(frame)'
<1>1. ASSUME NEW doc, NEW n, Reached(doc, n) PROVE Reached(doc, n)'
  <2>1. PICK way : IsWay(way, n, doc)
    BY <1>1 DEF Reached
  <2>2. IsWay(way, n, doc)'
    BY <2>1 DEF IsWay
  <2> QED BY <2>2 DEF Reached
<1>2. ASSUME NEW doc, NEW n, Near(doc, n) PROVE Near(doc, n)'
  <2>1. Reached(doc, n)'
    BY <1>1, <1>2 DEF Near
  <2> QED BY <1>2, <2>1 DEF Near, TooDeep
<1>3. ASSUME NEW frame, FrameNear(frame) PROVE FrameNear(frame)'
  BY <1>2, <1>3 DEF FrameNear
<1> QED BY <1>1, <1>2, <1>3

LEMMA EdgesStay ==
    ASSUME composition_edges' = composition_edges
    PROVE  \A a, b : Joined(a, b) => Joined(a, b)'
BY DEF Joined

(* While there is something to do, nothing is refused.                     *)
LEMMA NothingRefused ==
    ASSUME DepthInv, stack # <<>> \/ starts # <<>> \/ ~ done
    PROVE  ~ done /\ \A i \in 1 .. Len(errors) : errors[i].target = NoDocument
BY DEF DepthInv, NothingLeft, RefusedFar

LEMMA BeginNear ==
    ASSUME WalkInv, DepthInv, Begin
    PROVE  DepthInv'
<1>1. PICK doc, depth : doc = Head(starts).doc /\ depth = Head(starts).depth
  OBVIOUS
<1>2. PICK frame, visit : frame = ClosureFrame(doc, depth) /\ visit = Visit(doc, depth, TRUE)
  OBVIOUS
<1>3. /\ starts # <<>> /\ stack' = <<frame>> /\ visits' = Append(visits, visit)
      /\ starts' = Tail(starts)
      /\ UNCHANGED <<world, composition_edges, deferred, errors, done>>
  BY <1>1, <1>2 DEF Begin
<1>4. StateTyped
  BY DEF WalkInv
<1>5. /\ 1 \in 1 .. Len(starts) /\ doc = starts[1].doc /\ depth = starts[1].depth
      /\ Len(starts') = Len(starts) - 1 /\ Len(starts) \in Nat
      /\ \A i \in 1 .. Len(starts) - 1 : starts'[i] = starts[i + 1] /\ i + 1 \in 1 .. Len(starts)
      /\ doc \in Nat /\ depth \in Nat
  <2>1. starts \in Seq(StartType)
    BY <1>4 DEF StateTyped
  <2>2. 1 \in 1 .. Len(starts) /\ Head(starts) = starts[1] /\ starts[1] \in StartType
    BY <1>3, <2>1
  <2>3. /\ Len(starts') = Len(starts) - 1 /\ Len(starts) \in Nat
        /\ \A i \in 1 .. Len(starts) - 1 : starts'[i] = starts[i + 1] /\ i + 1 \in 1 .. Len(starts)
    BY <1>3, <2>1
  <2> QED BY <1>1, <2>2, <2>3 DEF StartType
<1>6. /\ \A d, n : Near(d, n) => Near(d, n)'
      /\ \A d, n : Reached(d, n) => Reached(d, n)'
  BY <1>3, EdgesStay, WaysStay
<1>7. Near(doc, depth)'
  <2>1. Near(doc, depth)
    BY <1>5 DEF DepthInv, StartsNear
  <2> QED BY <1>6, <2>1
<1>8. StackNear'
  <2>1. frame.doc = doc /\ frame.depth = depth /\ frame.loaded = <<>>
    BY <1>2 DEF ClosureFrame
  <2>2. FrameNear(frame)'
    BY <1>7, <2>1 DEF FrameNear
  <2>3. Len(stack') = 1 /\ stack'[1] = frame
    BY <1>3
  <2> QED BY <2>2, <2>3 DEF StackNear
<1>9. StartsNear'
  <2>1. PICK ss, ts : ss = starts /\ ts = starts'
    OBVIOUS
  <2>2. ASSUME NEW i \in 1 .. Len(ts) PROVE Near(ts[i].doc, ts[i].depth)'
    <3>1. ts[i] = ss[i + 1] /\ i + 1 \in 1 .. Len(ss)
      BY <1>5, <2>1
    <3>2. Near(ss[i + 1].doc, ss[i + 1].depth)
      BY <2>1, <3>1 DEF DepthInv, StartsNear
    <3> QED BY <1>6, <3>1, <3>2
  <2> QED BY <2>1, <2>2 DEF StartsNear
<1>10. VisitsNear'
  <2>1. PICK vs, ws : vs = visits /\ ws = visits'
    OBVIOUS
  <2>2. visit \in VisitType /\ visit.doc = doc /\ visit.depth = depth
    BY <1>2, <1>5, NewFrame DEF Visit
  <2>3. LongerBy(ws, vs, visit)
    BY <1>3, <1>4, <2>1, <2>2, AppendedTo DEF StateTyped
  <2>4. ASSUME NEW i \in 1 .. Len(ws) PROVE Near(ws[i].doc, ws[i].depth)'
    <3>1. CASE i \in 1 .. Len(vs)
      <4>1. Near(vs[i].doc, vs[i].depth) /\ ws[i] = vs[i]
        BY <2>1, <2>3, <3>1 DEF DepthInv, VisitsNear, LongerBy
      <4> QED BY <1>6, <4>1
    <3>2. CASE i = Len(vs) + 1
      BY <1>7, <2>2, <2>3, <3>2 DEF LongerBy
    <3> QED BY <2>3, <3>1, <3>2 DEF LongerBy
  <2> QED BY <2>1, <2>4 DEF VisitsNear
<1>11. ~ done /\ \A i \in 1 .. Len(errors) : errors[i].target = NoDocument
  BY <1>3, NothingRefused
<1>12. DeferredFar' /\ NothingLeft' /\ RefusedFar'
  BY <1>3, <1>11 DEF DepthInv, DeferredFar, NothingLeft, RefusedFar
<1> QED BY <1>8, <1>9, <1>10, <1>12 DEF DepthInv

(* The top frame goes on.                                                  *)
LEMMA TopNear ==
    ASSUME StateTyped, DocumentsKnown, StackNear, stack # <<>>, NEW new \in FrameType,
           FrameNear(new)', NEW s, s = Append(Below, new),
           \A frame : FrameNear(frame) => FrameNear(frame)'
    PROVE  s \in Seq(FrameType) /\ \A i \in 1 .. Len(s) : FrameNear(s[i])'
<1>1. PICK old, n : old = stack /\ n = Len(stack)
  OBVIOUS
<1>2. /\ n \in Nat \ {0} /\ Len(s) = n /\ s[n] = new /\ s \in Seq(FrameType)
      /\ \A i \in 1 .. n - 1 : s[i] = old[i]
      /\ \A i : i \in 1 .. n <=> (i \in 1 .. n - 1 \/ i = n)
  BY <1>1, TopReplaced
<1>3. ASSUME NEW i \in 1 .. n PROVE FrameNear(s[i])'
  <2>1. CASE i \in 1 .. n - 1
    <3>1. FrameNear(old[i])
      BY <1>1 DEF StackNear
    <3> QED BY <1>2, <2>1, <3>1
  <2>2. CASE i = n
    BY <1>2, <2>2
  <2> QED BY <1>2, <2>1, <2>2
<1> QED BY <1>2, <1>3

LEMMA VisitNear ==
    ASSUME visits \in Seq(VisitType), VisitsNear, NEW visit \in VisitType,
           visits' = Append(visits, visit), Near(visit.doc, visit.depth)',
           \A doc, n : Near(doc, n) => Near(doc, n)'
    PROVE  VisitsNear'
<1>1. PICK vs, ws : vs = visits /\ ws = visits'
  OBVIOUS
<1>2. LongerBy(ws, vs, visit)
  BY <1>1, AppendedTo
<1>3. ASSUME NEW i \in 1 .. Len(ws) PROVE Near(ws[i].doc, ws[i].depth)'
  <2>1. CASE i \in 1 .. Len(vs)
    <3>1. Near(vs[i].doc, vs[i].depth) /\ ws[i] = vs[i]
      BY <1>1, <1>2, <2>1 DEF VisitsNear, LongerBy
    <3> QED BY <3>1
  <2>2. CASE i = Len(vs) + 1
    BY <1>2, <2>2 DEF LongerBy
  <2> QED BY <1>2, <2>1, <2>2 DEF LongerBy
<1> QED BY <1>1, <1>3 DEF VisitsNear

LEMMA DescendNear ==
    ASSUME WalkInv, DepthInv, Descend
    PROVE  DepthInv'
<1>0. /\ StateTyped /\ DocumentsKnown
      /\ StackNear /\ StartsNear /\ VisitsNear
  BY DEF WalkInv, DepthInv
<1>1. PICK top, child : top = Top /\ child = Child
  OBVIOUS
<1>2. PICK new, frame, visit :
         /\ new = [top EXCEPT !.next = @ + 1] /\ frame = ClosureFrame(child, top.depth + 1)
         /\ visit = Visit(child, top.depth + 1, FALSE)
  OBVIOUS
<1>3. /\ AtChild /\ stack # <<>> /\ ~ TooDeep(top.depth + 1)
      /\ stack' = Append(Append(Below, new), frame) /\ visits' = Append(visits, visit)
      /\ UNCHANGED <<world, composition_edges, starts, deferred, errors, done>>
  BY <1>1, <1>2 DEF Descend, AtChild
<1>4. /\ \A d, n : Near(d, n) => Near(d, n)'
      /\ \A d, n : Reached(d, n) => Reached(d, n)'
      /\ \A f : FrameNear(f) => FrameNear(f)'
  BY <1>3, EdgesStay, WaysStay
<1>5. /\ new \in FrameType /\ new.doc = top.doc /\ new.loaded = top.loaded
      /\ new.depth = top.depth /\ child \in Nat /\ top.depth \in Nat
  <2>1. /\ child \in Doc /\ top.depth \in Nat /\ new \in FrameType
        /\ new.doc = top.doc /\ new.loaded = top.loaded
    BY <1>0, <1>1, <1>2, <1>3, Advanced
  <2>2. new.depth = top.depth
    BY <1>0, <1>1, <1>2, <1>3, TopTyped DEF FrameType
  <2> QED BY <2>1, <2>2 DEF Doc
<1>6. FrameNear(top)
  BY <1>0, <1>1, <1>3, TopTyped DEF StackNear
<1>7. FrameNear(new)'
  <2>1. FrameNear(new)
    BY <1>5, <1>6 DEF FrameNear
  <2> QED BY <1>4, <2>1
<1>8. Near(child, top.depth + 1)'
  <2>1. Joined(top.doc, child)
    <3>1. top \in FrameType /\ FrameKnown(top) /\ top.next <= Len(top.loaded)
      BY <1>0, <1>1, <1>3, TopTyped DEF AtChild
    <3>2. top.next \in 1 .. Len(top.loaded) /\ child = top.loaded[top.next]
      BY <1>1, <3>1 DEF FrameKnown, Child, FrameType
    <3> QED BY <1>6, <3>2 DEF FrameNear
  <2>2. Reached(child, top.depth + 1)
    BY <1>5, <1>6, <2>1, WayExtended DEF FrameNear, Near
  <2>3. Near(child, top.depth + 1)
    BY <1>3, <2>2 DEF Near
  <2> QED BY <1>4, <2>3
<1>9. /\ frame \in FrameType /\ frame.doc = child /\ frame.depth = top.depth + 1
      /\ frame.loaded = <<>> /\ visit \in VisitType
      /\ visit.doc = child /\ visit.depth = top.depth + 1
  <2>1. top.depth + 1 \in Nat
    BY <1>5
  <2> QED BY <1>2, <1>5, <2>1, NewFrame DEF ClosureFrame, Visit
<1>10. StackNear'
  <2>1. PICK s : s = Append(Below, new)
    OBVIOUS
  <2>2. PICK t : t = stack'
    OBVIOUS
  <2>3. s \in Seq(FrameType) /\ \A i \in 1 .. Len(s) : FrameNear(s[i])'
    BY <1>0, <1>3, <1>4, <1>5, <1>7, <2>1, TopNear
  <2>4. LongerBy(t, s, frame)
    BY <1>3, <1>9, <2>1, <2>2, <2>3, AppendedTo
  <2>5. FrameNear(frame)'
    BY <1>8, <1>9 DEF FrameNear
  <2>6. ASSUME NEW i \in 1 .. Len(t) PROVE FrameNear(t[i])'
    BY <2>3, <2>4, <2>5 DEF LongerBy
  <2> QED BY <2>2, <2>6 DEF StackNear
<1>11. StartsNear'
  BY <1>0, <1>3, <1>4 DEF StartsNear
<1>12. VisitsNear'
  BY <1>0, <1>3, <1>4, <1>8, <1>9, VisitNear DEF StateTyped
<1>13. ~ done /\ \A i \in 1 .. Len(errors) : errors[i].target = NoDocument
  BY <1>3, NothingRefused
<1>14. DeferredFar' /\ NothingLeft' /\ RefusedFar'
  BY <1>3, <1>13 DEF DepthInv, DeferredFar, NothingLeft, RefusedFar
<1> QED BY <1>10, <1>11, <1>12, <1>14 DEF DepthInv

LEMMA DeferNear ==
    ASSUME WalkInv, DepthInv, Defer
    PROVE  DepthInv'
<1>0. /\ StateTyped /\ DocumentsKnown
      /\ StackNear /\ StartsNear /\ VisitsNear
  BY DEF WalkInv, DepthInv
<1>1. PICK top, new : top = Top /\ new = [top EXCEPT !.next = @ + 1]
  OBVIOUS
<1>2. /\ AtChild /\ stack # <<>> /\ TooDeep(top.depth + 1)
      /\ stack' = Append(Below, new)
      /\ UNCHANGED <<world, composition_edges, starts, errors, visits, done>>
  BY <1>1 DEF Defer, AtChild
<1>3. /\ \A d, n : Near(d, n) => Near(d, n)'
      /\ \A f : FrameNear(f) => FrameNear(f)'
  BY <1>2, EdgesStay, WaysStay
<1>4. /\ new \in FrameType /\ new.doc = top.doc /\ new.loaded = top.loaded
      /\ new.depth = top.depth
  <2>1. new \in FrameType /\ new.doc = top.doc /\ new.loaded = top.loaded
    BY <1>0, <1>1, <1>2, Advanced
  <2>2. new.depth = top.depth
    BY <1>0, <1>1, <1>2, TopTyped DEF FrameType
  <2> QED BY <2>1, <2>2
<1>5. FrameNear(new)'
  <2>1. FrameNear(top)
    BY <1>0, <1>1, <1>2, TopTyped DEF StackNear
  <2>2. FrameNear(new)
    BY <1>4, <2>1 DEF FrameNear
  <2> QED BY <1>3, <2>2
<1>6. StackNear'
  <2>1. PICK t : t = stack'
    OBVIOUS
  <2>2. \A i \in 1 .. Len(t) : FrameNear(t[i])'
    BY <1>0, <1>2, <1>3, <1>4, <1>5, <2>1, TopNear
  <2> QED BY <2>1, <2>2 DEF StackNear
<1>7. StartsNear' /\ VisitsNear'
  BY <1>0, <1>2, <1>3 DEF StartsNear, VisitsNear
<1>8. ~ done /\ \A i \in 1 .. Len(errors) : errors[i].target = NoDocument
  BY <1>2, NothingRefused
<1>9. DeferredFar' /\ NothingLeft' /\ RefusedFar'
  BY <1>2, <1>8 DEF TooDeep, DeferredFar, NothingLeft, RefusedFar
<1> QED BY <1>6, <1>7, <1>9 DEF DepthInv

LEMMA ReturnNear ==
    ASSUME WalkInv, DepthInv, Return
    PROVE  DepthInv'
<1>0. /\ StateTyped /\ DocumentsKnown
      /\ StackNear /\ StartsNear /\ VisitsNear
  BY DEF WalkInv, DepthInv
<1>1. /\ stack # <<>> /\ stack' = Below /\ errors' = errors \o Top.errors
      /\ UNCHANGED <<world, composition_edges, starts, deferred, visits, done>>
  BY DEF Return
<1>2. /\ \A d, n : Near(d, n) => Near(d, n)'
      /\ \A f : FrameNear(f) => FrameNear(f)'
  BY <1>1, EdgesStay, WaysStay
<1>3. /\ Len(stack) \in Nat \ {0} /\ Len(Below) = Len(stack) - 1
      /\ \A i \in 1 .. Len(stack) - 1 : Below[i] = stack[i]
      /\ Top \in FrameType /\ FrameKnown(Top)
  BY <1>0, <1>1, TopTyped
<1>4. StackNear'
  <2>1. PICK s, t : s = stack /\ t = stack'
    OBVIOUS
  <2>2. ASSUME NEW i \in 1 .. Len(t) PROVE FrameNear(t[i])'
    <3>1. i \in 1 .. Len(s) /\ t[i] = s[i]
      BY <1>1, <1>3, <2>1
    <3>2. FrameNear(s[i])
      BY <1>0, <2>1, <3>1 DEF StackNear
    <3> QED BY <1>2, <3>1, <3>2
  <2> QED BY <2>1, <2>2 DEF StackNear
<1>5. StartsNear' /\ VisitsNear'
  BY <1>0, <1>1, <1>2 DEF StartsNear, VisitsNear
<1>6. ~ done /\ \A i \in 1 .. Len(errors) : errors[i].target = NoDocument
  BY <1>1, NothingRefused
<1>7. PICK old, more, es : old = errors /\ more = Top.errors /\ es = errors'
  OBVIOUS
<1>8. \A i \in 1 .. Len(es) : es[i].target = NoDocument
  <2>1. old \in Seq(ErrorType) /\ more \in Seq(ErrorType)
    BY <1>0, <1>3, <1>7 DEF StateTyped, FrameType
  <2>2. \A i \in 1 .. Len(more) : more[i].target = NoDocument
    BY <1>3, <1>7 DEF FrameKnown
  <2>3. \A i \in 1 .. Len(es) :
           \/ i \in 1 .. Len(old) /\ es[i] = old[i]
           \/ i - Len(old) \in 1 .. Len(more) /\ es[i] = more[i - Len(old)]
    <3>1. es = old \o more
      BY <1>1, <1>7
    <3> QED BY <2>1, <3>1, Concatenated
  <2> QED BY <1>6, <1>7, <2>2, <2>3
<1>9. DeferredFar' /\ NothingLeft' /\ RefusedFar'
  BY <1>1, <1>6, <1>7, <1>8 DEF DepthInv, DeferredFar, NothingLeft, RefusedFar
<1> QED BY <1>4, <1>5, <1>9 DEF DepthInv

LEMMA ResolveNear ==
    ASSUME WalkInv, DepthInv, ResolveDirective
    PROVE  DepthInv'
<1>0. /\ StateTyped /\ DocumentsKnown /\ CachesCover
      /\ StackNear /\ StartsNear /\ VisitsNear
  BY DEF WalkInv, DepthInv
<1>1. PICK top : top = Top
  OBVIOUS
<1>2. PICK d : d = Directives(top.doc)[top.resolved + 1]
  OBVIOUS
<1>3. PICK outcome : outcome = Outcome(top.doc, d)
  OBVIOUS
<1>4. PICK found : found = DirectiveErrors(top.doc, d, outcome)
  OBVIOUS
<1> DEFINE accepted == Succeeds(outcome) /\ ~ Mismatched(d, outcome)
           reads == accepted /\ outcome.result = "loaded"
           frame == [top EXCEPT !.resolved = @ + 1, !.errors = @ \o found,
                                !.loaded = IF reads THEN Append(@, outcome.doc) ELSE @]
<1>5. PICK edge : edge = [source |-> top.doc, target |-> outcome.doc, kind |-> d.kind]
  OBVIOUS
<1>6. PICK loaded : loaded = IF reads THEN Append(top.loaded, outcome.doc) ELSE top.loaded
  OBVIOUS
<1>7. /\ stack # <<>> /\ top.resolved < Len(Directives(top.doc))
      /\ UNCHANGED <<world, starts, deferred, errors, visits, done>>
      /\ composition_edges' = IF accepted THEN Append(composition_edges, edge)
                              ELSE composition_edges
      /\ stack' = Append(Below, frame)
  BY <1>1, <1>2, <1>3, <1>4, <1>5 DEF ResolveDirective
<1>8. frame = [top EXCEPT !.resolved = @ + 1, !.errors = @ \o found, !.loaded = loaded]
  BY <1>6
<1> HIDE DEF accepted, reads, frame
<1>9. /\ Len(stack) \in 1 .. Len(stack) /\ top = stack[Len(stack)]
      /\ top \in FrameType /\ FrameKnown(top)
  <2>1. /\ Len(stack) \in Nat \ {0} /\ top = stack[Len(stack)]
        /\ top \in FrameType /\ FrameKnown(top)
    BY <1>0, <1>1, <1>7, TopTyped
  <2> QED BY <2>1
<1>10. /\ top.doc \in Doc /\ top.doc \in Nat /\ top.resolved \in Nat
       /\ top.loaded \in Seq(Nat) /\ top.errors \in Seq(ErrorType) /\ top.depth \in Nat
  BY <1>9 DEF FrameType, FrameKnown
<1>11. d \in Directive
  <2>1. Directives(top.doc) \in Seq(Directive) /\ Len(Directives(top.doc)) \in Nat
    BY <1>0, <1>10, DirectivesTyped
  <2>2. top.resolved + 1 \in 1 .. Len(Directives(top.doc))
    BY <1>7, <1>10, <2>1
  <2> QED BY <1>2, <2>1, <2>2
<1>12. OutcomeOK(outcome)
  BY <1>0, <1>3, <1>10, <1>11, OutcomeIsOK
<1>13. Len(documents) \in Nat
  BY <1>0 DEF StateTyped
<1>14. ASSUME accepted PROVE edge \in EdgeType /\ outcome.doc \in Nat
  <2>1. outcome.doc \in Nat
    BY <1>12, <1>13, <1>14 DEF accepted, Succeeds, OutcomeOK, Loads, Doc
  <2>2. d.kind \in {"include", "import", "redefine", "override"}
    BY <1>11 DEF Directive
  <2> QED BY <1>5, <1>10, <2>1, <2>2 DEF EdgeType
<1>15. /\ \A a, b : Joined(a, b) => Joined(a, b)'
       /\ accepted => Joined(top.doc, outcome.doc)'
  <2>1. CASE ~ accepted
    BY <1>7, <2>1, EdgesStay
  <2>2. CASE accepted
    <3>1. PICK es, fs : es = composition_edges /\ fs = composition_edges'
      OBVIOUS
    <3>2. LongerBy(fs, es, edge) /\ Len(es) \in Nat
      BY <1>0, <1>7, <1>14, <2>2, <3>1, AppendedTo DEF StateTyped
    <3>3. ASSUME NEW a, NEW b, Joined(a, b) PROVE Joined(a, b)'
      <4>1. PICK i \in 1 .. Len(es) : es[i].source = a /\ es[i].target = b
        BY <3>1, <3>3 DEF Joined
      <4>2. i \in 1 .. Len(fs) /\ fs[i] = es[i]
        BY <3>2 DEF LongerBy
      <4> QED BY <3>1, <4>1, <4>2 DEF Joined
    <3>4. Joined(top.doc, outcome.doc)'
      <4>1. Len(es) + 1 \in 1 .. Len(fs) /\ fs[Len(es) + 1] = edge
        BY <3>2 DEF LongerBy
      <4>2. edge.source = top.doc /\ edge.target = outcome.doc
        BY <1>5
      <4> QED BY <3>1, <4>1, <4>2 DEF Joined
    <3> QED BY <3>3, <3>4
  <2> QED BY <2>1, <2>2
<1>16. /\ \A doc, n : Near(doc, n) => Near(doc, n)'
       /\ \A f : FrameNear(f) => FrameNear(f)'
  BY <1>7, <1>15, WaysStay
<1>17. found \in Seq(ErrorType)
  BY <1>4, <1>10, <1>11, ErrorsTyped
<1>18. /\ loaded \in Seq(Nat)
       /\ reads => LongerBy(loaded, top.loaded, outcome.doc)
       /\ ~ reads => loaded = top.loaded
  <2>1. CASE reads
    <3>1. outcome.doc \in Nat
      BY <1>14, <2>1 DEF reads
    <3> QED BY <1>6, <1>10, <2>1, <3>1, AppendedTo
  <2>2. CASE ~ reads
    BY <1>6, <1>10, <2>2
  <2> QED BY <2>1, <2>2
<1>19. PICK new \in FrameType :
         /\ new = frame /\ new.doc = top.doc /\ new.loaded = loaded /\ new.depth = top.depth
  <2>1. top.errors \o found \in Seq(ErrorType) /\ top.resolved + 1 \in Nat
    BY <1>10, <1>17
  <2>2. /\ frame \in FrameType /\ frame.doc = top.doc /\ frame.loaded = loaded
        /\ frame.depth = top.depth
    BY <1>8, <1>9, <1>18, <2>1 DEF FrameType
  <2> QED BY <2>2
<1>20. FrameNear(new)'
  <2>1. FrameNear(top)'
    BY <1>0, <1>9, <1>16 DEF StackNear
  <2>2. Near(new.doc, new.depth)'
    BY <1>19, <2>1 DEF FrameNear
  <2>3. ASSUME NEW j \in 1 .. Len(loaded) PROVE Joined(top.doc, loaded[j])'
    <3>1. CASE j \in 1 .. Len(top.loaded) /\ loaded[j] = top.loaded[j]
      BY <2>1, <3>1 DEF FrameNear
    <3>2. CASE reads /\ loaded[j] = outcome.doc
      BY <1>15, <3>2 DEF reads
    <3> QED BY <1>18, <3>1, <3>2 DEF LongerBy
  <2> QED BY <1>19, <2>2, <2>3 DEF FrameNear
<1>21. StackNear'
  <2>1. PICK t : t = stack'
    OBVIOUS
  <2>2. \A i \in 1 .. Len(t) : FrameNear(t[i])'
    BY <1>0, <1>7, <1>16, <1>19, <1>20, <2>1, TopNear
  <2> QED BY <2>1, <2>2 DEF StackNear
<1>22. StartsNear' /\ VisitsNear'
  BY <1>0, <1>7, <1>16 DEF StartsNear, VisitsNear
<1>23. ~ done /\ \A i \in 1 .. Len(errors) : errors[i].target = NoDocument
  BY <1>7, NothingRefused
<1>24. DeferredFar' /\ NothingLeft' /\ RefusedFar'
  BY <1>7, <1>23 DEF DepthInv, DeferredFar, NothingLeft, RefusedFar
<1> QED BY <1>21, <1>22, <1>24 DEF DepthInv

(* What is resumed is near enough by its distance.                         *)
LEMMA ResumeNear ==
    ASSUME WalkInv, DepthInv, Resume
    PROVE  DepthInv'
<1>0. /\ StateTyped /\ DocumentsKnown
      /\ StackNear /\ StartsNear /\ VisitsNear
  BY DEF WalkInv, DepthInv
<1>1. PICK places, others, early :
         /\ places = ResumableDeferred /\ others = (1 .. Len(deferred)) \ places
         /\ early = Picked(deferred, places)
  OBVIOUS
<1>2. /\ starts' = StartsOf(early) /\ deferred' = Picked(deferred, others)
      /\ UNCHANGED <<world, composition_edges, stack, errors, visits, done>> /\ ~ done
  BY <1>1 DEF Resume, Walked
<1>3. deferred \in Seq(Nat \X Nat) /\ Len(deferred) \in Nat
  BY <1>0 DEF StateTyped
<1>4. /\ early \in Seq(Nat \X Nat) /\ Picks(deferred, places, Len(deferred), early)
      /\ deferred' \in Seq(Nat \X Nat) /\ Picks(deferred, others, Len(deferred), deferred')
  BY <1>1, <1>2, <1>3, PickedPicks
<1>5. /\ \A d, n : Near(d, n) => Near(d, n)'
      /\ \A f : FrameNear(f) => FrameNear(f)'
  BY <1>2, EdgesStay, WaysStay
<1>6. StackNear' /\ VisitsNear'
  BY <1>0, <1>2, <1>5 DEF StackNear, VisitsNear
<1>7. ASSUME NEW i \in 1 .. Len(early)
      PROVE  Near(early[i][2], Distance(early[i][2]))
  <2>1. PICK at : at \in places /\ at \in 1 .. Len(deferred) /\ early[i] = deferred[at]
    BY <1>4 DEF Picks
  <2>2. PICK doc : doc = deferred[at][2]
    OBVIOUS
  <2>3. Resumable(doc) /\ doc \in Nat
    BY <1>1, <1>3, <2>1, <2>2 DEF ResumableDeferred
  <2>4. Reached(doc, Distance(doc)) /\ Distance(doc) \in Nat
    BY <1>0, <2>3, DistanceForms DEF Resumable
  <2>5. ~ TooDeep(Distance(doc))
    <3>1. world.max_depth \in Nat
      BY <1>0, WorldAssumption DEF StateTyped
    <3> QED BY <2>3, <2>4, <3>1 DEF Resumable, TooDeep
  <2> QED BY <2>1, <2>2, <2>4, <2>5 DEF Near
<1>8. StartsNear'
  <2>1. PICK ts : ts = starts'
    OBVIOUS
  <2>2. ts = [i \in 1 .. Len(early) |-> Start(early[i][2], Distance(early[i][2]))]
    BY <1>2, <2>1 DEF StartsOf
  <2>3. Len(early) \in Nat
    BY <1>4
  <2>4. Len(ts) = Len(early)
    BY <2>2, <2>3
  <2>5. ASSUME NEW i \in 1 .. Len(ts) PROVE Near(ts[i].doc, ts[i].depth)'
    <3>1. PICK doc, depth : doc = early[i][2] /\ depth = Distance(early[i][2])
      OBVIOUS
    <3>2. ts[i].doc = doc /\ ts[i].depth = depth
      BY <2>2, <2>4, <3>1 DEF Start
    <3>3. Near(doc, depth)
      BY <1>7, <2>4, <3>1
    <3> QED BY <1>5, <3>2, <3>3
  <2> QED BY <2>1, <2>5 DEF StartsNear
<1>9. DeferredFar'
  <2>1. PICK ds : ds = deferred'
    OBVIOUS
  <2>2. ASSUME ds # <<>> PROVE deferred # <<>>
    <3>1. 1 \in 1 .. Len(ds)
      BY <1>4, <2>1, <2>2
    <3>2. \E at : at \in 1 .. Len(deferred)
      BY <1>4, <2>1, <3>1 DEF Picks
    <3> QED BY <1>3, <3>2
  <2> QED BY <1>2, <2>1, <2>2 DEF DepthInv, DeferredFar
<1>10. NothingLeft' /\ RefusedFar'
  <2>1. \A i \in 1 .. Len(errors) : errors[i].target = NoDocument
    BY <1>2, NothingRefused
  <2> QED BY <1>2, <2>1 DEF NothingLeft, RefusedFar
<1> QED BY <1>6, <1>8, <1>9, <1>10 DEF DepthInv

LEMMA FarStays ==
    ASSUME UNCHANGED <<world, documents, composition_edges>>
    PROVE  \A doc : Far(doc) => Far(doc)'
<1>1. \A doc : Reachable(doc)' <=> Reachable(doc)
  BY DEF Reachable, Within, Targets, Edges
<1>2. \A doc : Distance(doc)' = Distance(doc)
  BY DEF Distance, Within, Targets, Edges
<1> QED BY <1>1, <1>2 DEF Far, TooDeep

(* What is refused is out of reach.                                        *)
LEMMA FinishNear ==
    ASSUME WalkInv, DepthInv, Finish
    PROVE  DepthInv'
<1>0. /\ StateTyped /\ DocumentsKnown
      /\ StackNear /\ StartsNear /\ VisitsNear /\ DeferredFar
  BY DEF WalkInv, DepthInv
<1>1. PICK old, es, refused :
         /\ old = errors /\ es = errors'
         /\ refused = [i \in 1 .. Len(deferred) |-> DepthError(deferred[i][1], deferred[i][2])]
  OBVIOUS
<1>2. /\ stack = <<>> /\ starts = <<>> /\ ~ done /\ ResumableDeferred = {}
      /\ UNCHANGED <<world, documents, composition_edges, starts, stack, visits>>
      /\ es = old \o refused /\ deferred' = <<>> /\ done'
  BY <1>1 DEF Finish, Walked, loading
<1>3. /\ \A d, n : Near(d, n) => Near(d, n)'
      /\ \A f : FrameNear(f) => FrameNear(f)'
  BY <1>2, EdgesStay, WaysStay
<1>4. StackNear' /\ StartsNear' /\ VisitsNear' /\ DeferredFar' /\ NothingLeft'
  BY <1>0, <1>2, <1>3 DEF StackNear, StartsNear, VisitsNear, DeferredFar, NothingLeft
<1>5. deferred \in Seq(Nat \X Nat) /\ Len(deferred) \in Nat
  BY <1>0 DEF StateTyped
<1>6. ASSUME NEW i \in 1 .. Len(deferred)
      PROVE  /\ refused[i] \in ErrorType /\ refused[i].code = "depth"
             /\ refused[i].target = deferred[i][2] /\ Far(refused[i].target)
  <2>1. PICK parent, child : parent = deferred[i][1] /\ child = deferred[i][2]
    OBVIOUS
  <2>2. parent \in Nat /\ child \in Nat
    BY <1>5, <2>1
  <2>3. /\ refused[i] \in ErrorType /\ refused[i].code = "depth"
        /\ refused[i].target = child
    BY <1>1, <2>1, <2>2 DEF DepthError, ErrorType, Code
  <2>4. Far(child)
    <3>1. ~ Resumable(child)
      BY <1>2, <2>1 DEF ResumableDeferred
    <3>2. world.max_depth # 0 /\ world.max_depth \in Nat
      <4>1. deferred # <<>>
        BY <1>5
      <4> QED BY <1>0, <4>1, WorldAssumption DEF DeferredFar, StateTyped
    <3>3. Reachable(child) => Distance(child) \in Nat
      BY <1>0, <2>2, DistanceForms
    <3> QED BY <3>1, <3>2, <3>3 DEF Resumable, Far, TooDeep
  <2> QED BY <2>1, <2>3, <2>4
<1>7. /\ old \in Seq(ErrorType) /\ refused \in Seq(ErrorType) /\ Len(refused) = Len(deferred)
  <2>1. Len(refused) = Len(deferred) /\ refused \in Seq(ErrorType)
    BY <1>1, <1>5, <1>6
  <2> QED BY <1>0, <1>1, <2>1 DEF StateTyped
<1>8. \A i \in 1 .. Len(es) :
         \/ i \in 1 .. Len(old) /\ es[i] = old[i]
         \/ i - Len(old) \in 1 .. Len(deferred) /\ es[i] = refused[i - Len(old)]
  BY <1>2, <1>7, Concatenated
<1>9. RefusedFar'
  <2> SUFFICES ASSUME NEW i \in 1 .. Len(es), es[i].target # NoDocument
               PROVE  es[i].code = "depth" /\ Far(es[i].target)'
    BY <1>1, <1>2 DEF RefusedFar
  <2>1. \A k \in 1 .. Len(old) : old[k].target = NoDocument
    BY <1>1, <1>2, NothingRefused
  <2>2. PICK k \in 1 .. Len(deferred) : es[i] = refused[k]
    BY <1>8, <2>1
  <2>3. PICK doc : doc = es[i].target
    OBVIOUS
  <2>4. es[i].code = "depth" /\ Far(doc)
    BY <1>6, <2>2, <2>3
  <2>5. Far(doc)'
    BY <1>2, <2>4, FarStays
  <2> QED BY <2>3, <2>4, <2>5
<1> QED BY <1>4, <1>9 DEF DepthInv

LEMMA StutterNear ==
    ASSUME DepthInv, UNCHANGED vars
    PROVE  DepthInv'
<1>1. /\ \A d, n : Near(d, n) => Near(d, n)'
      /\ \A f : FrameNear(f) => FrameNear(f)'
  BY EdgesStay, WaysStay DEF vars
<1>2. StackNear' /\ StartsNear' /\ VisitsNear' /\ DeferredFar' /\ NothingLeft'
  BY <1>1 DEF DepthInv, StackNear, StartsNear, VisitsNear, DeferredFar, NothingLeft, vars
<1>3. \A doc : Far(doc) => Far(doc)'
  BY FarStays DEF vars, loading
<1>4. RefusedFar'
  BY <1>3 DEF DepthInv, RefusedFar, vars
<1> QED BY <1>2, <1>4 DEF DepthInv

LEMMA InitNear ==
    ASSUME Init
    PROVE  DepthInv
<1>1. /\ world \in World /\ Len(world.roots) \in Nat
      /\ starts = [i \in 1 .. Len(world.roots) |-> Start(i, 0)]
      /\ stack = <<>> /\ deferred = <<>> /\ errors = <<>> /\ visits = <<>> /\ ~ done
  BY WorldAssumption DEF Init
<1>2. StartsNear
  <2>1. PICK ss, n : ss = starts /\ n = Len(world.roots)
    OBVIOUS
  <2>2. Len(ss) = n /\ \A i \in 1 .. n : ss[i].doc = i /\ ss[i].depth = 0
    BY <1>1, <2>1 DEF Start
  <2>3. ASSUME NEW i \in 1 .. n PROVE Near(i, 0)
    <3>1. Reached(i, 0)
      BY <2>1, RootsReached
    <3>2. ~ TooDeep(0)
      BY <1>1, WorldAssumption DEF TooDeep
    <3> QED BY <3>1, <3>2 DEF Near
  <2> QED BY <2>1, <2>2, <2>3 DEF StartsNear
<1> QED BY <1>1, <1>2 DEF DepthInv, StackNear, VisitsNear, DeferredFar, NothingLeft, RefusedFar

LEMMA NextNear == WalkInv /\ DepthInv /\ [Next]_vars => DepthInv'
<1> SUFFICES ASSUME WalkInv, DepthInv, [Next]_vars PROVE DepthInv'
  OBVIOUS
<1>1. CASE Begin
  BY <1>1, BeginNear
<1>2. CASE ResolveDirective
  BY <1>2, ResolveNear
<1>3. CASE Descend
  BY <1>3, DescendNear
<1>4. CASE Defer
  BY <1>4, DeferNear
<1>5. CASE Return
  BY <1>5, ReturnNear
<1>6. CASE Resume
  BY <1>6, ResumeNear
<1>7. CASE Finish
  BY <1>7, FinishNear
<1>8. CASE UNCHANGED vars
  BY <1>8, StutterNear
<1> QED BY <1>1, <1>2, <1>3, <1>4, <1>5, <1>6, <1>7, <1>8 DEF Next

LEMMA NearIsShortest ==
    ASSUME WalkInv, DepthInv
    PROVE  DepthIsShortest
<1> SUFFICES ASSUME done, ~ Misread, NEW doc \in 1 .. Len(documents), Reachable(doc)
             PROVE  /\ (\E v \in Visits : v.doc = doc) <=> ~ TooDeep(Distance(doc))
                    /\ doc \in Refused <=> TooDeep(Distance(doc))
  BY DEF DepthIsShortest
<1>0. StateTyped /\ DocumentsKnown /\ WellPlaced(doc) /\ doc \in Nat
  BY DEF WalkInv, Doc
<1>1. /\ Distance(doc) \in Nat /\ Reached(doc, Distance(doc))
      /\ \A n \in Nat : Reached(doc, n) => Distance(doc) <= n
  BY <1>0, DistanceForms
<1>2. stack = <<>> /\ starts = <<>> /\ deferred = <<>>
  BY DEF DepthInv, NothingLeft
<1>3. \A p : p \in Places(doc) <=>
         \/ \E i \in 1 .. Len(visits) : visits[i].doc = doc /\ p = <<"visit", i, 0>>
         \/ \E i \in 1 .. Len(errors) : errors[i].target = doc /\ p = <<"error", i, 0>>
  BY <1>2, PlaceForms DEF PlaceOf
<1>4. (\E i \in 1 .. Len(visits) : visits[i].doc = doc)
      \/ (\E i \in 1 .. Len(errors) : errors[i].target = doc)
  <2>1. Places(doc) # {}
    BY <1>0 DEF WellPlaced
  <2> QED BY <1>3, <2>1
<1>5. ASSUME NEW i \in 1 .. Len(visits), visits[i].doc = doc
      PROVE  ~ TooDeep(Distance(doc))
  <2>0. visits \in Seq(VisitType)
    BY <1>0 DEF StateTyped
  <2>1. visits[i].depth \in Nat
    <3>1. visits[i] \in VisitType
      BY <1>5, <2>0
    <3> QED BY <3>1 DEF VisitType
  <2>2. Reached(doc, visits[i].depth) /\ ~ TooDeep(visits[i].depth)
    BY <1>5 DEF DepthInv, VisitsNear, Near
  <2>3. Distance(doc) <= visits[i].depth
    BY <1>1, <2>1, <2>2
  <2>4. world.max_depth \in Nat
    BY <1>0, WorldAssumption DEF StateTyped
  <2> QED BY <1>1, <2>1, <2>2, <2>3, <2>4 DEF TooDeep
<1>6. ASSUME NEW i \in 1 .. Len(errors), errors[i].target = doc
      PROVE  TooDeep(Distance(doc)) /\ errors[i].code = "depth"
  <2>1. doc # NoDocument
    BY DEF NoDocument
  <2> QED BY <1>6, <2>1 DEF DepthInv, RefusedFar, Far
<1>7. (\E v \in Visits : v.doc = doc) <=> \E i \in 1 .. Len(visits) : visits[i].doc = doc
  BY DEF Visits
<1>8. doc \in Refused
         <=> \E i \in 1 .. Len(errors) : errors[i].target = doc /\ errors[i].code = "depth"
  BY DEF Refused
<1> QED BY <1>4, <1>5, <1>6, <1>7, <1>8

(* When the walk is over, a document that the directives lead to has been  *)
(* walked exactly if its shortest distance from the documents added is     *)
(* within the limit, and refused exactly if it is not, however long the    *)
(* way was on which it was met first (resume_deferred of resolver.rs).     *)
THEOREM DepthsAreShortest == Spec => []DepthIsShortest
<1>1. Init => WalkInv /\ DepthInv
  BY InitWalkInv, InitNear
<1>2. WalkInv /\ DepthInv => DepthIsShortest
  BY NearIsShortest
<1> QED BY <1>1, <1>2, NextWalkInv, NextNear, PTL DEF Spec

=============================================================================
