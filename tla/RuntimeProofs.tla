----------------------------- MODULE RuntimeProofs -----------------------------
(***************************************************************************)
(* Proofs about two tables of the validation runtime, for every set of     *)
(* names and values: the path of the current element is exact, and so are  *)
(* the verdicts on the ID and IDREF values of each root.                   *)
(***************************************************************************)
EXTENDS IdReferences, SiblingPositions, FiniteSetTheorems, WellFoundedInduction, TLAPS

-----------------------------------------------------------------------------
(* Numbers have a least one among them.                                    *)
LEMMA LeastNatural ==
    ASSUME NEW S, S \subseteq Nat, S # {}
    PROVE  \E n \in S : \A m \in S : n <= m
<1> DEFINE R == OpToRel(<, Nat)
<1>1. \A m, n \in Nat : m < n => <<m, n>> \in R
  BY DEF OpToRel
<1>2. IsWellFoundedOn(R, Nat)
  BY NatLessThanWellFounded
<1> HIDE DEF R
<1>3. PICK n \in S : \A m \in S : ~(<<m, n>> \in R)
  BY <1>2, WFMin
<1>4. ASSUME NEW m \in S PROVE n <= m
  <2>1. m \in Nat /\ n \in Nat /\ ~(m < n)
    BY <1>1, <1>3
  <2> QED BY <2>1
<1> QED BY <1>4

(* Induction up to a bound, over a set of numbers.                         *)
LEMMA BoundedInduction ==
    ASSUME NEW N \in Nat, NEW S, 0 \in S,
           \A m \in 0 .. N - 1 : m \in S => m + 1 \in S
    PROVE  \A m \in 0 .. N : m \in S
<1> DEFINE Missing == {m \in 0 .. N : m \notin S}
<1> SUFFICES ASSUME Missing # {} PROVE FALSE
  OBVIOUS
<1>1. PICK n \in Missing : \A m \in Missing : n <= m
  <2>1. Missing \subseteq Nat
    OBVIOUS
  <2> HIDE DEF Missing
  <2> QED BY <2>1, LeastNatural
<1>2. n \in Nat \ {0} /\ n - 1 \in 0 .. N - 1 /\ n - 1 \notin Missing
  BY <1>1
<1> QED BY <1>1, <1>2

(* Sequences with one more element, or with others after them.              *)
LEMMA Appended ==
    ASSUME NEW E, NEW s \in Seq(E), NEW x \in E
    PROVE  /\ Append(s, x) \in Seq(E) /\ Len(Append(s, x)) = Len(s) + 1
           /\ Append(s, x)[Len(s) + 1] = x
           /\ \A i \in 1 .. Len(s) : Append(s, x)[i] = s[i]
OBVIOUS

LongerBy(t, s, x) ==
    /\ Len(t) = Len(s) + 1 /\ t[Len(s) + 1] = x
    /\ \A i \in 1 .. Len(s) : t[i] = s[i]
    /\ \A i : i \in 1 .. Len(t) <=> (i \in 1 .. Len(s) \/ i = Len(s) + 1)

LEMMA AppendedTo ==
    ASSUME NEW E, NEW s \in Seq(E), NEW x \in E
    PROVE  /\ Append(s, x) \in Seq(E) /\ Len(s) \in Nat
           /\ LongerBy(Append(s, x), s, x)
<1>1. /\ Append(s, x) \in Seq(E) /\ Len(Append(s, x)) = Len(s) + 1
      /\ Append(s, x)[Len(s) + 1] = x /\ Len(s) \in Nat
  BY Appended
<1>2. \A i \in 1 .. Len(s) : Append(s, x)[i] = s[i]
  BY Appended
<1>3. \A i : i \in 1 .. Len(s) + 1 <=> (i \in 1 .. Len(s) \/ i = Len(s) + 1)
  BY <1>1
<1> QED BY <1>1, <1>2, <1>3 DEF LongerBy

LEMMA Concatenated ==
    ASSUME NEW E, NEW s \in Seq(E), NEW t \in Seq(E)
    PROVE  /\ s \o t \in Seq(E) /\ Len(s \o t) = Len(s) + Len(t)
           /\ Len(s) \in Nat /\ Len(t) \in Nat
           /\ \A i \in 1 .. Len(s) : (s \o t)[i] = s[i]
           /\ \A i \in 1 .. Len(t) : (s \o t)[Len(s) + i] = t[i]
           /\ \A i \in 1 .. Len(s) + Len(t) :
                 i \in 1 .. Len(s) \/ (i - Len(s) \in 1 .. Len(t) /\ (s \o t)[i] = t[i - Len(s)])
OBVIOUS

-----------------------------------------------------------------------------
(* The counter of the siblings at one depth.                               *)

EntryType == [name : Name, count : Nat]
CounterType ==
    [entries : Seq(EntryType), last : Nat, table_active : BOOLEAN,
     slots : [Slot -> Nat], collided : Seq(Nat), indexed : SUBSET Nat]

(* The table has the entries up to m: each in its slot or among those that *)
(* lost it, and the index is there when these are too many for a scan.     *)
Filed(counter, m) ==
    /\ \A i \in 1 .. m :
          LET first == counter.slots[SlotOf[counter.entries[i].name]]
          IN  first # 0 /\ (first = i \/ i \in ToSet(counter.collided))
    /\ \A s \in Slot :
          /\ counter.slots[s] \in 0 .. m
          /\ counter.slots[s] # 0 => SlotOf[counter.entries[counter.slots[s]].name] = s
    /\ ToSet(counter.collided) \subseteq 1 .. m
    /\ counter.indexed =
          IF Len(counter.collided) > CollidedIndex THEN ToSet(counter.collided) ELSE {}

CounterOK(counter) ==
    /\ counter \in CounterType
    /\ \A i, j \in 1 .. Len(counter.entries) :
          counter.entries[i].name = counter.entries[j].name => i = j
    /\ counter.entries # <<>> => counter.last \in 1 .. Len(counter.entries)
    /\ counter.table_active => Filed(counter, Len(counter.entries))
    /\ ~counter.table_active =>
          /\ counter.slots = [s \in Slot |-> 0]
          /\ counter.collided = <<>> /\ counter.indexed = {}
    /\ counter.entries = <<>> => counter = NoCounter

LEMMA NoCounterOK == CounterOK(NoCounter)
<1>1. NoCounter \in CounterType
  BY DEF NoCounter, CounterType
<1> QED BY <1>1 DEF NoCounter, CounterOK

LEMMA ClearedForgets ==
    ASSUME NEW counter, CounterOK(counter)
    PROVE  Cleared(counter) = NoCounter
<1>1. CASE counter.entries = <<>>
  BY <1>1 DEF CounterOK, Cleared
<1>2. CASE counter.entries # <<>> /\ counter.table_active
  <2> DEFINE taken == {SlotOf[counter.entries[i].name] : i \in 1 .. Len(counter.entries)}
  <2>1. \A s \in Slot : s \notin taken => counter.slots[s] = 0
    <3> SUFFICES ASSUME NEW s \in Slot, counter.slots[s] # 0 PROVE s \in taken
      OBVIOUS
    <3>1. /\ counter.slots[s] \in 1 .. Len(counter.entries)
          /\ SlotOf[counter.entries[counter.slots[s]].name] = s
      BY <1>2 DEF CounterOK, Filed, CounterType
    <3> QED BY <3>1
  <2> HIDE DEF taken
  <2>2. [s \in Slot |-> IF s \in taken THEN 0 ELSE counter.slots[s]] = [s \in Slot |-> 0]
    BY <2>1
  <2>3. Cleared(counter) =
          [NoCounter EXCEPT
             !.slots = [s \in Slot |-> IF s \in taken THEN 0 ELSE counter.slots[s]]]
    BY <1>2 DEF Cleared, taken
  <2> QED BY <2>2, <2>3 DEF NoCounter
<1>3. CASE counter.entries # <<>> /\ ~counter.table_active
  <2>1. Cleared(counter) = [counter EXCEPT !.entries = <<>>, !.last = 1]
    BY <1>3 DEF Cleared
  <2>2. /\ counter \in CounterType /\ counter.table_active = FALSE
        /\ counter.slots = [s \in Slot |-> 0]
        /\ counter.collided = <<>> /\ counter.indexed = {}
    BY <1>3 DEF CounterOK, CounterType
  <2> QED BY <2>1, <2>2 DEF NoCounter, CounterType
<1> QED BY <1>1, <1>2, <1>3

(* A name is found where its entry is, and nowhere if it has none.         *)
LEMMA FindFinds ==
    ASSUME NEW counter, CounterOK(counter), NEW name \in Name
    PROVE  /\ Find(counter, name) \in 0 .. Len(counter.entries)
           /\ Find(counter, name) # 0 => counter.entries[Find(counter, name)].name = name
           /\ Find(counter, name) = 0 =>
                \A i \in 1 .. Len(counter.entries) : counter.entries[i].name # name
<1> DEFINE entries == counter.entries
           Among(found) == IF found = {} THEN 0 ELSE CHOOSE i \in found : \A j \in found : i <= j
           first == counter.slots[SlotOf[name]]
           collided == IF Len(counter.collided) > CollidedIndex THEN counter.indexed
                       ELSE ToSet(counter.collided)
           Right(r) == /\ r \in 0 .. Len(entries)
                       /\ r # 0 => entries[r].name = name
                       /\ r = 0 => \A i \in 1 .. Len(entries) : entries[i].name # name
<1>1. /\ counter \in CounterType /\ SlotOf \in [Name -> Slot]
      /\ Len(entries) \in Nat
      /\ \A i \in 1 .. Len(entries) : entries[i].name \in Name
  <2>1. counter \in CounterType
    BY DEF CounterOK
  <2>2. entries \in Seq(EntryType)
    BY <2>1 DEF CounterType
  <2>3. \A i \in 1 .. Len(entries) : entries[i] \in EntryType
    BY <2>2
  <2>4. \A i \in 1 .. Len(entries) : entries[i].name \in Name
    BY <2>3 DEF EntryType
  <2> QED BY <2>1, <2>2, <2>4, SlotOfAssumption
<1>2. ASSUME NEW found, found \subseteq EntryOf(counter, name),
             \A i \in 1 .. Len(entries) : entries[i].name = name => i \in found
      PROVE  Right(Among(found))
  <2>1. CASE found = {}
    BY <1>2, <2>1
  <2>2. CASE found # {}
    <3>1. PICK i : i \in found
      BY <2>2
    <3>2. i \in 1 .. Len(entries) /\ entries[i].name = name
      BY <1>2, <3>1 DEF EntryOf
    <3>3. found = {i}
      BY <1>2, <3>1, <3>2 DEF EntryOf, CounterOK
    <3>4. Among(found) = i
      BY <3>2, <3>3
    <3> HIDE DEF Among
    <3> QED BY <3>2, <3>4
  <2> QED BY <2>1, <2>2
<1>3. CASE ~counter.table_active
  <2>1. Find(counter, name) = Among(EntryOf(counter, name))
    BY <1>3 DEF Find
  <2>2. Right(Among(EntryOf(counter, name)))
    BY <1>2 DEF EntryOf
  <2> QED BY <2>1, <2>2
<1>4. CASE counter.table_active
  <2>1. Filed(counter, Len(entries))
    BY <1>4 DEF CounterOK
  <2>2. /\ collided = ToSet(counter.collided)
        /\ \A i \in 1 .. Len(entries) :
             entries[i].name = name => first # 0 /\ (first = i \/ i \in collided)
    BY <2>1 DEF Filed
  <2>3. first \in 0 .. Len(entries)
    BY <1>1, <2>1 DEF Filed
  <2>4. CASE first = 0
    <3>1. Find(counter, name) = 0
      BY <1>4, <2>4 DEF Find
    <3>2. \A i \in 1 .. Len(entries) : entries[i].name # name
      BY <2>2, <2>4
    <3> QED BY <1>1, <3>1, <3>2 DEF CounterType
  <2>5. CASE first # 0 /\ entries[first].name = name
    <3>1. Find(counter, name) = first
      BY <1>4, <2>5 DEF Find
    <3> QED BY <2>3, <2>5, <3>1
  <2>6. CASE first # 0 /\ entries[first].name # name
    <3>1. Find(counter, name) = Among(EntryOf(counter, name) \cap collided)
      BY <1>4, <2>6 DEF Find
    <3>2. \A i \in 1 .. Len(entries) :
             entries[i].name = name => i \in EntryOf(counter, name) \cap collided
      BY <2>2, <2>6 DEF EntryOf
    <3>3. Right(Among(EntryOf(counter, name) \cap collided))
      BY ZenonT(60), <1>2, <3>2
    <3> QED BY <3>1, <3>3
  <2> QED BY <2>4, <2>5, <2>6
<1> QED BY <1>3, <1>4

(* One entry filed in the table.                                           *)
LEMMA EntryFiled ==
    ASSUME NEW counter \in CounterType, NEW m \in Nat,
           m + 1 <= Len(counter.entries), Filed(counter, m)
    PROVE  /\ index_entry(counter, m + 1) \in CounterType
           /\ index_entry(counter, m + 1).entries = counter.entries
           /\ index_entry(counter, m + 1).last = counter.last
           /\ index_entry(counter, m + 1).table_active = counter.table_active
           /\ Filed(index_entry(counter, m + 1), m + 1)
<1> DEFINE i == m + 1
           slot == SlotOf[counter.entries[i].name]
           longer == Append(counter.collided, i)
           lost == [counter EXCEPT !.collided = longer,
                      !.indexed = IF Len(longer) <= CollidedIndex THEN @
                                  ELSE IF @ = {} THEN ToSet(longer) ELSE @ \cup {i}]
           taken == [counter EXCEPT !.slots[slot] = i]
<1>1. /\ counter.entries \in Seq(EntryType) /\ counter.slots \in [Slot -> Nat]
      /\ counter.collided \in Seq(Nat) /\ i \in 1 .. Len(counter.entries)
      /\ Len(counter.entries) \in Nat
  BY DEF CounterType
<1>2. slot \in Slot /\ \A j \in 1 .. Len(counter.entries) : counter.entries[j].name \in Name
  <2>1. \A j \in 1 .. Len(counter.entries) : counter.entries[j] \in EntryType
    BY <1>1
  <2> QED BY <1>1, <2>1, SlotOfAssumption DEF EntryType
<1>3. CASE counter.slots[slot] = 0
  <2>1. index_entry(counter, m + 1) = taken
    BY <1>3 DEF index_entry
  <2>2. /\ taken \in CounterType /\ taken.entries = counter.entries
        /\ taken.last = counter.last /\ taken.table_active = counter.table_active
        /\ taken.collided = counter.collided /\ taken.indexed = counter.indexed
        /\ taken.slots = [counter.slots EXCEPT ![slot] = i]
    <3> DEFINE slots == [counter.slots EXCEPT ![slot] = i]
    <3>1. slots \in [Slot -> Nat]
      BY <1>1, <1>2
    <3>2. taken = [counter EXCEPT !.slots = slots]
      BY DEF CounterType
    <3> HIDE DEF slots, taken
    <3>3. /\ taken \in CounterType /\ taken.entries = counter.entries
          /\ taken.last = counter.last /\ taken.table_active = counter.table_active
          /\ taken.collided = counter.collided /\ taken.indexed = counter.indexed
          /\ taken.slots = slots
      BY <3>1, <3>2 DEF CounterType
    <3> QED BY <3>3 DEF slots
  <2> HIDE DEF taken
  <2>3. taken.slots[slot] = i /\ \A s \in Slot : s # slot => taken.slots[s] = counter.slots[s]
    BY <1>1, <1>2, <2>2
  <2>4. ASSUME NEW j \in 1 .. i
        PROVE  LET first == taken.slots[SlotOf[taken.entries[j].name]]
               IN  first # 0 /\ (first = j \/ j \in ToSet(taken.collided))
    <3>1. CASE j = i
      BY <2>2, <2>3, <3>1
    <3>2. CASE j # i
      <4>1. j \in 1 .. m /\ j \in 1 .. Len(counter.entries)
        BY <1>1, <3>2
      <4>2. LET first == counter.slots[SlotOf[counter.entries[j].name]]
            IN  first # 0 /\ (first = j \/ j \in ToSet(counter.collided))
        BY <4>1 DEF Filed
      <4>3. SlotOf[counter.entries[j].name] # slot
        BY <1>3, <4>2
      <4>4. SlotOf[counter.entries[j].name] \in Slot
        BY <1>2, <4>1, SlotOfAssumption
      <4> QED BY <2>2, <2>3, <4>2, <4>3, <4>4
    <3> QED BY <3>1, <3>2
  <2>5. ASSUME NEW s \in Slot
        PROVE  /\ taken.slots[s] \in 0 .. i
               /\ taken.slots[s] # 0 => SlotOf[taken.entries[taken.slots[s]].name] = s
    <3>1. CASE s = slot
      <4>1. taken.slots[s] = i /\ taken.entries = counter.entries
        BY <2>2, <2>3, <3>1
      <4>2. SlotOf[counter.entries[i].name] = s
        BY <3>1
      <4>3. i \in 0 .. i
        OBVIOUS
      <4> HIDE DEF i
      <4> QED BY <4>1, <4>2, <4>3
    <3>2. CASE s # slot
      <4>1. /\ counter.slots[s] \in 0 .. m
            /\ counter.slots[s] # 0 => SlotOf[counter.entries[counter.slots[s]].name] = s
        BY DEF Filed
      <4>2. taken.slots[s] = counter.slots[s]
        BY <2>3, <3>2
      <4> QED BY <1>1, <2>2, <4>1, <4>2
    <3> QED BY <3>1, <3>2
  <2>6. ToSet(taken.collided) \subseteq 1 .. i
    BY <2>2 DEF Filed
  <2>7. taken.indexed = IF Len(taken.collided) > CollidedIndex THEN ToSet(taken.collided) ELSE {}
    BY <2>2 DEF Filed
  <2>8. Filed(taken, i)
    BY <2>4, <2>5, <2>6, <2>7 DEF Filed
  <2> QED BY <2>1, <2>2, <2>8
<1>4. CASE counter.slots[slot] # 0
  <2>1. index_entry(counter, m + 1) = lost
    BY <1>4 DEF index_entry
  <2>2. longer \in Seq(Nat) /\ LongerBy(longer, counter.collided, i)
        /\ Len(counter.collided) \in Nat
    BY <1>1, AppendedTo
  <2>3. ToSet(longer) = ToSet(counter.collided) \cup {i}
    <3>1. DOMAIN longer = 1 .. Len(longer) /\ DOMAIN counter.collided = 1 .. Len(counter.collided)
      BY <1>1, <2>2
    <3>2. \A x : x \in ToSet(longer) => x \in ToSet(counter.collided) \/ x = i
      BY <2>2, <3>1 DEF ToSet, LongerBy
    <3>3. \A x : x \in ToSet(counter.collided) => x \in ToSet(longer)
      BY <2>2, <3>1 DEF ToSet, LongerBy
    <3>4. i \in ToSet(longer)
      BY <2>2, <3>1 DEF ToSet, LongerBy
    <3> QED BY <3>2, <3>3, <3>4
  <2>4. ToSet(counter.collided) \subseteq 1 .. m
        /\ counter.indexed =
             IF Len(counter.collided) > CollidedIndex THEN ToSet(counter.collided) ELSE {}
    BY DEF Filed
  <2>5. Len(longer) = Len(counter.collided) + 1
    BY <2>2 DEF LongerBy
  <2>6. (IF Len(longer) <= CollidedIndex THEN counter.indexed
         ELSE IF counter.indexed = {} THEN ToSet(longer) ELSE counter.indexed \cup {i})
        = IF Len(longer) > CollidedIndex THEN ToSet(longer) ELSE {}
    <3> HIDE DEF longer
    <3>0. Len(longer) \in Nat /\ Len(counter.collided) \in Nat /\ CollidedIndex \in Nat
      BY <2>2, <2>5, LinearAssumption
    <3>1. CASE Len(longer) <= CollidedIndex
      BY <2>4, <2>5, <3>0, <3>1
    <3>2. CASE Len(longer) > CollidedIndex /\ counter.indexed = {}
      BY <3>0, <3>2
    <3>3. CASE Len(longer) > CollidedIndex /\ counter.indexed # {}
      BY <2>3, <2>4, <3>0, <3>3
    <3> QED BY <3>0, <3>1, <3>2, <3>3
  <2>7. ToSet(longer) \subseteq 1 .. i
    BY <2>3, <2>4
  <2>8. ToSet(longer) \in SUBSET Nat /\ {} \in SUBSET Nat
    BY <2>7
  <2>9. /\ lost \in CounterType /\ lost.entries = counter.entries
        /\ lost.last = counter.last /\ lost.table_active = counter.table_active
        /\ lost.collided = longer /\ lost.slots = counter.slots
        /\ lost.indexed = IF Len(longer) > CollidedIndex THEN ToSet(longer) ELSE {}
    <3> HIDE DEF longer
    <3> QED BY <2>2, <2>6, <2>8 DEF CounterType
  <2> HIDE DEF lost, longer
  <2>10. ASSUME NEW j \in 1 .. i
         PROVE  LET first == lost.slots[SlotOf[lost.entries[j].name]]
                IN  first # 0 /\ (first = j \/ j \in ToSet(lost.collided))
    <3>1. CASE j = i
      BY <1>4, <2>3, <2>9, <3>1
    <3>2. CASE j # i
      <4>1. j \in 1 .. m
        BY <1>1, <3>2
      <4>2. LET first == counter.slots[SlotOf[counter.entries[j].name]]
            IN  first # 0 /\ (first = j \/ j \in ToSet(counter.collided))
        BY <4>1 DEF Filed
      <4> QED BY <2>3, <2>9, <4>2
    <3> QED BY <3>1, <3>2
  <2>11. ASSUME NEW s \in Slot
         PROVE  /\ lost.slots[s] \in 0 .. i
                /\ lost.slots[s] # 0 => SlotOf[lost.entries[lost.slots[s]].name] = s
    BY <2>9 DEF Filed
  <2>12. Filed(lost, i)
    BY <2>7, <2>9, <2>10, <2>11 DEF Filed
  <2> QED BY <2>1, <2>9, <2>12
<1> QED BY <1>3, <1>4

(* All the entries filed, one after another.                               *)
FiledStep(start, filed, i) == IF i = 0 THEN start ELSE index_entry(filed[i - 1], i)

LEMMA FiledExists ==
    ASSUME NEW start, NEW N \in Nat
    PROVE  \E filed : filed = [i \in 0 .. N |-> FiledStep(start, filed, i)]
<1> DEFINE Upto(m, f) == \A i \in 0 .. m : f[i] = FiledStep(start, f, i)
           S == {m \in 0 .. N : \E f : f = [i \in 0 .. m |-> f[i]] /\ Upto(m, f)}
<1>1. 0 \in S
  <2> DEFINE f == [i \in 0 .. 0 |-> start]
  <2>1. f = [i \in 0 .. 0 |-> f[i]] /\ Upto(0, f)
    BY DEF FiledStep
  <2> HIDE DEF f
  <2> QED BY <2>1
<1>2. ASSUME NEW m \in 0 .. N - 1, m \in S PROVE m + 1 \in S
  <2>1. PICK f : f = [i \in 0 .. m |-> f[i]] /\ Upto(m, f)
    BY <1>2
  <2> DEFINE g == [i \in 0 .. m + 1 |-> IF i = m + 1 THEN FiledStep(start, f, m + 1) ELSE f[i]]
  <2>2. \A i \in 0 .. m : g[i] = f[i]
    OBVIOUS
  <2>3. g[m + 1] = FiledStep(start, f, m + 1)
    OBVIOUS
  <2>4. g = [i \in 0 .. m + 1 |-> g[i]]
    OBVIOUS
  <2> HIDE DEF g
  <2>5. ASSUME NEW i \in 0 .. m + 1 PROVE g[i] = FiledStep(start, g, i)
    <3>1. i = 0 \/ i - 1 \in 0 .. m
      OBVIOUS
    <3>2. FiledStep(start, g, i) = FiledStep(start, f, i)
      BY <2>2, <3>1 DEF FiledStep
    <3> QED BY <2>1, <2>2, <2>3, <3>2
  <2> QED BY <2>4, <2>5
<1> HIDE DEF S
<1>3. N \in S
  <2>1. \A m \in 0 .. N : m \in S
    BY <1>1, <1>2, BoundedInduction
  <2> QED BY <2>1
<1>4. PICK f : f = [i \in 0 .. N |-> f[i]] /\ Upto(N, f)
  BY <1>3 DEF S
<1>5. f = [i \in 0 .. N |-> FiledStep(start, f, i)]
  BY <1>4
<1> QED BY <1>5

LEMMA EntriesFiled ==
    ASSUME NEW start \in CounterType, Filed(start, 0), NEW filed,
           filed = [i \in 0 .. Len(start.entries) |-> FiledStep(start, filed, i)],
           NEW n, n = Len(start.entries)
    PROVE  /\ filed[n] \in CounterType /\ filed[n].entries = start.entries
           /\ filed[n].last = start.last /\ filed[n].table_active = start.table_active
           /\ Filed(filed[n], n)
<1> DEFINE Good(i) == /\ filed[i] \in CounterType /\ filed[i].entries = start.entries
                      /\ filed[i].last = start.last
                      /\ filed[i].table_active = start.table_active
                      /\ Filed(filed[i], i)
           S == {i \in 0 .. n : Good(i)}
<1>1. n \in Nat /\ \A i \in 0 .. n : filed[i] = FiledStep(start, filed, i)
  <2>1. start.entries \in Seq(EntryType)
    BY DEF CounterType
  <2>2. n \in Nat
    BY <2>1
  <2> QED BY <2>2
<1>2. 0 \in S
  BY <1>1 DEF FiledStep
<1>3. ASSUME NEW i \in 0 .. n - 1, i \in S PROVE i + 1 \in S
  <2>1. Good(i)
    BY <1>3
  <2>2. filed[i + 1] = index_entry(filed[i], i + 1)
    BY <1>1 DEF FiledStep
  <2>3. i \in Nat /\ i + 1 <= Len(filed[i].entries) /\ i + 1 \in 0 .. n
    BY <1>1, <2>1
  <2>4. Good(i + 1)
    BY <2>1, <2>2, <2>3, EntryFiled
  <2> QED BY <2>3, <2>4
<1> HIDE DEF S
<1>4. \A i \in 0 .. n : i \in S
  BY <1>1, <1>2, <1>3, BoundedInduction
<1>5. n \in S
  BY <1>1, <1>4
<1> QED BY <1>5 DEF S

(* Inserted, of the counter that has the entry.                            *)
InsertedFrom(grown, n) ==
    IF grown.table_active THEN index_entry(grown, n)
    ELSE IF n > Linear
    THEN (CHOOSE filed : filed = [i \in 0 .. n |->
             FiledStep([grown EXCEPT !.table_active = TRUE], filed, i)])[n]
    ELSE grown

LEMMA InsertedOK ==
    ASSUME NEW counter, CounterOK(counter), NEW name \in Name
    PROVE  /\ Inserted(counter, name) \in CounterType
           /\ Inserted(counter, name).entries
                = Append(counter.entries, [name |-> name, count |-> 1])
           /\ Inserted(counter, name).table_active =>
                Filed(Inserted(counter, name), Len(counter.entries) + 1)
           /\ ~Inserted(counter, name).table_active =>
                /\ Inserted(counter, name).slots = [s \in Slot |-> 0]
                /\ Inserted(counter, name).collided = <<>>
                /\ Inserted(counter, name).indexed = {}
<1> DEFINE entry == [name |-> name, count |-> 1]
           longer == Append(counter.entries, entry)
           grown == [counter EXCEPT !.entries = longer]
           start == [grown EXCEPT !.table_active = TRUE]
           n == Len(counter.entries) + 1
<1>1. counter \in CounterType /\ counter.entries \in Seq(EntryType) /\ entry \in EntryType
  BY DEF CounterOK, CounterType, EntryType
<1>2. longer \in Seq(EntryType) /\ LongerBy(longer, counter.entries, entry)
      /\ Len(counter.entries) \in Nat /\ Len(longer) = n
  BY <1>1, AppendedTo DEF LongerBy
<1> HIDE DEF longer, entry
<1>3. /\ grown \in CounterType /\ grown.entries = longer
      /\ grown.table_active = counter.table_active /\ grown.slots = counter.slots
      /\ grown.collided = counter.collided /\ grown.indexed = counter.indexed
  BY <1>1, <1>2 DEF CounterType
<1>4. /\ start \in CounterType /\ start.entries = longer
      /\ start.table_active = TRUE /\ start.slots = counter.slots
      /\ start.collided = counter.collided /\ start.indexed = counter.indexed
  BY <1>1, <1>2 DEF CounterType
<1>5. n \in Nat /\ Len(grown.entries) = n
  BY <1>2, <1>3
<1>6. Inserted(counter, name) =
        IF grown.table_active THEN index_entry(grown, n)
        ELSE IF n > Linear
        THEN (CHOOSE filed : filed = [i \in 0 .. n |-> FiledStep(start, filed, i)])[n]
        ELSE grown
  <2> DEFINE g == [counter EXCEPT !.entries = Append(@, [name |-> name, count |-> 1])]
  <2>1. Inserted(counter, name) = InsertedFrom(g, Len(g.entries))
    BY DEF Inserted, InsertedFrom, FiledStep
  <2>2. g = grown
    BY DEF longer, entry
  <2> HIDE DEF g, n
  <2>3. Inserted(counter, name) = InsertedFrom(grown, n)
    BY <1>5, <2>1, <2>2
  <2> HIDE DEF grown
  <2> QED BY <2>3 DEF InsertedFrom
<1> HIDE DEF grown, start
<1>7. CASE grown.table_active
  <2>1. Filed(counter, n - 1)
    BY <1>2, <1>3, <1>7 DEF CounterOK
  <2>2. Filed(grown, n - 1)
    <3>1. \A i \in 1 .. n - 1 : grown.entries[i] = counter.entries[i]
      BY <1>2, <1>3 DEF LongerBy
    <3>2. \A s \in Slot : counter.slots[s] # 0 => counter.slots[s] \in 1 .. n - 1
      BY <2>1 DEF Filed
    <3> HIDE DEF n
    <3> QED BY <1>3, <2>1, <3>1, <3>2 DEF Filed
  <2>3. n - 1 \in Nat /\ n - 1 + 1 = n /\ n <= Len(grown.entries)
    BY <1>2, <1>5
  <2>4. Inserted(counter, name) = index_entry(grown, n)
    BY <1>6, <1>7
  <2> HIDE DEF n
  <2>5. /\ index_entry(grown, n) \in CounterType
        /\ index_entry(grown, n).entries = grown.entries
        /\ index_entry(grown, n).table_active = grown.table_active
        /\ Filed(index_entry(grown, n), n)
    <3> DEFINE m == n - 1
    <3>1. m \in Nat /\ m + 1 = n /\ m + 1 <= Len(grown.entries) /\ Filed(grown, m)
      BY <2>2, <2>3
    <3> HIDE DEF m
    <3> QED BY <1>3, <3>1, EntryFiled
  <2> QED BY <1>3, <1>7, <2>4, <2>5 DEF n, longer, entry
<1>8. CASE ~grown.table_active /\ n > Linear
  <2> DEFINE filed == CHOOSE f : f = [i \in 0 .. n |-> FiledStep(start, f, i)]
  <2>1. filed = [i \in 0 .. n |-> FiledStep(start, filed, i)]
    BY <1>5, FiledExists
  <2>2. Inserted(counter, name) = filed[n]
    BY <1>6, <1>8
  <2> HIDE DEF filed
  <2>3. /\ start.slots = [s \in Slot |-> 0]
        /\ start.collided = <<>> /\ start.indexed = {}
    BY <1>3, <1>4, <1>8 DEF CounterOK
  <2>4. Filed(start, 0)
    <3>1. ToSet(<<>>) = {} /\ Len(<<>>) = 0
      BY DEF ToSet
    <3>2. 1 .. 0 = {}
      OBVIOUS
    <3> QED BY <2>3, <3>1, <3>2, LinearAssumption DEF Filed
  <2>5. n = Len(start.entries)
    BY <1>2, <1>4
  <2>6. /\ filed[n] \in CounterType /\ filed[n].entries = start.entries
        /\ filed[n].table_active = start.table_active /\ Filed(filed[n], n)
    <3> HIDE DEF n
    <3> QED BY <1>4, <2>1, <2>4, <2>5, EntriesFiled
  <2> QED BY <1>4, <2>2, <2>6 DEF longer, entry
<1>9. CASE ~grown.table_active /\ ~(n > Linear)
  <2>1. Inserted(counter, name) = grown
    BY <1>6, <1>9
  <2> QED BY <1>3, <1>9, <2>1 DEF CounterOK, longer, entry
<1> QED BY <1>7, <1>8, <1>9

(* The counter has the number of siblings of each name.                    *)
Counts(counter, number) ==
    /\ \A i \in 1 .. Len(counter.entries) :
          counter.entries[i].count = number[counter.entries[i].name]
    /\ \A name \in Name : number[name] # 0 =>
          \E i \in 1 .. Len(counter.entries) : counter.entries[i].name = name

(* One more sibling: its position is the number of those with its name.    *)
LEMMA CountedOK ==
    ASSUME NEW counter, CounterOK(counter), NEW name \in Name,
           NEW number \in [Name -> Nat], Counts(counter, number)
    PROVE  /\ CounterOK(Counted(counter, name))
           /\ Counts(Counted(counter, name), [number EXCEPT ![name] = @ + 1])
           /\ Position(Counted(counter, name)) = number[name] + 1
<1> DEFINE entries == counter.entries
           repeats == entries # <<>> /\ entries[counter.last].name = name
           found == IF repeats THEN counter.last ELSE Find(counter, name)
           raised == [entries EXCEPT ![found].count = @ + 1]
           again == [counter EXCEPT !.entries[found].count = @ + 1, !.last = found]
           inserted == Inserted(counter, name)
           new == [inserted EXCEPT !.last = Len(inserted.entries)]
           more == [number EXCEPT ![name] = @ + 1]
<1>1. counter \in CounterType /\ entries \in Seq(EntryType) /\ Len(entries) \in Nat
  <2>1. counter \in CounterType
    BY DEF CounterOK
  <2>2. entries \in Seq(EntryType)
    BY <2>1 DEF CounterType
  <2> QED BY <2>1, <2>2
<1>2. \A i \in 1 .. Len(entries) : entries[i].name \in Name /\ entries[i].count \in Nat
                                  /\ entries[i] \in EntryType
  <2>1. \A i \in 1 .. Len(entries) : entries[i] \in EntryType
    BY <1>1
  <2> QED BY <2>1 DEF EntryType
<1>3. more \in [Name -> Nat] /\ more[name] = number[name] + 1
      /\ \A n \in Name : n # name => more[n] = number[n]
  OBVIOUS
<1>4. /\ found \in 0 .. Len(entries)
      /\ found # 0 => entries[found].name = name
      /\ found = 0 => \A i \in 1 .. Len(entries) : entries[i].name # name
  <2>1. CASE repeats
    <3>1. counter.last \in 1 .. Len(entries)
      BY <2>1 DEF CounterOK
    <3> QED BY <2>1, <3>1
  <2>2. CASE ~repeats
    <3>1. found = Find(counter, name)
      BY <2>2
    <3> QED BY <3>1, FindFinds
  <2> QED BY <2>1, <2>2
<1>5. Counted(counter, name) = IF found # 0 THEN again ELSE new
  <2>1. CASE found # 0
    BY <2>1 DEF Counted
  <2>2. CASE found = 0
    BY <2>2 DEF Counted
  <2> QED BY <2>1, <2>2
<1> HIDE DEF found, more
<1>6. CASE found # 0
  <2>1. found \in 1 .. Len(entries) /\ entries[found].name = name
    BY <1>1, <1>4, <1>6
  <2>2. /\ raised \in Seq(EntryType) /\ Len(raised) = Len(entries)
        /\ raised[found] = [name |-> name, count |-> entries[found].count + 1]
        /\ \A i \in 1 .. Len(entries) : i # found => raised[i] = entries[i]
    <3> DEFINE entry == [name |-> name, count |-> entries[found].count + 1]
    <3>1. [entries[found] EXCEPT !.count = @ + 1] = entry /\ entry \in EntryType
      BY <1>2, <2>1 DEF EntryType
    <3>2. raised = [entries EXCEPT ![found] = entry]
      BY <3>1
    <3> HIDE DEF entry, raised
    <3>3. /\ raised \in Seq(EntryType) /\ Len(raised) = Len(entries) /\ raised[found] = entry
          /\ \A i \in 1 .. Len(entries) : i # found => raised[i] = entries[i]
      BY <1>1, <2>1, <3>1, <3>2
    <3> QED BY <3>3 DEF entry
  <2>3. again = [counter EXCEPT !.entries = raised, !.last = found]
    BY <1>1 DEF CounterType
  <2> HIDE DEF raised, again
  <2>4. /\ again \in CounterType /\ again.entries = raised /\ again.last = found
        /\ again.table_active = counter.table_active /\ again.slots = counter.slots
        /\ again.collided = counter.collided /\ again.indexed = counter.indexed
    <3>1. found \in Nat
      BY <1>1, <2>1
    <3> QED BY <1>1, <2>2, <2>3, <3>1 DEF CounterType
  <2>5. \A i \in 1 .. Len(entries) : raised[i].name = entries[i].name
    BY <2>1, <2>2
  <2>6. again.table_active => Filed(again, Len(raised))
    <3> SUFFICES ASSUME counter.table_active PROVE Filed(again, Len(entries))
      BY <2>2, <2>4
    <3>1. Filed(counter, Len(entries))
      BY DEF CounterOK
    <3>2. \A s \in Slot : counter.slots[s] # 0 => counter.slots[s] \in 1 .. Len(entries)
      BY <1>1, <3>1 DEF Filed
    <3> QED BY SMTT(30), <2>4, <2>5, <3>1, <3>2 DEF Filed
  <2>7. ~again.table_active =>
          /\ again.slots = [s \in Slot |-> 0]
          /\ again.collided = <<>> /\ again.indexed = {}
    BY <2>4 DEF CounterOK
  <2>8. raised # <<>>
    BY <2>1, <2>2
  <2>9. \A i, j \in 1 .. Len(raised) : raised[i].name = raised[j].name => i = j
    BY <2>2, <2>5 DEF CounterOK
  <2>10. CounterOK(again)
    BY <2>1, <2>2, <2>4, <2>6, <2>7, <2>8, <2>9 DEF CounterOK
  <2>11. \A i \in 1 .. Len(raised) : raised[i].count = more[raised[i].name]
    <3> SUFFICES ASSUME NEW i \in 1 .. Len(entries) PROVE raised[i].count = more[raised[i].name]
      BY <2>2
    <3>1. CASE i = found
      BY <1>3, <2>1, <2>2, <3>1 DEF Counts
    <3>2. CASE i # found
      <4>1. entries[i].name # name
        BY <2>1, <3>2 DEF CounterOK
      <4> QED BY <1>2, <1>3, <2>2, <3>2, <4>1 DEF Counts
    <3> QED BY <3>1, <3>2
  <2>12. \A n \in Name : more[n] # 0 => \E i \in 1 .. Len(raised) : raised[i].name = n
    <3> SUFFICES ASSUME NEW n \in Name, more[n] # 0
                 PROVE  \E i \in 1 .. Len(entries) : raised[i].name = n
      BY <2>2
    <3>1. CASE n = name
      BY <2>1, <2>5, <3>1
    <3>2. CASE n # name
      BY SMTT(30), <1>3, <2>5, <3>2 DEF Counts
    <3> QED BY <3>1, <3>2
  <2>13. Counts(again, more)
    BY <2>4, <2>11, <2>12 DEF Counts
  <2>14. Position(again) = number[name] + 1
    <3>1. entries[found].count = number[name]
      BY <2>1 DEF Counts
    <3>2. raised[found].count = entries[found].count + 1
      BY <2>2
    <3> QED BY <2>4, <3>1, <3>2 DEF Position
  <2>15. Counted(counter, name) = again
    BY <1>5, <1>6
  <2> QED BY <2>10, <2>13, <2>14, <2>15 DEF more
<1>7. CASE found = 0
  <2> DEFINE entry == [name |-> name, count |-> 1]
             longer == Append(entries, entry)
  <2>1. /\ inserted \in CounterType /\ inserted.entries = longer
        /\ inserted.table_active => Filed(inserted, Len(entries) + 1)
        /\ ~inserted.table_active =>
              /\ inserted.slots = [s \in Slot |-> 0]
              /\ inserted.collided = <<>> /\ inserted.indexed = {}
    BY InsertedOK
  <2>2. entry \in EntryType
    BY DEF EntryType
  <2>3. longer \in Seq(EntryType) /\ LongerBy(longer, entries, entry)
    BY <1>1, <2>2, AppendedTo
  <2>4. /\ Len(longer) = Len(entries) + 1 /\ longer[Len(entries) + 1] = entry
        /\ \A i \in 1 .. Len(entries) : longer[i] = entries[i]
        /\ \A i \in 1 .. Len(longer) : i \in 1 .. Len(entries) \/ i = Len(entries) + 1
        /\ 1 .. Len(entries) \subseteq 1 .. Len(longer)
        /\ Len(entries) + 1 \in 1 .. Len(longer)
    BY <1>1, <2>3 DEF LongerBy
  <2> HIDE DEF longer, inserted
  <2>5. /\ new \in CounterType /\ new.entries = longer /\ new.last = Len(entries) + 1
        /\ new.table_active = inserted.table_active /\ new.slots = inserted.slots
        /\ new.collided = inserted.collided /\ new.indexed = inserted.indexed
    <3> DEFINE last == Len(entries) + 1
    <3>1. new = [inserted EXCEPT !.last = last]
      BY <2>1, <2>4
    <3>2. last \in Nat
      BY <1>1
    <3> HIDE DEF last, new
    <3>3. /\ new \in CounterType /\ new.entries = longer /\ new.last = last
          /\ new.table_active = inserted.table_active /\ new.slots = inserted.slots
          /\ new.collided = inserted.collided /\ new.indexed = inserted.indexed
      BY <2>1, <3>1, <3>2 DEF CounterType
    <3> QED BY <3>3 DEF last
  <2> HIDE DEF new
  <2>6. new.table_active => Filed(new, Len(longer))
    BY <2>1, <2>4, <2>5 DEF Filed
  <2>7. ~new.table_active =>
          /\ new.slots = [s \in Slot |-> 0]
          /\ new.collided = <<>> /\ new.indexed = {}
    BY <2>1, <2>5
  <2>8. longer # <<>>
    BY <1>1, <2>4
  <2>9. \A i, j \in 1 .. Len(longer) : longer[i].name = longer[j].name => i = j
    <3>1. \A i \in 1 .. Len(entries) : longer[i].name # name
      BY <1>4, <1>7, <2>4
    <3>2. longer[Len(entries) + 1].name = name
      BY <2>4
    <3>3. \A i, j \in 1 .. Len(entries) : longer[i].name = longer[j].name => i = j
      BY <2>4 DEF CounterOK
    <3> QED BY <2>4, <3>1, <3>2, <3>3
  <2>10. CounterOK(new)
    BY <2>4, <2>5, <2>6, <2>7, <2>8, <2>9 DEF CounterOK
  <2>11. number[name] = 0
    BY <1>4, <1>7 DEF Counts
  <2>12. \A i \in 1 .. Len(longer) : longer[i].count = more[longer[i].name]
    <3> SUFFICES ASSUME NEW i \in 1 .. Len(longer) PROVE longer[i].count = more[longer[i].name]
      OBVIOUS
    <3>1. CASE i = Len(entries) + 1
      BY <1>3, <2>4, <2>11, <3>1
    <3>2. CASE i \in 1 .. Len(entries)
      <4>1. entries[i].name # name
        BY <1>4, <1>7, <3>2
      <4> QED BY <1>2, <1>3, <2>4, <3>2, <4>1 DEF Counts
    <3> QED BY <2>4, <3>1, <3>2
  <2>13. \A n \in Name : more[n] # 0 => \E i \in 1 .. Len(longer) : longer[i].name = n
    <3> SUFFICES ASSUME NEW n \in Name, more[n] # 0
                 PROVE  \E i \in 1 .. Len(longer) : longer[i].name = n
      OBVIOUS
    <3>1. CASE n = name
      BY <2>4, <3>1
    <3>2. CASE n # name
      <4>1. PICK i \in 1 .. Len(entries) : entries[i].name = n
        BY <1>3, <3>2 DEF Counts
      <4> QED BY <2>4, <4>1
    <3> QED BY <3>1, <3>2
  <2>14. Counts(new, more)
    BY <2>5, <2>12, <2>13 DEF Counts
  <2>15. Position(new) = number[name] + 1
    BY <2>4, <2>5, <2>11 DEF Position
  <2>16. Counted(counter, name) = new
    BY <1>5, <1>7
  <2> QED BY <2>10, <2>14, <2>15, <2>16 DEF more
<1> QED BY <1>6, <1>7, <1>4

-----------------------------------------------------------------------------
(* The path: every open element is the child of the one before it, each    *)
(* counter has the children that the open element above it has so far, and *)
(* those below are forgotten.                                              *)

ElementType == [name : Name, parent : Nat]
StepType == [name : Name, position : Nat, elem : Nat]
NodeType == [name : Name, position : Nat]

ParentAt(d) == IF d = 1 THEN 0 ELSE path_steps[d - 1].elem
CounterAt(d) == IF d <= Len(sibling_counts) THEN sibling_counts[d] ELSE NoCounter

(* The number of the children of an element, by name.                      *)
Children(elements, parent, name) ==
    {y \in 1 .. Len(elements) : elements[y] = [name |-> name, parent |-> parent]}
SiblingsIn(elements, parent) ==
    [name \in Name |-> Cardinality(Children(elements, parent, name))]

Alike(elements, e) == {y \in 1 .. e : elements[y] = elements[e]}

PathTyped ==
    /\ opened \in Seq(ElementType) /\ path_steps \in Seq(StepType)
    /\ sibling_counts \in Seq(CounterType) /\ path_nodes \in Seq(NodeType)

ParentsBefore == \A x \in 1 .. Len(opened) : opened[x].parent < x

StepsTrue ==
    /\ \A i \in 1 .. Len(path_steps) :
          LET e == path_steps[i].elem
          IN  /\ e \in 1 .. Len(opened)
              /\ opened[e] = [name |-> path_steps[i].name, parent |-> ParentAt(i)]
              /\ path_steps[i].position = Cardinality(Alike(opened, e))
    /\ \A d, e \in 1 .. Len(path_steps) + 1 : d < e => ParentAt(d) < ParentAt(e)

CountersTrue ==
    /\ Len(path_steps) <= Len(sibling_counts)
    /\ \A d \in 1 .. Len(sibling_counts) :
          /\ CounterOK(sibling_counts[d])
          /\ d > Len(path_steps) + 1 => sibling_counts[d] = NoCounter
    /\ \A d \in 1 .. Len(path_steps) + 1 :
          Counts(CounterAt(d), SiblingsIn(opened, ParentAt(d)))

NodesTrue ==
    /\ Len(path_nodes) <= Len(path_steps)
    /\ \A i \in 1 .. Len(path_nodes) : path_nodes[i] = Step(i)

(* The inductive invariant of the path.                                    *)
PathInv == PathTyped /\ ParentsBefore /\ StepsTrue /\ CountersTrue /\ NodesTrue

LEMMA FiniteBelow ==
    ASSUME NEW n \in Nat, NEW S, S \subseteq 1 .. n
    PROVE  IsFiniteSet(S) /\ Cardinality(S) \in Nat
<1>1. IsFiniteSet(1 .. n)
  BY FS_Interval
<1>2. IsFiniteSet(S)
  BY <1>1, FS_Subset
<1> QED BY <1>2, FS_CardinalityType

LEMMA SiblingsTyped ==
    ASSUME NEW elements \in Seq(ElementType), NEW parent
    PROVE  SiblingsIn(elements, parent) \in [Name -> Nat]
<1>1. \A name \in Name : Cardinality(Children(elements, parent, name)) \in Nat
  BY FiniteBelow DEF Children
<1> QED BY <1>1 DEF SiblingsIn

(* One more element is one more child of its parent and of no other.       *)
LEMMA SiblingsGrow ==
    ASSUME NEW elements \in Seq(ElementType), NEW name \in Name, NEW parent \in Nat,
           NEW new, new = [name |-> name, parent |-> parent], NEW other
    PROVE  SiblingsIn(Append(elements, new), other) =
             IF other = parent THEN [SiblingsIn(elements, parent) EXCEPT ![name] = @ + 1]
             ELSE SiblingsIn(elements, other)
<1> DEFINE longer == Append(elements, new)
           N == Len(elements)
<1>1. new \in ElementType
  BY DEF ElementType
<1>2. longer \in Seq(ElementType) /\ N \in Nat /\ LongerBy(longer, elements, new)
  BY <1>1, AppendedTo
<1>3. Len(longer) = N + 1 /\ longer[N + 1] = new
      /\ (\A y \in 1 .. N : longer[y] = elements[y])
      /\ (\A y : y \in 1 .. Len(longer) <=> (y \in 1 .. N \/ y = N + 1))
  BY <1>2 DEF LongerBy
<1> HIDE DEF longer
<1>4. ASSUME NEW n \in Name, n # name \/ other # parent
      PROVE  Children(longer, other, n) = Children(elements, other, n)
  <2>1. new # [name |-> n, parent |-> other]
    BY <1>4
  <2> QED BY <1>2, <1>3, <2>1 DEF Children
<1>5. CASE other = parent
  <2>1. Children(longer, other, name) = Children(elements, other, name) \cup {N + 1}
    BY <1>2, <1>3, <1>5 DEF Children
  <2>2. N + 1 \notin Children(elements, other, name)
        /\ IsFiniteSet(Children(elements, other, name))
    BY <1>2, FiniteBelow DEF Children
  <2>3. Cardinality(Children(longer, other, name)) =
          Cardinality(Children(elements, other, name)) + 1
    BY <2>1, <2>2, FS_AddElement
  <2>4. SiblingsIn(longer, other) = [SiblingsIn(elements, other) EXCEPT ![name] = @ + 1]
    BY <1>4, <2>3 DEF SiblingsIn
  <2> QED BY <1>5, <2>4 DEF longer
<1>6. CASE other # parent
  <2>1. \A n \in Name : Children(longer, other, n) = Children(elements, other, n)
    BY <1>4, <1>6
  <2>2. SiblingsIn(longer, other) = SiblingsIn(elements, other)
    BY <2>1 DEF SiblingsIn
  <2> QED BY <1>6, <2>2 DEF longer
<1> QED BY <1>5, <1>6

LEMMA InitPathInv == PositionInit => PathInv
<1> SUFFICES ASSUME PositionInit PROVE PathInv
  OBVIOUS
<1> USE DEF PositionInit
<1>1. PathTyped /\ ParentsBefore /\ NodesTrue
  BY DEF PathTyped, ParentsBefore, NodesTrue
<1>2. StepsTrue
  BY DEF StepsTrue
<1>3. CountersTrue
  <2>1. CounterAt(1) = NoCounter /\ 1 .. Len(path_steps) + 1 = {1}
    BY DEF CounterAt
  <2>2. Counts(NoCounter, SiblingsIn(opened, ParentAt(1)))
    <3>1. Len(NoCounter.entries) = 0 /\ 1 .. 0 = {}
      BY DEF NoCounter
    <3>2. ASSUME NEW name \in Name PROVE SiblingsIn(opened, ParentAt(1))[name] = 0
      <4>1. Children(opened, ParentAt(1), name) = {}
        BY <3>1 DEF Children
      <4> QED BY <4>1, FS_EmptySet DEF SiblingsIn
    <3> QED BY <3>1, <3>2 DEF Counts
  <2> QED BY <2>1, <2>2 DEF CountersTrue
<1> QED BY <1>1, <1>2, <1>3 DEF PathInv

(* No element is the child of one that is not there yet.                   *)
LEMMA ChildlessAbove ==
    ASSUME NEW elements \in Seq(ElementType),
           \A x \in 1 .. Len(elements) : elements[x].parent < x,
           NEW parent \in Nat, parent >= Len(elements)
    PROVE  \A name \in Name : SiblingsIn(elements, parent)[name] = 0
<1> SUFFICES ASSUME NEW name \in Name PROVE SiblingsIn(elements, parent)[name] = 0
  OBVIOUS
<1>1. ASSUME NEW y \in 1 .. Len(elements) PROVE elements[y].parent # parent
  <2>1. elements[y].parent \in Nat /\ Len(elements) \in Nat /\ elements[y].parent < y
    <3>1. elements[y] \in ElementType
      OBVIOUS
    <3> QED BY <3>1 DEF ElementType
  <2> QED BY <2>1
<1>2. Children(elements, parent, name) = {}
  BY <1>1 DEF Children
<1> QED BY <1>2, FS_EmptySet DEF SiblingsIn

LEMMA NothingCounted ==
    ASSUME NEW number, \A name \in Name : number[name] = 0
    PROVE  Counts(NoCounter, number)
<1>1. Len(NoCounter.entries) = 0 /\ 1 .. 0 = {}
  BY DEF NoCounter
<1> QED BY <1>1 DEF Counts

LEMMA ParentTyped ==
    ASSUME PathTyped, StepsTrue
    PROVE  /\ Len(path_steps) \in Nat /\ Len(opened) \in Nat /\ Len(sibling_counts) \in Nat
           /\ Len(path_nodes) \in Nat
           /\ \A d \in 1 .. Len(path_steps) + 1 : ParentAt(d) \in 0 .. Len(opened)
           /\ Parent = ParentAt(Len(path_steps) + 1)
<1>1. /\ Len(path_steps) \in Nat /\ Len(opened) \in Nat /\ Len(sibling_counts) \in Nat
      /\ Len(path_nodes) \in Nat
  BY DEF PathTyped
<1>2. ASSUME NEW d \in 1 .. Len(path_steps) + 1 PROVE ParentAt(d) \in 0 .. Len(opened)
  <2>1. CASE d = 1
    BY <1>1, <2>1 DEF ParentAt
  <2>2. CASE d # 1
    <3>1. d - 1 \in 1 .. Len(path_steps)
      BY <1>1, <2>2
    <3>2. path_steps[d - 1].elem \in 1 .. Len(opened)
      BY <3>1 DEF StepsTrue
    <3> QED BY <1>1, <2>2, <3>2 DEF ParentAt
  <2> QED BY <2>1, <2>2
<1>3. path_steps = <<>> <=> Len(path_steps) = 0
  BY DEF PathTyped
<1>4. Parent = ParentAt(Len(path_steps) + 1)
  BY <1>1, <1>3 DEF Parent, ParentAt
<1> QED BY <1>1, <1>2, <1>4

LEMMA OpenKeeps ==
    ASSUME PathInv, NEW name \in Name, OpenElement(name)
    PROVE  PathInv'
<1> DEFINE depth == Len(path_steps) + 1
           counters == IF Len(sibling_counts) < depth THEN Append(sibling_counts, NoCounter)
                       ELSE sibling_counts
<1>1. PathTyped /\ ParentsBefore /\ StepsTrue /\ CountersTrue /\ NodesTrue
  BY DEF PathInv
<1>2. /\ Len(path_steps) \in Nat /\ Len(opened) \in Nat /\ Len(sibling_counts) \in Nat
      /\ Len(path_nodes) \in Nat
      /\ \A d \in 1 .. Len(path_steps) + 1 : ParentAt(d) \in 0 .. Len(opened)
      /\ Parent = ParentAt(depth)
  BY <1>1, ParentTyped
<1>3. PICK N : N = Len(path_steps)
  OBVIOUS
<1>4. PICK p : p = Parent
  OBVIOUS
<1>5. PICK e : e = Len(opened) + 1
  OBVIOUS
<1>6. PICK new : new = [name |-> name, parent |-> p]
  OBVIOUS
<1>7. N \in Nat /\ p \in 0 .. Len(opened) /\ e \in Nat /\ p < e /\ p \in Nat /\ new \in ElementType
  BY <1>2, <1>3, <1>4, <1>5, <1>6 DEF ElementType
<1>8. PICK number : number = SiblingsIn(opened, p)
  OBVIOUS
<1>9. number \in [Name -> Nat]
  BY <1>1, <1>8, SiblingsTyped DEF PathTyped
<1>10. PICK counter : counter = Counted(counters[depth], name)
  OBVIOUS
<1>11. counters[depth] = CounterAt(depth)
       /\ Len(counters) = (IF Len(sibling_counts) < depth THEN depth ELSE Len(sibling_counts))
       /\ counters \in Seq(CounterType)
       /\ \A d \in 1 .. Len(sibling_counts) : counters[d] = sibling_counts[d]
  <2>1. CASE Len(sibling_counts) < depth
    <3>1. Len(sibling_counts) = N /\ depth = N + 1 /\ counters = Append(sibling_counts, NoCounter)
      BY <1>1, <1>2, <1>3, <2>1 DEF CountersTrue
    <3>2. NoCounter \in CounterType /\ sibling_counts \in Seq(CounterType)
      BY <1>1, NoCounterOK DEF CounterOK, PathTyped
    <3>3. counters \in Seq(CounterType) /\ LongerBy(counters, sibling_counts, NoCounter)
      BY <3>1, <3>2, AppendedTo
    <3> HIDE DEF counters
    <3> QED BY <1>2, <1>3, <3>1, <3>3 DEF LongerBy, CounterAt
  <2>2. CASE ~(Len(sibling_counts) < depth)
    BY <1>1, <1>2, <2>2 DEF CounterAt, PathTyped
  <2> QED BY <2>1, <2>2
<1>12. CounterOK(counters[depth])
  <2>1. CASE depth <= Len(sibling_counts)
    BY <1>1, <1>2, <1>11, <2>1 DEF CountersTrue, CounterAt
  <2>2. CASE ~(depth <= Len(sibling_counts))
    BY <1>11, <2>2, NoCounterOK DEF CounterAt
  <2> QED BY <2>1, <2>2
<1>13. Counts(counters[depth], number)
  BY <1>1, <1>2, <1>4, <1>8, <1>11 DEF CountersTrue
<1>14. /\ CounterOK(counter) /\ Counts(counter, [number EXCEPT ![name] = @ + 1])
       /\ Position(counter) = number[name] + 1
  BY <1>9, <1>10, <1>12, <1>13, CountedOK
<1>15. counter \in CounterType
  BY <1>14 DEF CounterOK
<1>16. PICK step : step = [name |-> name, position |-> number[name] + 1, elem |-> e]
  OBVIOUS
<1>17. step \in StepType
  BY <1>7, <1>9, <1>16 DEF StepType
<1>18. /\ path_steps' = Append(path_steps, step)
       /\ opened' = Append(opened, new)
       /\ sibling_counts' = [counters EXCEPT ![depth] = counter]
       /\ path_nodes' = path_nodes
  BY <1>4, <1>5, <1>6, <1>10, <1>14, <1>16 DEF OpenElement
<1>19. path_steps' \in Seq(StepType) /\ LongerBy(path_steps', path_steps, step)
  BY <1>1, <1>17, <1>18, AppendedTo DEF PathTyped
<1>20. opened' \in Seq(ElementType) /\ LongerBy(opened', opened, new)
  BY <1>1, <1>7, <1>18, AppendedTo DEF PathTyped
<1>21. /\ sibling_counts' \in Seq(CounterType) /\ Len(sibling_counts') = Len(counters)
       /\ sibling_counts'[N + 1] = counter
       /\ \A d \in 1 .. Len(counters) : d # N + 1 => sibling_counts'[d] = counters[d]
  <2> HIDE DEF counters
  <2>1. depth = N + 1 /\ depth \in 1 .. Len(counters)
    BY <1>2, <1>3, <1>11
  <2> HIDE DEF depth
  <2> QED BY <1>11, <1>15, <1>18, <2>1
<1> HIDE DEF counters
<1>22. PathTyped'
  BY <1>1, <1>18, <1>19, <1>20, <1>21 DEF PathTyped
<1>23. /\ Len(path_steps') = N + 1 /\ path_steps'[N + 1] = step
       /\ \A i \in 1 .. N : path_steps'[i] = path_steps[i]
       /\ Len(opened') = e /\ opened'[e] = new
       /\ \A x \in 1 .. e - 1 : opened'[x] = opened[x]
  BY <1>2, <1>3, <1>5, <1>19, <1>20 DEF LongerBy
<1>24. ParentsBefore'
  <2> SUFFICES ASSUME NEW x \in 1 .. e PROVE opened'[x].parent < x
    BY <1>23 DEF ParentsBefore
  <2>1. CASE x = e
    BY <1>6, <1>7, <1>23, <2>1
  <2>2. CASE x # e
    <3>1. x \in 1 .. e - 1 /\ x \in 1 .. Len(opened)
      BY <1>2, <1>5, <2>2
    <3> QED BY <1>1, <1>23, <3>1 DEF ParentsBefore
  <2> QED BY <2>1, <2>2
<1>25. \A d \in 1 .. N + 1 : ParentAt(d)' = ParentAt(d)
  <2> SUFFICES ASSUME NEW d \in 1 .. N + 1 PROVE ParentAt(d)' = ParentAt(d)
    OBVIOUS
  <2>1. d = 1 \/ d - 1 \in 1 .. N
    BY <1>7
  <2> QED BY <1>23, <2>1 DEF ParentAt
<1>26. ParentAt(N + 2)' = e
  BY <1>7, <1>16, <1>23 DEF ParentAt
<1>27. \A d \in 1 .. N + 1 : ParentAt(d) \in 0 .. e - 1
  BY <1>2, <1>3, <1>5
<1>28. SiblingsIn(opened', p) = [number EXCEPT ![name] = @ + 1]
  <2>1. opened \in Seq(ElementType)
    BY <1>1 DEF PathTyped
  <2>2. SiblingsIn(Append(opened, new), p) = [SiblingsIn(opened, p) EXCEPT ![name] = @ + 1]
    BY <1>6, <1>7, <2>1, SiblingsGrow
  <2> QED BY <1>8, <1>18, <2>2
<1>29. StepsTrue'
  <2>1. ASSUME NEW i \in 1 .. N + 1
        PROVE  LET x == path_steps'[i].elem
               IN  /\ x \in 1 .. e
                   /\ opened'[x] = [name |-> path_steps'[i].name, parent |-> ParentAt(i)]
                   /\ path_steps'[i].position = Cardinality(Alike(opened', x))
    <3>1. CASE i = N + 1
      <4>1. path_steps'[i].elem = e /\ path_steps'[i].name = name
            /\ path_steps'[i].position = number[name] + 1
        BY <1>16, <1>23, <3>1
      <4>2. p = ParentAt(i)
        BY <1>2, <1>3, <1>4, <3>1
      <4>3. Alike(opened', e) = Children(opened', p, name)
        BY <1>6, <1>23 DEF Alike, Children
      <4>4. SiblingsIn(opened', p)[name] = number[name] + 1
        BY <1>9, <1>28
      <4>5. SiblingsIn(opened', p)[name] = Cardinality(Children(opened', p, name))
        BY DEF SiblingsIn
      <4>6. opened'[e] = new /\ e \in 1 .. e
        BY <1>7, <1>23
      <4> QED BY <1>6, <4>1, <4>2, <4>3, <4>4, <4>5, <4>6
    <3>2. CASE i # N + 1
      <4>1. i \in 1 .. N /\ path_steps'[i] = path_steps[i]
        BY <1>7, <1>23, <3>2
      <4>2. PICK x : x = path_steps[i].elem
        OBVIOUS
      <4>3. /\ x \in 1 .. e - 1
            /\ opened[x] = [name |-> path_steps[i].name, parent |-> ParentAt(i)]
            /\ path_steps[i].position = Cardinality(Alike(opened, x))
        BY <1>1, <1>2, <1>3, <1>5, <4>1, <4>2 DEF StepsTrue
      <4>4. \A y \in 1 .. x : opened'[y] = opened[y]
        BY <1>7, <1>23, <4>3
      <4>5. opened'[x] = opened[x] /\ x \in 1 .. e
        BY <1>7, <4>3, <4>4
      <4>6. Alike(opened', x) = Alike(opened, x)
        BY <4>4, <4>5 DEF Alike
      <4> QED BY <4>1, <4>2, <4>3, <4>5, <4>6
    <3> QED BY <3>1, <3>2
  <2>2. ASSUME NEW c \in 1 .. N + 2, NEW d \in 1 .. N + 2, c < d
        PROVE  ParentAt(c)' < ParentAt(d)'
    <3>1. c \in 1 .. N + 1
      BY <1>7, <2>2
    <3>2. CASE d = N + 2
      BY <1>7, <1>25, <1>26, <1>27, <3>1, <3>2
    <3>3. CASE d # N + 2
      <4>1. d \in 1 .. N + 1
        BY <1>7, <3>3
      <4>2. ParentAt(c) < ParentAt(d)
        BY <1>1, <1>3, <2>2, <3>1, <4>1 DEF StepsTrue
      <4> QED BY <1>25, <3>1, <4>1, <4>2
    <3> QED BY <3>2, <3>3
  <2>3. N + 1 + 1 = N + 2
    BY <1>7
  <2>4. \A i \in 1 .. Len(path_steps') :
          LET x == path_steps'[i].elem
          IN  /\ x \in 1 .. Len(opened')
              /\ opened'[x] = [name |-> path_steps'[i].name, parent |-> ParentAt(i)']
              /\ path_steps'[i].position = Cardinality(Alike(opened', x))
    BY <1>23, <1>25, <2>1
  <2>5. \A c, d \in 1 .. Len(path_steps') + 1 : c < d => ParentAt(c)' < ParentAt(d)'
    BY <1>23, <2>2, <2>3
  <2> QED BY <2>4, <2>5 DEF StepsTrue
<1>30. CountersTrue'
  <2>1. N + 1 <= Len(counters) /\ Len(counters) \in Nat
        /\ (Len(counters) = N + 1 \/ Len(counters) = Len(sibling_counts))
    BY <1>2, <1>3, <1>11
  <2>2. ASSUME NEW d \in 1 .. Len(counters)
        PROVE  /\ CounterOK(sibling_counts'[d])
               /\ d > N + 1 => sibling_counts'[d] = NoCounter
    <3>1. CASE d = N + 1
      BY <1>7, <1>14, <1>21, <3>1
    <3>2. CASE d # N + 1
      <4>1. d \in 1 .. Len(sibling_counts)
        BY <1>1, <1>2, <1>3, <1>7, <2>1, <3>2 DEF CountersTrue
      <4>2. sibling_counts'[d] = sibling_counts[d]
        BY <1>11, <1>21, <3>2, <4>1
      <4> QED BY <1>1, <1>3, <1>7, <4>1, <4>2 DEF CountersTrue
    <3> QED BY <3>1, <3>2
  <2>3. ASSUME NEW d \in 1 .. N + 2
        PROVE  Counts(CounterAt(d)', SiblingsIn(opened', ParentAt(d)'))
    <3>1. CASE d = N + 1
      <4>1. CounterAt(d)' = counter
        BY <1>21, <2>1, <3>1 DEF CounterAt
      <4>2. ParentAt(d)' = p
        BY <1>2, <1>3, <1>4, <1>25, <3>1
      <4> QED BY <1>14, <1>28, <4>1, <4>2
    <3>2. CASE d \in 1 .. N
      <4>1. d \in 1 .. Len(sibling_counts) /\ d \in 1 .. Len(counters) /\ d # N + 1
            /\ d \in 1 .. Len(path_steps) + 1
        BY <1>1, <1>2, <1>3, <1>7, <2>1, <3>2 DEF CountersTrue
      <4>2. CounterAt(d)' = CounterAt(d)
        BY <1>2, <1>11, <1>21, <2>1, <4>1 DEF CounterAt
      <4>3. ParentAt(d) < p
        BY <1>1, <1>2, <1>3, <1>4, <1>7, <3>2 DEF StepsTrue
      <4>4. ParentAt(d) # p /\ ParentAt(d)' = ParentAt(d)
        BY <1>7, <1>25, <1>27, <3>2, <4>3
      <4>5. SiblingsIn(opened', ParentAt(d)) = SiblingsIn(opened, ParentAt(d))
        BY <1>1, <1>6, <1>7, <1>18, <4>4, SiblingsGrow DEF PathTyped
      <4>6. Counts(CounterAt(d), SiblingsIn(opened, ParentAt(d)))
        BY <1>1, <4>1 DEF CountersTrue
      <4> QED BY <4>2, <4>4, <4>5, <4>6
    <3>3. CASE d = N + 2
      <4>1. CounterAt(d)' = NoCounter
        <5>1. CASE d <= Len(counters)
          <6>1. d \in 1 .. Len(counters) /\ d > N + 1
            BY <1>7, <3>3, <5>1
          <6> QED BY <1>21, <2>2, <5>1, <6>1 DEF CounterAt
        <5>2. CASE ~(d <= Len(counters))
          BY <1>21, <5>2 DEF CounterAt
        <5> QED BY <5>1, <5>2
      <4>2. \A n \in Name : SiblingsIn(opened', e)[n] = 0
        <5>1. \A x \in 1 .. Len(opened') : opened'[x].parent < x
          BY <1>24 DEF ParentsBefore
        <5>2. e >= Len(opened')
          BY <1>7, <1>23
        <5> QED BY <1>7, <1>20, <5>1, <5>2, ChildlessAbove
      <4>3. Counts(NoCounter, SiblingsIn(opened', e))
        BY <4>2, NothingCounted
      <4> QED BY <1>26, <3>3, <4>1, <4>3
    <3> QED BY <1>7, <3>1, <3>2, <3>3
  <2>4. N + 1 + 1 = N + 2
    BY <1>7
  <2>5. Len(path_steps') <= Len(sibling_counts')
    BY <1>21, <1>23, <2>1
  <2>6. \A d \in 1 .. Len(sibling_counts') :
          /\ CounterOK(sibling_counts'[d])
          /\ d > Len(path_steps') + 1 => sibling_counts'[d] = NoCounter
    <3> SUFFICES ASSUME NEW d \in 1 .. Len(counters)
                 PROVE  /\ CounterOK(sibling_counts'[d])
                        /\ d > N + 2 => sibling_counts'[d] = NoCounter
      BY <1>21, <1>23, <2>4
    <3> QED BY <1>7, <2>2
  <2>7. \A d \in 1 .. Len(path_steps') + 1 :
          Counts(CounterAt(d)', SiblingsIn(opened', ParentAt(d)'))
    BY <1>23, <2>3, <2>4
  <2> QED BY <2>5, <2>6, <2>7 DEF CountersTrue
<1>31. NodesTrue'
  <2>1. Len(path_nodes) <= N
    BY <1>1, <1>3 DEF NodesTrue
  <2>2. ASSUME NEW i \in 1 .. Len(path_nodes) PROVE path_nodes[i] = Step(i)'
    <3>1. i \in 1 .. N
      BY <1>2, <1>7, <2>1
    <3>2. Step(i)' = Step(i)
      BY <1>23, <3>1 DEF Step
    <3> QED BY <1>1, <3>2 DEF NodesTrue
  <2>3. Len(path_nodes) <= N + 1
    BY <1>2, <1>7, <2>1
  <2> QED BY <1>18, <1>23, <2>2, <2>3 DEF NodesTrue
<1> QED BY <1>22, <1>24, <1>29, <1>30, <1>31 DEF PathInv

(* A sequence cut short.                                                   *)
LEMMA Shortened ==
    ASSUME NEW E, NEW s \in Seq(E), NEW m \in 0 .. Len(s)
    PROVE  /\ SubSeq(s, 1, m) \in Seq(E) /\ Len(SubSeq(s, 1, m)) = m
           /\ \A i \in 1 .. m : SubSeq(s, 1, m)[i] = s[i]
OBVIOUS

LEMMA CloseKeeps ==
    ASSUME PathInv, CloseElement
    PROVE  PathInv'
<1>1. PathTyped /\ ParentsBefore /\ StepsTrue /\ CountersTrue /\ NodesTrue
  BY DEF PathInv
<1>2. /\ Len(path_steps) \in Nat /\ Len(opened) \in Nat /\ Len(sibling_counts) \in Nat
      /\ Len(path_nodes) \in Nat
  BY <1>1, ParentTyped
<1>3. PICK N : N = Len(path_steps)
  OBVIOUS
<1>4. N \in Nat \ {0} /\ N - 1 \in 0 .. N
  BY <1>1, <1>2, <1>3 DEF CloseElement, PathTyped
<1>5. path_steps' = SubSeq(path_steps, 1, N - 1) /\ opened' = opened
  BY <1>3 DEF CloseElement
<1>6. /\ path_steps' \in Seq(StepType) /\ Len(path_steps') = N - 1
      /\ \A i \in 1 .. N - 1 : path_steps'[i] = path_steps[i]
  BY <1>1, <1>3, <1>4, <1>5, Shortened DEF PathTyped
<1>7. /\ sibling_counts' \in Seq(CounterType) /\ Len(sibling_counts') = Len(sibling_counts)
      /\ N + 1 <= Len(sibling_counts) => sibling_counts'[N + 1] = NoCounter
      /\ \A d \in 1 .. Len(sibling_counts) : d # N + 1 => sibling_counts'[d] = sibling_counts[d]
  <2>1. CASE Len(sibling_counts) > N
    <3>1. N + 1 \in 1 .. Len(sibling_counts)
      BY <1>2, <1>4, <2>1
    <3>2. Cleared(sibling_counts[N + 1]) = NoCounter
      BY <1>1, <3>1, ClearedForgets DEF CountersTrue
    <3>3. sibling_counts' = [sibling_counts EXCEPT ![N + 1] = NoCounter]
      BY <1>3, <2>1, <3>2 DEF CloseElement
    <3>4. NoCounter \in CounterType /\ sibling_counts \in Seq(CounterType)
      BY <1>1, NoCounterOK DEF CounterOK, PathTyped
    <3> QED BY <3>1, <3>3, <3>4
  <2>2. CASE ~(Len(sibling_counts) > N)
    <3>1. sibling_counts' = sibling_counts
      BY <1>3, <2>2 DEF CloseElement
    <3> QED BY <1>1, <1>2, <1>4, <2>2, <3>1 DEF PathTyped
  <2> QED BY <2>1, <2>2
<1>8. /\ path_nodes' \in Seq(NodeType) /\ Len(path_nodes') <= N - 1
      /\ Len(path_nodes') <= Len(path_nodes) /\ Len(path_nodes') \in Nat
      /\ \A i \in 1 .. Len(path_nodes') : path_nodes'[i] = path_nodes[i]
  <2>1. CASE Len(path_nodes) < N
    <3>1. path_nodes' = path_nodes
      BY <1>3, <2>1 DEF CloseElement
    <3> QED BY <1>1, <1>2, <1>4, <2>1, <3>1 DEF PathTyped
  <2>2. CASE ~(Len(path_nodes) < N)
    <3>1. path_nodes' = SubSeq(path_nodes, 1, N - 1) /\ N - 1 \in 0 .. Len(path_nodes)
      BY <1>2, <1>3, <1>4, <2>2 DEF CloseElement
    <3> QED BY <1>1, <1>2, <1>4, <3>1, Shortened DEF PathTyped
  <2> QED BY <2>1, <2>2
<1>9. PathTyped'
  BY <1>1, <1>5, <1>6, <1>7, <1>8 DEF PathTyped
<1>10. ParentsBefore'
  BY <1>1, <1>5 DEF ParentsBefore
<1>11. \A d \in 1 .. N : ParentAt(d)' = ParentAt(d)
  <2> SUFFICES ASSUME NEW d \in 1 .. N PROVE ParentAt(d)' = ParentAt(d)
    OBVIOUS
  <2>1. d = 1 \/ d - 1 \in 1 .. N - 1
    BY <1>4
  <2> QED BY <1>6, <2>1 DEF ParentAt
<1>12. StepsTrue'
  <2>1. ASSUME NEW i \in 1 .. N - 1
        PROVE  LET x == path_steps'[i].elem
               IN  /\ x \in 1 .. Len(opened')
                   /\ opened'[x] = [name |-> path_steps'[i].name, parent |-> ParentAt(i)']
                   /\ path_steps'[i].position = Cardinality(Alike(opened', x))
    <3>1. i \in 1 .. N
      BY <1>4
    <3> QED BY <1>1, <1>3, <1>5, <1>6, <1>11, <3>1 DEF StepsTrue
  <2>2. ASSUME NEW c \in 1 .. N, NEW d \in 1 .. N, c < d
        PROVE  ParentAt(c)' < ParentAt(d)'
    <3>1. c \in 1 .. N + 1 /\ d \in 1 .. N + 1
      BY <1>4
    <3>2. ParentAt(c) < ParentAt(d)
      BY <1>1, <1>3, <2>2, <3>1 DEF StepsTrue
    <3> QED BY <1>11, <3>2
  <2>3. N - 1 + 1 = N
    BY <1>4
  <2>4. \A c, d \in 1 .. Len(path_steps') + 1 : c < d => ParentAt(c)' < ParentAt(d)'
    BY <1>6, <2>2, <2>3
  <2> QED BY <1>6, <2>1, <2>4 DEF StepsTrue
<1>13. CountersTrue'
  <2>1. N <= Len(sibling_counts)
    BY <1>1, <1>3 DEF CountersTrue
  <2>2. ASSUME NEW d \in 1 .. Len(sibling_counts)
        PROVE  /\ CounterOK(sibling_counts'[d])
               /\ d > N => sibling_counts'[d] = NoCounter
    <3>1. CASE d = N + 1
      BY <1>2, <1>4, <1>7, <3>1, NoCounterOK
    <3>2. CASE d # N + 1
      BY <1>1, <1>3, <1>4, <1>7, <3>2 DEF CountersTrue
    <3> QED BY <3>1, <3>2
  <2>3. ASSUME NEW d \in 1 .. N
        PROVE  Counts(CounterAt(d)', SiblingsIn(opened', ParentAt(d)'))
    <3>1. d \in 1 .. Len(sibling_counts) /\ d # N + 1 /\ d \in 1 .. N + 1
      BY <1>2, <1>4, <2>1
    <3>2. CounterAt(d)' = CounterAt(d)
      BY <1>2, <1>7, <3>1 DEF CounterAt
    <3> QED BY <1>1, <1>3, <1>5, <1>11, <3>1, <3>2 DEF CountersTrue
  <2>4. N - 1 + 1 = N /\ N - 1 <= Len(sibling_counts)
    BY <1>2, <1>4, <2>1
  <2>5. Len(path_steps') <= Len(sibling_counts')
    BY <1>6, <1>7, <2>4
  <2>6. \A d \in 1 .. Len(sibling_counts') :
          /\ CounterOK(sibling_counts'[d])
          /\ d > Len(path_steps') + 1 => sibling_counts'[d] = NoCounter
    BY <1>6, <1>7, <2>2, <2>4
  <2>7. \A d \in 1 .. Len(path_steps') + 1 :
          Counts(CounterAt(d)', SiblingsIn(opened', ParentAt(d)'))
    BY <1>6, <2>3, <2>4
  <2> QED BY <2>5, <2>6, <2>7 DEF CountersTrue
<1>14. NodesTrue'
  <2>1. ASSUME NEW i \in 1 .. Len(path_nodes') PROVE path_nodes'[i] = Step(i)'
    <3>1. i \in 1 .. N - 1 /\ i \in 1 .. Len(path_nodes)
      BY <1>2, <1>4, <1>8
    <3>2. Step(i)' = Step(i)
      BY <1>6, <3>1 DEF Step
    <3> QED BY <1>1, <1>8, <3>1, <3>2 DEF NodesTrue
  <2> QED BY <1>6, <1>8, <2>1 DEF NodesTrue
<1> QED BY <1>9, <1>10, <1>12, <1>13, <1>14 DEF PathInv

LEMMA ReportKeeps ==
    ASSUME PathInv, Report
    PROVE  PathInv'
<1>1. PathTyped /\ ParentsBefore /\ StepsTrue /\ CountersTrue /\ NodesTrue
  BY DEF PathInv
<1>2. Len(path_steps) \in Nat /\ Len(path_nodes) \in Nat
  BY <1>1, ParentTyped
<1>3. path_steps' = path_steps /\ sibling_counts' = sibling_counts /\ opened' = opened
  BY DEF Report
<1>4. path_nodes' \in Seq(NodeType) /\ NodesTrue'
  <2>1. CASE Len(path_nodes) >= Len(path_steps)
    <3>1. path_nodes' = path_nodes
      BY <2>1 DEF Report
    <3> QED BY <1>1, <1>3, <3>1 DEF NodesTrue, Step, PathTyped
  <2>2. CASE ~(Len(path_nodes) >= Len(path_steps))
    <3> DEFINE built == Len(path_nodes)
               rest == [i \in 1 .. (Len(path_steps) - built) |-> Step(built + i)]
    <3>1. path_nodes' = path_nodes \o rest
      BY <2>2 DEF Report
    <3>2. Len(path_steps) - built \in Nat
      BY <1>2, <2>2
    <3>3. ASSUME NEW i \in 1 .. (Len(path_steps) - built) PROVE Step(built + i) \in NodeType
      <4>1. built + i \in 1 .. Len(path_steps)
        BY <1>2, <3>2
      <4>2. path_steps[built + i] \in StepType
        BY <1>1, <4>1 DEF PathTyped
      <4> QED BY <4>2 DEF Step, StepType, NodeType
    <3>4. rest \in Seq(NodeType) /\ Len(rest) = Len(path_steps) - built
      BY <3>2, <3>3
    <3> HIDE DEF rest
    <3>5. /\ path_nodes' \in Seq(NodeType) /\ Len(path_nodes') = built + Len(rest)
          /\ \A i \in 1 .. built : path_nodes'[i] = path_nodes[i]
          /\ \A i \in 1 .. built + Len(rest) :
                i \in 1 .. built
                \/ (i - built \in 1 .. Len(rest) /\ path_nodes'[i] = rest[i - built])
      BY <1>1, <3>1, <3>4, Concatenated DEF PathTyped
    <3>6. Len(path_nodes') = Len(path_steps)
      BY <1>2, <3>4, <3>5
    <3>7. ASSUME NEW i \in 1 .. Len(path_nodes') PROVE path_nodes'[i] = Step(i)
      <4>1. CASE i \in 1 .. built
        BY <1>1, <3>5, <4>1 DEF NodesTrue
      <4>2. CASE i - built \in 1 .. Len(rest) /\ path_nodes'[i] = rest[i - built]
        <5>1. rest[i - built] = Step(built + (i - built))
          BY <3>4, <4>2 DEF rest
        <5>2. built + (i - built) = i
          BY <1>2, <3>5, <3>6
        <5> QED BY <4>2, <5>1, <5>2
      <4> QED BY <3>5, <4>1, <4>2
    <3>8. \A i \in 1 .. Len(path_nodes') : path_nodes'[i] = Step(i)'
      BY <1>3, <3>7 DEF Step
    <3> QED BY <1>2, <1>3, <3>5, <3>6, <3>8 DEF NodesTrue
  <2> QED BY <2>1, <2>2
<1>5. PathTyped' /\ ParentsBefore' /\ StepsTrue' /\ CountersTrue'
  BY <1>1, <1>3, <1>4
  DEF PathTyped, ParentsBefore, StepsTrue, CountersTrue, ParentAt, CounterAt
<1> QED BY <1>4, <1>5 DEF PathInv

LEMMA NextPathInv == PathInv /\ [PositionNext]_positionVars => PathInv'
<1> SUFFICES ASSUME PathInv, [PositionNext]_positionVars PROVE PathInv'
  OBVIOUS
<1>1. ASSUME NEW name \in Name, OpenElement(name) PROVE PathInv'
  BY <1>1, OpenKeeps
<1>2. CASE CloseElement
  BY <1>2, CloseKeeps
<1>3. CASE Report
  BY <1>3, ReportKeeps
<1>4. CASE UNCHANGED positionVars
  BY <1>4
  DEF positionVars, PathInv, PathTyped, ParentsBefore, StepsTrue, CountersTrue, NodesTrue,
      ParentAt, CounterAt, Step
<1> QED BY <1>1, <1>2, <1>3, <1>4 DEF PositionNext

(* Theorem.  At every depth the counter has the number of the children     *)
(* that the element open above it has so far, wherever the names are kept, *)
(* and the nodes built for a diagnostic are a prefix of the open path.     *)
THEOREM PathInvariant == PositionSpec => []PathInv
BY InitPathInv, NextPathInv, PTL DEF PositionSpec

-----------------------------------------------------------------------------
(* The path that the open elements have is the true one.                   *)

TrueStep ==
    [x \in 1 .. Len(opened) |->
        [name |-> opened[x].name,
         position |-> Cardinality({y \in 1 .. x : opened[y] = opened[x]})]]
PathStep(path, x) ==
    IF x = 0 THEN <<>> ELSE Append(path[opened[x].parent], TrueStep[x])

LEMMA TruePathExists ==
    ASSUME PathTyped, ParentsBefore, NEW N, N = Len(opened)
    PROVE  \E path : path = [x \in 0 .. N |-> PathStep(path, x)]
<1> DEFINE Upto(m, f) == \A x \in 0 .. m : f[x] = PathStep(f, x)
           S == {m \in 0 .. N : \E f : f = [x \in 0 .. m |-> f[x]] /\ Upto(m, f)}
<1>1. N \in Nat /\ \A x \in 1 .. N : opened[x].parent \in 0 .. x - 1
  <2>1. N \in Nat
    BY DEF PathTyped
  <2>2. \A x \in 1 .. N : opened[x] \in ElementType
    BY DEF PathTyped
  <2>3. \A x \in 1 .. N : opened[x].parent \in Nat /\ opened[x].parent < x
    BY <2>2 DEF ElementType, ParentsBefore
  <2> QED BY <2>1, <2>3
<1>2. 0 \in S
  <2> DEFINE f == [x \in 0 .. 0 |-> <<>>]
  <2>1. f = [x \in 0 .. 0 |-> f[x]] /\ Upto(0, f) /\ 0 \in 0 .. N
    BY <1>1 DEF PathStep
  <2> HIDE DEF f
  <2> QED BY <2>1
<1>3. ASSUME NEW m \in 0 .. N - 1, m \in S PROVE m + 1 \in S
  <2>1. PICK f : f = [x \in 0 .. m |-> f[x]] /\ Upto(m, f)
    BY <1>3
  <2> DEFINE g == [x \in 0 .. m + 1 |-> IF x = m + 1 THEN PathStep(f, m + 1) ELSE f[x]]
  <2>2. \A x \in 0 .. m : g[x] = f[x]
    OBVIOUS
  <2>3. g[m + 1] = PathStep(f, m + 1)
    OBVIOUS
  <2>4. g = [x \in 0 .. m + 1 |-> g[x]] /\ m + 1 \in 0 .. N
    BY <1>1
  <2> HIDE DEF g
  <2>5. ASSUME NEW x \in 0 .. m + 1 PROVE g[x] = PathStep(g, x)
    <3>1. x = 0 \/ opened[x].parent \in 0 .. m
      <4>1. x = 0 \/ x \in 1 .. N
        BY <1>1
      <4> QED BY <1>1, <4>1
    <3>2. PathStep(g, x) = PathStep(f, x)
      BY <2>2, <3>1 DEF PathStep
    <3>3. x = m + 1 \/ x \in 0 .. m
      OBVIOUS
    <3> QED BY <2>1, <2>2, <2>3, <3>2, <3>3
  <2> QED BY <2>4, <2>5
<1> HIDE DEF S
<1>4. N \in S
  <2>1. \A m \in 0 .. N : m \in S
    BY <1>1, <1>2, <1>3, BoundedInduction
  <2> QED BY <1>1, <2>1
<1>5. PICK f : f = [x \in 0 .. N |-> f[x]] /\ Upto(N, f)
  BY <1>4 DEF S
<1>6. f = [x \in 0 .. N |-> PathStep(f, x)]
  BY <1>5
<1> QED BY <1>6

LEMMA OpenPathTrue ==
    ASSUME PathInv
    PROVE  TruePath(Parent) = [i \in 1 .. Len(path_steps) |-> Step(i)]
<1> DEFINE path == CHOOSE f : f = [x \in 0 .. Len(opened) |-> PathStep(f, x)]
           N == Len(path_steps)
           Open(i) == [j \in 1 .. i |-> Step(j)]
           S == {i \in 0 .. N : path[ParentAt(i + 1)] = Open(i)}
<1>1. PathTyped /\ ParentsBefore /\ StepsTrue
  BY DEF PathInv
<1>2. path = [x \in 0 .. Len(opened) |-> PathStep(path, x)]
  BY <1>1, TruePathExists
<1>3. \A e : TruePath(e) = path[e]
  BY DEF TruePath, PathStep, TrueStep
<1> HIDE DEF path
<1>4. \A x \in 0 .. Len(opened) : path[x] = PathStep(path, x)
  BY <1>2
<1>5. N \in Nat /\ Len(opened) \in Nat /\ Parent = ParentAt(N + 1)
  BY <1>1, ParentTyped
<1>6. 0 \in S
  <2>1. path[0] = <<>>
    BY <1>4, <1>5 DEF PathStep
  <2>2. Open(0) = <<>>
    OBVIOUS
  <2>3. ParentAt(0 + 1) = 0 /\ 0 \in 0 .. N
    BY <1>5 DEF ParentAt
  <2> QED BY <2>1, <2>2, <2>3
<1>7. ASSUME NEW i \in 0 .. N - 1, i \in S PROVE i + 1 \in S
  <2>1. PICK e : e = path_steps[i + 1].elem
    OBVIOUS
  <2>2. i + 1 \in 1 .. N /\ i + 1 \in 0 .. N /\ path[ParentAt(i + 1)] = Open(i)
    BY <1>5, <1>7
  <2>3. /\ e \in 1 .. Len(opened)
        /\ opened[e] = [name |-> path_steps[i + 1].name, parent |-> ParentAt(i + 1)]
        /\ path_steps[i + 1].position = Cardinality(Alike(opened, e))
    BY <1>1, <2>1, <2>2 DEF StepsTrue
  <2>4. TrueStep[e] = Step(i + 1)
    <3>1. TrueStep[e] = [name |-> opened[e].name, position |-> Cardinality(Alike(opened, e))]
      BY <2>3 DEF TrueStep, Alike
    <3>2. opened[e].name = path_steps[i + 1].name
      BY <2>3
    <3> QED BY <2>3, <3>1, <3>2 DEF Step
  <2>5. path[e] = Append(Open(i), TrueStep[e])
    <3>1. opened[e].parent = ParentAt(i + 1) /\ e \in 0 .. Len(opened) /\ e # 0
      BY <1>5, <2>3
    <3> QED BY <1>4, <2>2, <3>1 DEF PathStep
  <2>6. Append(Open(i), Step(i + 1)) = Open(i + 1)
    <3>1. \A j : Step(j) \in {Step(k) : k \in 1 .. i + 1} \/ j \notin 1 .. i + 1
      OBVIOUS
    <3> HIDE DEF Step
    <3>2. i \in Nat
      BY <1>5
    <3> QED BY <3>2
  <2>7. ParentAt(i + 1 + 1) = e
    <3>1. i + 1 + 1 # 1 /\ i + 1 + 1 - 1 = i + 1
      BY <1>5
    <3> QED BY <2>1, <3>1 DEF ParentAt
  <2> QED BY <2>2, <2>4, <2>5, <2>6, <2>7
<1> HIDE DEF S
<1>8. \A i \in 0 .. N : i \in S
  BY <1>5, <1>6, <1>7, BoundedInduction
<1>9. N \in S
  BY <1>5, <1>8
<1>10. path[ParentAt(N + 1)] = Open(N)
  BY <1>9 DEF S
<1> QED BY <1>3, <1>5, <1>10

LEMMA PathInvExact == PathInv => PositionsExact
<1> SUFFICES ASSUME PathInv PROVE PositionsExact
  OBVIOUS
<1> DEFINE open == [i \in 1 .. Len(path_steps) |-> Step(i)]
<1>1. TruePath(Parent) = open
  BY OpenPathTrue
<1>2. /\ path_nodes \in Seq(NodeType) /\ Len(path_nodes) \in Nat /\ Len(path_steps) \in Nat
      /\ Len(path_nodes) <= Len(path_steps)
      /\ \A i \in 1 .. Len(path_nodes) : path_nodes[i] = Step(i)
  BY ParentTyped DEF PathInv, PathTyped, NodesTrue
<1>3. open \in Seq(NodeType) /\ Len(open) = Len(path_steps)
      /\ \A i \in 1 .. Len(path_steps) : open[i] = Step(i)
  <2>1. ASSUME NEW i \in 1 .. Len(path_steps) PROVE Step(i) \in NodeType
    <3>1. path_steps[i] \in StepType
      BY DEF PathInv, PathTyped
    <3> QED BY <3>1 DEF Step, StepType, NodeType
  <2> HIDE DEF Step
  <2> QED BY <1>2, <2>1
<1> HIDE DEF open
<1>4. \A i \in 1 .. Len(path_nodes) : open[i] = path_nodes[i]
  BY <1>2, <1>3
<1>5. SubSeq(open, 1, Len(path_nodes)) = path_nodes
      /\ SubSeq(path_nodes, 1, Len(path_nodes)) = path_nodes
  BY <1>2, <1>3, <1>4
<1>6. IsPrefix(path_nodes, open)
  BY <1>2, <1>3, <1>5 DEF IsPrefix
<1>7. PositionsExact
  BY <1>1, <1>6 DEF PositionsExact, open
<1> QED BY <1>7

(* Theorem.  Every step of the path of the current element has the name    *)
(* of the open element and its position among the siblings of that name,   *)
(* and so has the path a diagnostic carries.                               *)
THEOREM PositionsAreExact == PositionSpec => []PositionsExact
BY PathInvariant, PathInvExact, PTL

-----------------------------------------------------------------------------
(* The ID/IDREF table: what it holds of a sequence of values, at a place   *)
(* in the run (the elements so far, the IDREFs before the current root,    *)
(* the number of the root and its first element).                          *)

ItemType ==
    [kind : {"ID", "IDREF"}, value : IdValue, elem : Nat,
     where : {"attribute", "content"}, root : Nat]
TableType(t) ==
    /\ t = [ids |-> t.ids, idrefs |-> t.idrefs, conflict |-> t.conflict,
            duplicates |-> t.duplicates]
    /\ t.ids = [v \in DOMAIN t.ids |-> t.ids[v]]
    /\ t.idrefs \in Seq(IdValue) /\ t.conflict \in BOOLEAN /\ t.duplicates \in Nat

IsIdIn(s, i) == s[i].kind = "ID"
OwnerIn(s, at, i) ==
    IF s[i].where = "attribute" \/ at.tree[s[i].elem] = 0 THEN s[i].elem
    ELSE at.tree[s[i].elem]
ClashIn(s, at, i, j) ==
    /\ i # j /\ IsIdIn(s, i) /\ IsIdIn(s, j) /\ s[i].value = s[j].value
    /\ at.xsd11 => OwnerIn(s, at, i) # OwnerIn(s, at, j)
Nth(s, i) == Cardinality({j \in 1 .. i : ~IsIdIn(s, j)})

(* Elements bind values in their own root.                                 *)
RootsApart(s, at) ==
    /\ \A i \in 1 .. Len(s) :
          /\ s[i].elem \in 1 .. Len(at.tree) /\ OwnerIn(s, at, i) \in 1 .. Len(at.tree)
          /\ s[i].root \in 1 .. at.root
          /\ s[i].root = at.root => OwnerIn(s, at, i) >= at.floor
          /\ s[i].root # at.root => OwnerIn(s, at, i) < at.floor
    /\ \A i, j \in 1 .. Len(s) :
          OwnerIn(s, at, i) = OwnerIn(s, at, j) => s[i].root = s[j].root

(* Every ID value has an owner, one of those that its IDs identify.        *)
IdsHeld(t, s, at) ==
    /\ \A i \in 1 .. Len(s) : IsIdIn(s, i) => s[i].value \in DOMAIN t.ids
    /\ \A v \in DOMAIN t.ids : \E i \in 1 .. Len(s) :
          IsIdIn(s, i) /\ s[i].value = v /\ t.ids[v] = OwnerIn(s, at, i)

ClashesHeld(t, s, at) ==
    /\ t.conflict = \E i, j \in 1 .. Len(s) : s[i].root = at.root /\ ClashIn(s, at, i, j)
    /\ (t.duplicates > 0) = \E i, j \in 1 .. Len(s) : ClashIn(s, at, i, j)

(* The IDREFs in order, those of the current root at the end.              *)
IdrefsHeld(t, s, at) ==
    /\ Len(t.idrefs) = Nth(s, Len(s))
    /\ at.start \in 0 .. Len(t.idrefs)
    /\ \A i \in 1 .. Len(s) : ~IsIdIn(s, i) =>
          /\ Nth(s, i) \in 1 .. Len(t.idrefs) /\ t.idrefs[Nth(s, i)] = s[i].value
          /\ (Nth(s, i) > at.start) = (s[i].root = at.root)
    /\ \A k \in 1 .. Len(t.idrefs) : \E i \in 1 .. Len(s) : ~IsIdIn(s, i) /\ Nth(s, i) = k

Exact(t, s, at) ==
    /\ TableType(t) /\ s \in Seq(ItemType)
    /\ RootsApart(s, at) /\ IdsHeld(t, s, at) /\ ClashesHeld(t, s, at) /\ IdrefsHeld(t, s, at)

(* The verdict on root r, from the values up to it.                        *)
ResolvesIn(s, i, j) == IsIdIn(s, j) /\ ~IsIdIn(s, i) /\ s[i].value = s[j].value
WrongIn(s, at, r) ==
    \E i \in 1 .. Len(s) :
        /\ s[i].root = r
        /\ \/ ~IsIdIn(s, i) /\ ~\E j \in 1 .. Len(s) : s[j].root <= r /\ ResolvesIn(s, i, j)
           \/ \E j \in 1 .. Len(s) : s[j].root <= r /\ ClashIn(s, at, i, j)
UnresolvedIn(s, i) == ~IsIdIn(s, i) /\ ~\E j \in 1 .. Len(s) : ResolvesIn(s, i, j)

-----------------------------------------------------------------------------
FrameType == [element_serial : Nat, attributes : BOOLEAN, validity : {"valid", "notKnown"}]
VerdictType == [strict : BOOLEAN, validity : {"valid", "invalid", "notKnown"}]

Floor == IF validation_stack = <<>> THEN Len(tree) + 1 ELSE validation_stack[1].element_serial
Place == [tree |-> tree, xsd11 |-> xsd11, start |-> root_idref_start,
          root |-> Len(verdicts) + 1, floor |-> Floor]

StackTrue ==
    /\ xsd11 \in BOOLEAN /\ tree \in Seq(Nat) /\ validation_stack \in Seq(FrameType)
    /\ verdicts \in Seq(VerdictType)
    /\ errors = [duplicates |-> errors.duplicates, unresolved |-> errors.unresolved,
                 ended |-> errors.ended]
    /\ errors.ended \in BOOLEAN /\ (errors.ended => validation_stack = <<>>)
    /\ \A k \in 1 .. Len(validation_stack) :
          LET e == validation_stack[k].element_serial
          IN  /\ e \in 1 .. Len(tree) /\ validation_stack[1].element_serial <= e
              /\ tree[e] = IF k = 1 THEN 0 ELSE validation_stack[k - 1].element_serial

VerdictsTrue ==
    \A r \in 1 .. Len(verdicts) :
        verdicts[r].validity = IF ~verdicts[r].strict THEN "notKnown"
                               ELSE IF WrongIn(items, Place, r) THEN "invalid" ELSE "valid"

EndTrue ==
    errors.ended =>
        errors.unresolved = {Nth(items, i) : i \in {k \in 1 .. Len(items) : UnresolvedIn(items, k)}}

(* The inductive invariant of the table.                                   *)
IdInv == StackTrue /\ Exact(Table, items, Place) /\ VerdictsTrue /\ EndTrue

-----------------------------------------------------------------------------
(* One value more.                                                         *)
CollectOne(t, m, owner) ==
    IF m.kind = "ID" THEN register_id_value(t, m.value, owner)
    ELSE [t EXCEPT !.idrefs = Append(@, m.value)]

PlaceOK(at) ==
    /\ at.tree \in Seq(Nat) /\ at.root \in Nat /\ at.floor \in Nat
    /\ at.xsd11 = xsd11 /\ xsd11 \in BOOLEAN

(* The sequence s with one more item, which an ID in it would identify by  *)
(* this owner.                                                             *)
OneMore(r, s, at, item, owner) ==
    /\ s \in Seq(ItemType) /\ item \in ItemType /\ r \in Seq(ItemType)
    /\ Len(s) \in Nat /\ Len(r) = Len(s) + 1
    /\ \A i \in 1 .. Len(s) : /\ r[i] = s[i] /\ OwnerIn(r, at, i) = OwnerIn(s, at, i)
                              /\ i \in 1 .. Len(r) /\ i # Len(r)
    /\ \A i \in 1 .. Len(r) : i \in 1 .. Len(s) \/ i = Len(r)
    /\ Len(r) \in 1 .. Len(r)
    /\ r[Len(r)] = item /\ OwnerIn(r, at, Len(r)) = owner

LEMMA OneMoreForms ==
    ASSUME NEW s \in Seq(ItemType), NEW item \in ItemType, NEW at, NEW owner,
           owner = IF item.where = "attribute" \/ at.tree[item.elem] = 0 THEN item.elem
                   ELSE at.tree[item.elem]
    PROVE  OneMore(Append(s, item), s, at, item, owner)
<1> DEFINE r == Append(s, item)
<1>1. r \in Seq(ItemType) /\ Len(s) \in Nat /\ LongerBy(r, s, item)
  BY AppendedTo
<1>2. Len(r) = Len(s) + 1 /\ r[Len(s) + 1] = item /\ \A i \in 1 .. Len(s) : r[i] = s[i]
  BY <1>1 DEF LongerBy
<1> HIDE DEF r
<1>3. \A i \in 1 .. Len(s) : OwnerIn(r, at, i) = OwnerIn(s, at, i)
  BY <1>2 DEF OwnerIn
<1>4. OwnerIn(r, at, Len(r)) = owner
  BY <1>2 DEF OwnerIn
<1>5. OneMore(r, s, at, item, owner)
  BY <1>1, <1>2, <1>3, <1>4 DEF OneMore
<1> QED BY <1>5 DEF r

LEMMA MoreApart ==
    ASSUME NEW r, NEW s, NEW at, NEW item, NEW owner, OneMore(r, s, at, item, owner),
           PlaceOK(at), RootsApart(s, at), item.root = at.root, at.root # 0,
           item.elem \in 1 .. Len(at.tree), owner \in 1 .. Len(at.tree), owner >= at.floor
    PROVE  RootsApart(r, at)
<1>1. ASSUME NEW i \in 1 .. Len(r)
      PROVE  /\ r[i].elem \in 1 .. Len(at.tree) /\ OwnerIn(r, at, i) \in 1 .. Len(at.tree)
             /\ r[i].root \in 1 .. at.root
             /\ r[i].root = at.root => OwnerIn(r, at, i) >= at.floor
             /\ r[i].root # at.root => OwnerIn(r, at, i) < at.floor
  <2>1. CASE i = Len(r)
    BY SMTT(30), <2>1 DEF OneMore, PlaceOK
  <2>2. CASE i \in 1 .. Len(s)
    BY <2>2 DEF OneMore, RootsApart
  <2> QED BY <2>1, <2>2 DEF OneMore
<1>2. ASSUME NEW i \in 1 .. Len(r), OwnerIn(r, at, i) = owner
      PROVE  r[i].root = at.root
  <2>1. owner \in Nat /\ at.floor \in Nat
    BY DEF PlaceOK
  <2>2. r[i].root # at.root => owner < at.floor
    BY <1>1, <1>2
  <2> QED BY <2>1, <2>2
<1>3. ASSUME NEW i \in 1 .. Len(r), NEW j \in 1 .. Len(r),
             OwnerIn(r, at, i) = OwnerIn(r, at, j)
      PROVE  r[i].root = r[j].root
  <2>1. CASE i = Len(r) \/ j = Len(r)
    <3>1. OwnerIn(r, at, i) = owner /\ OwnerIn(r, at, j) = owner
      BY <1>3, <2>1 DEF OneMore
    <3> QED BY <1>2, <3>1
  <2>2. CASE i # Len(r) /\ j # Len(r)
    <3>1. i \in 1 .. Len(s) /\ j \in 1 .. Len(s)
      BY <2>2 DEF OneMore
    <3> QED BY <1>3, <3>1 DEF OneMore, RootsApart
  <2> QED BY <2>1, <2>2
<1> QED BY <1>1, <1>3 DEF RootsApart

LEMMA MoreClashes ==
    ASSUME NEW r, NEW s, NEW at, NEW item, NEW owner, OneMore(r, s, at, item, owner),
           NEW i \in 1 .. Len(s), NEW j \in 1 .. Len(s)
    PROVE  ClashIn(r, at, i, j) <=> ClashIn(s, at, i, j)
BY DEF OneMore, ClashIn, IsIdIn

LEMMA ClashSymmetric ==
    ASSUME NEW s, NEW at, NEW i, NEW j
    PROVE  ClashIn(s, at, i, j) => ClashIn(s, at, j, i)
BY DEF ClashIn

LEMMA MoreNth ==
    ASSUME NEW r, NEW s, NEW at, NEW item, NEW owner, OneMore(r, s, at, item, owner)
    PROVE  /\ \A i \in 0 .. Len(s) : Nth(r, i) = Nth(s, i) /\ Nth(s, i) \in Nat
           /\ Nth(r, Len(r)) = IF item.kind = "ID" THEN Nth(s, Len(s)) ELSE Nth(s, Len(s)) + 1
<1> DEFINE Refs(q, i) == {j \in 1 .. i : ~IsIdIn(q, j)}
<1>1. Len(s) \in Nat /\ Len(r) = Len(s) + 1
  BY DEF OneMore
<1>2. ASSUME NEW i \in 0 .. Len(s) PROVE Nth(r, i) = Nth(s, i) /\ Nth(s, i) \in Nat
  <2>1. Refs(r, i) = Refs(s, i)
    BY <1>1 DEF OneMore, IsIdIn
  <2>2. Refs(s, i) \subseteq 1 .. i /\ i \in Nat
    BY <1>1
  <2> QED BY <2>1, <2>2, FiniteBelow DEF Nth
<1>3. CASE item.kind = "ID"
  <2>1. Refs(r, Len(r)) = Refs(s, Len(s))
    BY <1>1, <1>3 DEF OneMore, IsIdIn
  <2> QED BY <1>2, <1>3, <2>1 DEF Nth
<1>4. CASE item.kind # "ID"
  <2>1. Refs(r, Len(r)) = Refs(s, Len(s)) \cup {Len(r)}
    BY <1>1, <1>4 DEF OneMore, IsIdIn
  <2>2. Len(r) \notin Refs(s, Len(s)) /\ IsFiniteSet(Refs(s, Len(s)))
    <3>1. Refs(s, Len(s)) \subseteq 1 .. Len(s)
      OBVIOUS
    <3> QED BY <1>1, <3>1, FiniteBelow
  <2>3. Cardinality(Refs(r, Len(r))) = Cardinality(Refs(s, Len(s))) + 1
    BY <2>1, <2>2, FS_AddElement
  <2> QED BY <1>2, <1>4, <2>3 DEF Nth
<1> QED BY <1>2, <1>3, <1>4

LEMMA IdrefCollected ==
    ASSUME NEW r, NEW s, NEW at, NEW item, NEW owner, OneMore(r, s, at, item, owner),
           PlaceOK(at), item.root = at.root, NEW t, Exact(t, s, at), item.kind # "ID",
           RootsApart(r, at)
    PROVE  Exact([t EXCEPT !.idrefs = Append(@, item.value)], r, at)
<1> DEFINE new == [t EXCEPT !.idrefs = Append(@, item.value)]
           refs == Append(t.idrefs, item.value)
           N == Len(s)
<1>1. /\ TableType(t) /\ IdsHeld(t, s, at) /\ ClashesHeld(t, s, at) /\ IdrefsHeld(t, s, at)
      /\ t.idrefs \in Seq(IdValue) /\ N \in Nat /\ Len(r) = N + 1
  BY DEF Exact, TableType, OneMore
<1>2. item.value \in IdValue
  BY DEF OneMore, ItemType
<1>3. refs \in Seq(IdValue) /\ LongerBy(refs, t.idrefs, item.value) /\ Len(t.idrefs) \in Nat
  BY <1>1, <1>2, AppendedTo
<1> HIDE DEF refs
<1>4. /\ new = [ids |-> t.ids, idrefs |-> refs, conflict |-> t.conflict,
                duplicates |-> t.duplicates]
      /\ new.ids = t.ids /\ new.idrefs = refs /\ new.conflict = t.conflict
      /\ new.duplicates = t.duplicates
  <2>1. new = [t EXCEPT !.idrefs = refs]
    BY DEF refs
  <2> HIDE DEF new
  <2>2. t = [ids |-> t.ids, idrefs |-> t.idrefs, conflict |-> t.conflict,
             duplicates |-> t.duplicates]
    BY <1>1 DEF TableType
  <2>3. new = [ids |-> t.ids, idrefs |-> refs, conflict |-> t.conflict,
               duplicates |-> t.duplicates]
    BY <2>1, <2>2
  <2> QED BY <2>3
<1> HIDE DEF new
<1>5. TableType(new)
  BY <1>1, <1>3, <1>4 DEF TableType
<1>6. ~IsIdIn(r, Len(r)) /\ \A i \in 1 .. N : IsIdIn(r, i) = IsIdIn(s, i)
  BY DEF IsIdIn, OneMore
<1>7. IdsHeld(new, r, at)
  <2>1. ASSUME NEW i \in 1 .. Len(r), IsIdIn(r, i) PROVE r[i].value \in DOMAIN t.ids
    <3>1. i \in 1 .. N
      BY <1>6, <2>1 DEF OneMore
    <3> QED BY <1>1, <1>6, <2>1, <3>1 DEF OneMore, IdsHeld
  <2>2. ASSUME NEW v \in DOMAIN t.ids
        PROVE  \E i \in 1 .. Len(r) :
                  IsIdIn(r, i) /\ r[i].value = v /\ t.ids[v] = OwnerIn(r, at, i)
    <3>1. PICK i \in 1 .. N : IsIdIn(s, i) /\ s[i].value = v /\ t.ids[v] = OwnerIn(s, at, i)
      BY <1>1 DEF IdsHeld
    <3>2. i \in 1 .. Len(r) /\ r[i] = s[i] /\ OwnerIn(r, at, i) = OwnerIn(s, at, i)
      BY DEF OneMore
    <3> QED BY <1>6, <3>1, <3>2
  <2> QED BY <1>4, <2>1, <2>2 DEF IdsHeld
<1>8. \A i, j \in 1 .. Len(r) : ClashIn(r, at, i, j) =>
        i \in 1 .. N /\ j \in 1 .. N /\ ClashIn(s, at, i, j)
  <2> SUFFICES ASSUME NEW i \in 1 .. Len(r), NEW j \in 1 .. Len(r), ClashIn(r, at, i, j)
               PROVE  i \in 1 .. N /\ j \in 1 .. N /\ ClashIn(s, at, i, j)
    OBVIOUS
  <2>1. i \in 1 .. N /\ j \in 1 .. N
    BY <1>6 DEF ClashIn, OneMore
  <2> QED BY <2>1, MoreClashes
<1>9. \A i, j \in 1 .. N : ClashIn(s, at, i, j) =>
        i \in 1 .. Len(r) /\ j \in 1 .. Len(r) /\ ClashIn(r, at, i, j) /\ r[i] = s[i]
  BY MoreClashes DEF OneMore
<1>10. ClashesHeld(new, r, at)
  <2>1. (\E i, j \in 1 .. Len(r) : r[i].root = at.root /\ ClashIn(r, at, i, j))
          = \E i, j \in 1 .. N : s[i].root = at.root /\ ClashIn(s, at, i, j)
    <3>1. ASSUME NEW i \in 1 .. Len(r), NEW j \in 1 .. Len(r),
                 r[i].root = at.root, ClashIn(r, at, i, j)
          PROVE  \E x, y \in 1 .. N : s[x].root = at.root /\ ClashIn(s, at, x, y)
      <4>1. i \in 1 .. N /\ j \in 1 .. N /\ ClashIn(s, at, i, j)
        BY <1>8, <3>1
      <4> QED BY <3>1, <4>1 DEF OneMore
    <3>2. ASSUME NEW i \in 1 .. N, NEW j \in 1 .. N,
                 s[i].root = at.root, ClashIn(s, at, i, j)
          PROVE  \E x, y \in 1 .. Len(r) : r[x].root = at.root /\ ClashIn(r, at, x, y)
      BY <1>9, <3>2
    <3> QED BY <3>1, <3>2
  <2>2. (\E i, j \in 1 .. Len(r) : ClashIn(r, at, i, j))
          = \E i, j \in 1 .. N : ClashIn(s, at, i, j)
    BY <1>8, <1>9
  <2> QED BY <1>1, <1>4, <2>1, <2>2 DEF ClashesHeld
<1>11. /\ \A i \in 0 .. N : Nth(r, i) = Nth(s, i) /\ Nth(s, i) \in Nat
       /\ Nth(r, Len(r)) = Nth(s, N) + 1
  BY MoreNth
<1>12. /\ Len(t.idrefs) = Nth(s, N) /\ at.start \in 0 .. Len(t.idrefs)
       /\ Len(refs) = Len(t.idrefs) + 1 /\ refs[Len(t.idrefs) + 1] = item.value
       /\ \A k \in 1 .. Len(t.idrefs) : refs[k] = t.idrefs[k]
  BY <1>1, <1>3 DEF IdrefsHeld, LongerBy
<1>13. IdrefsHeld(new, r, at)
  <2>1. Len(refs) = Nth(r, Len(r)) /\ at.start \in 0 .. Len(refs)
    BY <1>3, <1>11, <1>12
  <2>2. ASSUME NEW i \in 1 .. Len(r), ~IsIdIn(r, i)
        PROVE  /\ Nth(r, i) \in 1 .. Len(refs) /\ refs[Nth(r, i)] = r[i].value
               /\ (Nth(r, i) > at.start) = (r[i].root = at.root)
    <3>1. CASE i = Len(r)
      <4>1. Nth(r, i) = Len(t.idrefs) + 1 /\ r[i].value = item.value /\ r[i].root = at.root
        BY <1>11, <1>12, <3>1 DEF OneMore
      <4> QED BY <1>3, <1>12, <4>1
    <3>2. CASE i \in 1 .. N
      <4>1. /\ Nth(s, i) \in 1 .. Len(t.idrefs) /\ t.idrefs[Nth(s, i)] = s[i].value
            /\ (Nth(s, i) > at.start) = (s[i].root = at.root)
        BY <1>1, <1>6, <2>2, <3>2 DEF IdrefsHeld
      <4>2. Nth(r, i) = Nth(s, i) /\ r[i] = s[i]
        BY <1>1, <1>11, <3>2 DEF OneMore
      <4> QED BY <1>3, <1>12, <4>1, <4>2
    <3> QED BY <3>1, <3>2 DEF OneMore
  <2>3. ASSUME NEW k \in 1 .. Len(refs)
        PROVE  \E i \in 1 .. Len(r) : ~IsIdIn(r, i) /\ Nth(r, i) = k
    <3>1. CASE k = Len(refs)
      BY <1>6, <2>1, <3>1 DEF OneMore
    <3>2. CASE k \in 1 .. Len(t.idrefs)
      <4>1. PICK i \in 1 .. N : ~IsIdIn(s, i) /\ Nth(s, i) = k
        BY <1>1, <3>2 DEF IdrefsHeld
      <4>2. i \in 1 .. Len(r) /\ Nth(r, i) = Nth(s, i)
        BY <1>1, <1>11
      <4> QED BY <1>6, <4>1, <4>2
    <3> QED BY <1>3, <1>12, <3>1, <3>2
  <2> QED BY <1>4, <2>1, <2>2, <2>3 DEF IdrefsHeld
<1>14. r \in Seq(ItemType)
  BY DEF OneMore
<1>15. Exact(new, r, at)
  BY <1>5, <1>7, <1>10, <1>13, <1>14 DEF Exact
<1> QED BY <1>15 DEF new

(* An ID: new, bound again to its owner, or a clash.                       *)
LEMMA IdCollected ==
    ASSUME NEW r, NEW s, NEW at, NEW item, NEW owner, OneMore(r, s, at, item, owner),
           PlaceOK(at), item.root = at.root, NEW t, Exact(t, s, at), item.kind = "ID",
           RootsApart(r, at)
    PROVE  Exact(register_id_value(t, item.value, owner), r, at)
<1> DEFINE v == item.value
           new == register_id_value(t, v, owner)
           N == Len(s)
           L == Len(r)
           bound == [u \in DOMAIN t.ids \cup {v} |-> IF u = v THEN owner ELSE t.ids[u]]
<1>1. /\ TableType(t) /\ IdsHeld(t, s, at) /\ ClashesHeld(t, s, at) /\ IdrefsHeld(t, s, at)
      /\ t.idrefs \in Seq(IdValue) /\ N \in Nat /\ L = N + 1
  BY DEF Exact, TableType, OneMore
<1>2. /\ IsIdIn(r, L) /\ L \in 1 .. L /\ r[L].value = v /\ OwnerIn(r, at, L) = owner
      /\ r[L].root = at.root
      /\ \A i \in 1 .. N : /\ IsIdIn(r, i) = IsIdIn(s, i) /\ r[i] = s[i]
                           /\ OwnerIn(r, at, i) = OwnerIn(s, at, i) /\ i \in 1 .. L /\ i # L
      /\ \A i \in 1 .. L : i \in 1 .. N \/ i = L
  BY DEF IsIdIn, OneMore
<1>3. \A i, j \in 1 .. N : ClashIn(r, at, i, j) <=> ClashIn(s, at, i, j)
  BY MoreClashes
<1>4. t = [ids |-> t.ids, idrefs |-> t.idrefs, conflict |-> t.conflict,
           duplicates |-> t.duplicates]
      /\ t.ids = [u \in DOMAIN t.ids |-> t.ids[u]]
  BY <1>1 DEF TableType
<1>5. new = IF v \notin DOMAIN t.ids THEN [t EXCEPT !.ids = bound]
            ELSE IF xsd11 /\ t.ids[v] = owner THEN t
            ELSE [t EXCEPT !.conflict = TRUE, !.duplicates = @ + 1]
  BY DEF register_id_value
<1> HIDE DEF new, bound
<1>6. new.idrefs = t.idrefs
      /\ new = [ids |-> new.ids, idrefs |-> new.idrefs, conflict |-> new.conflict,
                duplicates |-> new.duplicates]
  <2>1. CASE v \notin DOMAIN t.ids
    <3>1. new = [ids |-> bound, idrefs |-> t.idrefs, conflict |-> t.conflict,
                 duplicates |-> t.duplicates]
      BY <1>4, <1>5, <2>1
    <3> QED BY <3>1
  <2>2. CASE v \in DOMAIN t.ids /\ xsd11 /\ t.ids[v] = owner
    BY <1>4, <1>5, <2>2
  <2>3. CASE v \in DOMAIN t.ids /\ ~(xsd11 /\ t.ids[v] = owner)
    <3>1. new = [ids |-> t.ids, idrefs |-> t.idrefs, conflict |-> TRUE,
                 duplicates |-> t.duplicates + 1]
      BY <1>4, <1>5, <2>3
    <3> QED BY <3>1
  <2> QED BY <2>1, <2>2, <2>3
<1>7. IdrefsHeld(new, r, at)
  <2>1. /\ \A i \in 0 .. N : Nth(r, i) = Nth(s, i)
        /\ Nth(r, L) = Nth(s, N)
    BY MoreNth
  <2>2. Len(t.idrefs) = Nth(r, L) /\ at.start \in 0 .. Len(t.idrefs)
    BY <1>1, <2>1 DEF IdrefsHeld
  <2>3. ASSUME NEW i \in 1 .. L, ~IsIdIn(r, i)
        PROVE  /\ Nth(r, i) \in 1 .. Len(t.idrefs) /\ t.idrefs[Nth(r, i)] = r[i].value
               /\ (Nth(r, i) > at.start) = (r[i].root = at.root)
    <3>1. i \in 1 .. N
      BY <1>2, <2>3
    <3>2. Nth(r, i) = Nth(s, i) /\ r[i] = s[i] /\ ~IsIdIn(s, i)
      BY <1>1, <1>2, <2>1, <2>3, <3>1
    <3> QED BY <1>1, <3>1, <3>2 DEF IdrefsHeld
  <2>4. ASSUME NEW k \in 1 .. Len(t.idrefs)
        PROVE  \E i \in 1 .. L : ~IsIdIn(r, i) /\ Nth(r, i) = k
    <3>1. PICK i \in 1 .. N : ~IsIdIn(s, i) /\ Nth(s, i) = k
      BY <1>1 DEF IdrefsHeld
    <3> QED BY <1>1, <1>2, <2>1, <3>1
  <2> QED BY <1>6, <2>2, <2>3, <2>4 DEF IdrefsHeld
<1>8. r \in Seq(ItemType)
  BY DEF OneMore
<1>9. \A i, j \in 1 .. N : ClashIn(s, at, i, j) => i \in 1 .. L /\ j \in 1 .. L
        /\ ClashIn(r, at, i, j) /\ r[i] = s[i]
  BY <1>2, <1>3
(* No clash with the new item: the same clashes.                           *)
<1>10. ASSUME \A i \in 1 .. N : ~ClashIn(r, at, i, L),
              new.conflict = t.conflict, new.duplicates = t.duplicates
       PROVE  ClashesHeld(new, r, at)
  <2>1. \A i, j \in 1 .. L : ClashIn(r, at, i, j) =>
          i \in 1 .. N /\ j \in 1 .. N /\ ClashIn(s, at, i, j)
    <3> SUFFICES ASSUME NEW i \in 1 .. L, NEW j \in 1 .. L, ClashIn(r, at, i, j)
                 PROVE  i \in 1 .. N /\ j \in 1 .. N /\ ClashIn(s, at, i, j)
      OBVIOUS
    <3>1. i # j /\ ClashIn(r, at, j, i)
      BY ClashSymmetric DEF ClashIn
    <3>2. i \in 1 .. N /\ j \in 1 .. N
      BY <1>2, <1>10, <3>1
    <3> QED BY <1>3, <3>2
  <2>2. (\E i, j \in 1 .. L : r[i].root = at.root /\ ClashIn(r, at, i, j))
          = \E i, j \in 1 .. N : s[i].root = at.root /\ ClashIn(s, at, i, j)
    <3>1. ASSUME NEW i \in 1 .. L, NEW j \in 1 .. L, r[i].root = at.root, ClashIn(r, at, i, j)
          PROVE  \E x, y \in 1 .. N : s[x].root = at.root /\ ClashIn(s, at, x, y)
      <4>1. i \in 1 .. N /\ j \in 1 .. N /\ ClashIn(s, at, i, j)
        BY <2>1, <3>1
      <4> QED BY <1>2, <3>1, <4>1
    <3>2. ASSUME NEW i \in 1 .. N, NEW j \in 1 .. N,
                 s[i].root = at.root, ClashIn(s, at, i, j)
          PROVE  \E x, y \in 1 .. L : r[x].root = at.root /\ ClashIn(r, at, x, y)
      BY <1>9, <3>2
    <3> QED BY <3>1, <3>2
  <2>3. (\E i, j \in 1 .. L : ClashIn(r, at, i, j))
          = \E i, j \in 1 .. N : ClashIn(s, at, i, j)
    BY <1>9, <2>1
  <2> QED BY <1>1, <1>10, <2>2, <2>3 DEF ClashesHeld
<1>11. CASE v \notin DOMAIN t.ids
  <2>1. new.ids = bound /\ new.conflict = t.conflict /\ new.duplicates = t.duplicates
    BY <1>4, <1>5, <1>11
  <2>2. DOMAIN bound = DOMAIN t.ids \cup {v} /\ bound[v] = owner
        /\ bound = [u \in DOMAIN bound |-> bound[u]]
        /\ \A u \in DOMAIN t.ids : u # v => bound[u] = t.ids[u]
    BY DEF bound
  <2>3. TableType(new)
    BY <1>1, <1>6, <2>1, <2>2 DEF TableType
  <2>4. \A i \in 1 .. N : IsIdIn(s, i) => s[i].value # v
    BY <1>1, <1>11 DEF IdsHeld
  <2>5. \A i \in 1 .. N : ~ClashIn(r, at, i, L)
    BY <1>2, <2>4 DEF ClashIn
  <2>6. ASSUME NEW i \in 1 .. L, IsIdIn(r, i) PROVE r[i].value \in DOMAIN bound
    <3>1. CASE i = L
      BY <1>2, <2>2, <3>1
    <3>2. CASE i \in 1 .. N
      BY <1>1, <1>2, <2>2, <2>6, <3>2 DEF IdsHeld
    <3> QED BY <1>2, <3>1, <3>2
  <2>7. ASSUME NEW u \in DOMAIN bound
        PROVE  \E i \in 1 .. L : IsIdIn(r, i) /\ r[i].value = u /\ bound[u] = OwnerIn(r, at, i)
    <3>1. CASE u = v
      BY <1>2, <2>2, <3>1
    <3>2. CASE u # v
      <4>1. PICK i \in 1 .. N : IsIdIn(s, i) /\ s[i].value = u /\ t.ids[u] = OwnerIn(s, at, i)
        BY <1>1, <2>2, <3>2 DEF IdsHeld
      <4>2. bound[u] = t.ids[u]
        BY <2>2, <3>2
      <4> QED BY <1>2, <4>1, <4>2
    <3> QED BY <3>1, <3>2
  <2>8. IdsHeld(new, r, at)
    BY <2>1, <2>6, <2>7 DEF IdsHeld
  <2>9. Exact(new, r, at)
    BY <1>7, <1>8, <1>10, <2>1, <2>3, <2>5, <2>8 DEF Exact
  <2> QED BY <2>9 DEF new
<1>12. CASE v \in DOMAIN t.ids
  <2>1. PICK k \in 1 .. N : IsIdIn(s, k) /\ s[k].value = v /\ t.ids[v] = OwnerIn(s, at, k)
    BY <1>1, <1>12 DEF IdsHeld
  <2>2. new.ids = t.ids
    <3>1. CASE xsd11 /\ t.ids[v] = owner
      BY <1>5, <1>12, <3>1
    <3>2. CASE ~(xsd11 /\ t.ids[v] = owner)
      BY <1>4, <1>5, <1>12, <3>2
    <3> QED BY <3>1, <3>2
  <2>3. ASSUME NEW i \in 1 .. L, IsIdIn(r, i) PROVE r[i].value \in DOMAIN t.ids
    <3>1. CASE i = L
      BY <1>2, <1>12, <3>1
    <3>2. CASE i \in 1 .. N
      BY <1>1, <1>2, <2>3, <3>2 DEF IdsHeld
    <3> QED BY <1>2, <3>1, <3>2
  <2>4. ASSUME NEW u \in DOMAIN t.ids
        PROVE  \E i \in 1 .. L : IsIdIn(r, i) /\ r[i].value = u /\ t.ids[u] = OwnerIn(r, at, i)
    <3>1. PICK i \in 1 .. N : IsIdIn(s, i) /\ s[i].value = u /\ t.ids[u] = OwnerIn(s, at, i)
      BY <1>1 DEF IdsHeld
    <3> QED BY <1>2, <3>1
  <2>5. IdsHeld(new, r, at)
    BY <2>2, <2>3, <2>4 DEF IdsHeld
  <2>6. CASE xsd11 /\ t.ids[v] = owner
    <3>1. new = t
      BY <1>5, <1>12, <2>6
    <3>2. at.xsd11 /\ at.xsd11 = TRUE
      BY <2>6 DEF PlaceOK
    <3>3. r[k].root = at.root /\ OwnerIn(r, at, k) = owner
      <4>1. k \in 1 .. L /\ OwnerIn(r, at, k) = owner /\ OwnerIn(r, at, L) = owner
        BY <1>2, <2>1, <2>6
      <4>2. r[k].root = r[L].root
        BY <1>2, <4>1 DEF RootsApart
      <4> QED BY <1>2, <4>1, <4>2
    (* A clash with the new item is one with the item that it repeats.     *)
    <3>4. ASSUME NEW i \in 1 .. N, ClashIn(r, at, i, L)
          PROVE  ClashIn(s, at, k, i) /\ s[k].root = at.root
      <4>1. /\ IsIdIn(r, i) /\ r[i].value = v /\ OwnerIn(r, at, i) # owner
        BY <1>2, <3>2, <3>4 DEF ClashIn
      <4>2. k # i
        BY <3>3, <4>1
      <4>3. ClashIn(r, at, k, i)
        BY <1>2, <2>1, <3>3, <4>1, <4>2 DEF ClashIn
      <4> QED BY <1>2, <1>3, <3>3, <4>3
    <3>5. ASSUME NEW i \in 1 .. L, NEW j \in 1 .. L, ClashIn(r, at, i, j)
          PROVE  \/ i \in 1 .. N /\ j \in 1 .. N /\ ClashIn(s, at, i, j)
                 \/ \E x, y \in 1 .. N : s[x].root = at.root /\ ClashIn(s, at, x, y)
      <4>1. i # j /\ ClashIn(r, at, j, i)
        BY <3>5, ClashSymmetric DEF ClashIn
      <4>2. CASE i = L
        <5>1. j \in 1 .. N
          BY <1>2, <4>1, <4>2
        <5> QED BY <3>4, <4>1, <4>2, <5>1
      <4>3. CASE j = L
        <5>1. i \in 1 .. N
          BY <1>2, <4>1, <4>3
        <5> QED BY <3>4, <3>5, <4>3, <5>1
      <4>4. CASE i # L /\ j # L
        BY <1>2, <1>3, <3>5, <4>4
      <4> QED BY <4>2, <4>3, <4>4
    <3>6. (\E i, j \in 1 .. L : r[i].root = at.root /\ ClashIn(r, at, i, j))
            = \E i, j \in 1 .. N : s[i].root = at.root /\ ClashIn(s, at, i, j)
      <4>1. ASSUME NEW i \in 1 .. L, NEW j \in 1 .. L, r[i].root = at.root, ClashIn(r, at, i, j)
            PROVE  \E x, y \in 1 .. N : s[x].root = at.root /\ ClashIn(s, at, x, y)
        BY <1>2, <3>5, <4>1
      <4>2. ASSUME NEW i \in 1 .. N, NEW j \in 1 .. N,
                   s[i].root = at.root, ClashIn(s, at, i, j)
            PROVE  \E x, y \in 1 .. L : r[x].root = at.root /\ ClashIn(r, at, x, y)
        BY <1>9, <4>2
      <4> QED BY <4>1, <4>2
    <3>7. (\E i, j \in 1 .. L : ClashIn(r, at, i, j))
            = \E i, j \in 1 .. N : ClashIn(s, at, i, j)
      BY <1>9, <3>5
    <3>8. ClashesHeld(new, r, at)
      BY <1>1, <3>1, <3>6, <3>7 DEF ClashesHeld
    <3>9. Exact(new, r, at)
      BY <1>1, <1>7, <1>8, <2>5, <3>1, <3>8 DEF Exact
    <3> QED BY <3>9 DEF new
  <2>7. CASE ~(xsd11 /\ t.ids[v] = owner)
    <3>1. /\ new.conflict = TRUE /\ new.duplicates = t.duplicates + 1
          /\ t.duplicates \in Nat
      BY <1>1, <1>4, <1>5, <1>12, <2>7 DEF TableType
    <3>2. TableType(new)
      <4>1. new.ids = [u \in DOMAIN new.ids |-> new.ids[u]]
        BY <1>4, <2>2
      <4>2. new.conflict \in BOOLEAN /\ new.duplicates \in Nat /\ new.idrefs \in Seq(IdValue)
        <5>1. new.conflict \in BOOLEAN
          BY <3>1
        <5>2. new.duplicates \in Nat
          BY <3>1
        <5> QED BY <1>1, <1>6, <5>1, <5>2
      <4> QED BY <1>6, <4>1, <4>2 DEF TableType
    <3>3. ClashIn(r, at, L, k) /\ k \in 1 .. L
      BY <1>2, <2>1, <2>7 DEF ClashIn, PlaceOK
    <3>4. new.duplicates > 0
      BY <3>1
    <3>5. \E i, j \in 1 .. L : r[i].root = at.root /\ ClashIn(r, at, i, j)
      BY <1>2, <3>3
    <3>6. \E i, j \in 1 .. L : ClashIn(r, at, i, j)
      BY <3>5
    <3>7. ClashesHeld(new, r, at)
      BY <3>1, <3>4, <3>5, <3>6 DEF ClashesHeld
    <3>8. Exact(new, r, at)
      BY <1>7, <1>8, <2>5, <3>2, <3>7 DEF Exact
    <3> QED BY <3>8 DEF new
  <2> QED BY <2>6, <2>7
<1> QED BY <1>11, <1>12

-----------------------------------------------------------------------------
(* The members of a value, one after another.                              *)
CollectStep(table, members, owner, after, n) ==
    IF n = 0 THEN table ELSE CollectOne(after[n - 1], members[n], owner)

LEMMA CollectedExists ==
    ASSUME NEW table, NEW members, NEW owner, NEW N \in Nat
    PROVE  \E after : after = [n \in 0 .. N |-> CollectStep(table, members, owner, after, n)]
<1> DEFINE Upto(m, f) == \A n \in 0 .. m : f[n] = CollectStep(table, members, owner, f, n)
           S == {m \in 0 .. N : \E f : f = [n \in 0 .. m |-> f[n]] /\ Upto(m, f)}
<1>1. 0 \in S
  <2> DEFINE f == [n \in 0 .. 0 |-> table]
  <2>1. f = [n \in 0 .. 0 |-> f[n]] /\ Upto(0, f)
    BY DEF CollectStep
  <2> HIDE DEF f
  <2> QED BY <2>1
<1>2. ASSUME NEW m \in 0 .. N - 1, m \in S PROVE m + 1 \in S
  <2>1. PICK f : f = [n \in 0 .. m |-> f[n]] /\ Upto(m, f)
    BY <1>2
  <2> DEFINE g == [n \in 0 .. m + 1 |->
                     IF n = m + 1 THEN CollectStep(table, members, owner, f, m + 1) ELSE f[n]]
  <2>2. \A n \in 0 .. m : g[n] = f[n]
    OBVIOUS
  <2>3. g[m + 1] = CollectStep(table, members, owner, f, m + 1)
    OBVIOUS
  <2>4. g = [n \in 0 .. m + 1 |-> g[n]]
    OBVIOUS
  <2> HIDE DEF g
  <2>5. ASSUME NEW n \in 0 .. m + 1 PROVE g[n] = CollectStep(table, members, owner, g, n)
    <3>1. n = 0 \/ n - 1 \in 0 .. m
      OBVIOUS
    <3>2. CollectStep(table, members, owner, g, n) = CollectStep(table, members, owner, f, n)
      BY <2>2, <3>1 DEF CollectStep
    <3> QED BY <2>1, <2>2, <2>3, <3>2
  <2> QED BY <2>4, <2>5
<1> HIDE DEF S
<1>3. N \in S
  <2>1. \A m \in 0 .. N : m \in S
    BY <1>1, <1>2, BoundedInduction
  <2> QED BY <2>1
<1>4. PICK f : f = [n \in 0 .. N |-> f[n]] /\ Upto(N, f)
  BY <1>3 DEF S
<1>5. f = [n \in 0 .. N |-> CollectStep(table, members, owner, f, n)]
  BY <1>4
<1> QED BY <1>5

ItemOf(m, elem, where, root) ==
    [kind |-> m.kind, value |-> m.value, elem |-> elem, where |-> where, root |-> root]
ItemsOf(members, elem, where, root) ==
    [i \in 1 .. Len(members) |-> ItemOf(members[i], elem, where, root)]

LEMMA Collected ==
    ASSUME NEW members \in Seq(Member), NEW table, NEW s, NEW at, Exact(table, s, at),
           PlaceOK(at), at.root # 0, NEW elem \in 1 .. Len(at.tree),
           NEW where \in {"attribute", "content"}, NEW owner \in 1 .. Len(at.tree),
           owner = IF where = "attribute" \/ at.tree[elem] = 0 THEN elem ELSE at.tree[elem],
           owner >= at.floor
    PROVE  Exact(collect_id_idref(table, members, owner),
                 s \o ItemsOf(members, elem, where, at.root), at)
<1> DEFINE N == Len(members)
           after == CHOOSE f : f = [n \in 0 .. N |-> CollectStep(table, members, owner, f, n)]
           new == ItemsOf(members, elem, where, at.root)
           first(n) == [i \in 1 .. n |-> new[i]]
           upto(n) == s \o first(n)
           S == {n \in 0 .. N : Exact(after[n], upto(n), at)}
<1>1. N \in Nat
  OBVIOUS
<1>2. after = [n \in 0 .. N |-> CollectStep(table, members, owner, after, n)]
  BY SMTT(30), <1>1, CollectedExists
<1>3. collect_id_idref(table, members, owner) = after[N]
  BY DEF collect_id_idref, CollectStep, CollectOne
<1> HIDE DEF after
<1>4. \A n \in 0 .. N : after[n] = CollectStep(table, members, owner, after, n)
  BY <1>2
<1>5. ASSUME NEW i \in 1 .. N
      PROVE  /\ members[i].kind \in {"ID", "IDREF"} /\ members[i].value \in IdValue
             /\ new[i] = ItemOf(members[i], elem, where, at.root) /\ new[i] \in ItemType
             /\ new[i].kind = members[i].kind /\ new[i].value = members[i].value
             /\ new[i].elem = elem /\ new[i].where = where /\ new[i].root = at.root
  <2>1. members[i] \in Member
    OBVIOUS
  <2>2. members[i].kind \in {"ID", "IDREF"} /\ members[i].value \in IdValue
    BY <2>1 DEF Member
  <2>3. new[i] = ItemOf(members[i], elem, where, at.root)
    BY DEF ItemsOf
  <2>4. elem \in Nat /\ at.root \in Nat
    BY DEF PlaceOK
  <2> HIDE DEF new
  <2> QED BY <2>2, <2>3, <2>4 DEF ItemOf, ItemType
<1>6. new \in Seq(ItemType) /\ Len(new) = N
  <2>1. new = [i \in 1 .. N |-> ItemOf(members[i], elem, where, at.root)]
    BY DEF ItemsOf
  <2>2. \A i \in 1 .. N : ItemOf(members[i], elem, where, at.root) \in ItemType
    BY <1>5
  <2> HIDE DEF new
  <2> QED BY <1>1, <2>1, <2>2
<1> HIDE DEF new
<1>7. s \in Seq(ItemType)
  BY DEF Exact
<1>8. 0 \in S
  <2>1. after[0] = table
    BY <1>1, <1>4 DEF CollectStep
  <2>2. first(0) = <<>>
    OBVIOUS
  <2>3. s \o <<>> = s
    BY <1>7
  <2>4. Exact(after[0], upto(0), at) /\ 0 \in 0 .. N
    BY <1>1, <2>1, <2>2, <2>3
  <2> QED BY <2>4
<1>9. ASSUME NEW n \in 0 .. N - 1, n \in S PROVE n + 1 \in S
  <2> DEFINE item == new[n + 1]
  <2>1. n + 1 \in 1 .. N /\ n + 1 \in 0 .. N /\ n \in 0 .. N /\ Exact(after[n], upto(n), at)
    BY <1>1, <1>9
  <2>2. upto(n + 1) = Append(upto(n), item) /\ upto(n) \in Seq(ItemType)
    <3>1. item \in ItemType /\ \A i \in 1 .. n : new[i] \in ItemType
      BY <1>5, <2>1
    <3>2. first(n) \in Seq(ItemType)
      BY <2>1, <3>1
    <3>3. first(n + 1) = Append(first(n), item)
      BY <2>1
    <3> HIDE DEF first
    <3>4. s \o Append(first(n), item) = Append(s \o first(n), item)
          /\ s \o first(n) \in Seq(ItemType)
      BY <1>7, <3>1, <3>2
    <3> QED BY <3>3, <3>4
  <2>3. after[n + 1] = CollectOne(after[n], members[n + 1], owner)
    BY <1>4, <2>1 DEF CollectStep
  <2> HIDE DEF upto
  <2>4. /\ item \in ItemType /\ item.root = at.root /\ item.elem = elem /\ item.where = where
        /\ item.kind = members[n + 1].kind /\ item.value = members[n + 1].value
    BY <1>5, <2>1
  <2> HIDE DEF item
  <2>5. OneMore(upto(n + 1), upto(n), at, item, owner)
    BY <2>2, <2>4, OneMoreForms
  <2>6. RootsApart(upto(n), at)
    BY <2>1 DEF Exact
  <2>7. RootsApart(upto(n + 1), at)
    BY <2>4, <2>5, <2>6, MoreApart
  <2>8. CASE item.kind = "ID"
    <3>1. after[n + 1] = register_id_value(after[n], item.value, owner)
      BY <2>3, <2>4, <2>8 DEF CollectOne
    <3>2. Exact(register_id_value(after[n], item.value, owner), upto(n + 1), at)
      BY <2>1, <2>4, <2>5, <2>7, <2>8, IdCollected
    <3> QED BY <2>1, <3>1, <3>2
  <2>9. CASE item.kind # "ID"
    <3>1. after[n + 1] = [after[n] EXCEPT !.idrefs = Append(@, item.value)]
      BY <2>3, <2>4, <2>9 DEF CollectOne
    <3>2. Exact([after[n] EXCEPT !.idrefs = Append(@, item.value)], upto(n + 1), at)
      BY <2>1, <2>4, <2>5, <2>7, <2>9, IdrefCollected
    <3> QED BY <2>1, <3>1, <3>2
  <2> QED BY <2>8, <2>9
<1> HIDE DEF S
<1>10. \A n \in 0 .. N : n \in S
  BY <1>1, <1>8, <1>9, BoundedInduction
<1>11. N \in S
  BY <1>1, <1>10
<1>12. Exact(after[N], upto(N), at)
  BY <1>11 DEF S
<1>13. first(N) = new
  BY <1>6
<1> HIDE DEF first
<1> QED BY <1>3, <1>12, <1>13 DEF new

-----------------------------------------------------------------------------
(* What the table holds stays true as the run goes on.                     *)

(* More items, of later roots, and more elements.                          *)
GoesOn(q, later, s, at, r) ==
    /\ Len(s) \in Nat /\ Len(q) \in Nat /\ Len(s) <= Len(q) /\ later.xsd11 = at.xsd11
    /\ \A i \in 1 .. Len(s) : q[i] = s[i] /\ OwnerIn(q, later, i) = OwnerIn(s, at, i)
    /\ \A i \in 1 .. Len(q) : i \in 1 .. Len(s) \/ ~(q[i].root <= r)

LEMMA VerdictKept ==
    ASSUME NEW q, NEW later, NEW s, NEW at, NEW r \in Nat, GoesOn(q, later, s, at, r)
    PROVE  WrongIn(q, later, r) = WrongIn(s, at, r)
<1>1. \A i \in 1 .. Len(s) : i \in 1 .. Len(q)
  BY DEF GoesOn
<1>2. \A i, j \in 1 .. Len(s) : /\ ClashIn(q, later, i, j) = ClashIn(s, at, i, j)
                                /\ ResolvesIn(q, i, j) = ResolvesIn(s, i, j)
                                /\ IsIdIn(q, i) = IsIdIn(s, i)
  BY DEF GoesOn, ClashIn, ResolvesIn, IsIdIn
<1>3. \A i \in 1 .. Len(q) : q[i].root <= r => i \in 1 .. Len(s)
  BY DEF GoesOn
<1>4. ASSUME WrongIn(s, at, r) PROVE WrongIn(q, later, r)
  <2>1. PICK i \in 1 .. Len(s) :
          /\ s[i].root = r
          /\ \/ ~IsIdIn(s, i) /\ ~\E j \in 1 .. Len(s) : s[j].root <= r /\ ResolvesIn(s, i, j)
             \/ \E j \in 1 .. Len(s) : s[j].root <= r /\ ClashIn(s, at, i, j)
    BY <1>4 DEF WrongIn
  <2>2. i \in 1 .. Len(q) /\ q[i].root = r /\ IsIdIn(q, i) = IsIdIn(s, i)
    BY <1>1, <1>2, <2>1 DEF GoesOn
  <2>3. ASSUME NEW j \in 1 .. Len(q), q[j].root <= r, ResolvesIn(q, i, j)
        PROVE  \E x \in 1 .. Len(s) : s[x].root <= r /\ ResolvesIn(s, i, x)
    <3>1. j \in 1 .. Len(s)
      BY <1>3, <2>3
    <3>2. s[j].root <= r /\ ResolvesIn(s, i, j)
      BY <1>2, <2>3, <3>1 DEF GoesOn
    <3> QED BY <3>1, <3>2
  <2>4. ASSUME NEW j \in 1 .. Len(s), s[j].root <= r, ClashIn(s, at, i, j)
        PROVE  \E x \in 1 .. Len(q) : q[x].root <= r /\ ClashIn(q, later, i, x)
    <3>1. j \in 1 .. Len(q) /\ q[j].root <= r /\ ClashIn(q, later, i, j)
      BY <1>1, <1>2, <2>4 DEF GoesOn
    <3> QED BY <3>1
  <2> QED BY <2>1, <2>2, <2>3, <2>4 DEF WrongIn
<1>5. ASSUME WrongIn(q, later, r) PROVE WrongIn(s, at, r)
  <2>1. PICK i \in 1 .. Len(q) :
          /\ q[i].root = r
          /\ \/ ~IsIdIn(q, i) /\ ~\E j \in 1 .. Len(q) : q[j].root <= r /\ ResolvesIn(q, i, j)
             \/ \E j \in 1 .. Len(q) : q[j].root <= r /\ ClashIn(q, later, i, j)
    BY <1>5 DEF WrongIn
  <2>2. i \in 1 .. Len(s)
    BY <1>3, <2>1
  <2>3. s[i].root = r /\ IsIdIn(q, i) = IsIdIn(s, i)
    BY <1>2, <2>1, <2>2 DEF GoesOn
  <2>4. ASSUME NEW j \in 1 .. Len(s), s[j].root <= r, ResolvesIn(s, i, j)
        PROVE  \E x \in 1 .. Len(q) : q[x].root <= r /\ ResolvesIn(q, i, x)
    <3>1. j \in 1 .. Len(q) /\ q[j].root <= r /\ ResolvesIn(q, i, j)
      BY <1>1, <1>2, <2>2, <2>4 DEF GoesOn
    <3> QED BY <3>1
  <2>5. ASSUME NEW j \in 1 .. Len(q), q[j].root <= r, ClashIn(q, later, i, j)
        PROVE  \E x \in 1 .. Len(s) : s[x].root <= r /\ ClashIn(s, at, i, x)
    <3>1. j \in 1 .. Len(s)
      BY <1>3, <2>5
    <3>2. s[j].root <= r /\ ClashIn(s, at, i, j)
      BY <1>2, <2>2, <2>5, <3>1 DEF GoesOn
    <3> QED BY <3>1, <3>2
  <2> QED BY <2>1, <2>2, <2>3, <2>4, <2>5 DEF WrongIn
<1>6. WrongIn(q, later, r) \in BOOLEAN /\ WrongIn(s, at, r) \in BOOLEAN
  BY DEF WrongIn
<1> QED BY <1>4, <1>5, <1>6

(* One more element.                                                       *)
Widened(at, later) ==
    /\ at.tree \in Seq(Nat) /\ later.tree \in Seq(Nat)
    /\ Len(at.tree) <= Len(later.tree)
    /\ \A e \in 1 .. Len(at.tree) : later.tree[e] = at.tree[e]
    /\ later.xsd11 = at.xsd11 /\ later.start = at.start /\ later.root = at.root
    /\ later.floor = at.floor

LEMMA ExactWithElement ==
    ASSUME NEW t, NEW s, NEW at, NEW later, Exact(t, s, at), Widened(at, later)
    PROVE  Exact(t, s, later)
<1>1. \A i \in 1 .. Len(s) : OwnerIn(s, later, i) = OwnerIn(s, at, i)
  BY DEF Exact, RootsApart, OwnerIn, Widened
<1>2. \A e \in 1 .. Len(at.tree) : e \in 1 .. Len(later.tree)
  BY DEF Widened
<1>3. RootsApart(s, later)
  BY <1>1, <1>2 DEF Exact, RootsApart, Widened
<1>4. IdsHeld(t, s, later)
  <2>1. IdsHeld(t, s, at)
    BY DEF Exact
  <2> QED BY SMTT(30), <1>1, <2>1 DEF IdsHeld
<1>5. \A i, j \in 1 .. Len(s) : ClashIn(s, later, i, j) = ClashIn(s, at, i, j)
  BY <1>1 DEF ClashIn, Widened
<1>6. ClashesHeld(t, s, later)
  <2>1. ClashesHeld(t, s, at)
    BY DEF Exact
  <2>2. (\E i, j \in 1 .. Len(s) : s[i].root = later.root /\ ClashIn(s, later, i, j))
          = \E i, j \in 1 .. Len(s) : s[i].root = at.root /\ ClashIn(s, at, i, j)
    <3>1. later.root = at.root
      BY DEF Widened
    <3> QED BY <1>5, <3>1
  <2>3. (\E i, j \in 1 .. Len(s) : ClashIn(s, later, i, j))
          = \E i, j \in 1 .. Len(s) : ClashIn(s, at, i, j)
    BY <1>5 DEF Widened
  <2> QED BY <2>1, <2>2, <2>3 DEF ClashesHeld
<1>7. IdrefsHeld(t, s, later)
  BY DEF Exact, IdrefsHeld, Widened
<1> QED BY <1>1, <1>3, <1>4, <1>6, <1>7 DEF Exact

(* The root closes: no item is of the next one yet.                        *)
LEMMA ExactWhenClosed ==
    ASSUME NEW t, NEW s, NEW at, NEW later, Exact(t, s, at), at.tree \in Seq(Nat),
           at.root \in Nat, at.floor \in Nat,
           later.tree = at.tree, later.xsd11 = at.xsd11, later.root = at.root + 1,
           later.start = Len(t.idrefs), later.floor = Len(at.tree) + 1,
           NEW closed, closed = [t EXCEPT !.conflict = FALSE]
    PROVE  Exact(closed, s, later)
<1>1. TableType(t) /\ s \in Seq(ItemType) /\ RootsApart(s, at) /\ IdsHeld(t, s, at)
      /\ ClashesHeld(t, s, at) /\ IdrefsHeld(t, s, at)
  BY DEF Exact
<1>2. /\ closed.ids = t.ids /\ closed.idrefs = t.idrefs /\ closed.conflict = FALSE
      /\ closed.duplicates = t.duplicates
      /\ closed = [ids |-> t.ids, idrefs |-> t.idrefs, conflict |-> FALSE,
                   duplicates |-> t.duplicates]
  <2>1. t = [ids |-> t.ids, idrefs |-> t.idrefs, conflict |-> t.conflict,
             duplicates |-> t.duplicates]
    BY <1>1 DEF TableType
  <2>2. closed = [ids |-> t.ids, idrefs |-> t.idrefs, conflict |-> FALSE,
                  duplicates |-> t.duplicates]
    BY <2>1
  <2> QED BY <2>2
<1>3. TableType(closed)
  BY <1>1, <1>2 DEF TableType
<1>4. \A i \in 1 .. Len(s) : /\ OwnerIn(s, later, i) = OwnerIn(s, at, i)
                             /\ s[i].root # later.root /\ s[i].root \in 1 .. later.root
                             /\ OwnerIn(s, later, i) < later.floor
  BY SMTT(30), <1>1 DEF RootsApart, OwnerIn
<1>5. RootsApart(s, later)
  BY <1>1, <1>4 DEF RootsApart
<1>6. IdsHeld(closed, s, later)
  BY <1>1, <1>2, <1>4 DEF IdsHeld
<1>7. \A i, j \in 1 .. Len(s) : ClashIn(s, later, i, j) = ClashIn(s, at, i, j)
  BY <1>4 DEF ClashIn
<1>8. ClashesHeld(closed, s, later)
  <2>1. closed.conflict = \E i, j \in 1 .. Len(s) :
                             s[i].root = later.root /\ ClashIn(s, later, i, j)
    BY <1>2, <1>4
  <2>2. (\E i, j \in 1 .. Len(s) : ClashIn(s, later, i, j))
          = \E i, j \in 1 .. Len(s) : ClashIn(s, at, i, j)
    BY <1>7
  <2> QED BY <1>1, <1>2, <2>1, <2>2 DEF ClashesHeld
<1>9. IdrefsHeld(closed, s, later)
  <2>1. Len(t.idrefs) \in Nat
    BY <1>1 DEF TableType
  <2>2. \A i \in 1 .. Len(s) : ~IsIdIn(s, i) =>
          (Nth(s, i) > later.start) = (s[i].root = later.root)
    <3>1. \A i \in 1 .. Len(s) : ~IsIdIn(s, i) => Nth(s, i) \in 1 .. Len(t.idrefs)
      BY <1>1 DEF IdrefsHeld
    <3> QED BY <1>4, <2>1, <3>1
  <2>3. later.start \in 0 .. Len(t.idrefs)
    BY <2>1
  <2> QED BY <1>1, <1>2, <2>2, <2>3 DEF IdrefsHeld
<1> QED BY <1>1, <1>3, <1>5, <1>6, <1>8, <1>9 DEF Exact

(* The verdict on the closing root.                                        *)
LEMMA VerdictFound ==
    ASSUME NEW t, NEW s, NEW at, Exact(t, s, at), at.root \in Nat, at.start = root_idref_start
    PROVE  (t.conflict \/ Dangling(t)) = WrongIn(s, at, at.root)
<1>1. TableType(t) /\ RootsApart(s, at) /\ IdsHeld(t, s, at)
      /\ ClashesHeld(t, s, at) /\ IdrefsHeld(t, s, at) /\ Len(t.idrefs) \in Nat
      /\ at.start \in Nat
  BY DEF Exact, TableType, IdrefsHeld
<1>2. \A i \in 1 .. Len(s) : s[i].root <= at.root
  BY <1>1 DEF RootsApart
<1>3. ASSUME NEW i \in 1 .. Len(s), ~IsIdIn(s, i)
      PROVE  (s[i].value \in DOMAIN t.ids) <=> \E j \in 1 .. Len(s) : ResolvesIn(s, i, j)
  <2>1. ASSUME s[i].value \in DOMAIN t.ids PROVE \E j \in 1 .. Len(s) : ResolvesIn(s, i, j)
    <3>1. PICK j \in 1 .. Len(s) : IsIdIn(s, j) /\ s[j].value = s[i].value
      BY <1>1, <2>1 DEF IdsHeld
    <3> QED BY <1>3, <3>1 DEF ResolvesIn
  <2>2. ASSUME NEW j \in 1 .. Len(s), ResolvesIn(s, i, j) PROVE s[i].value \in DOMAIN t.ids
    BY <1>1, <2>2 DEF IdsHeld, ResolvesIn
  <2> QED BY <2>1, <2>2
<1>4. ASSUME Dangling(t) PROVE WrongIn(s, at, at.root)
  <2>1. PICK k \in (root_idref_start + 1) .. Len(t.idrefs) : t.idrefs[k] \notin DOMAIN t.ids
    BY <1>4 DEF Dangling
  <2>2. k \in 1 .. Len(t.idrefs) /\ k > at.start
    BY <1>1, <2>1
  <2>3. PICK i \in 1 .. Len(s) : ~IsIdIn(s, i) /\ Nth(s, i) = k
    BY <1>1, <2>2 DEF IdrefsHeld
  <2>4. s[i].value \notin DOMAIN t.ids /\ s[i].root = at.root
    BY <1>1, <2>1, <2>2, <2>3 DEF IdrefsHeld
  <2>5. ~\E j \in 1 .. Len(s) : ResolvesIn(s, i, j)
    BY <1>3, <2>3, <2>4
  <2> QED BY <2>3, <2>4, <2>5 DEF WrongIn
<1>5. ASSUME t.conflict PROVE WrongIn(s, at, at.root)
  <2>1. PICK i \in 1 .. Len(s), j \in 1 .. Len(s) : s[i].root = at.root /\ ClashIn(s, at, i, j)
    BY <1>1, <1>5 DEF ClashesHeld
  <2> QED BY <1>2, <2>1 DEF WrongIn
<1>6. ASSUME WrongIn(s, at, at.root), ~t.conflict PROVE Dangling(t)
  <2>1. PICK i \in 1 .. Len(s) :
          /\ s[i].root = at.root
          /\ \/ ~IsIdIn(s, i)
                /\ ~\E j \in 1 .. Len(s) : s[j].root <= at.root /\ ResolvesIn(s, i, j)
             \/ \E j \in 1 .. Len(s) : s[j].root <= at.root /\ ClashIn(s, at, i, j)
    BY <1>6 DEF WrongIn
  <2>2. ~\E j \in 1 .. Len(s) : ClashIn(s, at, i, j)
    BY <1>1, <1>6, <2>1 DEF ClashesHeld
  <2>3. ~IsIdIn(s, i) /\ ~\E j \in 1 .. Len(s) : ResolvesIn(s, i, j)
    BY <1>2, <2>1, <2>2
  <2>4. s[i].value \notin DOMAIN t.ids
    BY <1>3, <2>3
  <2>5. /\ Nth(s, i) \in 1 .. Len(t.idrefs) /\ t.idrefs[Nth(s, i)] = s[i].value
        /\ Nth(s, i) > at.start
    BY <1>1, <2>1, <2>3 DEF IdrefsHeld
  <2>6. Nth(s, i) \in (root_idref_start + 1) .. Len(t.idrefs)
    BY <1>1, <2>5
  <2> QED BY <2>4, <2>5, <2>6 DEF Dangling
<1>7. t.conflict \in BOOLEAN
  BY <1>1 DEF TableType
<1> QED BY <1>4, <1>5, <1>6, <1>7 DEF WrongIn, Dangling

(* The errors at the end.                                                  *)
LEMMA UnresolvedFound ==
    ASSUME NEW t, NEW s, NEW at, Exact(t, s, at)
    PROVE  {k \in 1 .. Len(t.idrefs) : t.idrefs[k] \notin DOMAIN t.ids} =
             {Nth(s, i) : i \in {k \in 1 .. Len(s) : UnresolvedIn(s, k)}}
<1>1. IdsHeld(t, s, at) /\ IdrefsHeld(t, s, at)
  BY DEF Exact
<1>2. ASSUME NEW k \in 1 .. Len(t.idrefs), t.idrefs[k] \notin DOMAIN t.ids
      PROVE  \E i \in 1 .. Len(s) : UnresolvedIn(s, i) /\ Nth(s, i) = k
  <2>1. PICK i \in 1 .. Len(s) : ~IsIdIn(s, i) /\ Nth(s, i) = k
    BY <1>1 DEF IdrefsHeld
  <2>2. s[i].value \notin DOMAIN t.ids
    BY <1>1, <1>2, <2>1 DEF IdrefsHeld
  <2>3. ~\E j \in 1 .. Len(s) : ResolvesIn(s, i, j)
    BY <1>1, <2>2 DEF IdsHeld, ResolvesIn
  <2> QED BY <2>1, <2>3 DEF UnresolvedIn
<1>3. ASSUME NEW i \in 1 .. Len(s), UnresolvedIn(s, i)
      PROVE  Nth(s, i) \in 1 .. Len(t.idrefs) /\ t.idrefs[Nth(s, i)] \notin DOMAIN t.ids
  <2>1. /\ Nth(s, i) \in 1 .. Len(t.idrefs) /\ t.idrefs[Nth(s, i)] = s[i].value
        /\ ~IsIdIn(s, i)
    BY <1>1, <1>3 DEF IdrefsHeld, UnresolvedIn
  <2>2. ASSUME s[i].value \in DOMAIN t.ids PROVE FALSE
    <3>1. PICK j \in 1 .. Len(s) : IsIdIn(s, j) /\ s[j].value = s[i].value
      BY <1>1, <2>2 DEF IdsHeld
    <3> QED BY <1>3, <2>1, <3>1 DEF UnresolvedIn, ResolvesIn
  <2> QED BY <2>1, <2>2
<1> QED BY <1>2, <1>3

-----------------------------------------------------------------------------
(* Each step of the run keeps the invariant.                               *)

LEMMA MembersTyped == \A members \in Members \cup {<<>>} : members \in Seq(Member)
<1>1. ASSUME NEW members \in Members PROVE members \in Seq(Member)
  <2>1. PICK n \in 1 .. MaxMembers : members \in [1 .. n -> Member]
    BY DEF Members
  <2>2. n \in Nat
    OBVIOUS
  <2> QED BY <2>1, <2>2
<1>2. <<>> \in Seq(Member)
  OBVIOUS
<1> QED BY <1>1, <1>2

LEMMA IdTyped ==
    ASSUME StackTrue
    PROVE  /\ Len(tree) \in Nat /\ Len(verdicts) \in Nat /\ Len(validation_stack) \in Nat
           /\ Floor \in Nat /\ PlaceOK(Place)
           /\ Place.tree = tree /\ Place.xsd11 = xsd11 /\ Place.start = root_idref_start
           /\ Place.root = Len(verdicts) + 1 /\ Place.floor = Floor /\ Place.root # 0
           /\ Current \in 0 .. Len(tree)
           /\ validation_stack # <<>> => Len(validation_stack) \in 1 .. Len(validation_stack)
<1>1. /\ Len(tree) \in Nat /\ Len(verdicts) \in Nat /\ Len(validation_stack) \in Nat
      /\ tree \in Seq(Nat) /\ xsd11 \in BOOLEAN
      /\ validation_stack \in Seq(FrameType)
  BY DEF StackTrue
<1>2. validation_stack # <<>> => /\ Len(validation_stack) \in 1 .. Len(validation_stack)
                                 /\ 1 \in 1 .. Len(validation_stack)
  BY <1>1
<1>3. Floor \in Nat
  BY <1>1, <1>2 DEF Floor, StackTrue
<1>4. Current \in 0 .. Len(tree)
  <2>1. CASE validation_stack = <<>>
    BY <1>1, <2>1 DEF Current
  <2>2. CASE validation_stack # <<>>
    <3>1. Current = validation_stack[Len(validation_stack)].element_serial
      BY <2>2 DEF Current, Last
    <3>2. validation_stack[Len(validation_stack)].element_serial \in 1 .. Len(tree)
      BY <1>2, <2>2 DEF StackTrue
    <3> QED BY <1>1, <3>1, <3>2
  <2> QED BY <2>1, <2>2
<1>5. /\ Place.tree = tree /\ Place.xsd11 = xsd11 /\ Place.start = root_idref_start
      /\ Place.root = Len(verdicts) + 1 /\ Place.floor = Floor
  BY DEF Place
<1>6. PlaceOK(Place) /\ Place.root # 0
  BY <1>1, <1>3, <1>5 DEF PlaceOK
<1> QED BY <1>1, <1>2, <1>3, <1>4, <1>5, <1>6

LEMMA InitIdInv == IdInit => IdInv
<1> SUFFICES ASSUME IdInit PROVE IdInv
  OBVIOUS
<1> USE DEF IdInit
<1>1. StackTrue
  BY DEF StackTrue
<1>2. VerdictsTrue /\ EndTrue
  BY DEF VerdictsTrue, EndTrue
<1>3. 1 .. 0 = {} /\ Len(items) = 0 /\ Len(Table.idrefs) = 0 /\ DOMAIN Table.ids = {}
  BY DEF Table
<1>4. TableType(Table) /\ items \in Seq(ItemType)
  <2>1. Table = [ids |-> [v \in {} |-> 0], idrefs |-> <<>>, conflict |-> FALSE,
                 duplicates |-> 0]
    BY DEF Table
  <2>2. [v \in {} |-> 0] = [u \in DOMAIN [v \in {} |-> 0] |-> [w \in {} |-> 0][u]]
    OBVIOUS
  <2>3. <<>> \in Seq(IdValue) /\ FALSE \in BOOLEAN /\ 0 \in Nat
    OBVIOUS
  <2> HIDE DEF Table
  <2> QED BY <2>1, <2>2, <2>3 DEF TableType
<1>5. RootsApart(items, Place)
  BY <1>3 DEF RootsApart
<1>6. IdsHeld(Table, items, Place) /\ ClashesHeld(Table, items, Place)
  <2>1. IdsHeld(Table, items, Place)
    BY <1>3 DEF IdsHeld
  <2>2. Table.conflict = FALSE /\ ~(Table.duplicates > 0)
    BY DEF Table
  <2>3. ~\E i, j \in 1 .. Len(items) : ClashIn(items, Place, i, j)
    BY <1>3
  <2>4. ~\E i, j \in 1 .. Len(items) :
            items[i].root = Place.root /\ ClashIn(items, Place, i, j)
    BY <1>3
  <2>5. Table.conflict = \E i, j \in 1 .. Len(items) :
            items[i].root = Place.root /\ ClashIn(items, Place, i, j)
    BY <2>2, <2>4
  <2>6. (Table.duplicates > 0) = \E i, j \in 1 .. Len(items) : ClashIn(items, Place, i, j)
    <3>1. (Table.duplicates > 0) = FALSE
      BY <2>2
    <3>2. (\E i, j \in 1 .. Len(items) : ClashIn(items, Place, i, j)) = FALSE
      BY <2>3
    <3> QED BY <3>1, <3>2
  <2> QED BY <2>1, <2>5, <2>6 DEF ClashesHeld
<1>7. IdrefsHeld(Table, items, Place)
  <2>1. Nth(items, 0) = 0
    <3>1. {j \in 1 .. 0 : ~IsIdIn(items, j)} = {}
      BY <1>3
    <3> QED BY <3>1, FS_EmptySet DEF Nth
  <2>2. Place.start = 0
    BY DEF Place
  <2> QED BY <1>3, <2>1, <2>2 DEF IdrefsHeld
<1> QED BY <1>1, <1>2, <1>4, <1>5, <1>6, <1>7 DEF IdInv, Exact

LEMMA PushKeeps ==
    ASSUME IdInv, NEW strict \in BOOLEAN, PushElement(strict)
    PROVE  IdInv'
<1>1. StackTrue /\ Exact(Table, items, Place) /\ VerdictsTrue /\ EndTrue
  BY DEF IdInv
<1>2. /\ Len(tree) \in Nat /\ Len(verdicts) \in Nat /\ Len(validation_stack) \in Nat
      /\ Floor \in Nat /\ Current \in 0 .. Len(tree)
      /\ Place.tree = tree /\ Place.xsd11 = xsd11 /\ Place.start = root_idref_start
      /\ Place.root = Len(verdicts) + 1 /\ Place.floor = Floor
      /\ tree \in Seq(Nat) /\ validation_stack \in Seq(FrameType)
  BY <1>1, IdTyped DEF StackTrue
<1>3. PICK N : N = Len(validation_stack)
  OBVIOUS
<1>4. PICK e : e = Len(tree) + 1
  OBVIOUS
<1>5. PICK parent : parent = Current
  OBVIOUS
<1>6. PICK frame : frame = [element_serial |-> e, attributes |-> TRUE,
                            validity |-> IF strict THEN "valid" ELSE "notKnown"]
  OBVIOUS
<1>7. /\ validation_stack' = Append(validation_stack, frame) /\ tree' = Append(tree, parent)
      /\ xsd11' = xsd11 /\ id_values' = id_values /\ pending_idrefs' = pending_idrefs
      /\ root_id_conflict' = root_id_conflict /\ root_idref_start' = root_idref_start
      /\ items' = items /\ verdicts' = verdicts /\ errors' = errors /\ ~errors.ended
  BY <1>4, <1>5, <1>6 DEF PushElement, Serial, Running
<1>8. N \in Nat /\ e \in Nat /\ parent \in 0 .. e - 1 /\ parent \in Nat /\ frame \in FrameType
      /\ frame.element_serial = e
  BY <1>2, <1>3, <1>4, <1>5, <1>6 DEF FrameType
<1>9. /\ tree' \in Seq(Nat) /\ Len(tree') = e /\ tree'[e] = parent
      /\ \A x \in 1 .. e - 1 : tree'[x] = tree[x]
  <2>1. tree' \in Seq(Nat) /\ LongerBy(tree', tree, parent)
    BY <1>2, <1>7, <1>8, AppendedTo
  <2> QED BY <1>2, <1>4, <2>1 DEF LongerBy
<1>10. /\ validation_stack' \in Seq(FrameType) /\ Len(validation_stack') = N + 1
       /\ validation_stack'[N + 1] = frame
       /\ \A k \in 1 .. N : validation_stack'[k] = validation_stack[k]
  <2>1. validation_stack' \in Seq(FrameType) /\ LongerBy(validation_stack', validation_stack, frame)
    BY <1>2, <1>7, <1>8, AppendedTo
  <2> QED BY <1>2, <1>3, <2>1 DEF LongerBy
<1>11. validation_stack = <<>> <=> N = 0
  BY <1>2, <1>3
<1>12. parent = IF N = 0 THEN 0 ELSE validation_stack[N].element_serial
  BY <1>3, <1>5, <1>11 DEF Current, Last
<1>13. \A k \in 1 .. N :
          /\ validation_stack[k].element_serial \in 1 .. e - 1
          /\ validation_stack[1].element_serial <= validation_stack[k].element_serial
          /\ tree[validation_stack[k].element_serial] =
               IF k = 1 THEN 0 ELSE validation_stack[k - 1].element_serial
  BY <1>1, <1>2, <1>3, <1>4 DEF StackTrue
<1>14. StackTrue'
  <2>1. ASSUME NEW k \in 1 .. N + 1
        PROVE  LET x == validation_stack'[k].element_serial
               IN  /\ x \in 1 .. e /\ validation_stack'[1].element_serial <= x
                   /\ tree'[x] = IF k = 1 THEN 0 ELSE validation_stack'[k - 1].element_serial
    <3>1. CASE k = N + 1
      <4>1. CASE N = 0
        BY <1>8, <1>9, <1>10, <1>12, <3>1, <4>1
      <4>2. CASE N # 0
        <5>1. 1 \in 1 .. N /\ N \in 1 .. N /\ k - 1 = N /\ k # 1
          BY <1>8, <3>1, <4>2
        <5>2. validation_stack[1].element_serial \in 1 .. e - 1
          BY <1>13, <5>1
        <5> QED BY <1>8, <1>9, <1>10, <1>12, <3>1, <5>1, <5>2
      <4> QED BY <4>1, <4>2
    <3>2. CASE k \in 1 .. N
      <4>1. 1 \in 1 .. N /\ (k = 1 \/ k - 1 \in 1 .. N)
        BY <1>8, <3>2
      <4>2. /\ validation_stack[k].element_serial \in 1 .. e
            /\ tree'[validation_stack[k].element_serial] = tree[validation_stack[k].element_serial]
        BY <1>8, <1>9, <1>13, <3>2
      <4> QED BY <1>10, <1>13, <3>2, <4>1, <4>2
    <3> QED BY <1>8, <3>1, <3>2
  <2>2. \A k \in 1 .. Len(validation_stack') :
          LET x == validation_stack'[k].element_serial
          IN  /\ x \in 1 .. Len(tree') /\ validation_stack'[1].element_serial <= x
              /\ tree'[x] = IF k = 1 THEN 0 ELSE validation_stack'[k - 1].element_serial
    BY <1>9, <1>10, <2>1
  <2>3. errors = [duplicates |-> errors.duplicates, unresolved |-> errors.unresolved,
                  ended |-> errors.ended]
        /\ errors.ended \in BOOLEAN /\ verdicts \in Seq(VerdictType) /\ xsd11 \in BOOLEAN
    BY <1>1 DEF StackTrue
  <2> QED BY <1>7, <1>9, <1>10, <2>2, <2>3 DEF StackTrue
<1>15. Floor' = Floor
  <2>1. validation_stack' # <<>>
    BY <1>8, <1>10
  <2>2. CASE N = 0
    <3>1. validation_stack'[1] = frame
      BY <1>10, <2>2
    <3> QED BY <1>4, <1>8, <1>11, <2>1, <2>2, <3>1 DEF Floor
  <2>3. CASE N # 0
    <3>1. 1 \in 1 .. N
      BY <1>8, <2>3
    <3> QED BY <1>10, <1>11, <2>1, <2>3, <3>1 DEF Floor
  <2> QED BY <2>2, <2>3
<1>16. Table' = Table
  BY <1>7 DEF Table
<1>17. /\ Place'.tree = tree' /\ Place'.xsd11 = xsd11 /\ Place'.start = root_idref_start
       /\ Place'.root = Len(verdicts) + 1 /\ Place'.floor = Floor
  BY <1>7, <1>15 DEF Place
<1>18. PICK later : later = Place'
  OBVIOUS
<1>19. Exact(Table, items, later)
       /\ \A i \in 1 .. Len(items) : OwnerIn(items, later, i) = OwnerIn(items, Place, i)
  <2>1. /\ later.tree \in Seq(Nat) /\ Place.tree \in Seq(Nat)
        /\ Len(Place.tree) <= Len(later.tree)
        /\ \A x \in 1 .. Len(Place.tree) : later.tree[x] = Place.tree[x]
    BY <1>2, <1>4, <1>9, <1>17, <1>18
  <2>2. /\ later.xsd11 = Place.xsd11 /\ later.start = Place.start /\ later.root = Place.root
        /\ later.floor = Place.floor
    BY <1>2, <1>17, <1>18
  <2>3. Exact(Table, items, Place)
    BY <1>1
  <2>4. Widened(Place, later)
    BY <2>1, <2>2 DEF Widened
  <2>5. Exact(Table, items, later)
    BY <2>3, <2>4, ExactWithElement
  <2>6. \A i \in 1 .. Len(items) : OwnerIn(items, later, i) = OwnerIn(items, Place, i)
    <3> SUFFICES ASSUME NEW i \in 1 .. Len(items)
                 PROVE  OwnerIn(items, later, i) = OwnerIn(items, Place, i)
      OBVIOUS
    <3>1. items[i].elem \in 1 .. Len(Place.tree)
      BY <2>3 DEF Exact, RootsApart
    <3> QED BY <2>4, <3>1 DEF Widened, OwnerIn
  <2> QED BY <2>5, <2>6
<1>20. Exact(Table', items', Place')
  BY <1>7, <1>16, <1>18, <1>19
<1>21. VerdictsTrue'
  <2>1. ASSUME NEW r \in 1 .. Len(verdicts)
        PROVE  WrongIn(items, later, r) = WrongIn(items, Place, r)
    <3>1. r \in Nat /\ Len(items) \in Nat
      BY <1>1 DEF Exact
    <3>2. GoesOn(items, later, items, Place, r)
      BY <1>2, <1>17, <1>18, <1>19, <3>1 DEF GoesOn
    <3> QED BY <3>1, <3>2, VerdictKept
  <2>2. \A r \in 1 .. Len(verdicts) :
          verdicts[r].validity = IF ~verdicts[r].strict THEN "notKnown"
                                 ELSE IF WrongIn(items, later, r) THEN "invalid" ELSE "valid"
    BY <1>1, <2>1 DEF VerdictsTrue
  <2> QED BY <1>7, <1>18, <2>2 DEF VerdictsTrue
<1>22. EndTrue'
  BY <1>7 DEF EndTrue
<1> QED BY <1>14, <1>20, <1>21, <1>22 DEF IdInv

LEMMA ItemsGoOn ==
    ASSUME NEW s \in Seq(ItemType), NEW members \in Seq(Member), NEW elem, NEW where,
           NEW root \in Nat, NEW r \in Nat, r < root,
           NEW q, q = s \o ItemsOf(members, elem, where, root),
           NEW at, NEW later, later.tree = at.tree, later.xsd11 = at.xsd11
    PROVE  GoesOn(q, later, s, at, r)
<1> DEFINE new == ItemsOf(members, elem, where, root)
<1>1. /\ Len(members) \in Nat /\ new = [i \in 1 .. Len(members) |-> new[i]]
      /\ \A i \in 1 .. Len(members) : new[i].root = root
  BY DEF ItemsOf, ItemOf
<1> HIDE DEF new
<1>2. new \in Seq({new[i] : i \in 1 .. Len(members)}) /\ Len(new) = Len(members)
  BY <1>1
<1> DEFINE E == ItemType \cup {new[i] : i \in 1 .. Len(members)}
<1>3. s \in Seq(E) /\ new \in Seq(E)
  BY <1>1, <1>2
<1> HIDE DEF E
<1>4. q = s \o new
  BY DEF new
<1>5. /\ Len(q) = Len(s) + Len(new) /\ Len(s) \in Nat /\ Len(new) \in Nat
      /\ \A i \in 1 .. Len(s) : q[i] = s[i]
      /\ \A i \in 1 .. Len(s) + Len(new) :
            i \in 1 .. Len(s) \/ (i - Len(s) \in 1 .. Len(new) /\ q[i] = new[i - Len(s)])
  BY <1>3, <1>4, Concatenated
<1>6. \A i \in 1 .. Len(q) : i \in 1 .. Len(s) \/ ~(q[i].root <= r)
  <2> SUFFICES ASSUME NEW i \in 1 .. Len(q), i \notin 1 .. Len(s) PROVE ~(q[i].root <= r)
    OBVIOUS
  <2>1. i - Len(s) \in 1 .. Len(members) /\ q[i] = new[i - Len(s)]
    BY <1>2, <1>5
  <2>2. q[i].root = root
    BY <1>1, <2>1
  <2> QED BY <2>2
<1>7. Len(q) \in Nat /\ Len(s) <= Len(q)
  BY <1>5
<1> QED BY <1>5, <1>6, <1>7 DEF GoesOn, OwnerIn

LEMMA AttributeKeeps ==
    ASSUME IdInv, NEW members \in Members, AttributeValue(members)
    PROVE  IdInv'
<1>1. StackTrue /\ Exact(Table, items, Place) /\ VerdictsTrue /\ EndTrue
  BY DEF IdInv
<1>2. /\ Len(tree) \in Nat /\ Len(verdicts) \in Nat /\ Floor \in Nat
      /\ Place.tree = tree /\ Place.xsd11 = xsd11 /\ Place.root = Len(verdicts) + 1
      /\ Place.floor = Floor /\ PlaceOK(Place) /\ Place.root # 0
      /\ validation_stack # <<>> /\ Len(validation_stack) \in 1 .. Len(validation_stack)
  BY <1>1, IdTyped DEF AttributeValue
<1>3. members \in Seq(Member)
  BY MembersTyped
<1>4. PICK e : e = Current
  OBVIOUS
<1>5. e \in 1 .. Len(tree) /\ e >= Floor
  <2>1. e = validation_stack[Len(validation_stack)].element_serial
    BY <1>2, <1>4 DEF Current, Last
  <2>2. e \in 1 .. Len(tree) /\ validation_stack[1].element_serial <= e
    BY <1>1, <1>2, <2>1 DEF StackTrue
  <2>3. Floor = validation_stack[1].element_serial
    BY <1>2 DEF Floor
  <2> QED BY <1>2, <2>2, <2>3
<1>6. PICK table : table = collect_id_idref(Table, members, e)
  OBVIOUS
<1>7. /\ id_values' = table.ids /\ pending_idrefs' = table.idrefs
      /\ errors' = [errors EXCEPT !.duplicates = table.duplicates]
      /\ root_id_conflict' = table.conflict
      /\ xsd11' = xsd11 /\ validation_stack' = validation_stack
      /\ root_idref_start' = root_idref_start /\ tree' = tree /\ verdicts' = verdicts
      /\ items' = items \o ItemsOf(members, e, "attribute", Len(verdicts) + 1)
  BY <1>4, <1>6 DEF AttributeValue, Store, Record, ItemsOf, ItemOf
<1>8. Exact(table, items', Place)
  <2>1. PICK at : at = Place
    OBVIOUS
  <2>2. Exact(Table, items, at) /\ PlaceOK(at) /\ at.root # 0 /\ e \in 1 .. Len(at.tree)
        /\ e >= at.floor /\ at.root = Len(verdicts) + 1
    BY <1>1, <1>2, <1>5, <2>1
  <2>3. Exact(collect_id_idref(Table, members, e),
              items \o ItemsOf(members, e, "attribute", at.root), at)
    BY <1>3, <2>2, Collected
  <2> QED BY <1>6, <1>7, <2>1, <2>2, <2>3
<1>9. /\ errors = [duplicates |-> errors.duplicates, unresolved |-> errors.unresolved,
                   ended |-> errors.ended]
      /\ ~errors.ended
  BY <1>1, <1>2 DEF StackTrue
<1>10. errors' = [duplicates |-> table.duplicates, unresolved |-> errors.unresolved,
                  ended |-> errors.ended]
  BY <1>7, <1>9
<1>11. StackTrue'
  <2>1. errors'.duplicates = table.duplicates /\ errors'.unresolved = errors.unresolved
        /\ errors'.ended = errors.ended
    BY <1>10
  <2> QED BY <1>1, <1>7, <1>10, <2>1 DEF StackTrue
<1>12. Table' = table
  <2>1. table = [ids |-> table.ids, idrefs |-> table.idrefs, conflict |-> table.conflict,
                 duplicates |-> table.duplicates]
    BY <1>8 DEF Exact, TableType
  <2> QED BY <1>7, <1>10, <2>1 DEF Table
<1>13. Place' = Place
  BY <1>7 DEF Place, Floor
<1>14. Exact(Table', items', Place')
  BY <1>8, <1>12, <1>13
<1>15. VerdictsTrue'
  <2>1. ASSUME NEW r \in 1 .. Len(verdicts)
        PROVE  WrongIn(items', Place, r) = WrongIn(items, Place, r)
    <3>1. r \in Nat /\ r < Len(verdicts) + 1 /\ Len(verdicts) + 1 \in Nat
          /\ items \in Seq(ItemType)
      BY <1>1, <1>2 DEF Exact
    <3>2. GoesOn(items', Place, items, Place, r)
      BY <1>3, <1>7, <3>1, ItemsGoOn
    <3> QED BY <3>1, <3>2, VerdictKept
  <2>2. \A r \in 1 .. Len(verdicts) :
          verdicts[r].validity = IF ~verdicts[r].strict THEN "notKnown"
                                 ELSE IF WrongIn(items', Place, r) THEN "invalid" ELSE "valid"
    BY <1>1, <2>1 DEF VerdictsTrue
  <2> QED BY <1>7, <1>13, <2>2 DEF VerdictsTrue
<1>16. EndTrue'
  BY <1>9, <1>10 DEF EndTrue
<1> QED BY <1>11, <1>14, <1>15, <1>16 DEF IdInv

LEMMA EndAttributesKeeps ==
    ASSUME IdInv, EndAttributes
    PROVE  IdInv'
<1>1. StackTrue /\ Exact(Table, items, Place) /\ VerdictsTrue /\ EndTrue
  BY DEF IdInv
<1>2. validation_stack # <<>> /\ Len(validation_stack) \in 1 .. Len(validation_stack)
      /\ 1 \in 1 .. Len(validation_stack) /\ validation_stack \in Seq(FrameType)
  BY <1>1, IdTyped DEF EndAttributes, StackTrue
<1>3. PICK N : N = Len(validation_stack)
  OBVIOUS
<1>4. PICK frame : frame = [validation_stack[N] EXCEPT !.attributes = FALSE]
  OBVIOUS
<1>5. frame \in FrameType /\ frame.element_serial = validation_stack[N].element_serial
  <2>1. validation_stack[N] \in FrameType
    BY <1>2, <1>3
  <2> QED BY <1>4, <2>1 DEF FrameType
<1>6. /\ validation_stack' = [validation_stack EXCEPT ![N] = frame]
      /\ xsd11' = xsd11 /\ id_values' = id_values /\ pending_idrefs' = pending_idrefs
      /\ root_id_conflict' = root_id_conflict /\ root_idref_start' = root_idref_start
      /\ items' = items /\ tree' = tree /\ verdicts' = verdicts /\ errors' = errors
  BY <1>3, <1>4 DEF EndAttributes
<1>7. /\ validation_stack' \in Seq(FrameType) /\ Len(validation_stack') = N
      /\ \A k \in 1 .. N :
            validation_stack'[k].element_serial = validation_stack[k].element_serial
  BY <1>2, <1>3, <1>5, <1>6
<1>8. validation_stack' # <<>>
  BY <1>2, <1>3, <1>7
<1>9. Floor' = Floor
  BY <1>2, <1>3, <1>7, <1>8 DEF Floor
<1>10. Table' = Table /\ Place' = Place
  BY <1>6, <1>9 DEF Table, Place
<1>11. StackTrue'
  <2>1. \A k \in 1 .. N :
          LET x == validation_stack'[k].element_serial
          IN  /\ x \in 1 .. Len(tree) /\ validation_stack'[1].element_serial <= x
              /\ tree[x] = IF k = 1 THEN 0 ELSE validation_stack'[k - 1].element_serial
    <3> SUFFICES ASSUME NEW k \in 1 .. N
                 PROVE  LET x == validation_stack'[k].element_serial
                        IN  /\ x \in 1 .. Len(tree) /\ validation_stack'[1].element_serial <= x
                            /\ tree[x] = IF k = 1 THEN 0
                                         ELSE validation_stack'[k - 1].element_serial
      OBVIOUS
    <3>1. k = 1 \/ k - 1 \in 1 .. N
      BY <1>2, <1>3
    <3> QED BY <1>1, <1>2, <1>3, <1>7, <3>1 DEF StackTrue
  <2>2. ~errors.ended
    BY <1>1, <1>2 DEF StackTrue
  <2> QED BY <1>1, <1>6, <1>7, <2>1, <2>2 DEF StackTrue
<1>12. Exact(Table', items', Place')
  BY <1>1, <1>6, <1>10
<1>13. VerdictsTrue' /\ EndTrue'
  BY <1>1, <1>6, <1>10 DEF VerdictsTrue, EndTrue
<1> QED BY <1>11, <1>12, <1>13 DEF IdInv

LEMMA EndValidationKeeps ==
    ASSUME IdInv, EndValidation
    PROVE  IdInv'
<1>1. StackTrue /\ Exact(Table, items, Place) /\ VerdictsTrue /\ EndTrue
  BY DEF IdInv
<1>2. PICK missing : missing = {i \in 1 .. Len(pending_idrefs) :
                                   pending_idrefs[i] \notin DOMAIN id_values}
  OBVIOUS
<1>3. /\ errors' = [errors EXCEPT !.ended = TRUE, !.unresolved = missing]
      /\ xsd11' = xsd11 /\ id_values' = id_values /\ pending_idrefs' = pending_idrefs
      /\ root_id_conflict' = root_id_conflict /\ root_idref_start' = root_idref_start
      /\ items' = items /\ tree' = tree /\ verdicts' = verdicts
      /\ validation_stack' = validation_stack /\ validation_stack = <<>>
  BY <1>2 DEF EndValidation
<1>4. errors = [duplicates |-> errors.duplicates, unresolved |-> errors.unresolved,
                ended |-> errors.ended]
  BY <1>1 DEF StackTrue
<1>5. /\ errors' = [duplicates |-> errors.duplicates, unresolved |-> missing, ended |-> TRUE]
      /\ errors'.duplicates = errors.duplicates /\ errors'.unresolved = missing
      /\ errors'.ended = TRUE
  BY <1>3, <1>4
<1>6. StackTrue'
  BY <1>1, <1>3, <1>5 DEF StackTrue
<1>7. Table' = Table /\ Place' = Place
  BY <1>3, <1>5 DEF Table, Place, Floor
<1>8. Exact(Table', items', Place') /\ VerdictsTrue'
  BY <1>1, <1>3, <1>7 DEF VerdictsTrue
<1>9. EndTrue'
  <2>1. missing = {k \in 1 .. Len(Table.idrefs) : Table.idrefs[k] \notin DOMAIN Table.ids}
    BY <1>2 DEF Table
  <2>2. missing = {Nth(items, i) : i \in {k \in 1 .. Len(items) : UnresolvedIn(items, k)}}
    BY <1>1, <2>1, UnresolvedFound
  <2> QED BY <1>3, <1>5, <2>2 DEF EndTrue
<1> QED BY <1>6, <1>8, <1>9 DEF IdInv

(* The element below the last one of the stack, and what is left of it.    *)
LEMMA FrontForms ==
    ASSUME StackTrue, validation_stack # <<>>, NEW N, N = Len(validation_stack),
           NEW rest, rest = Front(validation_stack)
    PROVE  /\ N \in Nat \ {0} /\ rest \in Seq(FrameType) /\ Len(rest) = N - 1
           /\ \A k \in 1 .. N - 1 : rest[k] = validation_stack[k]
           /\ rest = <<>> <=> N = 1
<1>1. validation_stack \in Seq(FrameType) /\ N \in Nat \ {0} /\ N - 1 \in 0 .. N
  BY DEF StackTrue
<1>2. rest = SubSeq(validation_stack, 1, N - 1)
  BY DEF Front
<1>3. /\ rest \in Seq(FrameType) /\ Len(rest) = N - 1
      /\ \A k \in 1 .. N - 1 : rest[k] = validation_stack[k]
  BY <1>1, <1>2, Shortened
<1>4. rest = <<>> <=> N - 1 = 0
  BY <1>3
<1> QED BY <1>1, <1>3, <1>4

LEMMA PopKeeps ==
    ASSUME IdInv, NEW members \in Members \cup {<<>>}, PopElement(members)
    PROVE  IdInv'
<1>1. StackTrue /\ Exact(Table, items, Place) /\ VerdictsTrue /\ EndTrue
  BY DEF IdInv
<1>2. /\ Len(tree) \in Nat /\ Len(verdicts) \in Nat /\ Floor \in Nat
      /\ Place.tree = tree /\ Place.xsd11 = xsd11 /\ Place.root = Len(verdicts) + 1
      /\ Place.floor = Floor /\ Place.start = root_idref_start
      /\ PlaceOK(Place) /\ Place.root # 0 /\ validation_stack # <<>>
  BY <1>1, IdTyped DEF PopElement
<1>3. members \in Seq(Member)
  BY MembersTyped
<1>4. PICK N : N = Len(validation_stack)
  OBVIOUS
<1>5. PICK popped : popped = validation_stack[N]
  OBVIOUS
<1>6. PICK rest : rest = Front(validation_stack)
  OBVIOUS
<1>7. /\ N \in Nat \ {0} /\ N \in 1 .. N /\ 1 \in 1 .. N
      /\ rest \in Seq(FrameType) /\ Len(rest) = N - 1
      /\ \A k \in 1 .. N - 1 : rest[k] = validation_stack[k]
      /\ rest = <<>> <=> N = 1
  BY <1>1, <1>2, <1>4, <1>6, FrontForms
<1>8. PICK e : e = popped.element_serial
  OBVIOUS
<1>9. PICK owner : owner = ContentOwner(popped, rest)
  OBVIOUS
<1>10. \A k \in 1 .. N :
          /\ validation_stack[k].element_serial \in 1 .. Len(tree)
          /\ validation_stack[1].element_serial <= validation_stack[k].element_serial
          /\ tree[validation_stack[k].element_serial] =
               IF k = 1 THEN 0 ELSE validation_stack[k - 1].element_serial
  BY <1>1, <1>4 DEF StackTrue
<1>11. Floor = validation_stack[1].element_serial
  BY <1>2 DEF Floor
<1>12. /\ e \in 1 .. Len(tree) /\ owner \in 1 .. Len(tree) /\ owner >= Floor
       /\ owner = IF tree[e] = 0 THEN e ELSE tree[e]
  <2>1. CASE N = 1
    <3>1. owner = e /\ e = validation_stack[1].element_serial
      BY <1>5, <1>7, <1>8, <1>9, <2>1 DEF ContentOwner
    <3> QED BY <1>2, <1>7, <1>10, <1>11, <2>1, <3>1
  <2>2. CASE N # 1
    <3>1. N - 1 \in 1 .. N /\ N - 1 \in 1 .. N - 1 /\ rest # <<>>
      BY <1>7, <2>2
    <3>2. owner = validation_stack[N - 1].element_serial
      BY <1>7, <1>9, <3>1 DEF ContentOwner, Last
    <3>3. tree[e] = owner /\ owner \in 1 .. Len(tree) /\ e \in 1 .. Len(tree)
          /\ Floor <= owner
      BY <1>5, <1>7, <1>8, <1>10, <1>11, <2>2, <3>1, <3>2
    <3> QED BY <1>2, <3>3
  <2> QED BY <2>1, <2>2
<1>13. PICK table : table = collect_id_idref(Table, members, owner)
  OBVIOUS
<1>14. PICK closes : closes = (rest = <<>>)
  OBVIOUS
<1>15. PICK validity : validity = IF table.conflict \/ Dangling(table)
                                  THEN invalidate(popped.validity) ELSE popped.validity
  OBVIOUS
<1>16. PICK verdict : verdict = [strict |-> popped.validity # "notKnown", validity |-> validity]
  OBVIOUS
<1>17. /\ id_values' = table.ids /\ pending_idrefs' = table.idrefs
       /\ errors' = [errors EXCEPT !.duplicates = table.duplicates]
       /\ xsd11' = xsd11 /\ tree' = tree /\ validation_stack' = rest
       /\ items' = items \o ItemsOf(members, e, "content", Len(verdicts) + 1)
       /\ root_id_conflict' = (table.conflict /\ ~closes)
       /\ root_idref_start' = IF closes THEN Len(table.idrefs) ELSE root_idref_start
       /\ verdicts' = IF closes THEN Append(verdicts, verdict) ELSE verdicts
  <2>1. Last(validation_stack) = popped
    BY <1>4, <1>5 DEF Last
  <2> QED BY <2>1, <1>6, <1>8, <1>9, <1>13, <1>14, <1>15, <1>16
          DEF PopElement, Store, Record, ItemsOf, ItemOf
<1>18. Exact(table, items', Place)
  <2>1. PICK at : at = Place
    OBVIOUS
  <2>2. /\ Exact(Table, items, at) /\ PlaceOK(at) /\ at.root # 0 /\ e \in 1 .. Len(at.tree)
        /\ owner \in 1 .. Len(at.tree) /\ owner >= at.floor /\ at.root = Len(verdicts) + 1
        /\ owner = IF "content" = "attribute" \/ at.tree[e] = 0 THEN e ELSE at.tree[e]
    BY <1>1, <1>2, <1>12, <2>1
  <2>3. Exact(collect_id_idref(Table, members, owner),
              items \o ItemsOf(members, e, "content", at.root), at)
    BY <1>3, <2>2, Collected
  <2> QED BY <1>13, <1>17, <2>1, <2>2, <2>3
<1>19. /\ errors = [duplicates |-> errors.duplicates, unresolved |-> errors.unresolved,
                    ended |-> errors.ended]
       /\ ~errors.ended
  BY <1>1, <1>2 DEF StackTrue
<1>20. /\ errors' = [duplicates |-> table.duplicates, unresolved |-> errors.unresolved,
                     ended |-> errors.ended]
       /\ errors'.duplicates = table.duplicates /\ errors'.unresolved = errors.unresolved
       /\ errors'.ended = errors.ended
  BY <1>17, <1>19
<1>21. TableType(table) /\ items' \in Seq(ItemType) /\ table.conflict \in BOOLEAN
       /\ table = [ids |-> table.ids, idrefs |-> table.idrefs, conflict |-> table.conflict,
                   duplicates |-> table.duplicates]
  BY <1>18 DEF Exact, TableType
<1>22. \A r \in 1 .. Len(verdicts) : \A later :
         later.tree = tree /\ later.xsd11 = xsd11 =>
           WrongIn(items', later, r) = WrongIn(items, Place, r)
  <2> SUFFICES ASSUME NEW r \in 1 .. Len(verdicts), NEW later,
                      later.tree = tree, later.xsd11 = xsd11
               PROVE  WrongIn(items', later, r) = WrongIn(items, Place, r)
    OBVIOUS
  <2>1. r \in Nat /\ r < Len(verdicts) + 1 /\ Len(verdicts) + 1 \in Nat
        /\ items \in Seq(ItemType)
    BY <1>1, <1>2 DEF Exact
  <2>2. GoesOn(items', later, items, Place, r)
    BY <1>2, <1>3, <1>17, <2>1, ItemsGoOn
  <2> QED BY <2>1, <2>2, VerdictKept
<1>23. popped \in FrameType /\ popped.validity \in {"valid", "notKnown"}
  <2>1. validation_stack \in Seq(FrameType)
    BY <1>1 DEF StackTrue
  <2>2. popped \in FrameType
    BY <1>4, <1>5, <1>7, <2>1
  <2> QED BY <2>2 DEF FrameType
<1>24. (table.conflict \/ Dangling(table)) = WrongIn(items', Place, Len(verdicts) + 1)
  <2>1. PICK at : at = Place
    OBVIOUS
  <2>2. Exact(table, items', at) /\ at.root = Len(verdicts) + 1 /\ at.root \in Nat
        /\ at.start = root_idref_start
    BY <1>2, <1>18, <2>1
  <2>3. (table.conflict \/ Dangling(table)) = WrongIn(items', at, at.root)
    BY <2>2, VerdictFound
  <2> QED BY <2>1, <2>2, <2>3
<1>25. /\ verdict \in VerdictType
       /\ verdict.validity = IF ~verdict.strict THEN "notKnown"
                             ELSE IF WrongIn(items', Place, Len(verdicts) + 1) THEN "invalid"
                             ELSE "valid"
  <2>1. /\ verdict.strict = (popped.validity # "notKnown") /\ verdict.validity = validity
        /\ verdict = [strict |-> verdict.strict, validity |-> verdict.validity]
    BY <1>16
  <2>2. CASE table.conflict \/ Dangling(table)
    <3>1. WrongIn(items', Place, Len(verdicts) + 1)
      BY <1>24, <2>2
    <3> QED BY <1>15, <1>23, <2>1, <2>2, <3>1 DEF VerdictType, invalidate
  <2>3. CASE ~(table.conflict \/ Dangling(table))
    <3>1. ~WrongIn(items', Place, Len(verdicts) + 1)
      BY <1>24, <2>3
    <3> QED BY <1>15, <1>23, <2>1, <2>3, <3>1 DEF VerdictType
  <2> QED BY <2>2, <2>3
<1>26. StackTrue'
  <2>1. \A k \in 1 .. N - 1 :
          LET x == rest[k].element_serial
          IN  /\ x \in 1 .. Len(tree) /\ rest[1].element_serial <= x
              /\ tree[x] = IF k = 1 THEN 0 ELSE rest[k - 1].element_serial
    <3> SUFFICES ASSUME NEW k \in 1 .. N - 1
                 PROVE  LET x == rest[k].element_serial
                        IN  /\ x \in 1 .. Len(tree) /\ rest[1].element_serial <= x
                            /\ tree[x] = IF k = 1 THEN 0 ELSE rest[k - 1].element_serial
      OBVIOUS
    <3>1. k \in 1 .. N /\ 1 \in 1 .. N - 1 /\ (k = 1 \/ k - 1 \in 1 .. N - 1)
      BY <1>7
    <3> QED BY <1>7, <1>10, <3>1
  <2>2. verdicts' \in Seq(VerdictType)
    <3>1. verdicts \in Seq(VerdictType)
      BY <1>1 DEF StackTrue
    <3> QED BY <1>17, <1>25, <3>1
  <2> QED BY <1>1, <1>7, <1>17, <1>19, <1>20, <2>1, <2>2 DEF StackTrue
<1>27. EndTrue'
  BY <1>19, <1>20 DEF EndTrue
<1>28. CASE ~closes
  <2>1. rest # <<>> /\ N # 1 /\ 1 \in 1 .. N - 1
    <3>1. rest # <<>>
      BY <1>14, <1>28
    <3> QED BY <1>7, <3>1
  <2>2. Floor' = Floor
    BY <1>7, <1>11, <1>17, <2>1 DEF Floor
  <2>3. Place' = Place
    BY <1>17, <1>28, <2>2 DEF Place
  <2>4. root_id_conflict' = table.conflict
    BY <1>17, <1>21, <1>28
  <2>5. Table' = table
    BY <1>17, <1>20, <1>21, <2>4 DEF Table
  <2>6. VerdictsTrue'
    <3>1. \A r \in 1 .. Len(verdicts) : WrongIn(items', Place, r) = WrongIn(items, Place, r)
      BY <1>2, <1>22
    <3> QED BY <1>1, <1>17, <1>28, <2>3, <3>1 DEF VerdictsTrue
  <2> QED BY <1>18, <1>26, <1>27, <2>3, <2>5, <2>6 DEF IdInv
<1>29. CASE closes
  <2>1. validation_stack' = <<>>
    BY <1>14, <1>17, <1>29
  <2>2. /\ root_id_conflict' = FALSE /\ root_idref_start' = Len(table.idrefs)
        /\ verdicts' = Append(verdicts, verdict)
    BY <1>17, <1>29
  <2>3. verdicts' \in Seq(VerdictType) /\ Len(verdicts') = Len(verdicts) + 1
        /\ verdicts'[Len(verdicts) + 1] = verdict
        /\ \A r \in 1 .. Len(verdicts) : verdicts'[r] = verdicts[r]
    <3>1. verdicts \in Seq(VerdictType)
      BY <1>1 DEF StackTrue
    <3> QED BY <1>25, <2>2, <3>1, Appended
  <2>4. Floor' = Len(tree) + 1
    BY <1>17, <2>1 DEF Floor
  <2>5. PICK later : later = Place'
    OBVIOUS
  <2>6. /\ later.tree = tree /\ later.xsd11 = xsd11 /\ later.start = Len(table.idrefs)
        /\ later.root = Len(verdicts) + 1 + 1 /\ later.floor = Len(tree) + 1
    BY <1>17, <2>2, <2>3, <2>4, <2>5 DEF Place
  <2>7. PICK closed : closed = [table EXCEPT !.conflict = FALSE]
    OBVIOUS
  <2>8. closed = [ids |-> table.ids, idrefs |-> table.idrefs, conflict |-> FALSE,
                  duplicates |-> table.duplicates]
    BY <1>21, <2>7
  <2>9. Table' = closed
    BY <1>17, <1>20, <2>2, <2>8 DEF Table
  <2>10. Exact(closed, items', later)
    <3>1. PICK at : at = Place
      OBVIOUS
    <3>2. /\ Exact(table, items', at) /\ at.tree = tree /\ at.xsd11 = xsd11
          /\ at.root = Len(verdicts) + 1 /\ at.tree \in Seq(Nat) /\ at.root \in Nat
          /\ at.floor \in Nat
      BY <1>1, <1>2, <1>18, <3>1 DEF StackTrue
    <3> QED BY <2>6, <2>7, <3>2, ExactWhenClosed
  <2>11. Exact(Table', items', Place')
    BY <2>5, <2>9, <2>10
  <2>12. ASSUME NEW r \in 1 .. Len(verdicts) + 1
         PROVE  verdicts'[r].validity =
                  IF ~verdicts'[r].strict THEN "notKnown"
                  ELSE IF WrongIn(items', later, r) THEN "invalid" ELSE "valid"
    <3>1. CASE r = Len(verdicts) + 1
      <4>1. WrongIn(items', later, r) = WrongIn(items', Place, r)
        BY <1>2, <2>6 DEF WrongIn, ClashIn, OwnerIn
      <4> QED BY <1>25, <2>3, <3>1, <4>1
    <3>2. CASE r # Len(verdicts) + 1
      <4>1. r \in 1 .. Len(verdicts)
        BY <1>2, <3>2
      <4>2. WrongIn(items', later, r) = WrongIn(items, Place, r)
        BY <1>22, <2>6, <4>1
      <4> QED BY <1>1, <2>3, <4>1, <4>2 DEF VerdictsTrue
    <3> QED BY <3>1, <3>2
  <2>13. VerdictsTrue'
    BY <2>3, <2>5, <2>12 DEF VerdictsTrue
  <2> QED BY <1>26, <1>27, <2>11, <2>13 DEF IdInv
<1>30. closes \in BOOLEAN
  BY <1>14
<1> QED BY <1>28, <1>29, <1>30

LEMMA NextIdInv == IdInv /\ [IdNext]_idVars => IdInv'
<1> SUFFICES ASSUME IdInv, [IdNext]_idVars PROVE IdInv'
  OBVIOUS
<1>1. ASSUME NEW strict \in BOOLEAN, PushElement(strict) PROVE IdInv'
  BY <1>1, PushKeeps
<1>2. ASSUME NEW members \in Members, AttributeValue(members) PROVE IdInv'
  BY <1>2, AttributeKeeps
<1>3. CASE EndAttributes
  BY <1>3, EndAttributesKeeps
<1>4. ASSUME NEW members \in Members \cup {<<>>}, PopElement(members) PROVE IdInv'
  BY <1>4, PopKeeps
<1>5. CASE EndValidation
  BY <1>5, EndValidationKeeps
<1>6. CASE UNCHANGED idVars
  <2>1. /\ xsd11' = xsd11 /\ validation_stack' = validation_stack /\ id_values' = id_values
        /\ pending_idrefs' = pending_idrefs /\ root_id_conflict' = root_id_conflict
        /\ root_idref_start' = root_idref_start /\ items' = items /\ tree' = tree
        /\ verdicts' = verdicts /\ errors' = errors
    BY <1>6 DEF idVars
  <2>2. Table' = Table /\ Place' = Place
    BY <2>1 DEF Table, Place, Floor
  <2>3. StackTrue'
    BY <2>1 DEF IdInv, StackTrue
  <2>4. VerdictsTrue' /\ EndTrue'
    BY <2>1, <2>2 DEF IdInv, VerdictsTrue, EndTrue
  <2> QED BY <2>1, <2>2, <2>3, <2>4 DEF IdInv
<1> QED BY <1>1, <1>2, <1>3, <1>4, <1>5, <1>6 DEF IdNext

(* Theorem.  The table has an owner for exactly the ID values so far, one  *)
(* of those that their IDs identify, the IDREFs in order with those of the *)
(* current root at the end, and its flags say whether there is a clash, in *)
(* the run and in the root; the elements of different roots do not mix.    *)
THEOREM IdInvariant == IdSpec => []IdInv
BY InitIdInv, NextIdInv, PTL DEF IdSpec

LEMMA IdInvExact == IdInv => IdVerdictsExact
<1> SUFFICES ASSUME IdInv PROVE IdVerdictsExact
  OBVIOUS
<1>1. StackTrue /\ Exact(Table, items, Place) /\ VerdictsTrue /\ EndTrue
  BY DEF IdInv
<1>2. Place.tree = tree /\ Place.xsd11 = xsd11
  BY DEF Place
<1>3. \A i : Identified(i) = OwnerIn(items, Place, i) /\ IsId(i) = IsIdIn(items, i)
  BY <1>2 DEF Identified, OwnerIn, IsId, IsIdIn
<1>4. \A i, j : Clash(i, j) = ClashIn(items, Place, i, j)
                /\ Resolves(i, j) = ResolvesIn(items, i, j)
  BY <1>2, <1>3 DEF Clash, ClashIn, Resolves, ResolvesIn
<1> DEFINE Of(r) == {i \in 1 .. Len(items) : items[i].root = r}
           UpTo(r) == {i \in 1 .. Len(items) : items[i].root <= r}
           Wrong(r) == \E i \in Of(r) :
                          \/ ~IsId(i) /\ ~\E j \in UpTo(r) : Resolves(i, j)
                          \/ \E j \in UpTo(r) : Clash(i, j)
           NthRef(i) == Cardinality({j \in 1 .. i : ~IsId(j)})
           Unresolved(i) == ~IsId(i) /\ ~\E j \in 1 .. Len(items) : Resolves(i, j)
<1>5. ASSUME NEW r PROVE Wrong(r) = WrongIn(items, Place, r)
  BY <1>3, <1>4 DEF WrongIn
<1>6. \A r \in 1 .. Len(verdicts) :
        verdicts[r].validity = IF ~verdicts[r].strict THEN "notKnown"
                               ELSE IF Wrong(r) THEN "invalid" ELSE "valid"
  <2> HIDE DEF Wrong
  <2> QED BY <1>1, <1>5 DEF VerdictsTrue
<1>7. errors.duplicates > 0 <=> \E i, j \in 1 .. Len(items) : Clash(i, j)
  <2>1. Table.duplicates = errors.duplicates
    BY DEF Table
  <2>2. (Table.duplicates > 0) = \E i, j \in 1 .. Len(items) : ClashIn(items, Place, i, j)
    BY <1>1 DEF Exact, ClashesHeld
  <2> QED BY <1>4, <2>1, <2>2
<1>8. ~Running =>
        errors.unresolved = {NthRef(i) : i \in {k \in 1 .. Len(items) : Unresolved(k)}}
  <2>1. \A i : NthRef(i) = Nth(items, i)
    BY <1>3 DEF Nth
  <2>2. \A k \in 1 .. Len(items) : Unresolved(k) <=> UnresolvedIn(items, k)
    BY <1>3, <1>4 DEF UnresolvedIn
  <2> HIDE DEF NthRef, Unresolved
  <2>3. {NthRef(i) : i \in {k \in 1 .. Len(items) : Unresolved(k)}} =
          {Nth(items, i) : i \in {k \in 1 .. Len(items) : UnresolvedIn(items, k)}}
    BY <2>1, <2>2
  <2> QED BY <1>1, <2>3 DEF EndTrue, Running
<1> QED BY <1>6, <1>7, <1>8 DEF IdVerdictsExact

(* Theorem.  The verdict on each root is the one that the bindings seen so *)
(* far in the run give, whatever the roots before it left in the table,    *)
(* and the errors at the end name exactly the unresolved IDREFs.           *)
THEOREM IdVerdictsAreExact == IdSpec => []IdVerdictsExact
BY IdInvariant, IdInvExact, PTL
=============================================================================
