---------------------------- MODULE KeyIndexProofs ----------------------------
(***************************************************************************)
(* Proofs about KeyIndex: for every set of values, number of fields, hash  *)
(* function and length of table, the indexed node table keeps its          *)
(* invariant and gives the verdicts of KeyTable.                           *)
(***************************************************************************)
EXTENDS KeyIndex, TLAPS

-----------------------------------------------------------------------------
(* The values and their hash.                                              *)

(* A value has a class, and it is never Unknown or Mixed.                  *)
LEMMA ClassOfIsAClass ==
    ASSUME NEW v \in KeyFieldValue
    PROVE  ClassOf(v) \in ValueClass
BY ValueAssumption DEF ClassOf, ValueClass

(* field_class_and_key: equal values of one class hash one key.            *)
LEMMA EqualValuesOneKey ==
    ASSUME NEW v \in KeyFieldValue, NEW w \in KeyFieldValue,
           ClassOf(v) = ClassOf(w),
           ValueEqual(v, w)
    PROVE  KeyOf(v) = KeyOf(w)
<1>1. /\ v.shape \in {"untyped", "atom", "list"}
      /\ w.shape \in {"untyped", "atom", "list"}
  BY ValueAssumption
<1>2. CASE ClassOf(v) = "Lists"
  BY <1>2, <1>1 DEF KeyOf
<1>3. CASE ClassOf(v) = "Strings"
  <2>1. v.text = w.text
    BY <1>3, <1>1 DEF ClassOf, ValueEqual, MemberEqual
  <2> QED BY <2>1, <1>3 DEF KeyOf
<1>4. CASE ClassOf(v) = "Atomic"
  <2>1. /\ v.shape = "atom" /\ v.items[1].prim # NoPrim
        /\ w.shape = "atom" /\ w.items[1].prim # NoPrim
    BY <1>4, <1>1 DEF ClassOf
  <2>2. /\ v.items[1].prim = w.items[1].prim
        /\ v.items[1].point = w.items[1].point
    BY <2>1 DEF ValueEqual, MemberEqual
  <2> QED BY <2>2, <1>4 DEF KeyOf
<1> QED BY <1>2, <1>3, <1>4, ClassOfIsAClass DEF ValueClass

(* Under classes that cover s, a comparable probe equal to s has its keys, *)
(* and so its hash.                                                        *)
LEMMA EqualSameHash ==
    ASSUME NEW s \in KeySequence, NEW t \in KeySequence,
           \A i \in Field :
              \/ FieldClassOf(s, i) = "Unknown"
              \/ classes[i] \in {FieldClassOf(s, i), "Mixed"},
           Comparable(t),
           SequenceEqual(s, t)
    PROVE  HashUnder(classes, s) = HashUnder(classes, t)
<1>1. ASSUME NEW i \in Field, classes[i] # "Mixed", s[i] # Absent
      PROVE  t[i] # Absent /\ KeyOf(s[i]) = KeyOf(t[i])
  <2>1. /\ s[i] \in KeyFieldValue /\ t[i] \in KeyFieldValue
        /\ t[i] # Absent
        /\ ValueEqual(s[i], t[i])
    BY <1>1 DEF SequenceEqual, KeySequence
  <2>2. ClassOf(s[i]) \in ValueClass /\ ClassOf(t[i]) \in ValueClass
    BY <2>1, ClassOfIsAClass
  <2>3. classes[i] = ClassOf(s[i])
    BY <1>1, <2>1, <2>2 DEF FieldClassOf, ValueClass
  <2>4. ClassOf(t[i]) = classes[i]
    BY <1>1, <2>1, <2>2, <2>3 DEF FieldClassOf, ValueClass, Comparable
  <2> QED BY <2>1, <2>3, <2>4, EqualValuesOneKey
<1>2. ASSUME NEW i \in Field, s[i] = Absent
      PROVE  t[i] = Absent
  BY <1>2 DEF SequenceEqual
<1>3. FieldKeys(classes, s) = FieldKeys(classes, t)
  BY <1>1, <1>2 DEF FieldKeys
<1> QED BY <1>3 DEF HashUnder

(* A stored sequence that equals a comparable probe is in its chain.       *)
LEMMA EqualInChain ==
    ASSUME IndexTypeOK, NEW n \in 0 .. Len(sequences), ClassesCover(n),
           NEW q \in 1 .. n, NEW s \in KeySequence,
           Comparable(s), SequenceEqual(sequences[q], s)
    PROVE  HashUnder(classes, sequences[q]) = HashUnder(classes, s)
<1>1. sequences[q] \in KeySequence
  BY DEF IndexTypeOK, TypeOK
<1> QED BY <1>1, EqualSameHash DEF ClassesCover

-----------------------------------------------------------------------------
(* How the actions change the index.                                       *)

(* A step that keeps the links and the hashes of the sequences linked      *)
(* keeps the chains.                                                       *)
LEMMA ChainsKept ==
    ASSUME NEW n \in Nat, LinkedUpTo(n), UNCHANGED <<heads, next>>,
           \A q \in 1 .. n :
               HashUnder(classes', sequences'[q])
                   = HashUnder(classes, sequences[q])
    PROVE  LinkedUpTo(n)'
<1>1. ASSUME NEW h \in HashCode
      PROVE  /\ heads'[h] \in 0 .. n
             /\ heads'[h] # END => HashUnder(classes', sequences'[heads'[h]]) = h
             /\ \A q \in 1 .. n :
                   HashUnder(classes', sequences'[q]) = h => q <= heads'[h]
  <2>1. /\ heads[h] \in 0 .. n
        /\ heads[h] # END => HashUnder(classes, sequences[heads[h]]) = h
        /\ \A q \in 1 .. n :
              HashUnder(classes, sequences[q]) = h => q <= heads[h]
    BY DEF LinkedUpTo
  <2>2. heads' = heads /\ (heads[h] # END => heads[h] \in 1 .. n)
    BY <2>1 DEF END
  <2> QED BY <2>1, <2>2
<1>2. ASSUME NEW p \in 1 .. n
      PROVE  /\ next'[p] \in 0 .. (p - 1)
             /\ next'[p] # END =>
                   HashUnder(classes', sequences'[next'[p]])
                       = HashUnder(classes', sequences'[p])
             /\ \A q \in 1 .. (p - 1) :
                   HashUnder(classes', sequences'[q])
                       = HashUnder(classes', sequences'[p]) => q <= next'[p]
  <2>1. next' = next /\ p \in Nat
    OBVIOUS
  <2>2. /\ next[p] \in 0 .. (p - 1)
        /\ next[p] # END => HashUnder(classes, sequences[next[p]])
                               = HashUnder(classes, sequences[p])
        /\ \A q \in 1 .. (p - 1) :
              HashUnder(classes, sequences[q])
                  = HashUnder(classes, sequences[p]) => q <= next[p]
    BY DEF LinkedUpTo
  <2>3. next[p] # END => next[p] \in 1 .. n
    BY <2>1, <2>2 DEF END
  <2>4. \A q \in 1 .. (p - 1) : q \in 1 .. n
    BY <2>1
  <2> QED BY <2>1, <2>2, <2>3, <2>4
<1>3. DOMAIN next' = 1 .. n
  BY DEF LinkedUpTo
<1> QED BY <1>1, <1>2, <1>3 DEF LinkedUpTo

(* In particular one that only adds sequences.                             *)
LEMMA ChainsFrame ==
    ASSUME NEW n \in Nat, LinkedUpTo(n), UNCHANGED index,
           \A q \in 1 .. n : sequences'[q] = sequences[q]
    PROVE  LinkedUpTo(n)'
<1>1. \A q \in 1 .. n :
        HashUnder(classes', sequences'[q]) = HashUnder(classes, sequences[q])
  BY DEF index
<1>2. UNCHANGED <<heads, next>>
  BY DEF index
<1> QED BY <1>1, <1>2, ChainsKept

LEMMA ClassesFrame ==
    ASSUME NEW n \in Nat, ClassesCover(n), UNCHANGED classes,
           \A q \in 1 .. n : sequences'[q] = sequences[q]
    PROVE  ClassesCover(n)'
BY DEF ClassesCover, FieldClassOf

(* merge_classes: the merged classes cover the sequence merged and every   *)
(* one covered before.                                                     *)
LEMMA MergeCovers ==
    ASSUME IndexTypeOK, NEW n \in 1 .. Len(sequences),
           ClassesCover(n - 1), UNCHANGED sequences,
           classes' = MergedClasses(sequences[n])
    PROVE  ClassesCover(n)'
<1>1. ASSUME NEW p \in 1 .. n, NEW i \in Field,
             FieldClassOf(sequences[p], i) # "Unknown"
      PROVE  classes'[i] \in {FieldClassOf(sequences[p], i), "Mixed"}
  <2>1. classes'[i] = Merged(classes[i], FieldClassOf(sequences[n], i))
    BY DEF MergedClasses
  <2>2. CASE p = n
    BY <2>1, <2>2, <1>1 DEF Merged
  <2>3. CASE p # n
    <3>1. classes[i] \in {FieldClassOf(sequences[p], i), "Mixed"}
      BY <2>3, <1>1 DEF ClassesCover
    <3> QED BY <3>1, <2>1, <1>1 DEF Merged
  <2> QED BY <2>2, <2>3
<1> QED BY <1>1 DEF ClassesCover, FieldClassOf

(* When no field becomes Mixed, the merge changes no hash.                 *)
LEMMA MergeKeepsHash ==
    ASSUME IndexTypeOK, NEW t, ~ BecameMixed(t),
           NEW s \in KeySequence
    PROVE  HashUnder(MergedClasses(t), s) = HashUnder(classes, s)
<1>1. ASSUME NEW i \in Field
      PROVE  MergedClasses(t)[i] = "Mixed" <=> classes[i] = "Mixed"
  BY DEF BecameMixed, MergedClasses, Merged
<1>2. FieldKeys(MergedClasses(t), s) = FieldKeys(classes, s)
  BY <1>1 DEF FieldKeys
<1> QED BY <1>2 DEF HashUnder

(* Linking the position after the linked ones links it too.                *)
LEMMA LinkExtends ==
    ASSUME IndexTypeOK, NEW n \in 1 .. Len(sequences), n = cursor,
           LinkedUpTo(n - 1), Link
    PROVE  LinkedUpTo(n)'
<1> DEFINE H(q) == HashUnder(classes, sequences[q])
           h0 == H(n)
<1>1. n \in Nat \ {0} /\ Len(sequences) \in Nat
  BY DEF IndexTypeOK, TypeOK
<1>2. sequences' = sequences /\ classes' = classes
  BY DEF Link, vars
<1>3. h0 \in HashCode
  <2>1. sequences[n] \in KeySequence /\ classes \in [Field -> FieldClass]
    BY DEF IndexTypeOK, TypeOK
  <2> QED BY <2>1, HashAssumption
<1>4. heads' = [heads EXCEPT ![h0] = n] /\ heads \in [HashCode -> Nat]
  BY DEF Link, IndexTypeOK
<1>5. /\ DOMAIN next = 1 .. (n - 1)
      /\ next' = [p \in DOMAIN next \cup {n} |->
                     IF p = n THEN heads[h0] ELSE next[p]]
  BY DEF Link, LinkedUpTo
<1>6. /\ DOMAIN next' = 1 .. n
      /\ next'[n] = heads[h0]
      /\ \A p \in 1 .. (n - 1) : next'[p] = next[p]
  BY <1>1, <1>5
<1>7. ASSUME NEW h \in HashCode
      PROVE  /\ heads[h] \in 0 .. (n - 1)
             /\ heads[h] # END => H(heads[h]) = h
             /\ \A q \in 1 .. (n - 1) : H(q) = h => q <= heads[h]
  BY DEF LinkedUpTo
<1>8. ASSUME NEW p \in 1 .. (n - 1)
      PROVE  /\ next[p] \in 0 .. (p - 1)
             /\ next[p] # END => H(next[p]) = H(p)
             /\ \A q \in 1 .. (p - 1) : H(q) = H(p) => q <= next[p]
  BY DEF LinkedUpTo
<1> HIDE DEF H
<1>9. ASSUME NEW h \in HashCode
      PROVE  /\ heads'[h] \in 0 .. n
             /\ heads'[h] # END => H(heads'[h]) = h
             /\ \A q \in 1 .. n : H(q) = h => q <= heads'[h]
  <2>1. CASE h = h0
    BY <2>1, <1>1, <1>3, <1>4
  <2>2. CASE h # h0
    <3>1. heads'[h] = heads[h]
      BY <2>2, <1>4
    <3>2. \A q \in 1 .. n : H(q) = h => q \in 1 .. (n - 1)
      BY <2>2, <1>1
    <3> QED BY <3>1, <3>2, <1>1, <1>7
  <2> QED BY <2>1, <2>2
<1>10. ASSUME NEW p \in 1 .. n
       PROVE  /\ next'[p] \in 0 .. (p - 1)
              /\ next'[p] # END => H(next'[p]) = H(p)
              /\ \A q \in 1 .. (p - 1) : H(q) = H(p) => q <= next'[p]
  <2>1. CASE p = n
    BY <2>1, <1>1, <1>3, <1>6, <1>7
  <2>2. CASE p # n
    <3>1. p \in 1 .. (n - 1)
      BY <2>2, <1>1
    <3>2. next'[p] = next[p]
      BY <3>1, <1>6
    <3> QED BY <3>1, <3>2, <1>8
  <2> QED BY <2>1, <2>2
<1>11. \A q : HashUnder(classes', sequences'[q]) = H(q)
  BY <1>2 DEF H
<1> QED BY <1>6, <1>9, <1>10, <1>11 DEF LinkedUpTo

-----------------------------------------------------------------------------
(* How contains() walks.                                                   *)

(* The walk starts at the head of the probe's chain.                       *)
LEMMA SeekStartsWalk ==
    ASSUME IndexTypeOK, LinkedUpTo(Len(sequences)),
           ClassesCover(Len(sequences)),
           NEW s \in KeySequence, Seek(s), UNCHANGED <<vars, index>>
    PROVE  WalkInv'
<1> DEFINE h == HashUnder(classes, s)
<1>1. classes \in [Field -> FieldClass] /\ Len(sequences) \in Nat
  BY DEF IndexTypeOK, TypeOK
<1>2. h \in HashCode
  BY <1>1, HashAssumption
<1>3. /\ probe' = s /\ at' = heads[h]
      /\ sequences' = sequences /\ classes' = classes
  BY DEF Seek, vars, index
<1>4. /\ heads[h] \in 0 .. Len(sequences)
      /\ heads[h] # END => HashUnder(classes, sequences[heads[h]]) = h
      /\ \A q \in 1 .. Len(sequences) :
            HashUnder(classes, sequences[q]) = h => q <= heads[h]
  BY <1>2 DEF LinkedUpTo
<1>5. ASSUME NEW q \in (heads[h] + 1) .. Len(sequences), Comparable(s)
      PROVE  ~ SequenceEqual(sequences[q], s)
  <2>1. q \in 1 .. Len(sequences) /\ ~ (q <= heads[h])
    BY <1>1, <1>4
  <2> QED BY <2>1, <1>1, <1>4, <1>5, EqualInChain
<1>6. Comparable(s)' <=> Comparable(s)
  BY <1>3 DEF Comparable
<1> QED BY <1>3, <1>4, <1>5, <1>6 DEF WalkInv, Comparable

(* Going on from a sequence that differs passes over no equal one.         *)
LEMMA WalkOnKeepsWalk ==
    ASSUME IndexTypeOK, LinkedUpTo(Len(sequences)),
           ClassesCover(Len(sequences)), WalkInv, WalkOn
    PROVE  WalkInv'
<1>1. /\ Len(sequences) \in Nat /\ probe \in KeySequence
      /\ at \in 1 .. Len(sequences)
      /\ HashUnder(classes, sequences[at]) = HashUnder(classes, probe)
      /\ Comparable(probe)
      /\ \A q \in (at + 1) .. Len(sequences) :
            ~ SequenceEqual(sequences[q], probe)
      /\ ~ SequenceEqual(sequences[at], probe)
  BY DEF IndexTypeOK, TypeOK, WalkInv, WalkOn, END
<1>2. /\ next[at] \in 0 .. (at - 1)
      /\ next[at] # END => HashUnder(classes, sequences[next[at]])
                              = HashUnder(classes, sequences[at])
      /\ \A q \in 1 .. (at - 1) :
            HashUnder(classes, sequences[q])
                = HashUnder(classes, sequences[at]) => q <= next[at]
  BY <1>1 DEF LinkedUpTo
<1>3. ASSUME NEW q \in (next[at] + 1) .. Len(sequences)
      PROVE  ~ SequenceEqual(sequences[q], probe)
  <2>1. CASE q \in (at + 1) .. Len(sequences)
    BY <2>1, <1>1
  <2>2. CASE q = at
    BY <2>2, <1>1
  <2>3. CASE q \in 1 .. (at - 1) /\ ~ (q <= next[at])
    <3>1. q \in 1 .. Len(sequences)
      BY <2>3, <1>1
    <3> QED BY <2>3, <3>1, <1>1, <1>2, EqualInChain
  <2> QED BY <2>1, <2>2, <2>3, <1>1, <1>2
<1>4. /\ at' = next[at] /\ probe' = probe /\ pc' = pc
      /\ sequences' = sequences /\ classes' = classes
  BY DEF WalkOn, vars, index
<1>5. next[at] \in 0 .. Len(sequences)
  BY <1>1, <1>2
<1> QED BY <1>1, <1>2, <1>3, <1>4, <1>5 DEF WalkInv, Comparable

-----------------------------------------------------------------------------
(* The invariant.                                                          *)

LEMMA InitInv == IndexInit => IndexInv
<1> SUFFICES ASSUME IndexInit PROVE IndexInv
  OBVIOUS
<1> USE DEF IndexInit, Init, END
<1>1. sequences \in Seq(KeySequence) /\ Len(sequences) = 0
  OBVIOUS
<1>2. NoProbe \in KeySequence
  BY DEF NoProbe, KeySequence
<1>3. <<>> \in Batch
  <2>1. <<>> \in [1 .. 0 -> KeySequence] /\ 0 \in 0 .. MaxBatch
    BY BoundAssumption
  <2> QED BY <2>1 DEF Batch
<1>4. IndexTypeOK
  BY <1>1, <1>2, <1>3 DEF IndexTypeOK, TypeOK, FieldClass, IdentityKind
<1>5. PositionsInv
  BY <1>1 DEF PositionsInv
<1>6. LinkedUpTo(Linked) /\ ClassesCover(Linked) /\ Linked = Classed
  BY <1>1 DEF LinkedUpTo, ClassesCover, Linked, Classed
<1>7. WalkInv /\ CallInv
  BY DEF WalkInv, CallInv, IsSearching
<1> QED BY <1>4, <1>5, <1>6, <1>7 DEF IndexInv

(* push_checked keeps what was indexed and leaves the new sequence to      *)
(* insert().                                                               *)
LEMMA PushInv ==
    ASSUME IndexInv, pc \in {"idle", "duplicate"},
           NEW s \in KeySequence, NEW duplicate \in BOOLEAN,
           Push(s, duplicate), UNCHANGED search
    PROVE  IndexInv'
<1>1. /\ Len(sequences) \in Nat
      /\ sequences' \in Seq(KeySequence)
      /\ Len(sequences') = Len(sequences) + 1
      /\ \A q \in 1 .. Len(sequences) : sequences'[q] = sequences[q]
  BY DEF IndexInv, IndexTypeOK, TypeOK, Push
<1>2. pc' = IF kind = "keyref" THEN "idle" ELSE "insert"
  BY DEF Push
<1>3. IndexTypeOK'
  <2>1. errors' \subseteq ErrorCode
    BY DEF Push, AddErrors, ErrorCode
  <2> QED BY <1>1, <1>2, <2>1
      DEF IndexInv, IndexTypeOK, TypeOK, Push, index, search, lookup, insertion
<1>4. kind' = kind /\ position' = position /\ cursor' = cursor
  BY DEF Push, insertion
<1>5. kind # "keyref" => position = Len(sequences) + 1
  BY DEF IndexInv, PositionsInv
<1>6. PositionsInv'
  BY <1>1, <1>2, <1>4, <1>5 DEF PositionsInv, IndexInv
<1>7. kind # "keyref" => LinkedUpTo(Linked)' /\ ClassesCover(Classed)'
  <2> SUFFICES ASSUME kind # "keyref"
               PROVE  LinkedUpTo(Linked)' /\ ClassesCover(Classed)'
    OBVIOUS
  <2> DEFINE n == Len(sequences)
  <2>1. LinkedUpTo(n) /\ ClassesCover(n)
    BY DEF IndexInv, Linked, Classed
  <2>2. UNCHANGED index /\ UNCHANGED classes
    BY DEF Push, index
  <2>3. Linked' = n /\ Classed' = n
    BY <1>1, <1>2, <1>4, <1>5 DEF Linked, Classed
  <2> QED BY <1>1, <2>1, <2>2, <2>3, ChainsFrame, ClassesFrame
<1>8. WalkInv' /\ CallInv'
  BY <1>2 DEF WalkInv, CallInv, IsSearching
<1> QED BY <1>3, <1>4, <1>6, <1>7, <1>8 DEF IndexInv

(* A table of a batch is a sequence.                                       *)
LEMMA BatchIsSeq ==
    ASSUME NEW b \in Batch
    PROVE  b \in Seq(KeySequence) /\ Len(b) \in 0 .. MaxBatch
<1>1. PICK n \in 0 .. MaxBatch : b \in [1 .. n -> KeySequence]
  BY DEF Batch
<1> QED BY <1>1, BoundAssumption

(* append() extends the table first; the new sequences are indexed after.  *)
LEMMA AppendOtherInv ==
    ASSUME IndexInv, NEW other \in Batch, AppendOther(other)
    PROVE  IndexInv'
<1>1. /\ Len(sequences) \in Nat
      /\ sequences' \in Seq(KeySequence)
      /\ Len(sequences') \in Nat /\ Len(sequences') >= Len(sequences)
      /\ \A q \in 1 .. Len(sequences) : sequences'[q] = sequences[q]
  <2>1. sequences \in Seq(KeySequence) /\ sequences' = sequences \o other
    BY DEF IndexInv, IndexTypeOK, TypeOK, AppendOther
  <2>2. other \in Seq(KeySequence) /\ Len(other) \in Nat
    BY BatchIsSeq, BoundAssumption
  <2> QED BY <2>1, <2>2
<1>2. pc' = IF kind = "keyref" THEN "idle" ELSE "insert"
  BY DEF AppendOther
<1>3. IndexTypeOK'
  BY <1>1, <1>2 DEF IndexInv, IndexTypeOK, TypeOK, AppendOther,
                    index, search, lookup, insertion
<1>4. kind' = kind /\ position' = position /\ cursor' = cursor
  BY DEF AppendOther, insertion
<1>5. kind # "keyref" => position = Len(sequences) + 1
  BY DEF IndexInv, PositionsInv, AppendOther
<1>6. PositionsInv'
  BY <1>1, <1>2, <1>4, <1>5 DEF PositionsInv
<1>7. kind # "keyref" => LinkedUpTo(Linked)' /\ ClassesCover(Classed)'
  <2> SUFFICES ASSUME kind # "keyref"
               PROVE  LinkedUpTo(Linked)' /\ ClassesCover(Classed)'
    OBVIOUS
  <2> DEFINE n == Len(sequences)
  <2>1. LinkedUpTo(n) /\ ClassesCover(n)
    BY DEF IndexInv, Linked, Classed, AppendOther
  <2>2. UNCHANGED index /\ UNCHANGED classes
    BY DEF AppendOther, index
  <2>3. Linked' = n /\ Classed' = n
    BY <1>1, <1>2, <1>4, <1>5 DEF Linked, Classed
  <2> QED BY <1>1, <2>1, <2>2, <2>3, ChainsFrame, ClassesFrame
<1>8. WalkInv' /\ CallInv'
  BY <1>2 DEF WalkInv, CallInv, IsSearching
<1> QED BY <1>3, <1>4, <1>6, <1>7, <1>8 DEF IndexInv

(* A step that changes neither the table nor its index, with no insert()   *)
(* under way before or after it, keeps the parts about them.               *)
LEMMA IndexFrame ==
    ASSUME IndexInv, UNCHANGED <<kind, sequences, index, insertion>>,
           \/ {pc, pc'} \subseteq {"idle", "duplicate", "keyref", "member"}
           \/ pc' = pc,
           kind # "keyref" \/ pc' = pc
    PROVE  /\ PositionsInv'
           /\ kind' # "keyref" => LinkedUpTo(Linked)' /\ ClassesCover(Classed)'
<1>1. Linked' = Linked /\ Classed' = Classed
  BY DEF Linked, Classed, insertion
<1>2. PositionsInv'
  BY DEF IndexInv, PositionsInv, insertion
<1>3. kind # "keyref" => LinkedUpTo(Linked)' /\ ClassesCover(Classed)'
  BY <1>1 DEF IndexInv, LinkedUpTo, ClassesCover, index, HashUnder, FieldKeys,
              FieldClassOf
<1> QED BY <1>2, <1>3

(* Beginning a lookup.                                                     *)
LEMMA SeekInv ==
    ASSUME IndexInv,
           \/ \E s \in KeySequence : AddChecked(s)
           \/ LookUpMember
    PROVE  IndexInv'
<1>1. PICK s \in KeySequence :
         /\ Seek(s)
         /\ \/ /\ pc = "idle" /\ pc' = "duplicate" /\ IsChecked(kind, s)
               /\ Len(sequences) < MaxSequences
            \/ /\ pc = "keyref" /\ pc' = "member" /\ IsComplete(s)
               /\ member <= Len(members) /\ s = members[member]
  <2>1. CASE \E s \in KeySequence : AddChecked(s)
    BY <2>1 DEF AddChecked
  <2>2. CASE LookUpMember
    <3>1. members[member] \in KeySequence
      <4>1. members \in Seq(KeySequence) /\ Len(members) \in Nat
        BY BatchIsSeq, BoundAssumption DEF IndexInv, IndexTypeOK
      <4>2. member \in 1 .. Len(members)
        BY <2>2, <4>1 DEF LookUpMember, IndexInv, CallInv
      <4> QED BY <4>1, <4>2
    <3> QED BY <2>2, <3>1 DEF LookUpMember
  <2> QED BY <2>1, <2>2
<1>2. UNCHANGED <<vars, index, lookup, insertion>>
  BY DEF AddChecked, LookUpMember
<1>3. kind # "keyref"
  BY <1>1 DEF IsChecked, IndexInv, PositionsInv
<1>4. UNCHANGED <<kind, sequences, index, insertion>>
  BY <1>2 DEF vars
<1>5. PositionsInv' /\ (kind' # "keyref" => LinkedUpTo(Linked)' /\ ClassesCover(Classed)')
  BY <1>1, <1>3, <1>4, IndexFrame
<1>6. IndexTypeOK'
  <2>1. heads[HashUnder(classes, s)] \in Nat
    BY HashAssumption DEF IndexInv, IndexTypeOK
  <2> QED BY <1>1, <1>2, <2>1
      DEF IndexInv, IndexTypeOK, TypeOK, vars, index, lookup, insertion, Seek
<1>7. WalkInv'
  <2>1. LinkedUpTo(Len(sequences)) /\ ClassesCover(Len(sequences))
    BY <1>1, <1>3 DEF IndexInv, Linked, Classed
  <2>2. IndexTypeOK /\ UNCHANGED <<vars, index>>
    BY <1>2 DEF IndexInv
  <2> QED BY <1>1, <2>1, <2>2, SeekStartsWalk
<1>8. CallInv'
  <2>1. /\ probe' = s /\ sequences' = sequences /\ kind' = kind
        /\ members' = members /\ member' = member /\ missing' = missing
    BY <1>1, <1>2 DEF Seek, vars, lookup
  <2>2. CASE pc = "idle"
    BY <1>1, <2>1, <2>2 DEF CallInv, IsChecked
  <2>3. CASE pc = "keyref"
    BY <1>1, <2>1, <2>3 DEF IndexInv, CallInv, Holds
  <2> QED BY <1>1, <2>2, <2>3
<1> QED BY <1>5, <1>6, <1>7, <1>8 DEF IndexInv

(* contains() answers whether the table holds a sequence equal to the      *)
(* probe, by the scan and by the walk.                                     *)
LEMMA ContainsIsRight ==
    ASSUME IndexInv
    PROVE  /\ WalkHit => Holds(sequences, probe)
           /\ WalkMiss => ~ Holds(sequences, probe)
<1>1. Len(sequences) \in Nat
  BY DEF IndexInv, IndexTypeOK, TypeOK
<1>2. ASSUME WalkHit PROVE Holds(sequences, probe)
  <2>1. at \in 1 .. Len(sequences) /\ SequenceEqual(sequences[at], probe)
    BY <1>1, <1>2 DEF WalkHit, IndexInv, WalkInv, END
  <2> QED BY <2>1 DEF Holds
<1>3. ASSUME WalkMiss PROVE ~ Holds(sequences, probe)
  <2>1. \A q \in 1 .. Len(sequences) : ~ SequenceEqual(sequences[q], probe)
    BY <1>1, <1>3 DEF WalkMiss, IndexInv, WalkInv, END
  <2> QED BY <2>1 DEF Holds
<1> QED BY <1>2, <1>3

(* An answer that is right keeps the invariant, and adds the sequence with *)
(* the verdict of KeyTable.                                                *)
LEMMA AnswerInv ==
    ASSUME IndexInv, IsSearching, NEW found \in BOOLEAN,
           found = Holds(sequences, probe), Answer(found)
    PROVE  IndexInv' /\ [Next]_vars
<1>1. CASE pc = "duplicate"
  <2>1. Push(probe, found) /\ UNCHANGED search
    BY <1>1 DEF Answer
  <2>2. probe \in KeySequence /\ IsChecked(kind, probe) /\ Len(sequences) < MaxSequences
    BY <1>1 DEF IndexInv, IndexTypeOK, CallInv
  <2>3. IndexInv'
    BY <1>1, <2>1, <2>2, PushInv
  <2>4. AddSequence(probe)
    BY <2>1, <2>2 DEF AddSequence, Push
  <2> QED BY <2>2, <2>3, <2>4 DEF Next
<1>2. CASE pc = "member"
  <2>1. /\ UNCHANGED <<vars, index, members, insertion, search>>
        /\ pc' = "keyref"
        /\ member' = member + 1
        /\ missing' = IF found THEN missing ELSE missing \cup {member}
    BY <1>2 DEF Answer
  <2>2. /\ member \in 1 .. Len(members) /\ Len(members) \in Nat
        /\ probe = members[member] /\ IsComplete(probe)
        /\ missing = {m \in 1 .. (member - 1) :
              IsComplete(members[m]) /\ ~ Holds(sequences, members[m])}
    <3>1. Len(members) \in Nat
      BY BatchIsSeq, BoundAssumption DEF IndexInv, IndexTypeOK
    <3> QED BY <1>2, <3>1 DEF IndexInv, CallInv
  <2>3. kind # "keyref"
    BY <1>2 DEF IndexInv, PositionsInv
  <2>4. UNCHANGED <<kind, sequences, index, insertion>>
    BY <2>1 DEF vars
  <2>5. PositionsInv' /\ (kind' # "keyref" => LinkedUpTo(Linked)' /\ ClassesCover(Classed)')
    BY <1>2, <2>1, <2>3, <2>4, IndexFrame
  <2>6. missing' = {m \in 1 .. (member' - 1) :
           IsComplete(members[m]) /\ ~ Holds(sequences, members[m])}
    <3>1. ASSUME NEW m
          PROVE  m \in 1 .. (member' - 1) <=> m \in 1 .. (member - 1) \/ m = member
      BY <2>1, <2>2
    <3> QED BY <3>1, <2>1, <2>2
  <2>7. IndexTypeOK'
    BY <2>1, <2>2
       DEF IndexInv, IndexTypeOK, TypeOK, vars, index, insertion, search
  <2>8. CallInv'
    <3>1. member' \in 1 .. (Len(members') + 1)
      BY <2>1, <2>2
    <3>2. sequences' = sequences /\ members' = members
      BY <2>1 DEF vars
    <3> QED BY <2>1, <2>6, <3>1, <3>2 DEF CallInv, Holds
  <2>9. WalkInv'
    BY <2>1 DEF WalkInv, IsSearching
  <2> QED BY <2>1, <2>5, <2>7, <2>8, <2>9 DEF IndexInv
<1> QED BY <1>1, <1>2 DEF IsSearching

LEMMA ContainsInv ==
    ASSUME IndexInv, Scan \/ WalkHit \/ WalkMiss
    PROVE  IndexInv' /\ [Next]_vars
<1>1. CASE Scan
  <2>1. Holds(sequences, probe) \in BOOLEAN
    BY DEF Holds
  <2> QED BY <1>1, <2>1, AnswerInv DEF Scan
<1>2. CASE WalkHit
  <2>1. TRUE = Holds(sequences, probe)
    BY <1>2, ContainsIsRight DEF Holds
  <2>2. IsSearching /\ Answer(TRUE)
    BY <1>2 DEF WalkHit
  <2> QED BY <2>1, <2>2, AnswerInv
<1>3. CASE WalkMiss
  <2>1. FALSE = Holds(sequences, probe)
    BY <1>3, ContainsIsRight DEF Holds
  <2>2. IsSearching /\ Answer(FALSE)
    BY <1>3 DEF WalkMiss
  <2> QED BY <2>1, <2>2, AnswerInv
<1> QED BY <1>1, <1>2, <1>3

LEMMA WalkOnInv ==
    ASSUME IndexInv, WalkOn
    PROVE  IndexInv' /\ UNCHANGED vars
<1>1. pc \in {"duplicate", "member"} /\ pc' = pc /\ kind # "keyref"
  BY DEF WalkOn, IsSearching, IndexInv, PositionsInv
<1>2. UNCHANGED <<vars, index, probe, lookup, insertion>>
  BY DEF WalkOn
<1>3. PositionsInv' /\ (kind' # "keyref" => LinkedUpTo(Linked)' /\ ClassesCover(Classed)')
  <2>1. UNCHANGED <<kind, sequences, index, insertion>>
    BY <1>2 DEF vars
  <2> QED BY <1>1, <2>1, IndexFrame
<1>4. LinkedUpTo(Len(sequences)) /\ ClassesCover(Len(sequences))
  BY <1>1 DEF IndexInv, Linked, Classed
<1>5. WalkInv'
  BY <1>4, WalkOnKeepsWalk DEF IndexInv
<1>6. IndexTypeOK'
  <2>1. at' \in Nat
    <3>1. at \in 1 .. Len(sequences) /\ at' = next[at]
      BY DEF WalkOn, IndexInv, IndexTypeOK, TypeOK, WalkInv, END
    <3>2. DOMAIN next = 1 .. Len(sequences)
      BY <1>4 DEF LinkedUpTo
    <3> QED BY <3>1, <3>2 DEF IndexInv, IndexTypeOK
  <2> QED BY <1>1, <1>2, <2>1
      DEF IndexInv, IndexTypeOK, TypeOK, vars, index, lookup, insertion
<1>7. CallInv'
  BY <1>1, <1>2 DEF IndexInv, CallInv, vars, lookup, IsChecked, Holds
<1> QED BY <1>2, <1>3, <1>5, <1>6, <1>7 DEF IndexInv

(* Going through the keyref members.                                       *)
LEMMA KeyrefInv ==
    ASSUME IndexInv,
           \/ \E ms \in Batch : BeginKeyref(ms)
           \/ SkipIncomplete
           \/ EndKeyref
    PROVE  IndexInv' /\ [Next]_vars
<1>1. CASE \E ms \in Batch : BeginKeyref(ms)
  <2>1. PICK ms \in Batch : BeginKeyref(ms)
    BY <1>1
  <2>2. /\ pc = "idle" /\ pc' = "keyref" /\ kind # "keyref"
        /\ members' = ms /\ member' = 1 /\ missing' = {}
        /\ UNCHANGED <<vars, index, search, insertion>>
    BY <2>1 DEF BeginKeyref
  <2>3. UNCHANGED <<kind, sequences, index, insertion>>
    BY <2>2 DEF vars
  <2>4. PositionsInv' /\ (kind' # "keyref" => LinkedUpTo(Linked)' /\ ClassesCover(Classed)')
    BY <2>2, <2>3, IndexFrame
  <2>5. IndexTypeOK'
    BY <2>2 DEF IndexInv, IndexTypeOK, TypeOK, vars, index, search, insertion
  <2>6. WalkInv'
    BY <2>2 DEF WalkInv, IsSearching
  <2>7. CallInv'
    <3>1. Len(members') \in Nat
      BY <2>2, BatchIsSeq, BoundAssumption
    <3> QED BY <2>2, <3>1 DEF CallInv
  <2> QED BY <2>2, <2>4, <2>5, <2>6, <2>7 DEF IndexInv
<1>2. CASE SkipIncomplete
  <2>1. /\ pc = "keyref" /\ pc' = pc /\ member' = member + 1
        /\ member <= Len(members) /\ ~ IsComplete(members[member])
        /\ UNCHANGED <<vars, index, search, members, missing, insertion>>
    BY <1>2 DEF SkipIncomplete
  <2>2. /\ member \in 1 .. (Len(members) + 1) /\ Len(members) \in Nat
        /\ missing = {m \in 1 .. (member - 1) :
              IsComplete(members[m]) /\ ~ Holds(sequences, members[m])}
    <3>1. Len(members) \in Nat
      BY BatchIsSeq, BoundAssumption DEF IndexInv, IndexTypeOK
    <3> QED BY <2>1, <3>1 DEF IndexInv, CallInv
  <2>3. UNCHANGED <<kind, sequences, index, insertion>>
    BY <2>1 DEF vars
  <2>4. PositionsInv' /\ (kind' # "keyref" => LinkedUpTo(Linked)' /\ ClassesCover(Classed)')
    BY <2>1, <2>3, IndexFrame DEF IndexInv, PositionsInv
  <2>5. IndexTypeOK'
    BY <2>1, <2>2
       DEF IndexInv, IndexTypeOK, TypeOK, vars, index, search, insertion
  <2>6. WalkInv'
    BY <2>1 DEF WalkInv, IsSearching
  <2>7. missing' = {m \in 1 .. (member' - 1) :
           IsComplete(members[m]) /\ ~ Holds(sequences, members[m])}
    <3>1. ASSUME NEW m
          PROVE  m \in 1 .. (member' - 1) <=> m \in 1 .. (member - 1) \/ m = member
      BY <2>1, <2>2
    <3> QED BY <3>1, <2>1, <2>2
  <2>8. CallInv'
    <3>1. member' \in 1 .. (Len(members') + 1)
      BY <2>1, <2>2
    <3>2. sequences' = sequences /\ members' = members
      BY <2>1 DEF vars
    <3> QED BY <2>1, <2>7, <3>1, <3>2 DEF CallInv, Holds
  <2> QED BY <2>1, <2>4, <2>5, <2>6, <2>8 DEF IndexInv
<1>3. CASE EndKeyref
  <2>1. /\ pc = "keyref" /\ pc' = "idle" /\ member > Len(members)
        /\ unmatched' = missing
        /\ members' = <<>> /\ member' = 1 /\ missing' = {}
        /\ probe' = NoProbe /\ at' = END
        /\ UNCHANGED <<kind, sequences, errors, index, insertion>>
    BY <1>3 DEF EndKeyref, Forget
  <2>2. kind # "keyref"
    BY <2>1 DEF IndexInv, PositionsInv
  <2>3. PositionsInv' /\ (kind' # "keyref" => LinkedUpTo(Linked)' /\ ClassesCover(Classed)')
    BY <2>1, <2>2, IndexFrame
  <2>4. members \in Batch /\ Len(members) \in 0 .. MaxBatch
    BY BatchIsSeq DEF IndexInv, IndexTypeOK
  <2>5. unmatched' = Unmatched(sequences, members)
    <3>1. member = Len(members) + 1
      BY <2>1, <2>4, BoundAssumption DEF IndexInv, CallInv
    <3>2. 1 .. (member - 1) = 1 .. Len(members)
      BY <3>1, <2>4, BoundAssumption
    <3> QED BY <2>1, <3>2 DEF IndexInv, CallInv, Unmatched
  <2>6. CheckKeyref(members)
    BY <2>1, <2>2, <2>5 DEF CheckKeyref
  <2>7. IndexTypeOK'
    <3>1. <<>> \in Batch
      <4>1. <<>> \in [1 .. 0 -> KeySequence] /\ 0 \in 0 .. MaxBatch
        BY BoundAssumption
      <4> QED BY <4>1 DEF Batch
    <3>2. NoProbe \in KeySequence
      BY DEF NoProbe, KeySequence
    <3>3. unmatched' \subseteq 1 .. MaxBatch
      BY <2>4, <2>5, BoundAssumption DEF Unmatched
    <3> QED BY <2>1, <3>1, <3>2, <3>3
        DEF IndexInv, IndexTypeOK, TypeOK, index, insertion, END
  <2>8. WalkInv' /\ CallInv'
    BY <2>1 DEF WalkInv, CallInv, IsSearching
  <2> QED BY <2>3, <2>4, <2>6, <2>7, <2>8 DEF IndexInv, Next
<1> QED BY <1>1, <1>2, <1>3

(* insert() of the next sequence begins: either no hash changes, or the    *)
(* index is empty and everything is linked again.                          *)
LEMMA MergeInv ==
    ASSUME IndexInv, Merge
    PROVE  IndexInv' /\ UNCHANGED vars
<1> DEFINE s == sequences[position]
<1>1. /\ pc = "insert" /\ pc' = "link" /\ position <= Len(sequences)
      /\ classes' = MergedClasses(s)
      /\ UNCHANGED <<vars, search, lookup, position>>
  BY DEF Merge
<1>2. /\ kind # "keyref" /\ position \in 1 .. Len(sequences)
      /\ Len(sequences) \in Nat
      /\ s \in KeySequence
      /\ classes \in [Field -> FieldClass]
      /\ LinkedUpTo(position - 1) /\ ClassesCover(position - 1)
      /\ IndexTypeOK
  BY <1>1 DEF IndexInv, IndexTypeOK, TypeOK, PositionsInv, Linked, Classed
<1>3. classes' \in [Field -> FieldClass]
  <2>1. ASSUME NEW i \in Field
        PROVE  MergedClasses(s)[i] \in FieldClass
    <3>1. FieldClassOf(s, i) \in FieldClass
      BY <1>2, ClassOfIsAClass DEF FieldClassOf, FieldClass, KeySequence
    <3> QED BY <1>2, <3>1 DEF MergedClasses, Merged, FieldClass
  <2> QED BY <1>1, <2>1 DEF MergedClasses
<1>4. UNCHANGED <<kind, sequences, position>>
  BY <1>1 DEF vars
<1>5. /\ cursor' \in 1 .. position
      /\ heads' \in [HashCode -> Nat]
      /\ next' \in [DOMAIN next' -> Nat]
  <2>1. CASE BecameMixed(s)
    BY <1>2, <2>1 DEF Merge, END
  <2>2. CASE ~ BecameMixed(s)
    <3>1. cursor' = position /\ heads' = heads /\ next' = next
      BY <2>2 DEF Merge
    <3> QED BY <1>2, <3>1 DEF IndexTypeOK
  <2> QED BY <2>1, <2>2
<1>6. PositionsInv'
  BY <1>1, <1>2, <1>4, <1>5 DEF PositionsInv
<1>7. Linked' = cursor' - 1 /\ Classed' = position
  BY <1>1 DEF Linked, Classed
<1>8. ClassesCover(Classed)'
  BY <1>1, <1>2, <1>4, <1>7, MergeCovers
<1>9. LinkedUpTo(Linked)'
  <2>1. CASE BecameMixed(s)
    <3>1. /\ cursor' = 1 /\ next' = [p \in {} |-> END]
          /\ heads' = [h \in HashCode |-> END]
      BY <2>1 DEF Merge
    <3>2. Linked' = 0
      BY <1>7, <3>1
    <3> QED BY <3>1, <3>2 DEF LinkedUpTo, END
  <2>2. CASE ~ BecameMixed(s)
    <3>1. cursor' = position /\ UNCHANGED <<heads, next>>
      BY <2>2 DEF Merge
    <3>2. ASSUME NEW q \in 1 .. (position - 1)
          PROVE  HashUnder(classes', sequences'[q])
                     = HashUnder(classes, sequences[q])
      <4>1. sequences[q] \in KeySequence
        BY <1>2 DEF IndexTypeOK, TypeOK
      <4> QED BY <1>1, <1>2, <1>4, <2>2, <4>1, MergeKeepsHash
    <3>3. position - 1 \in Nat /\ Linked' = position - 1
      BY <1>2, <1>7, <3>1
    <3> QED BY <1>2, <3>1, <3>2, <3>3, ChainsKept
  <2> QED BY <2>1, <2>2
<1>10. IndexTypeOK'
  BY <1>1, <1>2, <1>3, <1>5
     DEF IndexTypeOK, TypeOK, vars, search, lookup
<1>11. WalkInv' /\ CallInv'
  BY <1>1 DEF WalkInv, CallInv, IsSearching
<1> QED BY <1>1, <1>6, <1>8, <1>9, <1>10, <1>11 DEF IndexInv

LEMMA LinkInv ==
    ASSUME IndexInv, Link
    PROVE  IndexInv' /\ UNCHANGED vars
<1>1. /\ pc = "link" /\ cursor' = cursor + 1
      /\ UNCHANGED <<vars, classes, search, lookup>>
      /\ IF cursor < position
         THEN UNCHANGED <<pc, position>>
         ELSE pc' = "insert" /\ position' = position + 1
  BY DEF Link
<1>2. /\ kind # "keyref"
      /\ position \in 1 .. Len(sequences) /\ cursor \in 1 .. position
      /\ Len(sequences) \in Nat
      /\ LinkedUpTo(cursor - 1) /\ ClassesCover(position)
      /\ IndexTypeOK
  BY <1>1 DEF IndexInv, IndexTypeOK, TypeOK, PositionsInv, Linked, Classed
<1>3. UNCHANGED <<kind, sequences>>
  BY <1>1 DEF vars
<1>4. PositionsInv'
  BY <1>1, <1>2, <1>3 DEF PositionsInv
<1>5. Linked' = cursor /\ Classed' = position
  BY <1>1, <1>2 DEF Linked, Classed
<1>6. LinkedUpTo(Linked)'
  <2>1. cursor \in 1 .. Len(sequences)
    BY <1>2
  <2> QED BY <1>2, <1>5, <2>1, LinkExtends
<1>7. ClassesCover(Classed)'
  <2>1. position \in Nat /\ classes' = classes
        /\ \A q \in 1 .. position : sequences'[q] = sequences[q]
    BY <1>1, <1>2, <1>3
  <2> QED BY <1>2, <1>5, <2>1, ClassesFrame
<1>8. IndexTypeOK'
  <2>1. /\ heads' \in [HashCode -> Nat]
        /\ next' \in [DOMAIN next' -> Nat]
    <3> DEFINE h == HashUnder(classes, sequences[cursor])
    <3>1. sequences[cursor] \in KeySequence /\ classes \in [Field -> FieldClass]
      BY <1>2 DEF IndexTypeOK, TypeOK
    <3>2. h \in HashCode
      BY <3>1, HashAssumption
    <3>3. /\ heads' = [heads EXCEPT ![h] = cursor]
          /\ next' = [p \in DOMAIN next \cup {cursor} |->
                         IF p = cursor THEN heads[h] ELSE next[p]]
      BY DEF Link
    <3> QED BY <1>2, <3>2, <3>3 DEF IndexTypeOK
  <2>2. cursor' \in Nat \ {0} /\ position' \in Nat \ {0}
    BY <1>1, <1>2
  <2> QED BY <1>1, <1>2, <2>1, <2>2 DEF IndexTypeOK, TypeOK, vars, search, lookup
<1>9. WalkInv' /\ CallInv'
  BY <1>1 DEF WalkInv, CallInv, IsSearching
<1> QED BY <1>1, <1>4, <1>6, <1>7, <1>8, <1>9 DEF IndexInv

LEMMA EndInsertInv ==
    ASSUME IndexInv, EndInsert
    PROVE  IndexInv' /\ UNCHANGED vars
<1>1. /\ pc = "insert" /\ pc' = "idle" /\ position > Len(sequences)
      /\ probe' = NoProbe /\ at' = END
      /\ UNCHANGED <<vars, index, lookup, insertion>>
  BY DEF EndInsert, Forget
<1>2. /\ kind # "keyref" /\ Len(sequences) \in Nat
      /\ position = Len(sequences) + 1
      /\ LinkedUpTo(position - 1) /\ ClassesCover(position - 1)
  BY <1>1 DEF IndexInv, IndexTypeOK, TypeOK, PositionsInv, Linked, Classed
<1>3. UNCHANGED <<kind, sequences>>
  BY <1>1 DEF vars
<1>4. PositionsInv'
  BY <1>1, <1>2, <1>3 DEF PositionsInv, insertion
<1>5. LinkedUpTo(Linked)' /\ ClassesCover(Classed)'
  <2> DEFINE n == Len(sequences)
  <2>1. LinkedUpTo(n) /\ ClassesCover(n) /\ n \in Nat
    BY <1>2
  <2>2. UNCHANGED index /\ UNCHANGED classes
    BY <1>1 DEF index
  <2>3. Linked' = n /\ Classed' = n
    BY <1>1, <1>3 DEF Linked, Classed
  <2>4. \A q \in 1 .. n : sequences'[q] = sequences[q]
    BY <1>3
  <2> QED BY <2>1, <2>2, <2>3, <2>4, ChainsFrame, ClassesFrame
<1>6. IndexTypeOK'
  <2>1. NoProbe \in KeySequence
    BY DEF NoProbe, KeySequence
  <2> QED BY <1>1, <2>1
      DEF IndexInv, IndexTypeOK, TypeOK, vars, index, lookup, insertion, END
<1>7. WalkInv' /\ CallInv'
  BY <1>1 DEF WalkInv, CallInv, IsSearching
<1> QED BY <1>1, <1>4, <1>5, <1>6, <1>7 DEF IndexInv

LEMMA AddUncheckedInv ==
    ASSUME IndexInv, NEW s \in KeySequence, AddUnchecked(s)
    PROVE  IndexInv' /\ [Next]_vars
<1>1. pc = "idle" /\ Push(s, FALSE) /\ UNCHANGED search
  BY DEF AddUnchecked
<1>2. IndexInv'
  BY <1>1, PushInv
<1>3. AddSequence(s)
  BY DEF AddUnchecked, Push, AddSequence, AddErrors
<1> QED BY <1>2, <1>3 DEF Next

-----------------------------------------------------------------------------
(* The theorems.                                                           *)

(* Every step keeps the invariant and is a step of KeyTable or changes     *)
(* nothing that KeyTable shows.                                            *)
LEMMA StepInv ==
    IndexInv /\ [IndexNext]_indexVars => IndexInv' /\ [Next]_vars
<1> SUFFICES ASSUME IndexInv, [IndexNext]_indexVars
             PROVE  IndexInv' /\ [Next]_vars
  OBVIOUS
<1>1. ASSUME NEW s \in KeySequence, AddUnchecked(s)
      PROVE  IndexInv' /\ [Next]_vars
  BY <1>1, AddUncheckedInv
<1>2. ASSUME NEW s \in KeySequence, AddChecked(s)
      PROVE  IndexInv' /\ [Next]_vars
  <2>1. UNCHANGED vars
    BY <1>2 DEF AddChecked
  <2> QED BY <1>2, <2>1, SeekInv
<1>3. ASSUME NEW other \in Batch, AppendOther(other)
      PROVE  IndexInv' /\ [Next]_vars
  <2>1. AppendTable(other)
    BY <1>3 DEF AppendOther, AppendTable
  <2> QED BY <1>3, <2>1, AppendOtherInv DEF Next
<1>4. ASSUME NEW ms \in Batch, BeginKeyref(ms)
      PROVE  IndexInv' /\ [Next]_vars
  BY <1>4, KeyrefInv
<1>5. CASE SkipIncomplete \/ EndKeyref
  BY <1>5, KeyrefInv
<1>6. CASE LookUpMember
  <2>1. UNCHANGED vars
    BY <1>6 DEF LookUpMember
  <2> QED BY <1>6, <2>1, SeekInv
<1>7. CASE Scan \/ WalkHit \/ WalkMiss
  BY <1>7, ContainsInv
<1>8. CASE WalkOn
  BY <1>8, WalkOnInv
<1>9. CASE Merge
  BY <1>9, MergeInv
<1>10. CASE Link
  BY <1>10, LinkInv
<1>11. CASE EndInsert
  BY <1>11, EndInsertInv
<1>12. CASE UNCHANGED indexVars
  <2>1. UNCHANGED <<vars, index, pc, search, lookup, insertion>>
    BY <1>12 DEF indexVars
  <2> QED BY <2>1
      DEF IndexInv, IndexTypeOK, TypeOK, PositionsInv, LinkedUpTo, ClassesCover,
          WalkInv, CallInv, Linked, Classed, IsSearching, IsChecked, Holds,
          Comparable, vars, index, search, lookup, insertion
<1> QED
  BY <1>1, <1>2, <1>3, <1>4, <1>5, <1>6, <1>7, <1>8, <1>9, <1>10, <1>11, <1>12
     DEF IndexNext, Call, Step

(* The index is well formed whenever control is in one of its loops.       *)
THEOREM IndexInvariant == IndexSpec => []IndexInv
<1>1. IndexInv /\ [IndexNext]_indexVars => IndexInv'
  BY StepInv
<1> QED BY <1>1, InitInv, PTL DEF IndexSpec

(* The variables of the table and of its index keep their types.           *)
THEOREM IndexTypeCorrect == IndexSpec => []IndexTypeOK
<1>1. IndexInv => IndexTypeOK
  BY DEF IndexInv
<1> QED BY <1>1, IndexInvariant, PTL

(* Between calls the chain of every hash visits all its sequences, so a    *)
(* walk that finds nothing has missed nothing.                             *)
THEOREM ChainsAlwaysComplete == IndexSpec => []ChainsComplete
<1>1. IndexInv => ChainsComplete
  BY DEF IndexInv, ChainsComplete, Linked
<1> QED BY <1>1, IndexInvariant, PTL

(* A comparable probe has the hash of every stored sequence equal to it,   *)
(* whatever classes of values the table has seen.                          *)
THEOREM EqualAlwaysSharesHash == IndexSpec => []EqualSharesHash
<1>1. ASSUME IndexInv PROVE EqualSharesHash
  <2> SUFFICES ASSUME pc = "idle", kind # "keyref",
                      NEW s \in KeySequence, NEW p \in 1 .. Len(sequences),
                      Comparable(s), SequenceEqual(sequences[p], s)
               PROVE  HashUnder(classes, s) = HashUnder(classes, sequences[p])
    BY DEF EqualSharesHash
  <2>1. /\ IndexTypeOK /\ ClassesCover(Len(sequences))
        /\ Len(sequences) \in 0 .. Len(sequences)
    BY <1>1 DEF IndexInv, Classed, IndexTypeOK, TypeOK
  <2> QED BY <2>1, EqualInChain
<1> QED BY <1>1, IndexInvariant, PTL

(* IndexedKeyTable implements KeyTable: for every constraint kind, number  *)
(* of fields, hash function and sequence of calls, its duplicate and       *)
(* keyref verdicts are those of the linear scan ("Verdicts and error order *)
(* are those of KeyTable").                                                *)
THEOREM IndexImplementsTable == IndexSpec => Spec
<1>1. IndexInit => Init
  BY DEF IndexInit
<1>2. IndexInv /\ [IndexNext]_indexVars => [Next]_vars
  BY StepInv
<1> QED BY <1>1, <1>2, IndexInvariant, PTL DEF IndexSpec, Spec
=============================================================================
