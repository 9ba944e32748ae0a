------------------------------ MODULE CacheProofs ------------------------------
(***************************************************************************)
(* Proofs that the caches are invisible.  PatternCache implements          *)
(* UncachedAnswers, for any threads, keys, facets and lines, any hash, and *)
(* clears at any time; whatever is overwritten, cleared, dropped with a    *)
(* run or lent to a nested one, a call to RegexTable gets what compiling   *)
(* its own key gives; and FacetCache implements UncachedAnswers, too, for  *)
(* any readers, types and edits.                                           *)
(***************************************************************************)
EXTENDS PatternCache, FacetCache, RegexTable, WellFoundedInduction, TLAPS

-----------------------------------------------------------------------------
(* The inductive invariant: a line holds a key with that key's own program *)
(* or nothing, a thread has a facet exactly while it is in compile(), and  *)
(* what it is about to store has compiled.                                 *)
PatternInv ==
    /\ line \in [Line -> {EmptyLine} \cup {Stored(k) : k \in PatternKey \ Invalid}]
    /\ compiling \in [Thread -> Facet \cup {NoFacet}]
    /\ step \in [Thread -> {"idle", "probe", "compile", "store"}]
    /\ returned = [t \in Thread |-> returned[t]]
    /\ \A t \in Thread : step[t] = "idle" <=> compiling[t] = NoFacet
    /\ \A t \in Thread : step[t] = "store" => KeyOf[compiling[t]] \notin Invalid

LEMMA PatternInitInv == PatternInit => PatternInv
BY DEF PatternInit, PatternInv

(* A thread that has a facet has a key, and that key a line.               *)
LEMMA KeyAtHand ==
    ASSUME PatternInv, NEW t \in Thread, step[t] # "idle"
    PROVE  /\ compiling[t] \in Facet
           /\ KeyOf[compiling[t]] \in PatternKey
           /\ LineOf[KeyOf[compiling[t]]] \in Line
BY PatternCacheAssumption DEF PatternInv

(* What a hit gives is the program of the very key.                        *)
LEMMA HitGivesOwnProgram ==
    ASSUME PatternInv, NEW k \in PatternKey, LineOf[k] \in Line, Resident(k)
    PROVE  line[LineOf[k]].program = ProgramOf(k)
<1>1. line[LineOf[k]] \in {EmptyLine} \cup {Stored(j) : j \in PatternKey \ Invalid}
  BY DEF PatternInv
<1>2. line[LineOf[k]] # EmptyLine
  BY PatternCacheAssumption DEF Resident, EmptyLine
<1>3. PICK j \in PatternKey \ Invalid : line[LineOf[k]] = Stored(j)
  BY <1>1, <1>2
<1>4. j = k
  BY <1>3 DEF Resident, Stored
<1> QED BY <1>3, <1>4 DEF Stored

-----------------------------------------------------------------------------
(* A call that ends gives what compiling the facet's own key gives.        *)
Ends(t, program) ==
    /\ step[t] # "idle" /\ Finish(t, program)
    /\ program = ProgramOf(KeyOf[compiling[t]])

LEMMA CallsEndRight ==
    ASSUME PatternInv, NEW t \in Thread,
           Hit(t) \/ CompileFails(t) \/ Store(t)
    PROVE  \E program : Ends(t, program)
<1>1. CASE Hit(t)
  <2>1. step[t] # "idle" /\ Resident(KeyOf[compiling[t]])
    BY <1>1 DEF Hit
  <2>2. line[LineOf[KeyOf[compiling[t]]]].program = ProgramOf(KeyOf[compiling[t]])
    BY <2>1, KeyAtHand, HitGivesOwnProgram
  <2> QED BY <1>1, <2>1, <2>2 DEF Hit, Ends
<1>2. CASE CompileFails(t)
  BY <1>2 DEF CompileFails, Ends
<1>3. CASE Store(t)
  BY <1>3 DEF Store, Ends
<1> QED BY <1>1, <1>2, <1>3

(* Two things a step does to the invariant: the lines, and the threads.    *)
LinesInv ==
    line \in [Line -> {EmptyLine} \cup {Stored(k) : k \in PatternKey \ Invalid}]
ThreadsInv ==
    /\ compiling \in [Thread -> Facet \cup {NoFacet}]
    /\ step \in [Thread -> {"idle", "probe", "compile", "store"}]
    /\ returned = [t \in Thread |-> returned[t]]
    /\ \A t \in Thread : step[t] = "idle" <=> compiling[t] = NoFacet
    /\ \A t \in Thread : step[t] = "store" => KeyOf[compiling[t]] \notin Invalid

LEMMA InvSplit == PatternInv <=> LinesInv /\ ThreadsInv
BY DEF PatternInv, LinesInv, ThreadsInv

LEMMA FinishKeepsThreads ==
    ASSUME ThreadsInv, NEW t \in Thread, NEW program, Finish(t, program)
    PROVE  ThreadsInv'
BY PatternCacheAssumption DEF ThreadsInv, Finish

LEMMA LinesStay ==
    ASSUME PatternInv, [PatternNext]_patternVars
    PROVE  LinesInv'
<1>1. CASE UNCHANGED line
  BY <1>1 DEF PatternInv, LinesInv
<1>2. CASE ClearPatterns
  BY <1>2 DEF ClearPatterns, LinesInv
<1>3. ASSUME NEW t \in Thread, Store(t)
      PROVE  LinesInv'
  <2>1. KeyOf[compiling[t]] \in PatternKey \ Invalid
    BY <1>3, KeyAtHand DEF Store, PatternInv
  <2> QED BY <1>3, <2>1 DEF Store, PatternInv, LinesInv
<1>4. ASSUME NEW t \in Thread, BeginCompile(t) \/ CompileStep(t), ~ Store(t)
      PROVE  UNCHANGED line
  BY <1>4 DEF BeginCompile, CompileStep, Hit, Miss, CompileFails, CompileSucceeds
<1> QED BY <1>1, <1>2, <1>3, <1>4 DEF PatternNext, CompileStep, patternVars

LEMMA ThreadsStay ==
    ASSUME PatternInv, [PatternNext]_patternVars
    PROVE  ThreadsInv'
<1>1. ThreadsInv
  BY InvSplit
<1>2. CASE UNCHANGED <<compiling, step, returned>>
  BY <1>1, <1>2 DEF ThreadsInv
<1>3. ASSUME NEW t \in Thread, BeginCompile(t)
      PROVE  ThreadsInv'
  BY <1>1, <1>3, PatternCacheAssumption DEF BeginCompile, ThreadsInv
<1>4. ASSUME NEW t \in Thread, Hit(t) \/ CompileFails(t) \/ Store(t)
      PROVE  ThreadsInv'
  BY <1>1, <1>4, CallsEndRight, FinishKeepsThreads DEF Ends
<1>5. ASSUME NEW t \in Thread, Miss(t)
      PROVE  ThreadsInv'
  BY <1>1, <1>5 DEF Miss, ThreadsInv
<1>6. ASSUME NEW t \in Thread, CompileSucceeds(t)
      PROVE  ThreadsInv'
  BY <1>1, <1>6 DEF CompileSucceeds, Compiles, ProgramOf, ThreadsInv
<1> QED BY <1>2, <1>3, <1>4, <1>5, <1>6
        DEF PatternNext, CompileStep, ClearPatterns, patternVars

LEMMA PatternStepInv ==
    PatternInv /\ [PatternNext]_patternVars => PatternInv'
<1> SUFFICES ASSUME PatternInv, [PatternNext]_patternVars PROVE PatternInv'
  OBVIOUS
<1>1. LinesInv' /\ ThreadsInv'
  BY LinesStay, ThreadsStay
<1> QED BY <1>1 DEF PatternInv, LinesInv, ThreadsInv

(* The invariant holds throughout.                                         *)
THEOREM PatternInvariant == PatternSpec => []PatternInv
BY PatternInitInv, PatternStepInv, PTL DEF PatternSpec

-----------------------------------------------------------------------------
(* Each step is one of the abstract specification: beginning asks, the end *)
(* of a call answers, and the rest is invisible.                           *)
LEMMA PatternStepImplements ==
    ASSUME PatternInv, [PatternNext]_patternVars
    PROVE  [UncachedPatterns!UncachedNext]_<<Line, compiling, returned>>
<1>1. CASE UNCHANGED <<compiling, returned>>
  BY <1>1
<1>2. ASSUME NEW t \in Thread, BeginCompile(t)
      PROVE  UncachedPatterns!Ask(t)
  BY <1>2 DEF BeginCompile, PatternInv, UncachedPatterns!Ask
<1>3. ASSUME NEW t \in Thread, Hit(t) \/ CompileFails(t) \/ Store(t)
      PROVE  UncachedPatterns!Answer(t)
  <2>1. PICK program : Ends(t, program)
    BY <1>3, CallsEndRight
  <2>2. compiling[t] # NoFacet
    BY <2>1 DEF Ends, PatternInv
  <2>3. program = FacetResult(Line, compiling[t])
    BY <2>1 DEF Ends, FacetResult
  <2> QED BY <2>1, <2>2, <2>3 DEF Ends, Finish, UncachedPatterns!Answer
<1>4. ASSUME NEW t \in Thread, Miss(t) \/ CompileSucceeds(t)
      PROVE  UNCHANGED <<compiling, returned>>
  BY <1>4 DEF Miss, CompileSucceeds
<1> QED BY <1>1, <1>2, <1>3, <1>4
        DEF PatternNext, CompileStep, ClearPatterns, patternVars,
            UncachedPatterns!UncachedNext

(* Nobody can tell that the table is there: each call answers with what    *)
(* compiling the facet's own key gives (facets.rs, "Verified hits").       *)
THEOREM PatternCacheInvisible == PatternSpec => CacheInvisible
<1>1. PatternInit => UncachedPatterns!NobodyAsks
  BY DEF PatternInit, UncachedPatterns!NobodyAsks
<1> QED BY <1>1, PatternInvariant, PatternStepImplements, PTL
        DEF PatternSpec, CacheInvisible, UncachedPatterns!UncachedSpec,
            UncachedPatterns!answerVars

-----------------------------------------------------------------------------
(* An entry carries its own key's program, and a table has a place at      *)
(* least: the invariant of every table there is.                           *)
KeyedEntry == {e \in [key : RegexKey, compiled : RegexKey \cup {RegexError}, used : Nat] :
             e.compiled = CompileRegex(e.key)}
Table == [entries : Seq(KeyedEntry), capacity : Nat \ {0}, clock : Nat]
RegexInv ==
    /\ host \in Table
    /\ runs \in Seq([lent : BOOLEAN, own : Table])
    /\ AnswersExact

LEMMA EmptyTableIsTable ==
    ASSUME NEW capacity \in Nat
    PROVE  EmptyTable(capacity) \in Table
<1>1. <<>> \in Seq(KeyedEntry)
  OBVIOUS
<1> QED BY <1>1 DEF EmptyTable, Table

(* A sequence with one element replaced.                                   *)
LEMMA ReplacedInSeq ==
    ASSUME NEW S, NEW q \in Seq(S), NEW i \in DOMAIN q, NEW x \in S
    PROVE  LET r == [q EXCEPT ![i] = x]
           IN r \in Seq(S) /\ Len(r) = Len(q) /\ DOMAIN r = DOMAIN q /\ r[i] = x
OBVIOUS

LEMMA LastInSeq ==
    ASSUME NEW S, NEW q \in Seq(S), q # <<>>
    PROVE  Last(q) = q[Len(q)] /\ Last(q) \in S /\ Len(q) \in DOMAIN q
BY DEF Last

(* A table with other entries, its clock as it is or another.              *)
LEMMA TableWithEntries ==
    ASSUME NEW E, NEW C, NEW s \in E, NEW n \in Nat,
           NEW table \in [entries : E, capacity : C, clock : Nat]
    PROVE  /\ [table EXCEPT !.entries = s]
                 \in [entries : E, capacity : C, clock : Nat]
           /\ [table EXCEPT !.entries = s, !.clock = n]
                 \in [entries : E, capacity : C, clock : Nat]
OBVIOUS

(* Numbers have a least one among them.                                    *)
LEMMA LeastNatural ==
    ASSUME NEW S, S \subseteq Nat, S # {}
    PROVE  \E n \in S : \A m \in S : n <= m
<1> DEFINE R == OpToRel(<, Nat)
<1>1. \A m, n \in Nat : m < n => <<m, n>> \in R
  BY DEF OpToRel
<1>2. IsWellFoundedOn(R, Nat)
  BY NatLessThanWellFounded
<1> HIDE DEF R
<1>3. PICK n \in S : \A m \in S : ~(<<m, n>> \in R)
  BY <1>2, WFMin
<1>4. ASSUME NEW m \in S PROVE n <= m
  <2>1. m \in Nat /\ n \in Nat /\ ~(m < n)
    BY <1>1, <1>3
  <2> QED BY <2>1
<1> QED BY <1>4

(* A table that has entries has a least recently used one.                 *)
LEMMA VictimIsSlot ==
    ASSUME NEW table \in Table, table.entries # <<>>
    PROVE  Victim(table) \in Slots(table)
<1> DEFINE es == table.entries
           Used == {n \in Nat : \E i \in 1 .. Len(es) : es[i].used = n}
<1>1. /\ es \in Seq(KeyedEntry) /\ Len(es) \in Nat \ {0} /\ Slots(table) = 1 .. Len(es)
      /\ \A i \in 1 .. Len(es) : es[i].used \in Nat
  <2>1. es \in Seq(KeyedEntry)
    BY DEF Table
  <2>2. \A i \in 1 .. Len(es) : es[i] \in KeyedEntry
    BY <2>1
  <2> QED BY <2>1, <2>2 DEF KeyedEntry, Slots
<1>2. PICK n \in Used : \A m \in Used : n <= m
  <2>1. Used \subseteq Nat /\ es[1].used \in Used
    BY <1>1
  <2> QED BY <2>1, LeastNatural
<1> DEFINE Oldest == {i \in Nat : i \in 1 .. Len(es) /\ es[i].used = n}
<1>3. PICK i \in Oldest : \A j \in Oldest : i <= j
  <2>1. Oldest \subseteq Nat /\ Oldest # {}
    BY <1>2
  <2> QED BY <2>1, LeastNatural
<1>4. i \in Slots(table) /\ n \in Nat /\ es[i].used = n
  BY <1>1, <1>2, <1>3
<1>5. ASSUME NEW j \in Slots(table)
      PROVE  es[i].used < es[j].used \/ (es[i].used = es[j].used /\ i <= j)
  <2>1. j \in 1 .. Len(es) /\ es[j].used \in Nat /\ es[j].used \in Used
    BY <1>1, <1>5
  <2>2. n <= es[j].used
    BY <1>2, <2>1
  <2>3. es[j].used = n => i <= j
    BY <1>3, <2>1
  <2> QED BY <1>4, <2>1, <2>2, <2>3
<1> QED BY <1>4, <1>5 DEF Victim

(* The entry that answers a key has the key's program.                     *)
LEMMA ResidentIsExact ==
    ASSUME NEW table \in Table, NEW k, SlotOf(table, k) # {}
    PROVE  Compiled(table, k) = CompileRegex(k)
<1> DEFINE i == CHOOSE i \in SlotOf(table, k) : TRUE
<1>1. i \in SlotOf(table, k)
  OBVIOUS
<1>2. table.entries[i].key = k /\ table.entries[i] \in KeyedEntry
  BY <1>1 DEF SlotOf, Slots, Table
<1>3. table.entries[i].compiled = CompileRegex(table.entries[i].key)
  BY <1>2 DEF KeyedEntry
<1>4. Compiled(table, k) = table.entries[i].compiled
  BY DEF Compiled
<1> HIDE DEF i
<1> QED BY <1>2, <1>3, <1>4

(* A lookup leaves a table in which the key is resident: a hit changes a   *)
(* number, a miss appends or overwrites.                                   *)
LEMMA LookupKeeps ==
    ASSUME NEW table \in Table, NEW k \in RegexKey
    PROVE  Lookup(table, k) \in Table /\ SlotOf(Lookup(table, k), k) # {}
<1> DEFINE es == table.entries
           new == Lookup(table, k)
           e == RegexEntry(table, k)
<1>1. es \in Seq(KeyedEntry) /\ table.capacity \in Nat \ {0} /\ table.clock \in Nat
  BY DEF Table
<1>2. e \in KeyedEntry /\ e.key = k
  BY <1>1 DEF RegexEntry, KeyedEntry, CompileRegex
<1>3. ASSUME NEW s \in Seq(KeyedEntry)
      PROVE  [table EXCEPT !.entries = s, !.clock = @ + 1] \in Table
  <2>1. table.clock + 1 \in Nat
    BY <1>1
  <2> QED BY <2>1, TableWithEntries DEF Table
<1>4. CASE SlotOf(table, k) # {}
  <2> DEFINE i == CHOOSE i \in SlotOf(table, k) : TRUE
             s == [es EXCEPT ![i].used = table.clock]
  <2>1. i \in DOMAIN es /\ es[i] \in KeyedEntry /\ es[i].key = k
    BY <1>1, <1>4 DEF SlotOf, Slots
  <2>2. [es[i] EXCEPT !.used = table.clock] \in KeyedEntry
    BY <1>1, <2>1 DEF KeyedEntry
  <2>3. s \in Seq(KeyedEntry) /\ i \in DOMAIN s /\ s[i].key = k
    <3>1. s = [es EXCEPT ![i] = [es[i] EXCEPT !.used = table.clock]]
      BY <2>1
    <3>2. s[i] = [es[i] EXCEPT !.used = table.clock]
      BY <1>1, <2>1, <2>2, <3>1, ReplacedInSeq
    <3> QED BY <1>1, <2>1, <2>2, <3>1, <3>2, ReplacedInSeq DEF KeyedEntry
  <2>4. new = [table EXCEPT !.entries = s, !.clock = @ + 1]
    BY <1>4 DEF Lookup
  <2>5. new.entries = s
    BY <2>4 DEF Table
  <2> QED BY <1>3, <2>3, <2>4, <2>5 DEF SlotOf, Slots
<1>5. CASE SlotOf(table, k) = {} /\ HasRoom(table)
  <2> DEFINE s == Append(es, e)
  <2>1. s \in Seq(KeyedEntry) /\ Len(es) + 1 \in DOMAIN s /\ s[Len(es) + 1] = e
    BY <1>1, <1>2
  <2>2. new = [table EXCEPT !.entries = s, !.clock = @ + 1]
    BY <1>5 DEF Lookup
  <2>3. new.entries = s
    BY <2>2 DEF Table
  <2> QED BY <1>2, <1>3, <2>1, <2>2, <2>3 DEF SlotOf, Slots
<1>6. CASE SlotOf(table, k) = {} /\ ~HasRoom(table)
  <2> DEFINE v == Victim(table)
             s == [es EXCEPT ![v] = e]
  <2>1. es # <<>>
    BY <1>1, <1>6 DEF HasRoom
  <2>2. v \in DOMAIN es
    BY <2>1, VictimIsSlot DEF Slots
  <2>3. s \in Seq(KeyedEntry) /\ v \in DOMAIN s /\ s[v] = e
    BY <1>1, <1>2, <2>2, ReplacedInSeq
  <2>4. new = [table EXCEPT !.entries = s, !.clock = @ + 1]
    BY <1>6 DEF Lookup, Overwriting
  <2>5. new.entries = s
    BY <2>4 DEF Table
  <2> QED BY <1>2, <1>3, <2>3, <2>4, <2>5 DEF SlotOf, Slots
<1> QED BY <1>4, <1>5, <1>6

-----------------------------------------------------------------------------
LEMMA RegexInitInv == RegexInit => RegexInv
<1> SUFFICES ASSUME RegexInit PROVE RegexInv
  OBVIOUS
<1>1. host \in Table
  BY EmptyTableIsTable, RegexTableAssumption DEF RegexInit
<1>2. runs \in Seq([lent : BOOLEAN, own : Table])
  BY DEF RegexInit
<1> QED BY <1>1, <1>2 DEF RegexInit, RegexInv, AnswersExact

LEMMA RegexStepInv == RegexInv /\ [RegexNext]_regexVars => RegexInv'
<1> DEFINE Evaluation == [lent : BOOLEAN, own : Table]
<1> SUFFICES ASSUME RegexInv, [RegexNext]_regexVars PROVE RegexInv'
  OBVIOUS
<1>1. host \in Table /\ runs \in Seq(Evaluation) /\ AnswersExact
  BY DEF RegexInv
<1>2. runs # <<>> => /\ Last(runs) = runs[Len(runs)]
                     /\ Last(runs) \in Evaluation
                     /\ Len(runs) \in DOMAIN runs
  BY <1>1, LastInSeq
<1>3. CASE BeginRun
  <2>1. EmptyTable(RunCapacity) \in Table
    BY EmptyTableIsTable, RegexTableAssumption
  <2>2. PICK lent \in BOOLEAN :
          runs' = Append(runs, [lent |-> lent, own |-> EmptyTable(RunCapacity)])
    BY <1>3 DEF BeginRun
  <2>3. runs' \in Seq(Evaluation)
    BY <1>1, <2>1, <2>2
  <2> QED BY <1>1, <1>3, <2>3 DEF BeginRun, RegexInv, AnswersExact
<1>4. CASE EndRun
  <2>1. runs' \in Seq(Evaluation)
    <3>1. Len(runs) - 1 \in 0 .. Len(runs)
      BY <1>2, <1>4 DEF EndRun
    <3>2. runs' = SubSeq(runs, 1, Len(runs) - 1)
      BY <1>4 DEF EndRun, Front
    <3> HIDE DEF Evaluation
    <3>3. \A n \in 0 .. Len(runs) : SubSeq(runs, 1, n) \in Seq(Evaluation)
      BY <1>1
    <3> QED BY <3>1, <3>2, <3>3
  <2> QED BY <1>1, <1>4, <2>1 DEF EndRun, RegexInv, AnswersExact
<1>5. CASE SetRegexCache
  <2>1. PICK lent \in BOOLEAN : runs' = [runs EXCEPT ![Len(runs)].lent = lent]
    BY <1>5 DEF SetRegexCache
  <2>2. [Last(runs) EXCEPT !.lent = lent] \in Evaluation
    BY <1>2, <1>5 DEF SetRegexCache
  <2>3. runs' \in Seq(Evaluation)
    BY <1>1, <1>2, <1>5, <2>1, <2>2, ReplacedInSeq DEF SetRegexCache
  <2> QED BY <1>1, <1>5, <2>3 DEF SetRegexCache, RegexInv, AnswersExact
<1>6. ASSUME NEW k \in RegexKey, CallOnHost(k) PROVE RegexInv'
  <2>1. host' \in Table /\ answer' = <<k, CompileRegex(k)>>
    BY <1>1, <1>6, LookupKeeps, ResidentIsExact DEF CallOnHost
  <2> QED BY <1>1, <1>6, <2>1 DEF CallOnHost, RegexInv, AnswersExact
<1>7. ASSUME NEW k \in RegexKey, CallOnOwn(k) PROVE RegexInv'
  <2> DEFINE n == Len(runs)
             new == Lookup(Last(runs).own, k)
  <2>1. Last(runs) \in Evaluation /\ n \in DOMAIN runs /\ Last(runs) = runs[n]
    BY <1>2, <1>7 DEF CallOnOwn
  <2>2. new \in Table /\ Compiled(new, k) = CompileRegex(k)
    BY <2>1, LookupKeeps, ResidentIsExact
  <2>3. runs' = [runs EXCEPT ![n] = [runs[n] EXCEPT !.own = new]]
    BY <1>7, <2>1 DEF CallOnOwn
  <2>4. [runs[n] EXCEPT !.own = new] \in Evaluation
    BY <2>1, <2>2
  <2> HIDE DEF new
  <2>5. runs' \in Seq(Evaluation) /\ Len(runs') = n /\ runs'[n].own = new
    BY <1>1, <2>1, <2>3, <2>4, ReplacedInSeq
  <2>6. answer' = <<k, CompileRegex(k)>>
    BY <1>7, <2>2, <2>5 DEF CallOnOwn, Last
  <2> QED BY <1>1, <1>7, <2>5, <2>6 DEF CallOnOwn, RegexInv, AnswersExact
<1>8. CASE ClearHost
  <2>0. <<>> \in Seq(KeyedEntry)
    OBVIOUS
  <2>1. host' \in Table
    BY <1>1, <1>8, <2>0, TableWithEntries DEF ClearHost, Table
  <2> QED BY <1>1, <1>8, <2>1 DEF ClearHost, RegexInv, AnswersExact
<1>9. CASE UNCHANGED regexVars
  BY <1>1, <1>9 DEF regexVars, RegexInv, AnswersExact
<1> QED BY <1>3, <1>4, <1>5, <1>6, <1>7, <1>8, <1>9 DEF RegexNext

(* A call of a run gets what compiling its own key gives, for any keys,    *)
(* capacities and nesting of runs, whatever tables are lent.               *)
THEOREM RegexAnswersExact == RegexSpec => []AnswersExact
<1>1. RegexInv => AnswersExact
  BY DEF RegexInv
<1> QED BY <1>1, RegexInitInv, RegexStepInv, PTL DEF RegexSpec

-----------------------------------------------------------------------------
(* The memo of the facets.  What the walk over the bases computes: a walk  *)
(* of any length exists, one step after the other.                         *)
LEMMA BoundedInduction ==
    ASSUME NEW N \in Nat, NEW S, 0 \in S,
           \A m \in 0 .. N - 1 : m \in S => m + 1 \in S
    PROVE  \A m \in 0 .. N : m \in S
<1> DEFINE Missing == {m \in 0 .. N : m \notin S}
<1>1. ASSUME Missing # {} PROVE FALSE
  <2>1. PICK n \in Missing : \A m \in Missing : n <= m
    <3>1. Missing \subseteq Nat
      OBVIOUS
    <3> HIDE DEF Missing
    <3> QED BY <1>1, <3>1, LeastNatural
  <2>2. n \in 0 .. N /\ n \notin S /\ n # 0
    OBVIOUS
  <2>3. n - 1 \in 0 .. N - 1 /\ n - 1 \notin Missing
    BY <2>1, <2>2
  <2>4. n - 1 \in S
    BY <2>3
  <2>5. (n - 1) + 1 \in S
    BY <2>3, <2>4
  <2> QED BY <2>2, <2>5
<1> QED BY <1>1

WalkStep(a, t, walk, n) ==
    IF n = 0 THEN <<a[t].own, a[t].base>>
    ELSE LET before == walk[n - 1] IN
         IF before[2] = NoType THEN before
         ELSE <<IF before[1] = NoLiteral THEN a[before[2]].own ELSE before[1],
                a[before[2]].base>>

IsWalk(a, t, walk) == walk = [n \in 0 .. MaxWalk |-> WalkStep(a, t, walk, n)]

LEMMA WalkExists ==
    ASSUME NEW a, NEW t
    PROVE  \E walk : IsWalk(a, t, walk)
<1> DEFINE Upto(m, f) == \A n \in 0 .. m : f[n] = WalkStep(a, t, f, n)
           S == {m \in 0 .. MaxWalk : \E f : f = [n \in 0 .. m |-> f[n]] /\ Upto(m, f)}
<1>0. MaxWalk \in Nat
  BY FacetCacheAssumption
<1>1. 0 \in S
  <2> DEFINE f == [n \in 0 .. 0 |-> <<a[t].own, a[t].base>>]
  <2>1. f = [n \in 0 .. 0 |-> f[n]] /\ Upto(0, f)
    BY DEF WalkStep
  <2> HIDE DEF f
  <2> QED BY <1>0, <2>1
<1>2. ASSUME NEW m \in 0 .. MaxWalk - 1, m \in S PROVE m + 1 \in S
  <2>1. PICK f : f = [n \in 0 .. m |-> f[n]] /\ Upto(m, f)
    BY <1>2
  <2> DEFINE g == [n \in 0 .. m + 1 |->
                     IF n = m + 1 THEN WalkStep(a, t, f, m + 1) ELSE f[n]]
  <2>2. \A n \in 0 .. m : g[n] = f[n]
    OBVIOUS
  <2>3. g[m + 1] = WalkStep(a, t, f, m + 1)
    OBVIOUS
  <2>4. g = [n \in 0 .. m + 1 |-> g[n]]
    OBVIOUS
  <2> HIDE DEF g
  <2>5. ASSUME NEW n \in 0 .. m + 1 PROVE g[n] = WalkStep(a, t, g, n)
    <3>1. n = 0 \/ n - 1 \in 0 .. m
      OBVIOUS
    <3>2. WalkStep(a, t, g, n) = WalkStep(a, t, f, n)
      BY <2>2, <3>1 DEF WalkStep
    <3> QED BY <2>1, <2>2, <2>3, <3>2
  <2> QED BY <1>0, <2>4, <2>5
<1> HIDE DEF S
<1>3. MaxWalk \in S
  <2>1. \A m \in 0 .. MaxWalk : m \in S
    BY <1>0, <1>1, <1>2, BoundedInduction
  <2> QED BY <1>0, <2>1
<1>4. PICK f : f = [n \in 0 .. MaxWalk |-> f[n]] /\ Upto(MaxWalk, f)
  BY <1>3 DEF S
<1>5. f = [n \in 0 .. MaxWalk |-> WalkStep(a, t, f, n)]
  BY <1>4
<1> QED BY <1>5 DEF IsWalk

LEMMA FacetsByWalk ==
    ASSUME NEW a, NEW t
    PROVE  \E walk : IsWalk(a, t, walk) /\ EffectiveFacets(a, t) = walk[MaxWalk][1]
<1> DEFINE walk == CHOOSE f : IsWalk(a, t, f)
<1>1. IsWalk(a, t, walk)
  BY WalkExists
<1>2. EffectiveFacets(a, t) = walk[MaxWalk][1]
  BY DEF EffectiveFacets, IsWalk, WalkStep
<1> QED BY <1>1, <1>2

-----------------------------------------------------------------------------
(* Arenas whose types name allocated types only.                           *)
ArenaOK(a) ==
    /\ DOMAIN a \subseteq SimpleType
    /\ \A t \in DOMAIN a : a[t] \in Entry(DOMAIN a, t)

(* A walk stays in the arena, so that more types do not change it.         *)
LEMMA WalkStays ==
    ASSUME NEW a, ArenaOK(a), NEW b, DOMAIN a \subseteq DOMAIN b,
           \A u \in DOMAIN a : b[u] = a[u],
           NEW t \in DOMAIN a, NEW f, IsWalk(a, t, f), NEW g, IsWalk(b, t, g)
    PROVE  \A n \in 0 .. MaxWalk :
              /\ g[n] = f[n]
              /\ f[n] \in (Literals \cup {NoLiteral}) \X (DOMAIN a \cup {NoType})
<1> DEFINE Pairs == (Literals \cup {NoLiteral}) \X (DOMAIN a \cup {NoType})
           S == {n \in 0 .. MaxWalk : g[n] = f[n] /\ f[n] \in Pairs}
<1>0. MaxWalk \in Nat
  BY FacetCacheAssumption
<1>1. \A n \in 0 .. MaxWalk : f[n] = WalkStep(a, t, f, n) /\ g[n] = WalkStep(b, t, g, n)
  BY DEF IsWalk
<1>2. \A u \in DOMAIN a : a[u].own \in Literals \cup {NoLiteral}
                          /\ a[u].base \in DOMAIN a \cup {NoType}
  BY DEF ArenaOK, Entry
<1>3. 0 \in S
  <2>1. f[0] = WalkStep(a, t, f, 0) /\ g[0] = WalkStep(b, t, g, 0)
    BY <1>0, <1>1
  <2>2. f[0] = <<a[t].own, a[t].base>> /\ g[0] = f[0]
    BY <2>1 DEF WalkStep
  <2>3. a[t].own \in Literals \cup {NoLiteral} /\ a[t].base \in DOMAIN a \cup {NoType}
    BY <1>2
  <2>4. f[0] \in Pairs
    BY <2>2, <2>3
  <2> QED BY <1>0, <2>2, <2>4
<1>4. ASSUME NEW n \in 0 .. MaxWalk - 1, n \in S PROVE n + 1 \in S
  <2>1. n + 1 \in 0 .. MaxWalk /\ n + 1 # 0 /\ (n + 1) - 1 = n
    BY <1>0
  <2>2. f[n + 1] = WalkStep(a, t, f, n + 1) /\ g[n + 1] = WalkStep(b, t, g, n + 1)
    BY <1>1, <2>1
  <2>3. g[n] = f[n] /\ f[n] \in Pairs
    BY <1>4
  <2>4. CASE f[n][2] = NoType
    <3>1. f[n + 1] = f[n] /\ g[n + 1] = g[n]
      BY <2>1, <2>2, <2>3, <2>4 DEF WalkStep
    <3> QED BY <2>1, <2>3, <3>1
  <2>5. CASE f[n][2] # NoType
    <3>1. f[n][2] \in DOMAIN a /\ f[n][1] \in Literals \cup {NoLiteral}
      BY <2>3, <2>5
    <3>2. f[n + 1] = <<IF f[n][1] = NoLiteral THEN a[f[n][2]].own ELSE f[n][1],
                       a[f[n][2]].base>>
      BY <2>1, <2>2, <2>5 DEF WalkStep
    <3>3. g[n + 1] = f[n + 1]
      BY <2>1, <2>2, <2>3, <2>5, <3>1, <3>2 DEF WalkStep
    <3>4. a[f[n][2]].own \in Literals \cup {NoLiteral}
          /\ a[f[n][2]].base \in DOMAIN a \cup {NoType}
      BY <1>2, <3>1
    <3>5. f[n + 1] \in Pairs
      BY <3>1, <3>2, <3>4
    <3> QED BY <2>1, <3>3, <3>5
  <2> QED BY <2>4, <2>5
<1> HIDE DEF S
<1>5. \A n \in 0 .. MaxWalk : n \in S
  BY <1>0, <1>3, <1>4, BoundedInduction
<1> QED BY <1>5 DEF S

LEMMA FacetsStay ==
    ASSUME NEW a, ArenaOK(a), NEW b, DOMAIN a \subseteq DOMAIN b,
           \A u \in DOMAIN a : b[u] = a[u], NEW t \in DOMAIN a
    PROVE  /\ EffectiveFacets(b, t) = EffectiveFacets(a, t)
           /\ EffectiveFacets(a, t) \in Literals \cup {NoLiteral}
<1>1. PICK f : IsWalk(a, t, f) /\ EffectiveFacets(a, t) = f[MaxWalk][1]
  BY FacetsByWalk
<1>2. PICK g : IsWalk(b, t, g) /\ EffectiveFacets(b, t) = g[MaxWalk][1]
  BY FacetsByWalk
<1>3. MaxWalk \in 0 .. MaxWalk
  BY FacetCacheAssumption
<1>4. /\ g[MaxWalk] = f[MaxWalk]
      /\ f[MaxWalk] \in (Literals \cup {NoLiteral}) \X (DOMAIN a \cup {NoType})
  BY <1>1, <1>2, <1>3, WalkStays
<1> QED BY <1>1, <1>2, <1>4

LEMMA ResultsStay ==
    ASSUME NEW a, ArenaOK(a), NEW b, DOMAIN a \subseteq DOMAIN b,
           \A u \in DOMAIN a : b[u] = a[u], NEW t \in DOMAIN a, NEW what
    PROVE  QueryResult(b, <<t, what>>) = QueryResult(a, <<t, what>>)
<1>1. a[t].member = NoType \/ a[t].member \in DOMAIN a
  BY DEF ArenaOK, Entry
<1>2. EffectiveFacets(b, t) = EffectiveFacets(a, t)
  BY FacetsStay
<1>3. a[t].member \in DOMAIN a =>
         EffectiveFacets(b, a[t].member) = EffectiveFacets(a, a[t].member)
  BY FacetsStay
<1>4. b[t].member = a[t].member
  OBVIOUS
<1>5. IndexOf(b, t, EffectiveFacets(b, t)) = IndexOf(a, t, EffectiveFacets(a, t))
  BY <1>1, <1>2, <1>3, <1>4 DEF IndexOf
<1> QED BY <1>2, <1>5 DEF QueryResult

LEMMA FacetsTyped ==
    ASSUME NEW a, ArenaOK(a), NEW t \in DOMAIN a
    PROVE  EffectiveFacets(a, t) \in Literals \cup {NoLiteral}
BY FacetsStay

LEMMA IndexTyped ==
    ASSUME NEW a, ArenaOK(a), NEW t \in DOMAIN a, NEW e \in Literals
    PROVE  IndexOf(a, t, e) \in Indexes
<1>1. a[t].member = NoType \/ a[t].member \in DOMAIN a
  BY DEF ArenaOK, Entry
<1>2. a[t].member \in DOMAIN a =>
         EffectiveFacets(a, a[t].member) \in Literals \cup {NoLiteral}
  BY FacetsTyped
<1> QED BY <1>1, <1>2 DEF IndexOf, Indexes

-----------------------------------------------------------------------------
(* The inductive invariant.  The memos are current, hold nothing of types  *)
(* that are not allocated, and nothing at all while the arenas are edited; *)
(* nobody reads then.  What a reader has at hand is what the arena says.   *)
MemosOfAllocated ==
    \A t \in SimpleType \ DOMAIN arena :
        facetMemo[t] = Absent /\ indexMemo[t] = NoIndex

EditedAlone ==
    editing => /\ NobodyReads
               /\ \A t \in SimpleType : facetMemo[t] = Absent /\ indexMemo[t] = NoIndex

ReadersTrue ==
    \A r \in Reader : phase[r] # "idle" =>
        /\ reading[r] \in Query /\ TypeRead(r) \in DOMAIN arena
        /\ phase[r] # "facets" => facets[r] = EffectiveFacets(arena, TypeRead(r))
        /\ phase[r] \in {"index", "build"} => reading[r][2] = "index"

FacetInv ==
    /\ FacetTypeOK
    /\ result = [r \in Reader |-> result[r]]
    /\ MemosCurrent
    /\ MemosOfAllocated
    /\ EditedAlone
    /\ ReadersTrue

LEMMA FacetInitInv == FacetInit => FacetInv
<1> SUFFICES ASSUME FacetInit PROVE FacetInv
  OBVIOUS
<1>1. DOMAIN arena = Initial /\ \A t \in Initial : arena[t] \in Entry(Initial, t)
  BY DEF FacetInit
<1>2. \A t \in DOMAIN arena : arena[t] \in Entry(DOMAIN arena, t)
  BY <1>1
<1>3. /\ facetMemo \in [SimpleType -> Literals \cup {NoLiteral, Absent}]
      /\ indexMemo \in [SimpleType -> Indexes \cup {NoIndex}]
  BY DEF FacetInit
<1>4. editing \in BOOLEAN /\ edits \in 0..MaxEdits
  <2>1. editing = FALSE /\ edits = 0 /\ MaxEdits \in Nat
    BY FacetCacheAssumption DEF FacetInit
  <2>2. edits \in 0..MaxEdits
    BY <2>1
  <2> QED BY <2>1, <2>2
<1>5. /\ reading \in [Reader -> Query \cup {NoQuery}]
      /\ phase \in [Reader -> {"idle", "facets", "compute", "index", "build"}]
      /\ facets \in [Reader -> Literals \cup {NoLiteral}]
  BY DEF FacetInit
<1>6. \A r \in Reader : phase[r] = "idle" /\ reading[r] = NoQuery /\ result[r] = <<>>
  BY DEF FacetInit
<1>7. FacetTypeOK
  BY <1>1, <1>2, <1>3, <1>4, <1>5, <1>6, FacetCacheAssumption DEF FacetTypeOK
<1> QED BY <1>7, FacetCacheAssumption
        DEF FacetInit, FacetInv, MemosCurrent, MemosOfAllocated, EditedAlone, ReadersTrue

LEMMA ArenaAtHand ==
    ASSUME FacetTypeOK
    PROVE  ArenaOK(arena)
BY DEF FacetTypeOK, ArenaOK

-----------------------------------------------------------------------------
(* How a query ends and goes on.                                           *)
LEMMA AnswerIsResult ==
    ASSUME FacetInv, NEW r \in Reader, phase[r] # "idle",
           NEW effective, effective = EffectiveFacets(arena, TypeRead(r)),
           QueryOver(r, effective)
    PROVE  <<effective>> = QueryResult(arena, reading[r])
BY DEF QueryOver, QueryResult, TypeRead

LEMMA IndexIsResult ==
    ASSUME FacetInv, NEW r \in Reader, phase[r] \in {"index", "build"}
    PROVE  /\ reading[r] = <<TypeRead(r), "index">>
           /\ IndexOf(arena, TypeRead(r), facets[r]) = QueryResult(arena, reading[r])
<1>1. /\ reading[r] \in Query /\ reading[r][2] = "index"
      /\ facets[r] = EffectiveFacets(arena, TypeRead(r)) /\ facets[r] \in Literals
  BY DEF FacetInv, FacetTypeOK, ReadersTrue
<1>2. reading[r] = <<TypeRead(r), "index">>
  BY <1>1 DEF Query, TypeRead
<1>3. facets[r] # NoLiteral
  BY <1>1, FacetCacheAssumption
<1> QED BY <1>1, <1>2, <1>3 DEF QueryResult, TypeRead

(* A reader's step that ends its query.                                    *)
Returns(r) == phase[r] # "idle" /\ Return(r, QueryResult(arena, reading[r]))

(* A step that leaves the arenas and the memos, or adds what is current.   *)
MemosGrow ==
    /\ UNCHANGED <<arena, editing, edits>>
    /\ \/ UNCHANGED facetMemo
       \/ \E t \in DOMAIN arena :
             facetMemo' = [facetMemo EXCEPT ![t] = EffectiveFacets(arena, t)]
    /\ \/ UNCHANGED indexMemo
       \/ \E t \in DOMAIN arena :
             /\ EffectiveFacets(arena, t) \in Literals
             /\ indexMemo' = [indexMemo EXCEPT ![t] = QueryResult(arena, <<t, "index">>)]

MemosTyped ==
    /\ DOMAIN arena \subseteq SimpleType
    /\ \A t \in DOMAIN arena : arena[t] \in Entry(DOMAIN arena, t)
    /\ facetMemo \in [SimpleType -> Literals \cup {NoLiteral, Absent}]
    /\ indexMemo \in [SimpleType -> Indexes \cup {NoIndex}]
    /\ editing \in BOOLEAN /\ edits \in 0..MaxEdits

ReadersTyped ==
    /\ reading \in [Reader -> Query \cup {NoQuery}]
    /\ phase \in [Reader -> {"idle", "facets", "compute", "index", "build"}]
    /\ facets \in [Reader -> Literals \cup {NoLiteral}]
    /\ \A r \in Reader :
        /\ phase[r] = "idle" <=> reading[r] = NoQuery
        /\ phase[r] \in {"index", "build"} => facets[r] \in Literals
    /\ \A r \in Reader : result[r] # <<>> => result[r][1] \in Query
    /\ result = [r \in Reader |-> result[r]]

LEMMA FacetInvParts ==
    FacetInv <=> /\ MemosTyped /\ ReadersTyped
                 /\ MemosCurrent /\ MemosOfAllocated /\ EditedAlone /\ ReadersTrue
BY DEF FacetInv, FacetTypeOK, MemosTyped, ReadersTyped

FacetMemoGrown ==
    /\ facetMemo' \in [SimpleType -> Literals \cup {NoLiteral, Absent}]
    /\ \A t \in DOMAIN arena : facetMemo'[t] \in {Absent, EffectiveFacets(arena, t)}
    /\ \A t \in SimpleType \ DOMAIN arena : facetMemo'[t] = facetMemo[t]

IndexMemoGrown ==
    /\ indexMemo' \in [SimpleType -> Indexes \cup {NoIndex}]
    /\ \A t \in DOMAIN arena :
          indexMemo'[t] \in {NoIndex, QueryResult(arena, <<t, "index">>)}
    /\ \A t \in SimpleType \ DOMAIN arena : indexMemo'[t] = indexMemo[t]

LEMMA MemosGrowKeeps ==
    ASSUME FacetInv, MemosGrow
    PROVE  MemosTyped' /\ MemosCurrent' /\ MemosOfAllocated'
<1>1. ArenaOK(arena) /\ MemosTyped /\ MemosCurrent /\ MemosOfAllocated
  BY FacetInvParts, ArenaAtHand DEF FacetInv
<1>2. arena' = arena /\ editing' = editing /\ edits' = edits
  BY DEF MemosGrow
<1>3. FacetMemoGrown
  <2>1. CASE UNCHANGED facetMemo
    BY <1>1, <2>1 DEF MemosTyped, MemosCurrent, FacetMemoGrown, IndexMemoGrown
  <2>2. ASSUME NEW t \in DOMAIN arena,
               facetMemo' = [facetMemo EXCEPT ![t] = EffectiveFacets(arena, t)]
        PROVE  FacetMemoGrown
    <3>1. EffectiveFacets(arena, t) \in Literals \cup {NoLiteral}
      BY <1>1, FacetsTyped
    <3> QED BY <1>1, <2>2, <3>1 DEF MemosTyped, MemosCurrent, FacetMemoGrown, IndexMemoGrown
  <2> QED BY <2>1, <2>2 DEF MemosGrow
<1>4. IndexMemoGrown
  <2>1. CASE UNCHANGED indexMemo
    BY <1>1, <2>1 DEF MemosTyped, MemosCurrent, FacetMemoGrown, IndexMemoGrown
  <2>2. ASSUME NEW t \in DOMAIN arena, EffectiveFacets(arena, t) \in Literals,
               indexMemo' = [indexMemo EXCEPT ![t] = QueryResult(arena, <<t, "index">>)]
        PROVE  IndexMemoGrown
    <3>1. EffectiveFacets(arena, t) # NoLiteral
      BY <2>2, FacetCacheAssumption
    <3>2. QueryResult(arena, <<t, "index">>)
             = IndexOf(arena, t, EffectiveFacets(arena, t))
      BY <3>1 DEF QueryResult
    <3>3. QueryResult(arena, <<t, "index">>) \in Indexes
      BY <1>1, <2>2, <3>2, IndexTyped
    <3> QED BY <1>1, <2>2, <3>3 DEF MemosTyped, MemosCurrent, FacetMemoGrown, IndexMemoGrown
  <2> QED BY <2>1, <2>2 DEF MemosGrow
<1> QED BY <1>1, <1>2, <1>3, <1>4 DEF MemosTyped, MemosCurrent, MemosOfAllocated, FacetMemoGrown, IndexMemoGrown

(* A step with which a query goes on with the facets of its type.          *)
Moves(r) ==
    /\ phase[r] # "idle"
    /\ facets' = [facets EXCEPT ![r] = EffectiveFacets(arena, TypeRead(r))]
    /\ \/ phase' = [phase EXCEPT ![r] = "compute"]
       \/ /\ reading[r][2] = "index"
          /\ EffectiveFacets(arena, TypeRead(r)) # NoLiteral
          /\ \E at \in {"index", "build"} : phase' = [phase EXCEPT ![r] = at]
    /\ UNCHANGED <<reading, result>>

LEMMA FacetsAtHandGoOn ==
    ASSUME FacetInv, NEW r \in Reader, phase[r] # "idle",
           HaveFacets(r, EffectiveFacets(arena, TypeRead(r)))
    PROVE  Returns(r) \/ Moves(r)
<1> DEFINE effective == EffectiveFacets(arena, TypeRead(r))
<1>1. CASE QueryOver(r, effective)
  <2>1. Return(r, <<effective>>)
    BY <1>1 DEF HaveFacets
  <2>2. <<effective>> = QueryResult(arena, reading[r])
    BY <1>1, AnswerIsResult
  <2> QED BY <2>1, <2>2 DEF Returns
<1>2. CASE ~ QueryOver(r, effective)
  <2>1. reading[r] \in Query
    BY DEF FacetInv, ReadersTrue
  <2>2. reading[r][2] = "index" /\ effective # NoLiteral
    BY <1>2, <2>1 DEF QueryOver, Query
  <2> QED BY <1>2, <2>2 DEF HaveFacets, Moves
<1> QED BY <1>1, <1>2

LEMMA QueryStepForms ==
    ASSUME FacetInv, NEW r \in Reader, QueryStep(r)
    PROVE  MemosGrow /\ (Returns(r) \/ Moves(r))
<1> DEFINE t == TypeRead(r)
<1>1. phase[r] # "idle"
  BY DEF QueryStep, FacetsHit, FacetsMiss, FacetsInsert, IndexHit, IndexMiss, IndexInsert
<1>2. /\ t \in DOMAIN arena /\ t \in SimpleType
      /\ facetMemo[t] \in {Absent, EffectiveFacets(arena, t)}
      /\ indexMemo[t] \in {NoIndex, QueryResult(arena, <<t, "index">>)}
      /\ phase[r] # "facets" => facets[r] = EffectiveFacets(arena, t)
      /\ facets = [q \in Reader |-> facets[q]]
  BY <1>1 DEF FacetInv, FacetTypeOK, MemosCurrent, ReadersTrue
<1> HIDE DEF t
<1>3. CASE FacetsHit(r)
  <2>1. HaveFacets(r, EffectiveFacets(arena, TypeRead(r)))
    BY <1>2, <1>3 DEF FacetsHit, t
  <2> QED BY <1>1, <1>3, <2>1, FacetsAtHandGoOn DEF FacetsHit, MemosGrow
<1>4. CASE FacetsMiss(r)
  BY <1>1, <1>4 DEF FacetsMiss, MemosGrow, Moves
<1>5. CASE FacetsInsert(r)
  <2>1. facets[r] = EffectiveFacets(arena, TypeRead(r))
    BY <1>2, <1>5 DEF FacetsInsert, t
  <2>2. HaveFacets(r, EffectiveFacets(arena, TypeRead(r)))
    BY <1>5, <2>1 DEF FacetsInsert
  <2>3. facetMemo' = [facetMemo EXCEPT ![t] = EffectiveFacets(arena, t)]
    BY <1>5, <2>1 DEF FacetsInsert, t
  <2> QED BY <1>1, <1>2, <1>5, <2>2, <2>3, FacetsAtHandGoOn DEF FacetsInsert, MemosGrow
<1>6. CASE IndexHit(r)
  <2>1. indexMemo[TypeRead(r)] = QueryResult(arena, reading[r])
    BY <1>2, <1>6, IndexIsResult DEF IndexHit, t
  <2> QED BY <1>1, <1>6, <2>1 DEF IndexHit, MemosGrow, Returns
<1>7. CASE IndexMiss(r)
  <2>1. facets[r] \in Literals /\ facets[r] # NoLiteral /\ reading[r][2] = "index"
    BY <1>7, FacetCacheAssumption DEF IndexMiss, FacetInv, FacetTypeOK, ReadersTrue
  <2>2. facets[r] = EffectiveFacets(arena, TypeRead(r))
    BY <1>2, <1>7 DEF IndexMiss, t
  <2>3. facets' = [facets EXCEPT ![r] = EffectiveFacets(arena, TypeRead(r))]
    BY <1>2, <1>7, <2>2 DEF IndexMiss
  <2> QED BY <1>1, <1>7, <2>1, <2>2, <2>3 DEF IndexMiss, MemosGrow, Moves
<1>8. CASE IndexInsert(r)
  <2> DEFINE built == IndexOf(arena, TypeRead(r), facets[r])
  <2>1. built = QueryResult(arena, reading[r]) /\ reading[r] = <<t, "index">>
    BY <1>8, IndexIsResult DEF IndexInsert, t
  <2>2. facets[r] \in Literals /\ facets[r] = EffectiveFacets(arena, t)
    BY <1>2, <1>8 DEF IndexInsert, FacetInv, FacetTypeOK
  <2>3. /\ indexMemo' = [indexMemo EXCEPT ![TypeRead(r)] = built] /\ Return(r, built)
        /\ UNCHANGED <<arena, facetMemo, editing, edits>>
    BY <1>8 DEF IndexInsert
  <2> HIDE DEF built
  <2>4. indexMemo' = [indexMemo EXCEPT ![t] = QueryResult(arena, <<t, "index">>)]
    BY <2>1, <2>3 DEF t
  <2>5. MemosGrow
    BY <1>2, <2>2, <2>3, <2>4 DEF MemosGrow
  <2> QED BY <1>1, <2>1, <2>3, <2>5 DEF Returns
<1> QED BY <1>3, <1>4, <1>5, <1>6, <1>7, <1>8 DEF QueryStep

LEMMA ReaderStepKeeps ==
    ASSUME FacetInv, NEW r \in Reader, Returns(r) \/ Moves(r), UNCHANGED <<arena, editing>>
    PROVE  ReadersTyped' /\ ReadersTrue' /\ EditedAlone'
<1>1. ReadersTyped /\ ReadersTrue /\ EditedAlone /\ ArenaOK(arena)
  BY FacetInvParts, ArenaAtHand DEF FacetInv
<1>2. phase[r] # "idle" /\ reading[r] \in Query /\ TypeRead(r) \in DOMAIN arena
  BY <1>1 DEF Returns, Moves, ReadersTrue
<1>3. ~ editing
  BY <1>1, <1>2 DEF EditedAlone, NobodyReads
<1>4. EditedAlone'
  BY <1>3 DEF EditedAlone
<1>5. EffectiveFacets(arena, TypeRead(r)) \in Literals \cup {NoLiteral}
  BY <1>1, <1>2, FacetsTyped
<1>6. CASE Returns(r)
  BY <1>1, <1>2, <1>4, <1>6 DEF Returns, Return, ReadersTyped, ReadersTrue, TypeRead
<1>7. CASE Moves(r)
  <2>1. PICK at \in {"compute", "index", "build"} :
          /\ phase' = [phase EXCEPT ![r] = at]
          /\ at # "compute" => /\ reading[r][2] = "index"
                               /\ EffectiveFacets(arena, TypeRead(r)) # NoLiteral
    BY <1>7 DEF Moves
  <2>2. facets' = [facets EXCEPT ![r] = EffectiveFacets(arena, TypeRead(r))]
        /\ UNCHANGED <<reading, result>>
    BY <1>7 DEF Moves
  <2>3. reading[r] # NoQuery
    BY <1>1, <1>2 DEF ReadersTyped
  <2>4. ReadersTyped'
    BY <1>1, <1>5, <2>1, <2>2, <2>3 DEF ReadersTyped
  <2>5. ReadersTrue'
    BY <1>1, <1>2, <2>1, <2>2 DEF ReadersTyped, ReadersTrue, TypeRead
  <2> QED BY <1>4, <2>4, <2>5
<1> QED BY <1>6, <1>7

-----------------------------------------------------------------------------
(* The steps.                                                              *)
LEMMA BorrowKeeps ==
    ASSUME FacetInv, BorrowMut
    PROVE  FacetInv'
<1>1. /\ MemosTyped /\ ReadersTyped /\ ReadersTrue
      /\ NobodyReads /\ UNCHANGED <<arena, edits, reading, phase, facets, result>>
      /\ editing' = TRUE
      /\ facetMemo' = [t \in SimpleType |-> Absent]
      /\ indexMemo' = [t \in SimpleType |-> NoIndex]
  BY FacetInvParts DEF BorrowMut, EmptyMemos, Readers
<1>2. MemosTyped'
  BY <1>1 DEF MemosTyped
<1>3. ReadersTyped' /\ ReadersTrue'
  BY <1>1 DEF ReadersTyped, ReadersTrue, TypeRead
<1>4. MemosCurrent' /\ MemosOfAllocated' /\ EditedAlone'
  BY <1>1 DEF MemosTyped, MemosCurrent, MemosOfAllocated, EditedAlone, NobodyReads
<1>5. FacetInv' <=> /\ MemosTyped' /\ ReadersTyped'
                    /\ MemosCurrent' /\ MemosOfAllocated' /\ EditedAlone' /\ ReadersTrue'
  BY DEF FacetInv, FacetTypeOK, MemosTyped, ReadersTyped
<1> QED BY <1>2, <1>3, <1>4, <1>5

LEMMA EditKeeps ==
    ASSUME FacetInv, EditType
    PROVE  FacetInv'
<1>1. /\ MemosTyped /\ ReadersTyped /\ EditedAlone /\ editing
      /\ UNCHANGED <<facetMemo, indexMemo, editing, reading, phase, facets, result>>
      /\ edits < MaxEdits /\ edits' = edits + 1
  BY FacetInvParts DEF EditType, Readers
<1>2. PICK t \in DOMAIN arena : \E e \in Entry(DOMAIN arena, t) :
         arena' = [arena EXCEPT ![t] = e]
  BY DEF EditType
<1>3. NobodyReads /\ \A u \in SimpleType : facetMemo[u] = Absent /\ indexMemo[u] = NoIndex
  BY <1>1 DEF EditedAlone
<1>4. DOMAIN arena' = DOMAIN arena
      /\ \A u \in DOMAIN arena : arena'[u] \in Entry(DOMAIN arena, u)
  BY <1>1, <1>2 DEF MemosTyped
<1>5. edits' \in 0 .. MaxEdits
  BY <1>1, FacetCacheAssumption DEF MemosTyped
<1>6. MemosTyped'
  BY <1>1, <1>4, <1>5 DEF MemosTyped
<1>7. ReadersTyped' /\ ReadersTrue'
  BY <1>1, <1>3 DEF ReadersTyped, ReadersTrue, NobodyReads
<1>8. MemosCurrent' /\ MemosOfAllocated' /\ EditedAlone'
  BY <1>1, <1>3, <1>4 DEF MemosTyped, MemosCurrent, MemosOfAllocated, EditedAlone, NobodyReads
<1>9. FacetInv' <=> /\ MemosTyped' /\ ReadersTyped'
                    /\ MemosCurrent' /\ MemosOfAllocated' /\ EditedAlone' /\ ReadersTrue'
  BY DEF FacetInv, FacetTypeOK, MemosTyped, ReadersTyped
<1> QED BY <1>6, <1>7, <1>8, <1>9

(* A new type is in no walk of the others, so what is in the memos of them *)
(* stays right (alloc_simple_type leaves both).                            *)
LEMMA AllocKeeps ==
    ASSUME FacetInv, AllocType
    PROVE  FacetInv'
<1>1. /\ MemosTyped /\ ReadersTyped /\ MemosCurrent /\ MemosOfAllocated /\ ArenaOK(arena)
      /\ NobodyReads /\ ~ editing
      /\ UNCHANGED <<facetMemo, indexMemo, editing, edits, reading, phase, facets, result>>
  BY FacetInvParts, ArenaAtHand DEF AllocType, Readers, FacetInv
<1>2. PICK t \in SimpleType \ DOMAIN arena : \E e \in Entry(DOMAIN arena, t) :
         arena' = [u \in DOMAIN arena \cup {t} |-> IF u = t THEN e ELSE arena[u]]
  BY DEF AllocType
<1>e. PICK e \in Entry(DOMAIN arena, t) :
         arena' = [u \in DOMAIN arena \cup {t} |-> IF u = t THEN e ELSE arena[u]]
  BY <1>2
<1>3. /\ DOMAIN arena' = DOMAIN arena \cup {t}
      /\ \A u \in DOMAIN arena : arena'[u] = arena[u]
      /\ arena'[t] = e
  BY <1>e
<1>4. ASSUME NEW u \in DOMAIN arena PROVE Entry(DOMAIN arena, u) \subseteq Entry(DOMAIN arena', u)
  BY <1>3 DEF Entry
<1>5. e \in Entry(DOMAIN arena', t)
  BY <1>e, <1>3 DEF Entry
<1>6. MemosTyped'
  <2>1. DOMAIN arena' \subseteq SimpleType
    BY <1>1, <1>2, <1>3 DEF MemosTyped
  <2>2. \A u \in DOMAIN arena' : arena'[u] \in Entry(DOMAIN arena', u)
    BY <1>1, <1>3, <1>4, <1>5 DEF MemosTyped
  <2> QED BY <1>1, <2>1, <2>2 DEF MemosTyped
<1>7. MemosCurrent'
  <2>1. ASSUME NEW u \in DOMAIN arena
        PROVE  /\ EffectiveFacets(arena', u) = EffectiveFacets(arena, u)
               /\ QueryResult(arena', <<u, "index">>) = QueryResult(arena, <<u, "index">>)
    <3> DEFINE b == arena'
    <3>1. DOMAIN arena \subseteq DOMAIN b /\ \A v \in DOMAIN arena : b[v] = arena[v]
      BY <1>3
    <3> HIDE DEF b
    <3>2. /\ EffectiveFacets(b, u) = EffectiveFacets(arena, u)
          /\ QueryResult(b, <<u, "index">>) = QueryResult(arena, <<u, "index">>)
      BY <1>1, <3>1, FacetsStay, ResultsStay
    <3> QED BY <3>2 DEF b
  <2>2. facetMemo[t] = Absent /\ indexMemo[t] = NoIndex
    BY <1>1, <1>2 DEF MemosOfAllocated
  <2>3. ASSUME NEW u \in DOMAIN arena'
        PROVE  /\ facetMemo[u] \in {Absent, EffectiveFacets(arena', u)}
               /\ indexMemo[u] \in {NoIndex, QueryResult(arena', <<u, "index">>)}
    BY <1>1, <1>3, <2>1, <2>2, <2>3 DEF MemosCurrent
  <2> QED BY <1>1, <2>3 DEF MemosCurrent
<1>8. MemosOfAllocated' /\ EditedAlone'
  BY <1>1, <1>3 DEF MemosOfAllocated, EditedAlone
<1>9. ReadersTyped' /\ ReadersTrue'
  BY <1>1 DEF ReadersTyped, ReadersTrue, NobodyReads
<1>10. FacetInv' <=> /\ MemosTyped' /\ ReadersTyped'
                     /\ MemosCurrent' /\ MemosOfAllocated' /\ EditedAlone' /\ ReadersTrue'
  BY DEF FacetInv, FacetTypeOK, MemosTyped, ReadersTyped
<1> QED BY <1>6, <1>7, <1>8, <1>9, <1>10

LEMMA BeginKeeps ==
    ASSUME FacetInv, NEW r \in Reader, BeginQuery(r)
    PROVE  FacetInv'
<1>1. /\ MemosTyped /\ ReadersTyped /\ MemosCurrent /\ MemosOfAllocated /\ ReadersTrue
      /\ ~ editing /\ phase[r] = "idle"
      /\ UNCHANGED <<arena, facetMemo, indexMemo, editing, edits, facets>>
      /\ phase' = [phase EXCEPT ![r] = "facets"]
      /\ result' = [result EXCEPT ![r] = <<>>]
  BY FacetInvParts DEF BeginQuery
<1>2. PICK q \in Query : q[1] \in DOMAIN arena /\ reading' = [reading EXCEPT ![r] = q]
  BY DEF BeginQuery
<1>3. q # NoQuery
  BY FacetCacheAssumption DEF Query, NoQuery
<1>4. ReadersTyped'
  BY <1>1, <1>2, <1>3 DEF ReadersTyped
<1>5. ReadersTrue'
  BY <1>1, <1>2 DEF ReadersTyped, ReadersTrue, TypeRead
<1>6. MemosTyped' /\ MemosCurrent' /\ MemosOfAllocated' /\ EditedAlone'
  BY <1>1 DEF MemosTyped, MemosCurrent, MemosOfAllocated, EditedAlone
<1>7. FacetInv' <=> /\ MemosTyped' /\ ReadersTyped'
                    /\ MemosCurrent' /\ MemosOfAllocated' /\ EditedAlone' /\ ReadersTrue'
  BY DEF FacetInv, FacetTypeOK, MemosTyped, ReadersTyped
<1> QED BY <1>4, <1>5, <1>6, <1>7

LEMMA FacetStepInv ==
    ASSUME FacetInv, [FacetNext]_facetVars
    PROVE  FacetInv'
<1>1. CASE BorrowMut
  BY <1>1, BorrowKeeps
<1>2. CASE EditType
  BY <1>2, EditKeeps
<1>3. CASE EndBorrow
  BY <1>3 DEF EndBorrow, Readers, FacetInv, FacetTypeOK, MemosCurrent, MemosOfAllocated,
              EditedAlone, NobodyReads, ReadersTrue, TypeRead
<1>4. CASE AllocType
  BY <1>4, AllocKeeps
<1>5. ASSUME NEW r \in Reader, BeginQuery(r) PROVE FacetInv'
  BY <1>5, BeginKeeps
<1>6. ASSUME NEW r \in Reader, QueryStep(r) PROVE FacetInv'
  <2>1. MemosGrow /\ (Returns(r) \/ Moves(r))
    BY <1>6, QueryStepForms
  <2>2. UNCHANGED <<arena, editing>>
    BY <2>1 DEF MemosGrow
  <2>3. MemosTyped' /\ MemosCurrent' /\ MemosOfAllocated'
    BY <2>1, MemosGrowKeeps
  <2>4. ReadersTyped' /\ ReadersTrue' /\ EditedAlone'
    BY <2>1, <2>2, ReaderStepKeeps
  <2>5. FacetInv' <=> /\ MemosTyped' /\ ReadersTyped'
                      /\ MemosCurrent' /\ MemosOfAllocated' /\ EditedAlone' /\ ReadersTrue'
    BY DEF FacetInv, FacetTypeOK, MemosTyped, ReadersTyped
  <2> QED BY <2>3, <2>4, <2>5
<1>7. CASE UNCHANGED facetVars
  BY <1>7 DEF facetVars, FacetInv, FacetTypeOK, MemosCurrent, MemosOfAllocated,
              EditedAlone, NobodyReads, ReadersTrue, TypeRead
<1> QED BY <1>1, <1>2, <1>3, <1>4, <1>5, <1>6, <1>7 DEF FacetNext

(* The invariant, and with it that arenas and memos agree at all times     *)
(* (arenas.rs: "provably consistent with the live arenas"), for any        *)
(* readers, types, edits, allocations and interleavings.                   *)
THEOREM FacetInvariant == FacetSpec => []FacetInv
BY FacetInitInv, FacetStepInv, PTL DEF FacetSpec

(* Every entry of the memos is what computing it now would give, whatever  *)
(* was edited or allocated since it was stored (entries_mut of arenas.rs). *)
THEOREM FacetMemosAreCurrent == FacetSpec => []MemosCurrent
<1>1. FacetInv => MemosCurrent
  BY DEF FacetInv
<1> QED BY <1>1, FacetInvariant, PTL

-----------------------------------------------------------------------------
(* Each step is one of the abstract specification.                         *)
LEMMA NobodyAsksIsNobodyReads ==
    ASSUME FacetInv
    PROVE  UncachedFacets!NobodyAsks <=> NobodyReads
BY DEF FacetInv, FacetTypeOK, NobodyReads, UncachedFacets!NobodyAsks

LEMMA FacetStepImplements ==
    ASSUME FacetInv, [FacetNext]_facetVars
    PROVE  [UncachedFacets!UncachedNext]_<<arena, reading, result>>
<1>1. CASE BorrowMut \/ EndBorrow \/ UNCHANGED facetVars
  BY <1>1 DEF BorrowMut, EndBorrow, Readers, facetVars
<1>2. CASE EditType \/ AllocType
  <2>1. NobodyReads /\ UNCHANGED <<reading, result>>
    BY <1>2 DEF EditType, AllocType, Readers, FacetInv, EditedAlone
  <2>2. UncachedFacets!NobodyAsks
    BY <2>1, NobodyAsksIsNobodyReads
  <2>3. UncachedFacets!ChangeSource
    BY <2>1, <2>2 DEF UncachedFacets!ChangeSource, UncachedFacets!NobodyAsks
  <2> QED BY <2>3 DEF UncachedFacets!UncachedNext
<1>3. ASSUME NEW r \in Reader, BeginQuery(r)
      PROVE  UncachedFacets!Ask(r)
  BY <1>3 DEF BeginQuery, UncachedFacets!Ask, FacetInv, FacetTypeOK
<1>4. ASSUME NEW r \in Reader, QueryStep(r)
      PROVE  UncachedFacets!Answer(r) \/ UNCHANGED <<arena, reading, result>>
  <2>1. UNCHANGED arena /\ (Returns(r) \/ Moves(r))
    BY <1>4, QueryStepForms DEF MemosGrow
  <2>2. phase[r] # "idle" => reading[r] # NoQuery
    BY DEF FacetInv, FacetTypeOK
  <2> QED BY <2>1, <2>2 DEF Returns, Return, Moves, UncachedFacets!Answer
<1> QED BY <1>1, <1>2, <1>3, <1>4 DEF FacetNext, UncachedFacets!UncachedNext

(* Nobody can tell that the memo is there: a reader is answered with what  *)
(* computing the facets from the arenas gives (arenas.rs, facet memo).     *)
THEOREM FacetMemoInvisible == FacetSpec => MemoInvisible
<1>1. FacetInit => UncachedFacets!NobodyAsks
  BY DEF FacetInit, UncachedFacets!NobodyAsks
<1> QED BY <1>1, FacetInvariant, FacetStepImplements, PTL
        DEF FacetSpec, MemoInvisible, UncachedFacets!UncachedSpec,
            UncachedFacets!answerVars
=============================================================================
