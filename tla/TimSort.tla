------------------------------- MODULE TimSort -------------------------------
(***************************************************************************)
(* sort_by_keys (src/src/compose/order.rs) over the TimSort                *)
(* (src/src/xpath/timsort.rs).  Rows are numbered from 0, the array is a   *)
(* function on the indices 0 .. length-1.  A comparison that fails says    *)
(* that the rows are equal, and so do all behind it; the sort goes on.     *)
(***************************************************************************)
EXTENDS RunStack, OrderKeys

LOCAL Sequence == INSTANCE SequencesExt

CONSTANTS
    Calls,    \* the calls, [specs, keys]: the criteria, the keys of each row
    MinGallop \* MIN_GALLOP

ASSUME TimSortAssumption ==
    /\ MinGallop \in Nat \ {0}
    /\ \A c \in Calls : \A r \in DOMAIN c.keys : Len(c.keys[r]) = Len(c.specs)

VARIABLES
    call,
    rows,     \* the rows in their places, numbered by their first places
    answered, \* "none" while the call runs, then how it ended
    sort      \* the array, and the locals of the merge that runs

sortVars == <<runVars, call, rows, answered, sort>>

Row == 0 .. Len(call.keys) - 1

-----------------------------------------------------------------------------
(* The closure that sort_by_keys sorts with.                               *)
Compared(x, y) ==
    LET keys == [r \in {x, y} |->
                    [c \in DOMAIN call.specs |-> Cast(call.keys[r + 1][c])]]
    IN  CompareRows(keys[x], keys[y], call.specs)

Latched(failure, order) ==
    [order |-> IF order = "Error" THEN "Equal" ELSE order,
     failure |-> failure \/ order = "Error"]

Outcome(failure, x, y) ==
    Latched(failure, IF failure THEN "Equal" ELSE Compared(x, y))

-----------------------------------------------------------------------------
(* count_run_and_make_ascending, from lo.  The sort, s, has the array, a,  *)
(* and whether a comparison has failed.                                    *)
CountRun(s) ==
    LET more[k \in Nat, descending \in BOOLEAN, failure \in BOOLEAN] ==
            LET next(o) ==
                    IF (o.order = "Less") = descending
                    THEN more[k + 1, descending, o.failure]
                    ELSE [end |-> k, descending |-> descending, failure |-> o.failure]
            IN  IF k = length
                THEN [end |-> k, descending |-> descending, failure |-> failure]
                ELSE next(Outcome(failure, s.a[k], s.a[k - 1]))
        second(o) == more[lo + 2, o.order = "Less", o.failure]
    IN  IF lo + 1 = length
        THEN [end |-> length, descending |-> FALSE, failure |-> s.failure]
        ELSE second(Outcome(s.failure, s.a[lo + 1], s.a[lo]))

Ascending(s, run) ==
    [s EXCEPT
        !.failure = run.failure,
        !.a = [i \in DOMAIN @ |-> IF run.descending /\ i \in lo .. run.end - 1
                                  THEN @[lo + run.end - 1 - i] ELSE @[i]]]

(* Whether the key belongs behind the row x: for "right", also if the two  *)
(* are equal.                                                              *)
Behind(side, o) ==
    [yes |-> IF side = "right" THEN o.order # "Less" ELSE o.order = "Greater",
     failure |-> o.failure]
Try(side, failure, key, x) == Behind(side, Outcome(failure, key, x))

(* The binary search for the place of the key in base+lower .. base+upper. *)
Search(side, key, row, base, lower, upper, failed) ==
    LET search[l \in Nat, u \in Nat, failure \in BOOLEAN] ==
            LET m == (l + u) \div 2
                half(behind) ==
                    IF behind.yes THEN search[m + 1, u, behind.failure]
                    ELSE search[l, m, behind.failure]
            IN  IF l >= u THEN [at |-> u, failure |-> failure]
                ELSE half(Try(side, failure, key, row[base + m]))
    IN  search[lower, upper, failed]

Inserted(t, p, place) ==
    [t EXCEPT
        !.failure = place.failure,
        !.a = [i \in DOMAIN @ |-> CASE i = place.at -> @[p]
                                    [] i \in place.at + 1 .. p -> @[i - 1]
                                    [] OTHER -> @[i]]]

(* binary_sort: the elements from..start-1 are sorted.                     *)
BinarySort(s, from, end, start) ==
    LET insert(t, p) ==
            Inserted(t, p, Search("right", t.a[p], t.a, 0, from, p, t.failure))
    IN  Sequence!FoldLeft(insert, s, [i \in 1 .. end - start |-> start + i - 1])

(* gallop_left and gallop_right: from the hint in leaps that grow, then by *)
(* the binary search.                                                      *)
Leaps(side, key, row, from, max, hinted) ==
    LET leap[last \in Nat, ofs \in Nat, failure \in BOOLEAN] ==
            LET next(behind) ==
                    IF behind.yes = hinted.yes THEN leap[ofs, 2 * ofs + 1, behind.failure]
                    ELSE [last |-> last, ofs |-> ofs, failure |-> behind.failure]
            IN  IF ofs >= max THEN [last |-> last, ofs |-> max, failure |-> failure]
                ELSE next(Try(side, failure, key,
                              row[IF hinted.yes THEN from + ofs ELSE from - ofs]))
    IN  leap[0, 1, hinted.failure]

Between(side, key, row, base, hint, right, far) ==
    Search(side, key, row, base,
           IF right THEN hint + far.last + 1 ELSE hint + 1 - far.ofs,
           IF right THEN hint + far.ofs ELSE hint - far.last, far.failure)

Gallop(side, key, row, base, len, hint, failed) ==
    LET from(hinted) ==
            Between(side, key, row, base, hint, hinted.yes,
                    Leaps(side, key, row, base + hint,
                          IF hinted.yes THEN len - hint ELSE hint + 1, hinted))
    IN  from(Try(side, failed, key, row[base + hint]))

-----------------------------------------------------------------------------
(* A merge (merge_lo or merge_hi, by side) of two runs, 1 and 2: the       *)
(* shorter one is in tmp, the other in its place in the array; cursor and  *)
(* len are what is left of each.  merge_lo takes elements at the front,    *)
(* merge_hi at the back, where the cursors end below the front.            *)
NewSort ==
    [a |-> [i \in Row |-> i], failure |-> FALSE, min_gallop |-> MinGallop,
     mode |-> "none", side |-> "lo", tmp |-> <<>>, cursor |-> <<0, 0>>,
     len |-> <<0, 0>>, dest |-> 0, count |-> <<0, 0>>, gallop |-> 0]

Source(s, run) == IF (run = 1) = (s.side = "lo") THEN s.tmp ELSE s.a

(* The first element that is left, and the last.                           *)
FirstLeft(s, run) == IF s.side = "lo" THEN s.cursor[run] ELSE s.cursor[run] - s.len[run] + 1

NextOf(s, run) == Source(s, run)[s.cursor[run]]

(* The next k elements of the run are moved to the destination.            *)
Take(s, run, k) ==
    LET step == IF s.side = "lo" THEN k ELSE - k
        to == IF s.side = "lo" THEN s.dest ELSE s.dest - k + 1
        from == IF s.side = "lo" THEN s.cursor[run] ELSE s.cursor[run] - k + 1
    IN  [s EXCEPT
            !.a = [i \in DOMAIN @ |->
                      IF i \in to .. to + k - 1 THEN Source(s, run)[from + i - to] ELSE @[i]],
            !.dest = @ + step, !.cursor[run] = @ + step, !.len[run] = @ - k]

(* The run in tmp is left with one element, or the other run with none.    *)
Buffered(s) == IF s.side = "lo" THEN 1 ELSE 2
Over(s) == s.len[Buffered(s)] <= 1 \/ s.len[3 - Buffered(s)] = 0

Proceed(s, mode) == [s EXCEPT !.mode = IF Over(s) THEN "finish" ELSE mode]

(* merge_lo and merge_hi up to their loops: the element that is known to   *)
(* come first, or last, is taken.                                          *)
StartMerge(s, base1, len1, base2, len2) ==
    LET side == IF len1 <= len2 THEN "lo" ELSE "hi"
        tmp == IF side = "lo" THEN [i \in 0 .. len1 - 1 |-> s.a[base1 + i]]
               ELSE [i \in 0 .. len2 - 1 |-> s.a[base2 + i]]
        begun == [s EXCEPT
                     !.side = side, !.tmp = tmp, !.len = <<len1, len2>>,
                     !.cursor = IF side = "lo" THEN <<0, base2>>
                                ELSE <<base1 + len1 - 1, len2 - 1>>,
                     !.dest = IF side = "lo" THEN base1 ELSE base2 + len2 - 1,
                     !.count = <<0, 0>>, !.gallop = s.min_gallop]
    IN  Proceed(Take(begun, 3 - Buffered(begun), 1), "pairs")

(* merge_at, behind the stack: the front of the first run and the back of  *)
(* the second that are in place already are left alone.                    *)
TrimBack(s, base1, len1, base2, back) ==
    IF back.at = 0 THEN [s EXCEPT !.failure = back.failure]
    ELSE StartMerge([s EXCEPT !.failure = back.failure], base1, len1, base2, back.at)

TrimFront(s, one, two, front) ==
    IF front.at = one.len THEN [s EXCEPT !.failure = front.failure]
    ELSE TrimBack(s, one.base + front.at, one.len - front.at, two.base,
             Gallop("left", s.a[one.base + one.len - 1], s.a, two.base, two.len,
                    two.len - 1, front.failure))

MergeAt(s, one, two) ==
    TrimFront(s, one, two,
        Gallop("right", s.a[two.base], s.a, one.base, one.len, 0, s.failure))

(* A block of the run is moved that comes before, or behind, the next      *)
(* element of the other run.                                               *)
Galloped(s, run, k, failure) ==
    Take([s EXCEPT !.failure = failure, !.count[run] = k], run, k)

Block(s, run) ==
    LET moved(g) == Galloped(s, run, IF s.side = "lo" THEN g.at ELSE s.len[run] - g.at,
                              g.failure)
    IN  moved(Gallop(IF run = 1 THEN "right" ELSE "left", NextOf(s, 3 - run),
                     Source(s, run), FirstLeft(s, run), s.len[run],
                     IF s.side = "lo" THEN 0 ELSE s.len[run] - 1, s.failure))

-----------------------------------------------------------------------------
callVars == <<call, rows, answered>>
Merging == sort.mode # "none"

SortInit ==
    /\ call \in Calls
    /\ length = Len(call.keys)
    /\ StackInit
    /\ rows = [i \in 1 .. length |-> i - 1]
    /\ answered = "none"
    /\ sort = NewSort

(* Nothing to compare; a key that fails; or all keys are there.            *)
NothingToSort ==
    /\ stage = "called" /\ answered = "none"
    /\ Len(call.keys) < 2 \/ call.specs = <<>>
    /\ answered' = "ok"
    /\ UNCHANGED <<runVars, call, rows, sort>>

FailingKey ==
    \E r \in DOMAIN call.keys : \E c \in DOMAIN call.specs : call.keys[r][c].class = "error"

Decorate ==
    /\ stage = "called" /\ answered = "none"
    /\ Len(call.keys) >= 2 /\ call.specs # <<>>
    /\ IF FailingKey THEN answered' = "key error" /\ UNCHANGED runVars
       ELSE Begin /\ UNCHANGED answered
    /\ UNCHANGED <<call, rows, sort>>

SortMini ==
    /\ MiniSort
    /\ LET sorted(run) == BinarySort(Ascending(sort, run), 0, length, run.end)
       IN  sort' = sorted(CountRun(sort))
    /\ UNCHANGED callVars

CutRun ==
    /\ stage = "march"
    /\ LET run == CountRun(sort)
           forced == Least(MinRun(length), length - lo)
       IN  IF run.end - lo < MinRun(length)
           THEN /\ PushRun(forced)
                /\ sort' = BinarySort(Ascending(sort, run), lo, lo + forced, run.end)
           ELSE /\ PushRun(run.end - lo)
                /\ sort' = Ascending(sort, run)
    /\ UNCHANGED callVars

MergeCollapse(i) ==
    /\ ~ Merging
    /\ CollapseAt(i) \/ ForceAt(i)
    /\ sort' = MergeAt(sort, stack[i], stack[i + 1])
    /\ UNCHANGED callVars

MergesDone ==
    /\ ~ Merging
    /\ Collapsed \/ Forced
    /\ UNCHANGED <<callVars, sort>>

(* One pair is compared; a run that wins often enough is galloped over.    *)
Won(s, run, failure) ==
    LET wins == s.count[run] + 1 IN
    Proceed(Take([s EXCEPT !.failure = failure,
                           !.count = [r \in 1 .. 2 |-> IF r = run THEN wins ELSE 0]],
                 run, 1),
            IF wins >= s.gallop THEN "first" ELSE "pairs")

MergePair ==
    /\ sort.mode = "pairs"
    /\ LET won(o) == Won(sort, IF (o.order = "Less") = (sort.side = "lo") THEN 2 ELSE 1,
                         o.failure)
       IN  sort' = won(Outcome(sort.failure, NextOf(sort, 2), NextOf(sort, 1)))
    /\ UNCHANGED <<runVars, callVars>>

(* One half of a turn of the galloping loop: a block of one run, and one   *)
(* element of the other.                                                   *)
Turned(block, run) == IF Over(block) THEN block ELSE Take(block, 3 - run, 1)

GallopFirst ==
    /\ sort.mode = "first"
    /\ sort' = Proceed(Turned(Block(sort, 1), 1), "second")
    /\ UNCHANGED <<runVars, callVars>>

(* The longer galloping pays, the sooner it is tried again.                *)
Turn(s) ==
    LET eager == IF s.gallop = 0 THEN 0 ELSE s.gallop - 1 IN
    IF Over(s) THEN Proceed(s, "finish")
    ELSE IF \A r \in 1 .. 2 : s.count[r] < MinGallop
    THEN [s EXCEPT !.mode = "pairs", !.gallop = eager + 2, !.count = <<0, 0>>]
    ELSE [s EXCEPT !.mode = "first", !.gallop = eager]

GallopSecond ==
    /\ sort.mode = "second"
    /\ sort' = Turn(Turned(Block(sort, 2), 2))
    /\ UNCHANGED <<runVars, callVars>>

(* What is left is moved; a run in tmp of which nothing is left shows that *)
(* the comparison contradicts itself.                                      *)
Rest(s, mine) ==
    IF s.len[mine] = 1 THEN Take(Take(s, 3 - mine, s.len[3 - mine]), mine, 1)
    ELSE Take(s, mine, s.len[mine])

FinishMerge ==
    /\ sort.mode = "finish"
    /\ IF sort.len[Buffered(sort)] = 0
       THEN /\ stage' = "panicked"
            /\ UNCHANGED <<length, lo, stack, sort>>
       ELSE /\ sort' = [Rest(sort, Buffered(sort)) EXCEPT
                           !.mode = "none",
                           !.min_gallop = IF sort.gallop < 1 THEN 1 ELSE sort.gallop]
            /\ UNCHANGED runVars
    /\ UNCHANGED callVars

(* The rows are moved, unless a comparison failed.                         *)
Undecorate ==
    /\ stage = "sorted" /\ answered = "none"
    /\ IF sort.failure
       THEN answered' = "comparison error" /\ UNCHANGED rows
       ELSE answered' = "ok" /\ rows' = [i \in 1 .. length |-> sort.a[i - 1]]
    /\ UNCHANGED <<runVars, call, sort>>

SortNext ==
    \/ NothingToSort \/ Decorate \/ SortMini \/ CutRun
    \/ \E i \in 1 .. Len(stack) : MergeCollapse(i)
    \/ MergesDone \/ MergePair \/ GallopFirst \/ GallopSecond \/ FinishMerge
    \/ Undecorate

SortSpec == SortInit /\ [][SortNext]_sortVars

-----------------------------------------------------------------------------
(* Properties                                                              *)

Incomparable(x, y) == Compared(x, y) = "Error"

(* The rows are ordered by the definition of their keys' places, criterion *)
(* by criterion, and rows without a difference stay in order.              *)
Precedes(x, y) ==
    LET keys == UNION {{call.keys[r][c] : c \in DOMAIN call.specs} : r \in DOMAIN call.keys}
        place(r, c) == Place(Cast(call.keys[r + 1][c]), call.specs[c], keys)
        telling == {c \in DOMAIN call.specs : place(x, c) # place(y, c)}
    IN  IF telling = {} THEN x < y
        ELSE LET c == CHOOSE c \in telling : \A d \in telling : c <= d
             IN  place(x, c) < place(y, c)

(* sort_by_keys answers with all rows, sorted stably, only if all the rows *)
(* compare ("a type error rather than an arbitrary order"), and with an    *)
(* error only for a key that fails or rows that do not compare, and then   *)
(* the rows are untouched.  Sorted is by Place: an ascending criterion     *)
(* under `greatest' puts NaN behind all numbers, against order.rs 19.      *)
OrderExact ==
    /\ answered = "ok" =>
          /\ \A r \in Row : \E i \in 1 .. length : rows[i] = r
          /\ \A i, j \in 1 .. length : i < j => Precedes(rows[i], rows[j])
          /\ call.specs # <<>> =>
                ~ FailingKey /\ \A x, y \in Row : ~ Incomparable(x, y)
    /\ answered \in {"key error", "comparison error"} =>
          /\ rows = [i \in 1 .. length |-> i - 1]
          /\ FailingKey \/ \E x, y \in Row : Incomparable(x, y)

(* Rows that do not compare are reported (order.rs: "A key error aborts    *)
(* the sort and leaves `rows` untouched; a comparison error does the       *)
(* same.").                                                                *)
ErrorsReturned == stage # "panicked"
=============================================================================
