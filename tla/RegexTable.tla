------------------------------ MODULE RegexTable ------------------------------
(***************************************************************************)
(* The compiled regular expressions of XPath runs.  A run keeps a table of *)
(* its own, dropped when the run returns, unless the host lends it the     *)
(* table it keeps; a run nested in another (an extension function that     *)
(* evaluates an expression) may be lent the same one.  A table holds       *)
(* entries in the order their slots were filled; how recently one was used *)
(* is a number on it, and a full table overwrites the smallest.            *)
(*                                                                         *)
(* A key is (pattern, flags); a program is identified by its key.  The     *)
(* branch of RegexCache::get_or_compile for a table that is borrowed       *)
(* already is left out: compiling runs no host code, so it is never taken. *)
(***************************************************************************)
EXTENDS Naturals, Sequences, SequencesExt, FiniteSets

CONSTANTS
    RegexKey,
    Malformed,      \* the keys whose compilation fails
    HostCapacity,   \* as the host gave it, zero included
    RunCapacity,    \* MAX_ENTRIES
    MaxNesting,
    MaxClock,
    RegexError

ASSUME RegexTableAssumption ==
    /\ Malformed \subseteq RegexKey
    /\ HostCapacity \in Nat /\ RunCapacity \in Nat \ {0}
    /\ MaxNesting \in Nat /\ MaxClock \in Nat
    /\ RegexError \notin RegexKey

VARIABLES
    host,           \* the host's table
    runs,           \* the running evaluations, the innermost last
    answer,         \* what the last call of a run got
    hostCall        \* the last call answered by the host's table

regexVars == <<host, runs, answer, hostCall>>

(* Table::with_capacity: at least one entry.                               *)
EmptyTable(capacity) ==
    [entries |-> <<>>,
     capacity |-> IF capacity = 0 THEN 1 ELSE capacity,
     clock |-> 0]

CompileRegex(k) == IF k \in Malformed THEN RegexError ELSE k

Slots(table) == DOMAIN table.entries
SlotOf(table, k) == {i \in Slots(table) : table.entries[i].key = k}

(* Mutant of Victim: the oldest entry is overwritten, used since or not.   *)
FirstSlot(table) == CHOOSE i \in Slots(table) : \A j \in Slots(table) : i <= j

(* The first entry of the smallest number.                                 *)
Victim(table) ==
    CHOOSE i \in Slots(table) : \A j \in Slots(table) :
        \/ table.entries[i].used < table.entries[j].used
        \/ table.entries[i].used = table.entries[j].used /\ i <= j

(* Mutant of Overwriting: an overwritten entry keeps its program.          *)
Renamed(table, k) ==
    [table.entries[Victim(table)] EXCEPT !.key = k, !.used = table.clock]

RegexEntry(table, k) ==
    [key |-> k, compiled |-> CompileRegex(k), used |-> table.clock]

HasRoom(table) == Len(table.entries) < table.capacity

Overwriting(table, k) == RegexEntry(table, k)

(* A hit keeps the entry and renews its number; a miss stores what the     *)
(* compilation gave, an error like a program.                              *)
Lookup(table, k) ==
    LET entries ==
            IF SlotOf(table, k) # {} THEN
                [table.entries EXCEPT
                    ![CHOOSE i \in SlotOf(table, k) : TRUE].used = table.clock]
            ELSE IF HasRoom(table)
                 THEN Append(table.entries, RegexEntry(table, k))
                 ELSE [table.entries EXCEPT ![Victim(table)] = Overwriting(table, k)]
    IN [table EXCEPT !.entries = entries, !.clock = @ + 1]

Compiled(table, k) ==
    table.entries[CHOOSE i \in SlotOf(table, k) : TRUE].compiled

TableOK(table) ==
    /\ table.capacity \in Nat \ {0}
    /\ table.clock \in 0..MaxClock
    /\ Len(table.entries) <= table.capacity
    /\ \A i, j \in Slots(table) :
        table.entries[i].key = table.entries[j].key => i = j
    /\ table.entries \in Seq([key : RegexKey, compiled : RegexKey \cup {RegexError},
                              used : 0..MaxClock])

RegexTypeOK ==
    /\ TableOK(host)
    /\ Len(runs) <= MaxNesting
    /\ \A i \in DOMAIN runs : runs[i].lent \in BOOLEAN /\ TableOK(runs[i].own)
    /\ answer # <<>> => answer \in RegexKey \X (RegexKey \cup {RegexError})
    /\ hostCall # <<>> => hostCall \in RegexKey \X BOOLEAN

RegexInit ==
    /\ host = EmptyTable(HostCapacity)
    /\ runs = <<>>
    /\ answer = <<>>
    /\ hostCall = <<>>

BeginRun ==
    /\ Len(runs) < MaxNesting
    /\ \E lent \in BOOLEAN :
        runs' = Append(runs, [lent |-> lent, own |-> EmptyTable(RunCapacity)])
    /\ UNCHANGED <<host, answer, hostCall>>

EndRun ==
    /\ runs # <<>>
    /\ runs' = Front(runs)
    /\ UNCHANGED <<host, answer, hostCall>>

(* set_regex_cache: the setup callback has the last word on what is lent.  *)
SetRegexCache ==
    /\ runs # <<>>
    /\ Last(runs).own.clock = 0
    /\ \E lent \in BOOLEAN : runs' = [runs EXCEPT ![Len(runs)].lent = lent]
    /\ UNCHANGED <<host, answer, hostCall>>

CallOnHost(k) ==
    /\ runs # <<>> /\ Last(runs).lent
    /\ host.clock < MaxClock
    /\ host' = Lookup(host, k)
    /\ answer' = <<k, Compiled(host', k)>>
    /\ hostCall' = <<k, SlotOf(host, k) # {}>>
    /\ UNCHANGED runs

CallOnOwn(k) ==
    /\ runs # <<>> /\ ~Last(runs).lent
    /\ Last(runs).own.clock < MaxClock
    /\ runs' = [runs EXCEPT ![Len(runs)].own = Lookup(@, k)]
    /\ answer' = <<k, Compiled(Last(runs').own, k)>>
    /\ UNCHANGED <<host, hostCall>>

(* RegexCache::clear drops the entries; the clock runs on.                 *)
ClearHost ==
    /\ host' = [host EXCEPT !.entries = <<>>]
    /\ UNCHANGED <<runs, answer, hostCall>>

RegexNext ==
    \/ BeginRun \/ EndRun \/ SetRegexCache \/ ClearHost
    \/ \E k \in RegexKey : CallOnHost(k) \/ CallOnOwn(k)

RegexSpec == RegexInit /\ [][RegexNext]_regexVars
-----------------------------------------------------------------------------
ByRecency(table) ==
    LET newer(e, f) == e.used > f.used
    IN [i \in Slots(table) |-> SortSeq(table.entries, newer)[i].key]

(* The host's table keeps the least recently used promise, over nested     *)
(* runs, runs that are lent it only sometimes and clears (regex_cache.rs:  *)
(* "the least recently used entry is dropped to make room").               *)
HostRecency == INSTANCE RecencyList WITH
    Key <- RegexKey, Capacity <- EmptyTable(HostCapacity).capacity,
    recent <- ByRecency(host), last <- hostCall
HostIsLRU == HostRecency!RecencySpec

(* "the first and the thousandth call identical": what a call gets is what *)
(* compiling its own key gives, program or error, whatever was overwritten *)
(* or cleared before.                                                      *)
AnswersExact == answer # <<>> => answer[2] = CompileRegex(answer[1])
=============================================================================
