---------------------------- MODULE PatternCache ----------------------------
(***************************************************************************)
(* The process-wide table of compiled xs:pattern programs: direct mapped,  *)
(* one key per line, behind a lock that is held for a probe or a store and *)
(* never across a compilation.  Threads compile pattern facets through it, *)
(* and any thread may empty it at any time.                                *)
(*                                                                         *)
(* A key is (pattern, version, compatibility); a program is identified by  *)
(* the key it was compiled from.                                           *)
(***************************************************************************)
EXTENDS Naturals

CONSTANTS
    Thread,
    PatternKey,
    Invalid,        \* the keys whose pattern does not compile
    Line,           \* the lines of the table
    LineOf,         \* the line of a key: its hash, masked
    Facet,          \* the facets each thread compiles, one after another
    KeyOf,          \* the key of a facet
    NoKey, NoFacet, NotCompiled, InvalidPattern

ASSUME PatternCacheAssumption ==
    /\ Invalid \subseteq PatternKey
    /\ LineOf \in [PatternKey -> Line]
    /\ KeyOf \in [Facet -> PatternKey]
    /\ NoKey \notin PatternKey
    /\ NoFacet \notin Facet
    /\ {NotCompiled, InvalidPattern} \cap PatternKey = {}
    /\ NotCompiled # InvalidPattern

VARIABLES
    line,           \* [key, program] of each line
    compiled,       \* the program each thread's copy of a facet holds
    compiling,      \* the facet each thread is compiling
    step,           \* where in compile() each thread is
    returned        \* the facet of each thread's last call and what it gave

patternVars == <<line, compiled, compiling, step, returned>>

EmptyLine == [key |-> NoKey, program |-> NotCompiled]

(* What compile_pattern_program returns: the key's program, or the error.  *)
ProgramOf(k) == IF k \in Invalid THEN InvalidPattern ELSE k

PatternTypeOK ==
    /\ \A i \in Line : line[i] \in {EmptyLine} \cup
          [key : PatternKey, program : PatternKey \ Invalid]
    /\ compiled \in [Thread -> [Facet -> PatternKey \cup {NotCompiled}]]
    /\ compiling \in [Thread -> Facet \cup {NoFacet}]
    /\ step \in [Thread -> {"idle", "probe", "compile", "store"}]
    /\ \A t \in Thread : returned[t] # <<>> => returned[t][1] \in Facet

PatternInit ==
    /\ line = [i \in Line |-> EmptyLine]
    /\ compiled = [t \in Thread |-> [f \in Facet |-> NotCompiled]]
    /\ compiling = [t \in Thread |-> NoFacet]
    /\ step = [t \in Thread |-> "idle"]
    /\ returned = [t \in Thread |-> <<>>]

(* compile() does nothing for a facet that already has a program; one that *)
(* failed is tried again.                                                  *)
BeginCompile(t) ==
    /\ step[t] = "idle"
    /\ \E f \in Facet :
        /\ compiled[t][f] = NotCompiled
        /\ compiling' = [compiling EXCEPT ![t] = f]
    /\ step' = [step EXCEPT ![t] = "probe"]
    /\ returned' = [returned EXCEPT ![t] = <<>>]
    /\ UNCHANGED <<line, compiled>>

Finish(t, program) ==
    /\ compiled' = [compiled EXCEPT ![t][compiling[t]] =
                        IF program = InvalidPattern THEN NotCompiled ELSE program]
    /\ compiling' = [compiling EXCEPT ![t] = NoFacet]
    /\ step' = [step EXCEPT ![t] = "idle"]
    /\ returned' = [returned EXCEPT ![t] = <<compiling[t], program>>]

(* Mutant of Resident: a hit without comparing the key.                    *)
ResidentAnyKey(k) == line[LineOf[k]] # EmptyLine /\ k \in PatternKey

(* A line answers for a key only if it holds that very key.                *)
Resident(k) == line[LineOf[k]].key = k

Hit(t) ==
    /\ step[t] = "probe"
    /\ Resident(KeyOf[compiling[t]])
    /\ Finish(t, line[LineOf[KeyOf[compiling[t]]]].program)
    /\ UNCHANGED line

Miss(t) ==
    /\ step[t] = "probe"
    /\ ~Resident(KeyOf[compiling[t]])
    /\ step' = [step EXCEPT ![t] = "compile"]
    /\ UNCHANGED <<line, compiled, compiling, returned>>

(* A pattern that does not compile leaves by the ? of the compilation.     *)
CompileFails(t) ==
    /\ step[t] = "compile"
    /\ ProgramOf(KeyOf[compiling[t]]) = InvalidPattern
    /\ Finish(t, InvalidPattern)
    /\ UNCHANGED line

Compiles(k) == ProgramOf(k) # InvalidPattern

CompileSucceeds(t) ==
    /\ step[t] = "compile"
    /\ Compiles(KeyOf[compiling[t]])
    /\ step' = [step EXCEPT ![t] = "store"]
    /\ UNCHANGED <<line, compiled, compiling, returned>>

(* The store replaces whatever shares the line, and the thread keeps the   *)
(* program it compiled whatever becomes of the line.                       *)
Stored(k) == [key |-> k, program |-> ProgramOf(k)]

Store(t) ==
    /\ step[t] = "store"
    /\ LET k == KeyOf[compiling[t]] IN
        /\ line' = [line EXCEPT ![LineOf[k]] = Stored(k)]
        /\ Finish(t, ProgramOf(k))

ClearPatterns ==
    /\ line' = [i \in Line |-> EmptyLine]
    /\ UNCHANGED <<compiled, compiling, step, returned>>

CompileStep(t) ==
    Hit(t) \/ Miss(t) \/ CompileFails(t) \/ CompileSucceeds(t) \/ Store(t)

PatternNext ==
    \/ \E t \in Thread : BeginCompile(t) \/ CompileStep(t)
    \/ ClearPatterns

PatternSpec == PatternInit /\ [][PatternNext]_patternVars
-----------------------------------------------------------------------------
(* The cache is invisible (facets.rs, "Verified hits", "Only successful    *)
(* compiles are stored"): whatever the threads' probes, compilations and   *)
(* stores, and clears between any two of them, each facet ends with what   *)
(* compiling its own key gives, and an invalid pattern with its error.     *)
FacetResult(_s, f) == ProgramOf(KeyOf[f])

UncachedPatterns == INSTANCE UncachedAnswers WITH
    Client <- Thread, Request <- Facet, NoRequest <- NoFacet,
    Result <- FacetResult, source <- Line, asked <- compiling,
    answered <- returned
CacheInvisible == UncachedPatterns!UncachedSpec
=============================================================================
