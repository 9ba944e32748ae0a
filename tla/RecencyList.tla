----------------------------- MODULE RecencyList -----------------------------
(***************************************************************************)
(* What a bounded cache with least-recently-used eviction promises: the    *)
(* keys it answers without work are the last Capacity distinct keys it was *)
(* asked for.                                                              *)
(***************************************************************************)
EXTENDS Sequences, SequencesExt

CONSTANTS Key, Capacity

VARIABLES
    recent,         \* the resident keys, the most recent first
    last            \* the last call: its key and whether it was answered here

recencyVars == <<recent, last>>

Without(k) == SelectSeq(recent, LAMBDA other : other # k)
FirstOf(s, n) == SubSeq(s, 1, IF Len(s) < n THEN Len(s) ELSE n)

Use(k) ==
    /\ last' = <<k, \E i \in 1..Len(recent) : recent[i] = k>>
    /\ recent' = FirstOf(<<k>> \o Without(k), Capacity)

Forget ==
    /\ recent' = <<>>
    /\ UNCHANGED last

RecencySpec == recent = <<>> /\ [][Forget \/ \E k \in Key : Use(k)]_recencyVars
=============================================================================
