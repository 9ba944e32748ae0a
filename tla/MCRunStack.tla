------------------------------ MODULE MCRunStack ------------------------------
(* A TLC instance of RunStack: one array, by the lengths of its runs.      *)
EXTENDS RunStack

MCLengths == {65536}

(* Behind each of the long runs (the last of a line), the short ones merge *)
(* with one another to a run that is too long for the place it then has,   *)
(* fourth from the top, where merge_collapse does not look; so the stack   *)
(* grows by two runs a line and their lengths do not double.               *)
NaturalRuns ==
    <<20205,
      17, 16, 18, 34, 84, 148, 316, 632, 1264, 2527, 5055, 10093,
      17, 16, 18, 34, 84, 148, 316, 632, 1263, 2527, 5037,
      17, 16, 18, 34, 84, 148, 316, 631, 1263, 2509,
      17, 16, 18, 34, 84, 148, 315, 631, 1245,
      17, 16, 18, 34, 84, 147, 315, 613,
      17, 16, 18, 34, 84, 146, 297,
      17, 16, 18, 34, 74, 137,
      21, 19, 38, 58,
      19, 18, 20, 16, 5130>>

(* Where each of them begins.                                              *)
Starts ==
    LET start[i \in 1 .. Len(NaturalRuns)] ==
            IF i = 1 THEN 0 ELSE start[i - 1] + NaturalRuns[i - 1]
    IN  start

RunsNext ==
    \/ Begin \/ MiniSort \/ Collapsed \/ Forced
    \/ \E i \in DOMAIN NaturalRuns : lo = Starts[i] /\ PushRun(NaturalRuns[i])
    \/ \E i \in 1 .. Len(stack) : CollapseAt(i) \/ ForceAt(i)

RunsSpec == StackInit /\ [][RunsNext]_runVars
=============================================================================
