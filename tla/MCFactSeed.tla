----------------------------- MODULE MCFactSeed -----------------------------
(* FactSeed for TLC: one order with two lines.                              *)
EXTENDS FactSeed, TLC

CONSTANTS o1, p1, p2, v1, v2

TwoLinesSeeded == {<<o1, p1>>, <<o1, p2>>}

Symmetry == Permutations({p1, p2})

\* Bound: two seeds, or one and a failure.
MaxIncidents == 2

\* Once the last seed has been mixed up with a run, no seed can end that, and
\* every property but the type invariant excepts the states that follow.
StillRepairable ==
    /\ seeds + failures <= MaxIncidents
    /\ mixed => \/ seeds + failures < MaxIncidents
                \/ seedPc # "idle" /\ apart
=============================================================================
