--------------------------- MODULE MCScdDimension ---------------------------
(* ScdDimension for TLC: business keys are numbers, for their order.       *)
EXTENDS ScdDimension, TLC

CONSTANTS a1, a2, a3, b1, b2

TwoMembers == 1..2

\* Both attributes of the first member change, the versioned one of the second.
SecondKeepsType1(m) == [t1: IF m = 1 THEN {a1, a2} ELSE {a3}, t2: {b1, b2}]

\* No action and no property tells the values of one attribute apart.
Symmetry == Permutations({a1, a2}) \cup Permutations({b1, b2})
=============================================================================
