\* A load and one fact load that overlap.
SPECIFICATION Spec
CHECK_DEADLOCK FALSE
CONSTANTS
    a1 = a1  a2 = a2  a3 = a3  b1 = b1  b2 = b2
    Members <- TwoMembers
    Type1Values = {a1, a2, a3}
    Type2Values = {b1, b2}
    Source <- SecondKeepsType1
    Blank = Blank
    None = None
    MaxTime = 2
    MaxBatches = 1
SYMMETRY Symmetry
INVARIANT
    FreshKeys
