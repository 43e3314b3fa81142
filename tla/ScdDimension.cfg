\* Two members, three seconds at which a load or a stub can take its run_time,
\* so up to three loads or retries, and one fact load.  The system stops when
\* the bounds on time and fact loads are reached.
SPECIFICATION Spec
CHECK_DEADLOCK FALSE
CONSTANTS
    a1 = a1  a2 = a2  a3 = a3  b1 = b1  b2 = b2
    Members <- TwoMembers
    Type1Values = {a1, a2, a3}
    Type2Values = {b1, b2}
    Source <- SecondKeepsType1
    Blank = Blank
    None = None
    MaxTime = 3
    MaxBatches = 1
SYMMETRY Symmetry
INVARIANTS
    TypeOK
    EnrichedAfterLoad
    VersionsDisjoint
    KeysDistinct
    FactKeysResolve
PROPERTY
    HistoryKept
