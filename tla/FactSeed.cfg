\* Two seeded lines, two commits, two seeds beside the incremental DAG.
SPECIFICATION SeedSpec
CONSTANTS
    o1 = o1  p1 = p1  p2 = p2  v1 = v1  v2 = v2
    None = None
    Orders = {o1}
    Products = {p1, p2}
    Values = {v1, v2}
    Seeded <- TwoLinesSeeded
    SeedValue = v1
    Retries = 0
    MaxTx = 2
    MaxVersions = 1
    MaxFailures = 1
    SeedRetries = 1
    MaxSeeds = 2
CONSTRAINT
    StillRepairable
SYMMETRY Symmetry
INVARIANTS
    SeedTypeOK
    MissedOnlyIfLost
    SeedRepairs
