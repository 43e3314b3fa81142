SPECIFICATION FairSpec
CONSTANTS
    o1 = o1  p1 = p1  p2 = p2  v1 = v1  v2 = v2
    None = None
    Orders = {o1}
    Products = {p1, p2}
    Values = {v1}
    Seeded <- NothingSeeded
    SeedValue = v1
    Retries = 1
    MaxTx = 3
    MaxVersions = 1
    MaxFailures = 2
INVARIANTS
    ConvergesUnlessCoalesced
PROPERTY
    EveryChangeDelivered
