\* One seeded line, every property that needs no fairness.
SPECIFICATION Spec
CONSTANTS
    o1 = o1  p1 = p1  p2 = p2  v1 = v1  v2 = v2
    None = None
    Orders = {o1}
    Products = {p1}
    Values = {v1, v2}
    Seeded <- OneLineSeeded
    SeedValue = v1
    Retries = 1
    MaxTx = 3
    MaxVersions = 2
    MaxFailures = 2
INVARIANTS
    TypeOK
    NoSkippedChange
    ConvergesUnlessCoalesced
    DeletedOrderGone
PROPERTY
    ImplementsDelivery
