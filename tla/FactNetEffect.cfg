\* One seeded line, no failure and no new product version: only the window.
SPECIFICATION Spec
CONSTANTS
    o1 = o1  p1 = p1  p2 = p2  v1 = v1  v2 = v2
    None = None
    Orders = {o1}
    Products = {p1}
    Values = {v1, v2}
    Seeded <- OneLineSeeded
    SeedValue = v1
    Retries = 1
    MaxTx = 2
    MaxVersions = 1
    MaxFailures = 0
INVARIANT
    NetEffectResolved
