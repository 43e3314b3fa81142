\* An order with one seeded line, and one commit: only the insertion of its
\* other line writes a live row, and once in each application of the window, so
\* two live rows of it take a failure and a second application.
SPECIFICATION Spec
CONSTANTS
    o1 = o1  p1 = p1  p2 = p2  v1 = v1  v2 = v2
    None = None
    Orders = {o1}
    Products = {p1, p2}
    Values = {v1}
    Seeded <- OneLineSeeded
    SeedValue = v1
    Retries = 1
    MaxTx = 1
    MaxVersions = 2
    MaxFailures = 1
INVARIANT
    OneLiveRowPerLine
