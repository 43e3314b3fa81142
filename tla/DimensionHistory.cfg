\* Closing a version, as the comment in _write_type2_dimension describes it.
SPECIFICATION Spec
CONSTANTS
    a1 = a1  a2 = a2  s1 = s1  s2 = s2  p1 = p1  c1 = c1
    e1 = e1  e2 = e2  t1 = t1  h1 = h1  x = x  y = y  none = none
    NoKey = none
    Addresses = {a1, a2}
    Parts <- DagParts
    Members <- TheMembers
    Attributes <- TheAttributes
    Initial <- TheSource
    MaxEvents = 3
    MaxVersions = 5
PROPERTIES
    ClosedAsStored
