\* No faults and no maintenance: three operations and the reindex tool.
SPECIFICATION Spec
CONSTANTS
    i1 = i1
    i2 = i2
    o1 = o1
    o2 = o2
    Ids = {i1, i2}
    LastName = 3
    LinkSets <- TwoLinks
    Ops = {}
    MaxRev = 2
    MaxRestarts = 0
    None = None
SYMMETRY Symmetry
PROPERTIES
    ReindexIsComplete
