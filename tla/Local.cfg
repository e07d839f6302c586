\* Two memories, three names, two requests of maintenance, one death.
SPECIFICATION Spec
CONSTANTS
    i1 = i1
    i2 = i2
    o1 = o1
    o2 = o2
    Ids = {i1, i2}
    LastName = 3
    LinkSets <- OneLink
    Ops = {o1, o2}
    MaxRev = 3
    MaxRestarts = 1
    None = None
SYMMETRY Symmetry
CONSTRAINT Narrow
INVARIANTS
    IndexAgrees
    NothingLost
    ForgottenStaysGone
    OriginalsKept
PROPERTIES
    RenameFollowed
