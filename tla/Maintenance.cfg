\* Two memories, one link to a missing name, two operations, two handlers.
SPECIFICATION Spec
CONSTANTS
    a = a
    b = b
    c = c
    None = None
    Names = {a, b, c}
    Ops = {o1, o2}
    Handlers = {h1, h2}
    Catalogue <- TwoMemories
    MaxClock = 4
    MaxVersion = 2
    MaxSent = 2
    MaxSkipped = 1
    Cap = 3
    Asked <- FewKinds
    Faults <- KnownFaults
SYMMETRY Symmetry
CHECK_DEADLOCK FALSE
INVARIANTS
    ReplacedKept
    AppliedOnce
PROPERTIES
    UserEditWins
    PruneKeepsLiveLinks
    SuccessIsVisible
