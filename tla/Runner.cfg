\* Two projects, two cursors; a page with a source; three proposals, which
\* may be the same or share their operation id; a change by an owner.
SPECIFICATION FairSpec
CONSTANTS
    c1 = c1
    c2 = c2
    None = None
    o1 = o1
    MaxRedirects = 1
    Deadline = 1
    MaxDecoded = 1
    Projects <- TwoProjects
    Cursors = {c1, c2}
    MaxSources = 1
    PageLimit = 0
    OutputLimit = 1
    Operations = {o1}
    MaxProposals = 3
    MaxOwner = 1
INVARIANTS
    Accounted
PROPERTIES
    RunEnds
CHECK_DEADLOCK FALSE
