\* Both stores; two requests at a time, every fault.
SPECIFICATION Spec
CONSTANTS
    h1 = h1
    h2 = h2
    Handlers = {h1, h2}
    Stores = {"sqlite", "firestore"}
    Limit <- Limits
    MaxConsents = 2
    MaxWindows = 2
    Faults = {"stop", "retry"}
SYMMETRY Symmetry
INVARIANTS
    OneConsentOneCode
    OneLiveRefresh
    EndedForGood
    RevokedForCause
