\* The cloud store, one request at a time, no fault.
SPECIFICATION Spec
CONSTANTS
    h1 = h1
    h2 = h2
    Handlers = {h1}
    Stores = {"firestore"}
    Limit <- Limits
    MaxConsents = 1
    MaxWindows = 1
    Faults = {}
PROPERTIES
    RevocationRevokes
