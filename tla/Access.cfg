\* Three requests of one meeting; both stores, both modes.
SPECIFICATION FairSpec
CONSTANTS
    u1 = u1
    u2 = u2
    None = None
    Users = {u1, u2}
    Founders = {u1}
    Curator = u1
    Workloads <- Meetings
    MaxRequests = 3
    Deployments <- LocalAndCloud
INVARIANTS
    OwnerRemains
    ActsOnRights
    OwnAnswer
PROPERTIES
    RevokedStaysRevoked
    EveryCallAnswered
CHECK_DEADLOCK FALSE
