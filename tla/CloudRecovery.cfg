\* Three names and four operations, the references kept to one memory: enough
\* for a rename that fails half undone and is tried again from a stale index.
\* Unknown commit outcomes and unread bodies included.
\* Without symmetry, which liveness does not allow.
SPECIFICATION FairSpec
CONSTANTS
    a = a
    b = b
    c = c
    Names = {a, b, c}
    MaxOps = 4
    Inputs <- ReferToA
    Faults <- RecordFaults
INVARIANTS
    TypeOK
    IndexReadable
    NameOwned
    NoStolenName
    Unique
PROPERTIES
    OperationsReturn
