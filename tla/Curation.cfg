\* One memory that changes, two texts a proposal may have, one restore request:
\* enough to write over a text, share it a second time, and bring the first back.
\* Three dates leave two windows after one another, with the memory between them.
SPECIFICATION Spec
CONSTANTS
    None = None
    Mems = {1}
    Texts = {t, u}
    Requests = {1}
    Runners = {daily}
    PageSize = 1
    Cap = 2
    MaxClock = 2
    MaxVersion = 2
    MaxOps = 3
    Faults = {"lost", "crash", "mutation"}
CHECK_DEADLOCK FALSE
INVARIANTS
    NothingPassedOver
    OneCopy
PROPERTIES
    EveryMemoryIsReached
    RequestsSettle
