\* Two runs of two pages each, in both stores; a manual run over one day.
SPECIFICATION Spec
CONSTANTS
    None = None
    Mems = {m1}
    Places = {p1}
    Requests = {q1}
    MaxRuns = 2
    MaxPages = 2
    MaxClock = 2
    Dates <- OneDay
INVARIANTS
    StoresAgree
    AdvancedRunIsWhole
    WindowsTile
