\* Three names and four operations: enough for a rename of a referenced
\* memory, and for one that brings an old key back.
SPECIFICATION Spec
CONSTANTS
    a = a
    b = b
    c = c
    Names = {a, b, c}
    MaxOps = 4
    Inputs <- OneReference
    Faults <- CleanFaults
SYMMETRY Symmetry
INVARIANTS
    NamesMatch
    IndexAgrees
PROPERTIES
    ImplementsCatalogue
