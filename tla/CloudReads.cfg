\* Every failure whose outcome the caller knows, failed compensations included,
\* and a reader beside the writers.  Three operations on three names are enough
\* for a memory, one that refers to it, and a rename of the first that takes the
\* reference along, with the undo of both documents, while the reader walks the
\* links; a fourth, without a reader, renames back.
SPECIFICATION ReadSpec
CONSTANTS
    a = a
    b = b
    c = c
    Names = {a, b, c}
    MaxOps = 4
    Inputs <- ReferToA
    Faults <- KnownFaults
    Watched = 1
CONSTRAINT Alone
INVARIANTS
    PointersResolve
    QuietReadsSucceed
    ReadsGoForward
