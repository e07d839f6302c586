---------------------------- MODULE MCMaintenance ----------------------------
(***************************************************************************)
(* Instances of Maintenance for TLC.                                       *)
(***************************************************************************)
EXTENDS Maintenance, TLC

CONSTANTS a, b, c

(* Two active memories, one of which links to a name nobody has: enough for *)
(* a merge, a prune, and the return of the missing name.                   *)
TwoMemories == {
    [id |-> 1, name |-> a, stamp |-> 1, active |-> TRUE, link |-> c],
    [id |-> 2, name |-> b, stamp |-> 2, active |-> TRUE, link |-> None]}

Symmetry == Permutations(Ops) \cup Permutations(Handlers)

(* A merge archives and patches, so the two alone are left out of the       *)
(* larger instance.                                                        *)
FewKinds ==
    [s \in BOOLEAN |-> IF s THEN {"patch", "restore", "create"} ELSE {"merge", "prune", "restore"}]

(* Every failure whose outcome the service learns in the end. *)
KnownFaults == FaultKinds \ {"retry", "check"}

=============================================================================
