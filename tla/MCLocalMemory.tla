----------------------------- MODULE MCLocalMemory ---------------------------
(***************************************************************************)
(* Instances of LocalMemory for TLC.                                       *)
(***************************************************************************)
EXTENDS LocalMemory, TLC

CONSTANTS i1, i2, o1, o2

(* A reference that a rename has to follow, alone or beside the new name. *)
OneLink == {{1}}
TwoLinks == {{1}, {1, 2}}

Symmetry == Permutations(Ids) \union Permutations(Ops)

(* Renames need three names and restores three writes: a memory is written a *)
(* third time only while nothing has, or is to get, the last name.         *)
InUse == Present \union ({c.now : c \in Range(job.changes)} \ {None})
Narrow ==
    (\E t \in InUse : t.rev = MaxRev) => \A t \in InUse : t.name # LastName /\ LastName \notin t.links

=============================================================================
