---------------------------- MODULE MCCloudMemory ----------------------------
(***************************************************************************)
(* Instances of CloudMemory for TLC.                                       *)
(***************************************************************************)
EXTENDS CloudMemory, TLC

CONSTANT a      \* the memory that the others refer to, where only one is

Plain(set) == [set |-> set, repeats |-> FALSE]

(* Lists of one name; longer ones come from LinkMemories, lists with a     *)
(* duplicate from a rename.                                                *)
OneReference == {Plain({n}) : n \in Names}

ReferToA == {Plain({a})}

(* Names are interchangeable, because the specification only compares them. *)
Symmetry == Permutations(Names)

(* Everything but what may leave metadata, index and names apart by itself: *)
(* an unknown commit outcome, a failed compensation, an unread body.        *)
CleanFaults == {"write", "writeAck", "commit", "index", "remove", "tombstone", "crash", "boot"}

(* Every failure whose outcome the caller knows. *)
KnownFaults == FaultKinds \ {"commitAck"}

(* The failures that do leave them apart, for the metadata and the index;   *)
(* those of an object's upload or removal are in the two sets above.       *)
RecordFaults == FaultKinds \ {"write", "writeAck", "remove", "tombstone"}

=============================================================================
