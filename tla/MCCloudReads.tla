----------------------------- MODULE MCCloudReads -----------------------------
(***************************************************************************)
(* Instances of CloudReads for TLC.                                        *)
(***************************************************************************)
EXTENDS CloudReads, MCCloudMemory

(* The reader meets all but the last operation: a rename back that brings an *)
(* old key of a reference to life is checked without one.                  *)
Alone == clock = MaxOps => read = NoRead /\ shown = 0

=============================================================================
