------------------------- MODULE MCMaintenanceRunner -------------------------
(***************************************************************************)
(* Instances of MaintenanceRunner for TLC.                                 *)
(***************************************************************************)
EXTENDS MaintenanceRunner, TLC

CONSTANTS c1, c2, o1

TwoProjects == <<"first", "second">>

=============================================================================
