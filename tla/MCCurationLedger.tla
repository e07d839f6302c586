--------------------------- MODULE MCCurationLedger ---------------------------
(***************************************************************************)
(* Instances of CurationLedger for TLC.                                    *)
(***************************************************************************)
EXTENDS CurationLedger, TLC

OneDay == {<<1, 2>>}

=============================================================================
