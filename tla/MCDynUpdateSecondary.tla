------------------------ MODULE MCDynUpdateSecondary ------------------------
(***************************************************************************)
(* An instance of DynUpdateSecondary for TLC: updaters that race for one   *)
(* record, so that old content comes back under a new serial.              *)
(***************************************************************************)
EXTENDS DynUpdateSecondary, MCDynUpdate

=============================================================================
