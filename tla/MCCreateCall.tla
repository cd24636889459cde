---------------------------- MODULE MCCreateCall ----------------------------
(***************************************************************************)
(* The create tier on a handful of concurrent calls.                       *)
(***************************************************************************)
EXTENDS CreateCall
=============================================================================
