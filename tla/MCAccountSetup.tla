---------------------------- MODULE MCAccountSetup ----------------------------
(***************************************************************************)
(* Small instances of AccountSetup for TLC.                                *)
(***************************************************************************)
EXTENDS AccountSetup, TLC
=============================================================================
