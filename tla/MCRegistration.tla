---------------------------- MODULE MCRegistration ----------------------------
(***************************************************************************)
(* Small instances of Registration for TLC.                                *)
(***************************************************************************)
EXTENDS Registration, TLC

\* Request threads are interchangeable.
MCSymmetry == Permutations(Handler)
=============================================================================
