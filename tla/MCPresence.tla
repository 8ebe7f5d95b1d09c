------------------------------ MODULE MCPresence ------------------------------
(***************************************************************************)
(* Small instances of Presence for TLC.                                    *)
(***************************************************************************)
EXTENDS Presence, TLC

\* Request threads are interchangeable.
MCSymmetry == Permutations(Handler)
=============================================================================
