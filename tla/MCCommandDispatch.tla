-------------------------- MODULE MCCommandDispatch --------------------------
(***************************************************************************)
(* Small instances of CommandDispatch for TLC.                             *)
(***************************************************************************)
EXTENDS CommandDispatch, TLC

\* Handlers are interchangeable, and so are the threads that serve requests.
MCSymmetry == Permutations(Handler) \cup Permutations(Admin)
=============================================================================
