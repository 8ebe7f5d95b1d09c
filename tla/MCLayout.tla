------------------------------- MODULE MCLayout -------------------------------
(***************************************************************************)
(* Small instances of Layout for TLC.                                      *)
(***************************************************************************)
EXTENDS Layout, TLC

\* No PC, seat, thread or name of a room is special.
MCSymmetry ==
  Permutations(Handler) \cup Permutations(PC) \cup Permutations(Seat) \cup Permutations(Room)
=============================================================================
