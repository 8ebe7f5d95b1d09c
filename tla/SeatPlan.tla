------------------------------- MODULE SeatPlan -------------------------------
(***************************************************************************)
(* What the editor of rooms promises an administrator, without tables,     *)
(* statements and threads: there are rooms, every PC is nowhere or on a    *)
(* seat of one of them, and each request changes this at one moment or not *)
(* at all.  The promise ends when requests get into each other's way.      *)
(***************************************************************************)
CONSTANTS
  Room,      \* names of rooms
  PC,        \* ids of PCs
  Seat,      \* the seats of a room
  None       \* no room, no seat

VARIABLES
  rooms,     \* the rooms there are
  pcs,       \* the PCs there are
  where,     \* where[p]: the room and the seat of PC p
  calm       \* whether anything is promised

plan == <<rooms, pcs, where, calm>>

Nowhere == [room |-> None, seat |-> None]

In(r) == {p \in PC : where[p].room = r}

SPInit ==
  /\ rooms = {}
  /\ pcs = PC
  /\ where = [p \in PC |-> Nowhere]
  /\ calm = TRUE

CreateRoom(r) ==
  /\ r \notin rooms
  /\ rooms' = rooms \cup {r}
  /\ UNCHANGED <<pcs, where>>

\* The PCs stay on their seats.
RenameRoom(r, new) ==
  /\ r \in rooms /\ new \notin rooms
  /\ rooms' = (rooms \ {r}) \cup {new}
  /\ where' = [p \in PC |-> IF p \in In(r) THEN [where[p] EXCEPT !.room = new] ELSE where[p]]
  /\ UNCHANGED pcs

DeleteRoom(r) ==
  /\ r \in rooms /\ In(r) = {}
  /\ rooms' = rooms \ {r}
  /\ UNCHANGED <<pcs, where>>

\* The room need not exist.  PCs of the room that are asked for no seat leave it.
SeatPCs(r, asked) ==
  /\ \A p, q \in PC : asked[p] = asked[q] /\ asked[p] # None => p = q
  /\ rooms' = rooms \cup {r}
  /\ where' = [p \in PC |->
       IF p \in pcs /\ asked[p] # None THEN [room |-> r, seat |-> asked[p]]
       ELSE IF p \in In(r) THEN Nowhere
       ELSE where[p]]
  /\ UNCHANGED pcs

DeletePC(p) ==
  /\ p \in pcs
  /\ pcs' = pcs \ {p}
  /\ where' = [where EXCEPT ![p] = Nowhere]
  /\ UNCHANGED rooms

Request ==
  \/ \E r \in Room :
       \/ CreateRoom(r)
       \/ \E new \in Room \ {r} : RenameRoom(r, new)
       \/ DeleteRoom(r)
       \/ \E asked \in [PC -> Seat \cup {None}] : SeatPCs(r, asked)
  \/ \E p \in PC : DeletePC(p)

\* For good.
Disturbed == calm' = FALSE

SPNext == (calm /\ UNCHANGED calm /\ Request) \/ Disturbed

SPSpec == SPInit /\ [][SPNext]_plan
=============================================================================
