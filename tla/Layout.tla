-------------------------------- MODULE Layout --------------------------------
EXTENDS Integers, FiniteSets

(***************************************************************************)
(* Rooms, their seat maps and the rooms of the PCs.  Three tables say the  *)
(* same in three ways: seat_layout has the rooms, seat_map the PC on each  *)
(* seat of a room, pc_info the room and seat of each PC.  An               *)
(* administrator's request changes them statement by statement; each       *)
(* statement is a transaction of its own, and no foreign key is enforced.  *)
(*                                                                         *)
(* The first statement of a request is part of its first action.  Requests *)
(* that end without having changed anything are left out.                  *)
(***************************************************************************)
CONSTANTS
  Room,      \* names of rooms
  PC,        \* ids in pc_info
  Seat,      \* the seats (row and column) of a room
  Handler,   \* server threads that may serve an administrator's request
  None,      \* NULL: no PC on a seat, no room or seat of a PC
  MaxIds     \* bound: ids of seat_layout in use or held by a request

ASSUME LayoutAssumption ==
  /\ Room # {}
  /\ None \notin Room \cup PC \cup Seat
  /\ MaxIds \in Nat

VARIABLES
  layout,    \* layout[r]: the id of the row named r in seat_layout, or NoId
  map,       \* map[r][s]: the PC in the row of seat_map for seat s of room r
  pcs,       \* PCs with a row in pc_info
  place,     \* place[p]: room_name and seat_number of PC p
  request,   \* request[h]: what server thread h is doing
  clean      \* history: so far, no two requests met and none broke off

tables == <<layout, map, pcs, place>>
vars == <<layout, map, pcs, place, request, clean>>

-----------------------------------------------------------------------------
(* Data *)

Id == 1..MaxIds
NoId == 0

SomeRoom == CHOOSE r \in Room : TRUE

\* A PC without a room keeps its seat_number, which then means nothing.
NowhereNamed == [room |-> "", seat |-> None]

Nowhere == [room |-> None, seat |-> None]

Nobody == [p \in PC |-> None]
EmptyMap == [s \in Seat |-> None]

Place == [room : Room \cup {None}, seat : Seat \cup {None}]

\* What a save asks for: the editor has each PC once, but drops a PC on an
\* occupied seat, too.
Asked == [PC -> Seat \cup {None}]

Idle == [at |-> "idle", room |-> SomeRoom, new |-> SomeRoom, id |-> NoId,
         asked |-> Nobody, todo |-> {}, pc |-> None, alone |-> TRUE]

Work == [at : {"idle", "insert", "check", "movePCs", "moveSeats", "name", "count",
               "delete", "clear", "seats", "place"},
         room : Room, new : Room, id : Id \cup {NoId}, asked : Asked,
         todo : SUBSET PC, pc : PC \cup {None}, alone : BOOLEAN]

TypeOK ==
  /\ layout \in [Room -> Id \cup {NoId}]
  /\ map \in [Room -> [Seat -> PC \cup {None}]]
  /\ pcs \subseteq PC
  /\ place \in [PC -> Place]
  /\ request \in [Handler -> Work]
  /\ clean \in BOOLEAN

Init ==
  /\ layout = [r \in Room |-> NoId]
  /\ map = [r \in Room |-> EmptyMap]
  /\ pcs = PC
  /\ place = [p \in PC |-> Nowhere]
  /\ request = [h \in Handler |-> Idle]
  /\ clean = TRUE

-----------------------------------------------------------------------------
(* Requests *)

Seated(w) == {p \in PC : w.asked[p] # None}

\* Two requests meet when they name the same room or seat the same PC.
Meets(v, w) ==
  \/ {v.room, v.new} \cap {w.room, w.new} # {}
  \/ v.id # NoId /\ v.id = w.id
  \/ Seated(v) \cap Seated(w) # {}

Met(w) == {k \in Handler : request[k].at # "idle" /\ Meets(w, request[k])}

Begin(h, w) ==
  /\ request[h].at = "idle"
  /\ request' = [k \in Handler |->
       IF k = h THEN [w EXCEPT !.alone = (Met(w) = {})]
       ELSE IF k \in Met(w) THEN [request[k] EXCEPT !.alone = FALSE]
       ELSE request[k]]
  /\ clean' = (clean /\ Met(w) = {})

Goto(h, from, to) ==
  /\ request[h].at = from
  /\ request' = [request EXCEPT ![h].at = to]
  /\ UNCHANGED clean

Finish(h, from) ==
  /\ request[h].at = from
  /\ request' = [request EXCEPT ![h] = Idle]
  /\ UNCHANGED clean

\* What the earlier statements did stays: db.rollback() finds no transaction to
\* undo.
BreakOff(h, from) ==
  /\ request[h].at = from
  /\ request' = [request EXCEPT ![h] = Idle]
  /\ clean' = FALSE

InUse(id) == \E r \in Room : layout[r] = id

Fresh(id) ==
  /\ ~InUse(id)
  /\ \A h \in Handler : request[h].id # id

\* The database never uses an id again; here, the least one that no row has and
\* no request holds.
NewId(id) ==
  /\ Fresh(id)
  /\ \A other \in Id : Fresh(other) => id <= other

-----------------------------------------------------------------------------
(* create_room, and get_layout_map of a room that does not exist *)

MakeRoom(h, r) ==
  /\ layout[r] = NoId
  /\ Begin(h, [Idle EXCEPT !.at = "insert", !.room = r, !.new = r])
  /\ UNCHANGED tables

InsertRoom(h) ==
  LET r == request[h].room IN
  /\ Finish(h, "insert")
  /\ IF layout[r] = NoId
     THEN \E id \in Id : NewId(id) /\ layout' = [layout EXCEPT ![r] = id]
     ELSE UNCHANGED layout
  /\ UNCHANGED <<map, pcs, place>>

-----------------------------------------------------------------------------
(* update_room *)

UpdateRoom(h, r, new) ==
  /\ layout[r] # NoId
  /\ Begin(h, [Idle EXCEPT !.at = IF new = r THEN "name" ELSE "check",
                           !.room = r, !.new = new, !.id = layout[r]])
  /\ UNCHANGED tables

\* Mutant: the new name is not looked up.
CheckNoName(h) ==
  /\ Goto(h, "check", "movePCs")
  /\ UNCHANGED tables

CheckName(h) ==
  /\ IF layout[request[h].new] \in {NoId, request[h].id}
     THEN Goto(h, "check", "movePCs")
     ELSE Finish(h, "check")
  /\ UNCHANGED tables

Inside(r) == {p \in pcs : place[p].room = r}

MovePCs(h) ==
  LET w == request[h] IN
  /\ Goto(h, "movePCs", "moveSeats")
  /\ place' = [p \in PC |-> IF p \in Inside(w.room)
                            THEN [place[p] EXCEPT !.room = w.new] ELSE place[p]]
  /\ UNCHANGED <<layout, map, pcs>>

\* UNIQUE(room_name, row, col)
Collide(r, new) == \E s \in Seat : map[r][s] # None /\ map[new][s] # None

SeatsStay(r, new) == map

Merged(r, new) ==
  [map EXCEPT ![r] = EmptyMap,
              ![new] = [s \in Seat |-> IF map[r][s] # None THEN map[r][s] ELSE map[new][s]]]

MoveSeats(h) ==
  LET w == request[h] IN
  /\ ~Collide(w.room, w.new)
  /\ Goto(h, "moveSeats", "name")
  /\ map' = Merged(w.room, w.new)
  /\ UNCHANGED <<layout, pcs, place>>

SeatsCollide(h) ==
  /\ Collide(request[h].room, request[h].new)
  /\ BreakOff(h, "moveSeats")
  /\ UNCHANGED tables

\* UPDATE seat_layout SET room_name=... WHERE id=?, whatever its name is now; a
\* row that is gone is not missed.
NameTaken(w) == InUse(w.id) /\ layout[w.new] \notin {NoId, w.id}

Named(w) ==
  [r \in Room |-> CASE r = w.new /\ InUse(w.id) -> w.id
                    [] r # w.new /\ layout[r] = w.id -> NoId
                    [] OTHER -> layout[r]]

SetName(h) ==
  /\ ~NameTaken(request[h])
  /\ Finish(h, "name")
  /\ layout' = Named(request[h])
  /\ UNCHANGED <<map, pcs, place>>

NameCollides(h) ==
  /\ NameTaken(request[h])
  /\ BreakOff(h, "name")
  /\ UNCHANGED tables

-----------------------------------------------------------------------------
(* delete_room *)

DeleteRoom(h, r) ==
  /\ layout[r] # NoId
  /\ Begin(h, [Idle EXCEPT !.at = "count", !.room = r, !.new = r, !.id = layout[r]])
  /\ UNCHANGED tables

OccupiedByMap(r) == map[r] # EmptyMap

Occupied(r) == Inside(r) # {}

CountPCs(h) ==
  /\ IF Occupied(request[h].room) THEN Finish(h, "count") ELSE Goto(h, "count", "delete")
  /\ UNCHANGED tables

RemoveRoom(h) ==
  /\ Finish(h, "delete")
  /\ layout' = [r \in Room |-> IF layout[r] = request[h].id THEN NoId ELSE layout[r]]
  /\ UNCHANGED <<map, pcs, place>>

-----------------------------------------------------------------------------
(* save_layout_map *)

\* Mutant: the old seats stay.
SaveOver(h, r, asked) ==
  /\ Begin(h, [Idle EXCEPT !.at = "clear", !.room = r, !.new = r, !.asked = asked,
                           !.todo = {p \in PC : asked[p] # None}])
  /\ UNCHANGED tables

SaveMap(h, r, asked) ==
  /\ Begin(h, [Idle EXCEPT !.at = "clear", !.room = r, !.new = r, !.asked = asked,
                           !.todo = {p \in PC : asked[p] # None}])
  /\ map' = [map EXCEPT ![r] = EmptyMap]
  /\ UNCHANGED <<layout, pcs, place>>

AllCleared(r) == [p \in PC |-> Nowhere]

NoneCleared(r) == place

Cleared(r) == [p \in PC |-> IF p \in Inside(r) THEN Nowhere ELSE place[p]]

ClearPlaces(h) ==
  /\ Goto(h, "clear", "seats")
  /\ place' = Cleared(request[h].room)
  /\ UNCHANGED <<layout, map, pcs>>

\* The seats come in the order in which the editor placed them.
InsertSeat(h, p) ==
  LET w == request[h] IN
  /\ w.at = "seats" /\ p \in w.todo
  /\ map[w.room][w.asked[p]] = None
  /\ map' = [map EXCEPT ![w.room][w.asked[p]] = p]
  /\ request' = [request EXCEPT ![h].at = "place", ![h].pc = p, ![h].todo = @ \ {p}]
  /\ UNCHANGED <<layout, pcs, place, clean>>

SeatTaken(h, p) ==
  LET w == request[h] IN
  /\ p \in w.todo
  /\ map[w.room][w.asked[p]] # None
  /\ BreakOff(h, "seats")
  /\ UNCHANGED tables

PlacePC(h) ==
  LET w == request[h]
      p == w.pc
  IN
  /\ w.at = "place"
  /\ request' = [request EXCEPT ![h].at = "seats", ![h].pc = None]
  /\ place' = IF p \in pcs THEN [place EXCEPT ![p] = [room |-> w.room, seat |-> w.asked[p]]]
                           ELSE place
  /\ UNCHANGED <<layout, map, pcs, clean>>

\* INSERT OR REPLACE deletes the row of the room and inserts another one.
ReplaceRoom(h) ==
  LET w == request[h] IN
  /\ w.todo = {}
  /\ Finish(h, "seats")
  /\ \E id \in Id : NewId(id) /\ layout' = [layout EXCEPT ![w.room] = id]
  /\ UNCHANGED <<map, pcs, place>>

-----------------------------------------------------------------------------
(* delete_pc: the row of the PC goes, its seat stays *)

DeletePC(p) ==
  /\ p \in pcs
  /\ pcs' = pcs \ {p}
  /\ place' = [place EXCEPT ![p] = Nowhere]
  /\ UNCHANGED <<layout, map, request, clean>>

-----------------------------------------------------------------------------
(* Failures *)

\* The next statement of a request fails, on a database that is locked, say.  The
\* end of the server is such a failure of every request under way.
StatementFails(h) ==
  /\ BreakOff(h, request[h].at)
  /\ request[h].at # "idle"
  /\ UNCHANGED tables

-----------------------------------------------------------------------------
Start(h) ==
  \/ \E r \in Room : MakeRoom(h, r)
  \/ \E r, new \in Room : UpdateRoom(h, r, new)
  \/ \E r \in Room : DeleteRoom(h, r)
  \/ \E r \in Room, asked \in Asked : SaveMap(h, r, asked)

Continue(h) ==
  \/ InsertRoom(h)
  \/ CheckName(h)
  \/ MovePCs(h)
  \/ MoveSeats(h)
  \/ SeatsCollide(h)
  \/ SetName(h)
  \/ NameCollides(h)
  \/ CountPCs(h)
  \/ RemoveRoom(h)
  \/ ClearPlaces(h)
  \/ \E p \in PC : InsertSeat(h, p)
  \/ \E p \in PC : SeatTaken(h, p)
  \/ PlacePC(h)
  \/ ReplaceRoom(h)
  \/ StatementFails(h)

Next == (\E h \in Handler : Start(h) \/ Continue(h)) \/ (\E p \in PC : DeletePC(p))

Spec == Init /\ [][Next]_vars

-----------------------------------------------------------------------------
(* Properties *)

\* A save that is answered with success replaced the room's map, whatever was
\* left of earlier maps: the seats and the PCs' places are the ones asked for,
\* also when other rooms are saved, renamed or deleted at the same time.
SavedAsAsked(w) ==
  /\ \A s \in Seat, p \in PC : map[w.room][s] = p <=> w.asked[p] = s
  /\ \A p \in pcs : IF w.asked[p] = None
                   THEN place[p].room # w.room
                   ELSE place[p] = [room |-> w.room, seat |-> w.asked[p]]
SaveReplacesMap ==
  [][\A h \in Handler : ReplaceRoom(h) /\ request[h].alone => SavedAsAsked(request[h])]_vars

\* A rename that is answered with success leaves nothing under the old name.
MovedAway(w) ==
  /\ map[w.room] = EmptyMap
  /\ Inside(w.room) = {}
  /\ layout'[w.room] = NoId
  /\ layout'[w.new] = w.id
RenameMovesAll ==
  [][\A h \in Handler :
       SetName(h) /\ request[h].alone /\ request[h].new # request[h].room
         => MovedAway(request[h])]_vars

\* A room with PCs is not deleted, unless one is moved there meanwhile.
OnlyEmptyRoomsGo ==
  [][\A h \in Handler :
       RemoveRoom(h) /\ request[h].alone => Inside(request[h].room) = {}]_vars

\* A UNIQUE constraint stops a request that met no other one for two reasons only:
\* seats are left under the new name of a rename from an earlier room, or a save
\* asks for one seat twice.  A name or a seat that is free when a request looks or
\* clears is still free when the request takes it.
ConflictsExplained ==
  [][\A h \in Handler : request[h].alone =>
       LET w == request[h] IN
       /\ ~NameCollides(h)
       /\ SeatsCollide(h) => layout[w.new] = NoId
       /\ \A p \in PC : SeatTaken(h, p) => \E q \in PC \ {p} : w.asked[q] = w.asked[p]]_vars

\* As long as no two requests met and none broke off, the three tables agree
\* between requests: the room of a PC exists and has the PC on its seat.
PlacesHaveSeats ==
  clean /\ (\A h \in Handler : request[h].at = "idle") =>
    \A p \in pcs : place[p].room # None =>
      /\ layout[place[p].room] # NoId
      /\ map[place[p].room][place[p].seat] = p

-----------------------------------------------------------------------------
(* The plan an administrator sees, see module SeatPlan                       *)

\* From the second statement on, a rename and a save count as done.
Renaming(w) == w.at \in {"moveSeats", "name"}
Placing(w) == w.at \in {"seats", "place"}

\* The second PC on a seat will break the save off.
Doomed(w) ==
  /\ w.at \in {"clear", "seats", "place"}
  /\ \E p, q \in Seated(w) : p # q /\ w.asked[p] = w.asked[q]

PlannedRooms ==
  ({r \in Room : layout[r] # NoId} \ {request[h].room : h \in {k \in Handler : Renaming(request[k])}})
  \cup {request[h].new : h \in {k \in Handler : Renaming(request[k]) \/ Placing(request[k])}}

Seats(h, p) == Placing(request[h]) /\ p \in Seated(request[h])

PlannedPlace(p) ==
  IF p \notin pcs THEN Nowhere
  ELSE IF \E h \in Handler : Seats(h, p)
  THEN LET w == request[CHOOSE h \in Handler : Seats(h, p)]
       IN [room |-> w.room, seat |-> w.asked[p]]
  ELSE place[p]

PlannedPlaces == [p \in PC |-> PlannedPlace(p)]

Calm == clean /\ \A h \in Handler : ~Doomed(request[h])

Plan == INSTANCE SeatPlan WITH rooms <- PlannedRooms, where <- PlannedPlaces, calm <- Calm

\* The requests of administrators, interleaved statement by statement, look as if
\* each were carried out at one moment, as long as no two meet and none breaks off.
SeatPlanSpec == Plan!SPSpec
=============================================================================
