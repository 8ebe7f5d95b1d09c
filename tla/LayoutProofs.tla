----------------------------- MODULE LayoutProofs -----------------------------
(***************************************************************************)
(* The safety of Layout for every set of rooms, PCs, seats and server      *)
(* threads.                                                                *)
(***************************************************************************)
EXTENDS Layout, TLAPS

(***************************************************************************)
(* The inductive invariant                                                 *)
(***************************************************************************)

\* What the fields of a request are at each place.
Shape(w) ==
  /\ w.at \in {"insert", "count", "delete", "clear", "seats", "place"} => w.new = w.room
  /\ w.at \in {"check", "movePCs", "moveSeats"} => w.new # w.room
  /\ w.at \in {"check", "movePCs", "moveSeats", "name", "count", "delete"} => w.id # NoId
  /\ w.todo \subseteq Seated(w)
  /\ w.at = "clear" => w.todo = Seated(w)
  /\ w.at = "place" => w.pc \in Seated(w) \ w.todo
  /\ w.at # "place" => w.pc = None

ShapeInv == \A h \in Handler : Shape(request[h])

\* alone says what it should.
AloneInv ==
  \A h, k \in Handler :
    /\ request[h].at # "idle" /\ request[k].at # "idle"
    /\ request[h].alone /\ h # k
    => ~Meets(request[h], request[k])

CleanInv == clean => \A h \in Handler : request[h].alone

UniqueIds == \A r, q \in Room : layout[r] = layout[q] /\ layout[r] # NoId => r = q

Done(w) == Seated(w) \ w.todo

MapDone(w) ==
  \A s \in Seat, p \in PC : map[w.room][s] = p <=> p \in Done(w) /\ w.asked[p] = s

PlacesDone(w) ==
  \A p \in pcs : IF p \in Done(w) \ {w.pc}
                 THEN place[p] = [room |-> w.room, seat |-> w.asked[p]]
                 ELSE place[p].room # w.room

\* The PCs have left the room that is deleted or renamed.
Leaves(w) == w.at = "delete" \/ (w.at \in {"moveSeats", "name"} /\ w.new # w.room)

\* What a request that met no other one has reached.
Progress(w) ==
  w.at # "idle" /\ w.alone =>
    /\ w.id # NoId => layout[w.room] = w.id
    /\ Leaves(w) => Inside(w.room) = {}
    /\ w.at = "name" /\ w.new # w.room => map[w.room] = EmptyMap
    /\ w.at \in {"clear", "seats", "place"} => MapDone(w)
    /\ w.at \in {"seats", "place"} => PlacesDone(w)

ProgressInv == \A h \in Handler : Progress(request[h])

\* PlacesHaveSeats in the middle of requests: what is missing is still to come.
HasRoom(r) ==
  \/ layout[r] # NoId
  \/ \E h \in Handler :
       \/ request[h].at \in {"moveSeats", "name"} /\ request[h].new = r
       \/ request[h].at \in {"seats", "place"} /\ request[h].room = r

HasSeat(p, r, s) ==
  \/ map[r][s] = p
  \/ \E h \in Handler :
       \/ request[h].at = "moveSeats" /\ request[h].new = r /\ map[request[h].room][s] = p
       \/ request[h].at = "clear" /\ request[h].room = r

PlaceInv ==
  clean => \A p \in pcs : place[p].room # None =>
    /\ place[p].seat \in Seat
    /\ HasRoom(place[p].room)
    /\ HasSeat(p, place[p].room, place[p].seat)

Ind ==
  /\ TypeOK
  /\ ShapeInv
  /\ AloneInv
  /\ CleanInv
  /\ UniqueIds
  /\ ProgressInv
  /\ PlaceInv

-----------------------------------------------------------------------------
(* Constants and the effects of the parts of actions *)

\* Idle threads have a legal room.
LEMMA SomeConstants ==
  /\ SomeRoom \in Room
  /\ Nobody \in Asked
  /\ Nowhere \in Place
  /\ Idle \in Work
  <1>1. SomeRoom \in Room
    BY LayoutAssumption DEF SomeRoom
  <1>2. Nobody \in Asked
    BY DEF Nobody, Asked
  <1>3. Idle \in Work
    BY <1>1, <1>2 DEF Idle, Work
  <1>4. QED
    BY <1>1, <1>2, <1>3 DEF Nowhere, Place

\* An idle thread is in shape.
LEMMA IdleShape == Shape(Idle) /\ Idle.at = "idle" /\ Idle.alone
  BY DEF Shape, Idle, Seated

\* The initial state satisfies the inductive invariant.
LEMMA InitInd == Init => Ind
  <1> SUFFICES ASSUME Init PROVE Ind
    OBVIOUS
  <1>1. TypeOK
    BY SomeConstants DEF Init, TypeOK, EmptyMap, Id, NoId
  <1>2. ShapeInv /\ AloneInv /\ CleanInv /\ ProgressInv
    BY IdleShape DEF Init, ShapeInv, AloneInv, CleanInv, ProgressInv, Progress
  <1>3. UniqueIds /\ PlaceInv
    BY DEF Init, UniqueIds, PlaceInv, Nowhere
  <1>4. QED
    BY <1>1, <1>2, <1>3 DEF Ind

Places == {"insert", "check", "movePCs", "moveSeats", "name", "count", "delete", "clear",
           "seats", "place"}

\* The fields that say with what a request may meet.
SameWork(v, w) ==
  v.room = w.room /\ v.new = w.new /\ v.id = w.id /\ v.asked = w.asked /\ v.alone = w.alone

\* A step of a thread within its request, or the last one.
Stays(h, w) ==
  /\ request[h].at # "idle"
  /\ request' = [request EXCEPT ![h] = w]
  /\ w \in Work
  /\ Shape(w)
  /\ w = Idle \/ SameWork(w, request[h])
  /\ clean' \in BOOLEAN
  /\ clean' => clean

\* The next statement of a request.
LEMMA GotoEffect ==
  ASSUME TypeOK, NEW h \in Handler, NEW from, NEW to \in Places, from # "idle",
         Goto(h, from, to), Shape([request[h] EXCEPT !.at = to])
  PROVE  Stays(h, [request[h] EXCEPT !.at = to]) /\ request[h].at = from /\ clean' = clean
  <1>1. request[h] \in Work
    BY DEF TypeOK
  <1>2. [request[h] EXCEPT !.at = to] \in Work
    BY <1>1 DEF Work, Places
  <1>3. request' = [request EXCEPT ![h] = [request[h] EXCEPT !.at = to]]
    BY DEF Goto
  <1>4. QED
    BY <1>1, <1>2, <1>3 DEF Goto, Stays, SameWork, Work, TypeOK

\* The end of a request.
LEMMA FinishEffect ==
  ASSUME TypeOK, NEW h \in Handler, NEW from \in Places,
         Finish(h, from) \/ BreakOff(h, from)
  PROVE  Stays(h, Idle) /\ request[h].at = from
  <1>1. request[h].at = from /\ request' = [request EXCEPT ![h] = Idle]
    BY Zenon DEF Finish, BreakOff
  <1>2. clean' \in BOOLEAN /\ (clean' => clean)
    <2>1. clean \in BOOLEAN
      BY DEF TypeOK
    <2>2. clean' = clean \/ clean' = FALSE
      BY Zenon DEF Finish, BreakOff
    <2>3. CASE clean' = clean
      BY <2>1, <2>3
    <2>4. CASE clean' = FALSE
      BY <2>4
    <2>5. QED
      BY <2>2, <2>3, <2>4
  <1>3. from # "idle"
    BY DEF Places
  <1>4. QED
    BY <1>1, <1>2, <1>3, SomeConstants, IdleShape, Zenon DEF Stays

\* Steps within requests keep the parts of the invariant about requests alone.
LEMMA StaysEffect ==
  ASSUME TypeOK, ShapeInv, AloneInv, CleanInv, NEW h \in Handler, NEW w, Stays(h, w)
  PROVE  /\ request' \in [Handler -> Work]
         /\ clean' \in BOOLEAN
         /\ request'[h] = w
         /\ \A k \in Handler \ {h} : request'[k] = request[k]
         /\ ShapeInv' /\ AloneInv' /\ CleanInv'
  <1>1. /\ request' \in [Handler -> Work]
        /\ clean' \in BOOLEAN
        /\ request'[h] = w
        /\ \A k \in Handler \ {h} : request'[k] = request[k]
    BY DEF Stays, TypeOK
  <1>2. ShapeInv'
    <2> SUFFICES ASSUME NEW k \in Handler PROVE Shape(request'[k])
      BY DEF ShapeInv, Shape, Seated
    <2>1. QED
      BY <1>1 DEF Stays, ShapeInv
  <1>3. AloneInv'
    <2> SUFFICES ASSUME NEW g \in Handler, NEW k \in Handler,
                        request'[g].at # "idle", request'[k].at # "idle",
                        request'[g].alone, g # k
                 PROVE  ~Meets(request'[g], request'[k])
      BY DEF AloneInv, Meets, Seated
    <2>1. ASSUME NEW j \in {g, k}
          PROVE  SameWork(request'[j], request[j]) /\ request[j].at # "idle"
      BY <1>1, <2>1, IdleShape DEF Stays, SameWork
    <2>2. ~Meets(request[g], request[k])
      BY <2>1 DEF AloneInv, SameWork
    <2>3. QED
      BY <2>1, <2>2 DEF SameWork, Meets, Seated
  <1>4. CleanInv'
    BY <1>1, IdleShape DEF Stays, CleanInv, SameWork
  <1>5. QED
    BY <1>1, <1>2, <1>3, <1>4

\* Meeting is mutual.
LEMMA MeetsIsMutual ==
  ASSUME NEW v, NEW w, Meets(v, w)
  PROVE  Meets(w, v)
  BY DEF Meets

\* A new request, and what it makes of those it meets.
LEMMA BeginEffect ==
  ASSUME TypeOK, ShapeInv, AloneInv, CleanInv, NEW h \in Handler, NEW w \in Work,
         w.at # "idle", Shape(w), Begin(h, w)
  PROVE  /\ request' \in [Handler -> Work]
         /\ clean' \in BOOLEAN
         /\ clean' => clean /\ \A k \in Handler \ {h} : request'[k] = request[k]
         /\ request[h].at = "idle"
         /\ \E b \in BOOLEAN : request'[h] = [w EXCEPT !.alone = b]
         /\ \A k \in Handler \ {h} :
              /\ request'[k] \in {request[k], [request[k] EXCEPT !.alone = FALSE]}
              /\ request'[k].at # "idle" /\ request'[k].alone =>
                   request'[k] = request[k] /\ ~Meets(w, request[k])
         /\ ShapeInv' /\ AloneInv' /\ CleanInv'
  <1> DEFINE b == Met(w) = {}
  <1>1. b \in BOOLEAN
    OBVIOUS
  <1>2. /\ request[h].at = "idle"
        /\ request' = [k \in Handler |->
             IF k = h THEN [w EXCEPT !.alone = b]
             ELSE IF k \in Met(w) THEN [request[k] EXCEPT !.alone = FALSE]
             ELSE request[k]]
        /\ clean' = (clean /\ b)
    BY DEF Begin
  <1> HIDE DEF b
  <1>3. clean' \in BOOLEAN /\ (clean' => clean /\ b)
    BY <1>2, Zenon
  <1>4. request'[h] = [w EXCEPT !.alone = b] /\ [w EXCEPT !.alone = b] \in Work
    BY <1>1, <1>2 DEF Work
  <1>4a. ASSUME request'[h].alone = TRUE PROVE b
    <2>1. request'[h].alone = b
      BY <1>4 DEF Work
    <2>2. b = TRUE
      BY <1>4a, <2>1, Zenon
    <2>3. QED
      BY <2>2, Zenon
  <1>4b. ASSUME b PROVE request'[h].alone = TRUE
    <2>1. request'[h].alone = b
      BY <1>4 DEF Work
    <2>2. b = TRUE
      BY <1>1, <1>4b
    <2>3. QED
      BY <2>1, <2>2, Zenon
  <1>5. ASSUME NEW k \in Handler \ {h}
        PROVE  /\ request[k] \in Work
               /\ request'[k] = IF k \in Met(w) THEN [request[k] EXCEPT !.alone = FALSE]
                                ELSE request[k]
               /\ request'[k] \in Work
    <2>1. request[k] \in Work
      BY DEF TypeOK
    <2>2. [request[k] EXCEPT !.alone = FALSE] \in Work
      BY <2>1 DEF Work
    <2>3. QED
      BY <1>2, <2>1, <2>2
  <1>6. request' \in [Handler -> Work]
    <2>1. \A k \in Handler : request'[k] \in Work
      BY <1>4, <1>5
    <2>2. request' = [k \in Handler |-> request'[k]]
      BY <1>2
    <2>3. QED
      BY <2>1, <2>2
  <1>7. ASSUME NEW k \in Handler \ {h}
        PROVE  /\ k \notin Met(w) => request'[k] = request[k]
               /\ k \in Met(w) => request'[k] = [request[k] EXCEPT !.alone = FALSE]
               /\ request'[k].at = request[k].at
               /\ request'[k].room = request[k].room
               /\ request'[k].new = request[k].new
               /\ request'[k].id = request[k].id
               /\ request'[k].asked = request[k].asked
               /\ request'[k].todo = request[k].todo
               /\ request'[k].pc = request[k].pc
               /\ request'[k].alone => k \notin Met(w) /\ request'[k] = request[k]
    BY <1>5 DEF Work
  <1>8. ASSUME NEW k \in Handler \ {h}, request'[k].at # "idle", request'[k].alone
        PROVE  request'[k] = request[k] /\ ~Meets(w, request[k])
    BY <1>7, <1>8 DEF Met
  <1>9. b => \A k \in Handler \ {h} : request'[k] = request[k]
    BY <1>7 DEF b
  <1>10. ShapeInv'
    <2> SUFFICES ASSUME NEW k \in Handler PROVE Shape(request'[k])
      BY DEF ShapeInv, Shape, Seated
    <2>1. CASE k = h
      <3>1. /\ request'[h].at = w.at /\ request'[h].new = w.new /\ request'[h].room = w.room
            /\ request'[h].id = w.id /\ request'[h].todo = w.todo /\ request'[h].pc = w.pc
            /\ request'[h].asked = w.asked
        BY <1>4 DEF Work
      <3>2. QED
        BY <2>1, <3>1 DEF Shape, Seated
    <2>2. CASE k # h
      <3>1. /\ request'[k].at = request[k].at /\ request'[k].new = request[k].new
            /\ request'[k].room = request[k].room /\ request'[k].id = request[k].id
            /\ request'[k].todo = request[k].todo /\ request'[k].pc = request[k].pc
            /\ request'[k].asked = request[k].asked
        BY <1>7, <2>2
      <3>2. Shape(request[k])
        BY DEF ShapeInv
      <3>3. QED
        BY <3>1, <3>2 DEF Shape, Seated
    <2>3. QED
      BY <2>1, <2>2
  <1>11. AloneInv'
    <2> SUFFICES ASSUME NEW g \in Handler, NEW k \in Handler,
                        request'[g].at # "idle", request'[k].at # "idle",
                        request'[g].alone, g # k
                 PROVE  ~Meets(request'[g], request'[k])
      BY DEF AloneInv, Meets, Seated
    <2>1. ASSUME NEW j \in Handler PROVE Meets(request'[h], request[j]) = Meets(w, request[j])
      <3>1. /\ request'[h].new = w.new /\ request'[h].room = w.room
            /\ request'[h].id = w.id /\ request'[h].asked = w.asked
        BY <1>4 DEF Work
      <3>2. QED
        BY <3>1 DEF Meets, Seated
    <2>2. CASE g = h
      <3>1. b
        BY <1>4a, <2>2
      <3>2. request'[k] = request[k] /\ ~Meets(w, request[k])
        BY <1>9, <2>2, <3>1 DEF b, Met
      <3>3. QED
        BY <2>1, <2>2, <3>2
    <2>3. CASE k = h
      <3>1. request'[g] = request[g] /\ ~Meets(w, request[g])
        BY <1>8, <2>3
      <3>2. ~Meets(request'[h], request[g])
        BY <2>1, <3>1
      <3>3. QED
        BY <2>3, <3>1, <3>2, MeetsIsMutual
    <2>4. CASE g # h /\ k # h
      <3>1. request'[g] = request[g] /\ request[k].at # "idle"
        BY <1>7, <2>4
      <3>2. ~Meets(request[g], request[k])
        BY <3>1 DEF AloneInv
      <3>3. /\ request'[k].new = request[k].new /\ request'[k].room = request[k].room
            /\ request'[k].id = request[k].id /\ request'[k].asked = request[k].asked
        BY <1>7, <2>4
      <3>4. QED
        BY <3>1, <3>2, <3>3 DEF Meets, Seated
    <2>5. QED
      BY <2>2, <2>3, <2>4
  <1>12. CleanInv'
    <2> SUFFICES ASSUME clean', NEW k \in Handler PROVE request'[k].alone
      BY DEF CleanInv
    <2>1. b /\ clean
      BY <1>3
    <2>2. CASE k = h
      BY <1>4b, <2>1, <2>2
    <2>3. CASE k # h
      BY <1>9, <2>1, <2>3 DEF CleanInv
    <2>4. QED
      BY <2>2, <2>3
  <1>13. \A k \in Handler \ {h} :
           request'[k] \in {request[k], [request[k] EXCEPT !.alone = FALSE]}
    BY <1>5
  <1>14. \E c \in BOOLEAN : request'[h] = [w EXCEPT !.alone = c]
    BY <1>1, <1>4
  <1>15. QED
    BY <1>2, <1>3, <1>6, <1>8, <1>9, <1>10, <1>11, <1>12, <1>13, <1>14

-----------------------------------------------------------------------------
(* What a step leaves alone *)

TablesTyped ==
  /\ layout \in [Room -> Id \cup {NoId}]
  /\ map \in [Room -> [Seat -> PC \cup {None}]]
  /\ pcs \subseteq PC
  /\ place \in [PC -> Place]

\* A step that a request v does not notice.
Unnoticed(v) ==
  /\ v.id # NoId => layout'[v.room] = layout[v.room]
  /\ map'[v.room] = map[v.room]
  /\ pcs' \subseteq pcs
  /\ \A p \in pcs' :
       \/ place'[p] = place[p]
       \/ place'[p].room # v.room /\ (p \notin Seated(v) \/ place[p].room # v.room)

\* A step that a request does not notice keeps what it has reached.
LEMMA UnnoticedEffect ==
  ASSUME TypeOK, ShapeInv, ProgressInv, NEW k \in Handler, request'[k] = request[k],
         request[k].at # "idle" /\ request[k].alone => Unnoticed(request[k])
  PROVE  Progress(request[k])'
  <1> DEFINE v == request[k]
  <1>1. CASE ~(v.at # "idle" /\ v.alone)
    BY <1>1 DEF Progress
  <1>2. CASE v.at # "idle" /\ v.alone
    <2>1. Unnoticed(v) /\ Progress(v) /\ v \in Work
      BY <1>2 DEF ProgressInv, TypeOK
    <2>2. v.id # NoId => layout'[v.room] = v.id
      BY <1>2, <2>1 DEF Unnoticed, Progress
    <2>3. Leaves(v) => Inside(v.room)' = {}
      <3> SUFFICES ASSUME Leaves(v), NEW p \in pcs', place'[p].room = v.room PROVE FALSE
        BY DEF Inside
      <3>1. place'[p] = place[p] /\ p \in pcs
        BY <2>1 DEF Unnoticed
      <3>2. QED
        BY <1>2, <2>1, <3>1 DEF Progress, Inside
    <2>4. v.at = "name" /\ v.new # v.room => map'[v.room] = EmptyMap
      BY <1>2, <2>1 DEF Unnoticed, Progress
    <2>5. v.at \in {"clear", "seats", "place"} =>
            \A s \in Seat, p \in PC : map'[v.room][s] = p <=> p \in Done(v) /\ v.asked[p] = s
      BY <1>2, <2>1 DEF Unnoticed, Progress, MapDone
    <2>6. v.at \in {"seats", "place"} =>
            \A p \in pcs' : IF p \in Done(v) \ {v.pc}
                            THEN place'[p] = [room |-> v.room, seat |-> v.asked[p]]
                            ELSE place'[p].room # v.room
      <3> SUFFICES ASSUME v.at \in {"seats", "place"}, NEW p \in pcs'
                   PROVE  IF p \in Done(v) \ {v.pc}
                          THEN place'[p] = [room |-> v.room, seat |-> v.asked[p]]
                          ELSE place'[p].room # v.room
        OBVIOUS
      <3>1. p \in pcs /\ IF p \in Done(v) \ {v.pc}
                         THEN place[p] = [room |-> v.room, seat |-> v.asked[p]]
                         ELSE place[p].room # v.room
        BY <1>2, <2>1 DEF Unnoticed, Progress, PlacesDone
      <3>2. CASE p \in Done(v) \ {v.pc}
        <4>1. p \in Seated(v) /\ place[p].room = v.room
          BY <3>1, <3>2 DEF Done
        <4>2. place'[p] = place[p]
          BY <2>1, <4>1 DEF Unnoticed
        <4>3. QED
          BY <3>1, <3>2, <4>2
      <3>3. CASE p \notin Done(v) \ {v.pc}
        BY <2>1, <3>1, <3>3 DEF Unnoticed
      <3>4. QED
        BY <3>2, <3>3
    <2>7. QED
      BY <2>2, <2>3, <2>4, <2>5, <2>6
      DEF Progress, Leaves, Inside, MapDone, PlacesDone, Done, Seated
  <1>3. QED
    BY <1>1, <1>2

\* A step within a request keeps what its own progress does not need.
LEMMA StepKeeps ==
  ASSUME Ind, NEW h \in Handler, NEW w, Stays(h, w), TablesTyped',
         \A k \in Handler \ {h} :
           /\ request[k].at # "idle" /\ request[k].alone
           /\ ~Meets(request[k], request[h])
           => Unnoticed(request[k])
  PROVE  /\ TypeOK' /\ ShapeInv' /\ AloneInv' /\ CleanInv'
         /\ request'[h] = w
         /\ \A k \in Handler \ {h} : request'[k] = request[k]
         /\ Progress(request[h])' => ProgressInv'
  <1>1. TypeOK /\ ShapeInv /\ AloneInv /\ CleanInv /\ ProgressInv
    BY DEF Ind
  <1>2. /\ request' \in [Handler -> Work]
        /\ clean' \in BOOLEAN
        /\ request'[h] = w
        /\ \A k \in Handler \ {h} : request'[k] = request[k]
        /\ ShapeInv' /\ AloneInv' /\ CleanInv'
    BY <1>1, StaysEffect
  <1>3. TypeOK'
    BY <1>2 DEF TypeOK, TablesTyped
  <1>4. ASSUME NEW k \in Handler \ {h} PROVE Progress(request[k])'
    <2>1. request[h].at # "idle" /\ request'[k] = request[k]
      BY <1>2 DEF Stays
    <2>2. request[k].at # "idle" /\ request[k].alone => ~Meets(request[k], request[h])
      BY <1>1, <2>1 DEF AloneInv
    <2>3. QED
      BY <1>1, <2>1, <2>2, UnnoticedEffect
  <1>5. QED
    BY <1>2, <1>3, <1>4 DEF ProgressInv

\* A request that ends has nothing left to reach.
LEMMA FinishKeeps ==
  ASSUME Ind, NEW h \in Handler, Stays(h, Idle), TablesTyped',
         \A k \in Handler \ {h} :
           /\ request[k].at # "idle" /\ request[k].alone
           /\ ~Meets(request[k], request[h])
           => Unnoticed(request[k])
  PROVE  /\ TypeOK' /\ ShapeInv' /\ AloneInv' /\ CleanInv' /\ ProgressInv'
         /\ request'[h] = Idle
         /\ \A k \in Handler \ {h} : request'[k] = request[k]
  <1>1. /\ TypeOK' /\ ShapeInv' /\ AloneInv' /\ CleanInv'
        /\ request'[h] = Idle
        /\ \A k \in Handler \ {h} : request'[k] = request[k]
        /\ Progress(request[h])' => ProgressInv'
    BY StepKeeps
  <1>2. Progress(request[h])'
    BY <1>1, IdleShape DEF Progress
  <1>3. QED
    BY <1>1, <1>2

\* A thread that supplies nothing may go on or begin while the tables stay.
LEMMA SuppliesKept ==
  ASSUME Ind, NEW h \in Handler, UNCHANGED tables,
         clean' => clean /\ \A k \in Handler \ {h} : request'[k] = request[k],
         request[h].at \notin {"moveSeats", "name", "clear", "seats", "place"}
  PROVE  PlaceInv'
  <1> SUFFICES ASSUME clean', NEW p \in pcs, place[p].room # None
               PROVE  /\ place[p].seat \in Seat
                      /\ HasRoom(place[p].room)'
                      /\ HasSeat(p, place[p].room, place[p].seat)'
    BY DEF PlaceInv, tables
  <1> DEFINE r == place[p].room
             s == place[p].seat
  <1>1. s \in Seat /\ HasRoom(r) /\ HasSeat(p, r, s)
    BY DEF Ind, PlaceInv
  <1>2. HasRoom(r)'
    BY <1>1 DEF HasRoom, tables
  <1>3. HasSeat(p, r, s)'
    BY <1>1 DEF HasSeat, tables
  <1>4. QED
    BY <1>1, <1>2, <1>3

\* Nothing is promised once a request broke off.
LEMMA BrokenOff == ASSUME clean' = FALSE PROVE PlaceInv'
  BY DEF PlaceInv

-----------------------------------------------------------------------------
(* The actions *)

\* A name that is taken ends a rename; otherwise it starts to move things.
LEMMA CheckNameStep == ASSUME Ind, NEW h \in Handler, CheckName(h) PROVE Ind'
  <1> DEFINE w == request[h]
  <1>0. /\ TypeOK /\ ShapeInv /\ ProgressInv
        /\ w \in Work /\ Shape(w) /\ Progress(w)
    BY DEF Ind, TypeOK, ShapeInv, ProgressInv
  <1>1. UNCHANGED tables /\ TablesTyped'
    BY <1>0 DEF CheckName, TypeOK, TablesTyped, tables
  <1>2. \A k \in Handler : Unnoticed(request[k])
    BY <1>1 DEF Unnoticed, tables
  <1>3. UniqueIds'
    BY <1>1 DEF Ind, UniqueIds, tables
  <1>4. CASE Goto(h, "check", "movePCs")
    <2>1. w.at = "check"
      BY <1>4 DEF Goto
    <2>2. Shape([w EXCEPT !.at = "movePCs"])
      BY <1>0, <2>1 DEF Shape, Work, Seated
    <2>3. Stays(h, [w EXCEPT !.at = "movePCs"]) /\ clean' = clean
      BY <1>0, <1>4, <2>2, GotoEffect DEF Places
    <2>4. /\ TypeOK' /\ ShapeInv' /\ AloneInv' /\ CleanInv'
          /\ request'[h] = [w EXCEPT !.at = "movePCs"]
          /\ \A k \in Handler \ {h} : request'[k] = request[k]
          /\ Progress(request[h])' => ProgressInv'
      BY <1>1, <1>2, <2>3, StepKeeps
    <2>5. Progress(request[h])'
      BY <1>0, <1>1, <2>1, <2>4 DEF Progress, Leaves, Work, tables
    <2>6. PlaceInv'
      BY <1>1, <2>1, <2>3, <2>4, SuppliesKept
    <2>7. QED
      BY <1>3, <2>4, <2>5, <2>6 DEF Ind
  <1>5. CASE Finish(h, "check")
    <2>1. w.at = "check" /\ Stays(h, Idle) /\ clean' = clean
      BY <1>0, <1>5, FinishEffect DEF Places, Finish
    <2>2. /\ TypeOK' /\ ShapeInv' /\ AloneInv' /\ CleanInv' /\ ProgressInv'
          /\ \A k \in Handler \ {h} : request'[k] = request[k]
      BY <1>1, <1>2, <2>1, FinishKeeps
    <2>3. PlaceInv'
      BY <1>1, <2>1, <2>2, SuppliesKept
    <2>4. QED
      BY <1>3, <2>2, <2>3 DEF Ind
  <1>6. QED
    BY <1>4, <1>5 DEF CheckName

\* A room with PCs ends a deletion.
LEMMA CountPCsStep == ASSUME Ind, NEW h \in Handler, CountPCs(h) PROVE Ind'
  <1> DEFINE w == request[h]
  <1>0. /\ TypeOK /\ ShapeInv /\ ProgressInv
        /\ w \in Work /\ Shape(w) /\ Progress(w)
    BY DEF Ind, TypeOK, ShapeInv, ProgressInv
  <1>1. UNCHANGED tables /\ TablesTyped'
    BY <1>0 DEF CountPCs, TypeOK, TablesTyped, tables
  <1>2. \A k \in Handler : Unnoticed(request[k])
    BY <1>1 DEF Unnoticed, tables
  <1>3. UniqueIds'
    BY <1>1 DEF Ind, UniqueIds, tables
  <1>4. CASE ~Occupied(w.room) /\ Goto(h, "count", "delete")
    <2>1. w.at = "count" /\ Inside(w.room) = {}
      BY <1>4 DEF Goto, Occupied
    <2>2. Shape([w EXCEPT !.at = "delete"])
      BY <1>0, <2>1 DEF Shape, Work, Seated
    <2>3. Stays(h, [w EXCEPT !.at = "delete"]) /\ clean' = clean
      BY <1>0, <1>4, <2>2, GotoEffect DEF Places
    <2>4. /\ TypeOK' /\ ShapeInv' /\ AloneInv' /\ CleanInv'
          /\ request'[h] = [w EXCEPT !.at = "delete"]
          /\ \A k \in Handler \ {h} : request'[k] = request[k]
          /\ Progress(request[h])' => ProgressInv'
      BY <1>1, <1>2, <2>3, StepKeeps
    <2>5. Progress(request[h])'
      BY <1>0, <1>1, <2>1, <2>4 DEF Progress, Leaves, Work, tables, Inside
    <2>6. PlaceInv'
      BY <1>1, <2>1, <2>3, <2>4, SuppliesKept
    <2>7. QED
      BY <1>3, <2>4, <2>5, <2>6 DEF Ind
  <1>5. CASE Finish(h, "count")
    <2>1. w.at = "count" /\ Stays(h, Idle) /\ clean' = clean
      BY <1>0, <1>5, FinishEffect DEF Places, Finish
    <2>2. /\ TypeOK' /\ ShapeInv' /\ AloneInv' /\ CleanInv' /\ ProgressInv'
          /\ \A k \in Handler \ {h} : request'[k] = request[k]
      BY <1>1, <1>2, <2>1, FinishKeeps
    <2>3. PlaceInv'
      BY <1>1, <2>1, <2>2, SuppliesKept
    <2>4. QED
      BY <1>3, <2>2, <2>3 DEF Ind
  <1>6. QED
    BY <1>4, <1>5 DEF CountPCs

\* A request that breaks off.
LEMMA BreakOffStep ==
  ASSUME Ind, NEW h \in Handler, NEW from \in Places, BreakOff(h, from), UNCHANGED tables
  PROVE  Ind'
  <1>1. TypeOK /\ TablesTyped' /\ UniqueIds'
    BY DEF Ind, TypeOK, TablesTyped, UniqueIds, tables
  <1>2. \A k \in Handler : Unnoticed(request[k])
    BY DEF Unnoticed, tables
  <1>3. Stays(h, Idle)
    BY <1>1, FinishEffect
  <1>4. TypeOK' /\ ShapeInv' /\ AloneInv' /\ CleanInv' /\ ProgressInv'
    BY <1>1, <1>2, <1>3, FinishKeeps
  <1>5. PlaceInv'
    BY BrokenOff DEF BreakOff
  <1>6. QED
    BY <1>1, <1>4, <1>5 DEF Ind

\* A new request keeps what those that it does not meet have reached.
LEMMA BeginKeeps ==
  ASSUME Ind, NEW h \in Handler, NEW w \in Work, w.at # "idle", Shape(w), Begin(h, w),
         TablesTyped',
         \A k \in Handler \ {h} : ~Meets(w, request[k]) => Unnoticed(request[k]),
         \A b \in BOOLEAN : request'[h] = [w EXCEPT !.alone = b] => Progress(request[h])'
  PROVE  /\ TypeOK' /\ ShapeInv' /\ AloneInv' /\ CleanInv' /\ ProgressInv'
         /\ request[h].at = "idle"
         /\ clean' => clean /\ \A k \in Handler \ {h} : request'[k] = request[k]
  <1>1. TypeOK /\ ShapeInv /\ AloneInv /\ CleanInv /\ ProgressInv
    BY DEF Ind
  <1>2. /\ request' \in [Handler -> Work]
        /\ clean' \in BOOLEAN
        /\ clean' => clean /\ \A k \in Handler \ {h} : request'[k] = request[k]
        /\ request[h].at = "idle"
        /\ \E b \in BOOLEAN : request'[h] = [w EXCEPT !.alone = b]
        /\ \A k \in Handler \ {h} :
             /\ request'[k] \in {request[k], [request[k] EXCEPT !.alone = FALSE]}
             /\ request'[k].at # "idle" /\ request'[k].alone =>
                  request'[k] = request[k] /\ ~Meets(w, request[k])
        /\ ShapeInv' /\ AloneInv' /\ CleanInv'
    BY <1>1, BeginEffect
  <1>3. TypeOK'
    BY <1>2 DEF TypeOK, TablesTyped
  <1>4. Progress(request[h])'
    BY <1>2
  <1>5. ASSUME NEW k \in Handler \ {h} PROVE Progress(request[k])'
    <2>1. CASE request'[k].at # "idle" /\ request'[k].alone
      <3>1. request'[k] = request[k] /\ Unnoticed(request[k])
        BY <1>2, <2>1
      <3>2. QED
        BY <1>1, <3>1, UnnoticedEffect
    <2>2. CASE ~(request'[k].at # "idle" /\ request'[k].alone)
      BY <2>2 DEF Progress
    <2>3. QED
      BY <2>1, <2>2
  <1>6. QED
    BY <1>2, <1>3, <1>4, <1>5 DEF ProgressInv

\* A new request that only reads the tables.
LEMMA ReadingBegins ==
  ASSUME Ind, NEW h \in Handler, UNCHANGED tables,
         NEW w \in Work, Shape(w), Begin(h, w),
         w.at \in {"insert", "check", "name", "count"},
         w.at = "name" => w.new = w.room,
         w.id # NoId => layout[w.room] = w.id
  PROVE  Ind'
  <1>1. TypeOK /\ TablesTyped' /\ UniqueIds'
    BY DEF Ind, TypeOK, TablesTyped, UniqueIds, tables
  <1>2. \A k \in Handler : Unnoticed(request[k])
    BY DEF Unnoticed, tables
  <1>3. ASSUME NEW b \in BOOLEAN, request'[h] = [w EXCEPT !.alone = b]
        PROVE  Progress(request[h])'
    <2>1. /\ request'[h].at = w.at /\ request'[h].room = w.room
          /\ request'[h].new = w.new /\ request'[h].id = w.id
      BY <1>3 DEF Work
    <2>2. QED
      BY <2>1 DEF Progress, Leaves, tables
  <1>4. /\ TypeOK' /\ ShapeInv' /\ AloneInv' /\ CleanInv' /\ ProgressInv'
        /\ request[h].at = "idle"
        /\ clean' => clean /\ \A k \in Handler \ {h} : request'[k] = request[k]
    BY <1>1, <1>2, <1>3, BeginKeeps
  <1>5. PlaceInv'
    BY <1>4, SuppliesKept
  <1>6. QED
    BY <1>1, <1>4, <1>5 DEF Ind

\* A new room is only looked up at first.
LEMMA MakeRoomStep ==
  ASSUME Ind, NEW h \in Handler, NEW r \in Room, MakeRoom(h, r)
  PROVE  Ind'
  <1> DEFINE w == [Idle EXCEPT !.at = "insert", !.room = r, !.new = r]
  <1>1. /\ w \in Work
        /\ w.at = "insert" /\ w.room = r /\ w.new = r /\ w.id = NoId
        /\ w.asked = Nobody /\ w.todo = {} /\ w.pc = None
    BY SomeConstants DEF Idle, Work
  <1>2. Shape(w)
    BY <1>1 DEF Shape
  <1>3. QED
    BY <1>1, <1>2, ReadingBegins DEF MakeRoom

\* So is a room to be changed.
LEMMA UpdateRoomStep ==
  ASSUME Ind, NEW h \in Handler, NEW r \in Room, NEW new \in Room, UpdateRoom(h, r, new)
  PROVE  Ind'
  <1> DEFINE place0 == IF new = r THEN "name" ELSE "check"
             w == [Idle EXCEPT !.at = place0, !.room = r, !.new = new, !.id = layout[r]]
  <1>1. layout[r] \in Id \cup {NoId} /\ layout[r] # NoId
    BY DEF Ind, TypeOK, UpdateRoom
  <1>2. /\ w \in Work
        /\ w.at = place0 /\ w.room = r /\ w.new = new /\ w.id = layout[r]
        /\ w.asked = Nobody /\ w.todo = {} /\ w.pc = None
    BY <1>1, SomeConstants DEF Idle, Work
  <1>3. Shape(w)
    BY <1>1, <1>2 DEF Shape
  <1>4. Begin(h, w) /\ UNCHANGED tables
    BY DEF UpdateRoom
  <1>5. /\ w.at \in {"insert", "check", "name", "count"}
        /\ w.at = "name" => w.new = w.room
        /\ w.id # NoId => layout[w.room] = w.id
    BY <1>2
  <1> HIDE DEF w
  <1>6. w \in Work
    BY <1>2
  <1>7. QED
    BY <1>3, <1>4, <1>5, <1>6, ReadingBegins

\* So is a room to be deleted.
LEMMA DeleteRoomStep ==
  ASSUME Ind, NEW h \in Handler, NEW r \in Room, DeleteRoom(h, r)
  PROVE  Ind'
  <1> DEFINE w == [Idle EXCEPT !.at = "count", !.room = r, !.new = r, !.id = layout[r]]
  <1>1. layout[r] \in Id \cup {NoId} /\ layout[r] # NoId
    BY DEF Ind, TypeOK, DeleteRoom
  <1>2. /\ w \in Work
        /\ w.at = "count" /\ w.room = r /\ w.new = r /\ w.id = layout[r]
        /\ w.asked = Nobody /\ w.todo = {} /\ w.pc = None
    BY <1>1, SomeConstants DEF Idle, Work
  <1>3. Shape(w)
    BY <1>1, <1>2 DEF Shape
  <1>4. QED
    BY <1>1, <1>2, <1>3, ReadingBegins DEF DeleteRoom

\* As long as the history is clean, the requests under way have not met.
LEMMA NoneMet ==
  ASSUME Ind, NEW h \in Handler, request[h].at # "idle", clean
  PROVE  /\ request[h].alone
         /\ \A k \in Handler \ {h} : request[k].at # "idle" =>
              ~Meets(request[k], request[h])
  BY DEF Ind, CleanInv, AloneInv

\* A save first deletes the seats of its room; the PCs' places follow.
LEMMA SaveMapStep ==
  ASSUME Ind, NEW h \in Handler, NEW r \in Room, NEW asked \in Asked, SaveMap(h, r, asked)
  PROVE  Ind'
  <1> DEFINE w == [Idle EXCEPT !.at = "clear", !.room = r, !.new = r, !.asked = asked,
                               !.todo = {p \in PC : asked[p] # None}]
  <1>0. TypeOK
    BY DEF Ind
  <1>1. /\ w \in Work
        /\ w.at = "clear" /\ w.room = r /\ w.new = r /\ w.id = NoId
        /\ w.asked = asked /\ w.todo = Seated(w) /\ w.pc = None
    BY SomeConstants DEF Idle, Work, Seated
  <1>2. Shape(w)
    BY <1>1 DEF Shape
  <1>3. /\ Begin(h, w)
        /\ map' = [map EXCEPT ![r] = EmptyMap]
        /\ UNCHANGED <<layout, pcs, place>>
    BY DEF SaveMap
  <1> HIDE DEF w
  <1>4. TablesTyped' /\ UniqueIds'
    BY <1>0, <1>3 DEF Ind, TypeOK, TablesTyped, EmptyMap, UniqueIds
  <1>5. ASSUME NEW k \in Handler \ {h}, ~Meets(w, request[k]) PROVE Unnoticed(request[k])
    <2>1. request[k].room # r /\ request[k].room \in Room
      BY <1>0, <1>1, <1>5 DEF Meets, TypeOK, Work
    <2>2. QED
      BY <1>0, <1>3, <2>1 DEF Unnoticed, TypeOK
  <1>6. ASSUME NEW b \in BOOLEAN, request'[h] = [w EXCEPT !.alone = b]
        PROVE  Progress(request[h])'
    <2>1. /\ request'[h].at = "clear" /\ request'[h].room = r /\ request'[h].new = r
          /\ request'[h].id = NoId /\ Done(request'[h]) = {}
      BY <1>1, <1>6 DEF Work, Done, Seated
    <2>2. \A s \in Seat : map'[r][s] = None
      BY <1>0, <1>3 DEF TypeOK, EmptyMap
    <2>3. MapDone(request[h])'
      BY <2>1, <2>2, LayoutAssumption DEF MapDone, Done, Seated
    <2>4. QED
      BY <2>1, <2>3 DEF Progress, Leaves
  <1>7. /\ TypeOK' /\ ShapeInv' /\ AloneInv' /\ CleanInv' /\ ProgressInv'
        /\ request[h].at = "idle"
        /\ clean' => clean /\ \A k \in Handler \ {h} : request'[k] = request[k]
    BY <1>1, <1>2, <1>3, <1>4, <1>5, <1>6, BeginKeeps
  <1>8. PlaceInv'
    <2> SUFFICES ASSUME clean', NEW p \in pcs, place[p].room # None
                 PROVE  /\ place[p].seat \in Seat
                        /\ HasRoom(place[p].room)'
                        /\ HasSeat(p, place[p].room, place[p].seat)'
      BY <1>3 DEF PlaceInv
    <2> DEFINE q == place[p].room
               s == place[p].seat
    <2>1. q \in Room /\ s \in Seat /\ HasRoom(q) /\ HasSeat(p, q, s)
      BY <1>0, <1>7 DEF Ind, PlaceInv, TypeOK, Place
    <2>2. request'[h].at = "clear" /\ request'[h].room = r /\ request'[h].new = r
      <3>1. PICK b \in BOOLEAN : request'[h] = [w EXCEPT !.alone = b]
        BY <1>0, <1>1, <1>2, <1>3, BeginEffect DEF Ind
      <3>2. QED
        BY <1>1, <3>1 DEF Work
    <2>3. ASSUME NEW k \in Handler \ {h}, request[k].at # "idle" PROVE request[k].room # r
      <3>1. request'[k] = request[k] /\ request'[h].alone
        BY <1>7 DEF CleanInv
      <3>2. ~Meets(request'[h], request'[k])
        BY <1>7, <2>2, <2>3, <3>1 DEF AloneInv, Meets, Seated
      <3>3. QED
        BY <2>2, <3>1, <3>2 DEF Meets
    <2>4. HasRoom(q)'
      BY <1>3, <1>7, <2>1 DEF HasRoom
    <2>5. HasSeat(p, q, s)'
      <3>1. CASE q = r
        BY <1>3, <2>2, <3>1 DEF HasSeat
      <3>2. CASE q # r /\ map[q][s] = p
        BY <1>0, <1>3, <2>1, <3>2 DEF HasSeat, TypeOK
      <3>3. CASE q # r /\ map[q][s] # p
        <4>1. PICK k \in Handler :
                \/ /\ request[k].at = "moveSeats" /\ request[k].new = q
                   /\ map[request[k].room][s] = p
                \/ request[k].at = "clear" /\ request[k].room = q
          BY <2>1, <3>3 DEF HasSeat
        <4>2. k # h /\ request'[k] = request[k]
          BY <1>7, <4>1
        <4>3. request[k].room # r /\ request[k].room \in Room
          BY <1>0, <2>3, <4>1, <4>2 DEF TypeOK, Work
        <4>4. map'[request[k].room] = map[request[k].room]
          BY <1>0, <1>3, <4>3 DEF TypeOK
        <4>5. QED
          BY <1>3, <4>1, <4>2, <4>4 DEF HasSeat
      <3>4. QED
        BY <3>1, <3>2, <3>3
    <2>6. QED
      BY <2>1, <2>4, <2>5
  <1>9. QED
    BY <1>4, <1>7, <1>8 DEF Ind

\* A new row has a name and an id of its own.
LEMMA InsertRoomStep == ASSUME Ind, NEW h \in Handler, InsertRoom(h) PROVE Ind'
  <1> DEFINE w == request[h]
             r == w.room
  <1>0. TypeOK /\ w \in Work /\ r \in Room
    BY DEF Ind, TypeOK, Work
  <1>1. /\ Finish(h, "insert")
        /\ UNCHANGED <<map, pcs, place>>
        /\ \/ UNCHANGED layout
           \/ /\ layout[r] = NoId
              /\ \E id \in Id : NewId(id) /\ layout' = [layout EXCEPT ![r] = id]
    BY DEF InsertRoom
  <1>2. w.at = "insert" /\ Stays(h, Idle) /\ clean' = clean
    BY <1>0, <1>1, FinishEffect DEF Places, Finish
  <1>3. /\ layout' \in [Room -> Id \cup {NoId}]
        /\ \A q \in Room : layout[q] # NoId => layout'[q] = layout[q]
        /\ \A q \in Room \ {r} : layout'[q] = layout[q]
        /\ UniqueIds'
    <2>1. CASE UNCHANGED layout
      BY <1>0, <2>1 DEF Ind, TypeOK, UniqueIds
    <2>2. CASE layout[r] = NoId /\ ~UNCHANGED layout
      <3>1. PICK id \in Id : NewId(id) /\ layout' = [layout EXCEPT ![r] = id]
        BY <1>1, <2>2
      <3>2. \A q \in Room : layout[q] # id
        BY <3>1 DEF NewId, Fresh, InUse
      <3>3. QED
        BY <1>0, <2>2, <3>1, <3>2 DEF Ind, TypeOK, UniqueIds
    <2>3. QED
      BY <1>1, <2>1, <2>2
  <1>4. TablesTyped'
    BY <1>0, <1>1, <1>3 DEF TypeOK, TablesTyped
  <1>5. ASSUME NEW k \in Handler \ {h}, ~Meets(request[k], w) PROVE Unnoticed(request[k])
    <2>1. request[k].room # r /\ request[k].room \in Room
      BY <1>0, <1>5 DEF Meets, TypeOK, Work
    <2>2. QED
      BY <1>1, <1>3, <2>1 DEF Unnoticed
  <1>6. /\ TypeOK' /\ ShapeInv' /\ AloneInv' /\ CleanInv' /\ ProgressInv'
        /\ \A k \in Handler \ {h} : request'[k] = request[k]
    BY <1>2, <1>4, <1>5, FinishKeeps
  <1>7. PlaceInv'
    <2> SUFFICES ASSUME clean', NEW p \in pcs, place[p].room # None
                 PROVE  /\ place[p].seat \in Seat
                        /\ HasRoom(place[p].room)'
                        /\ HasSeat(p, place[p].room, place[p].seat)'
      BY <1>1 DEF PlaceInv
    <2> DEFINE q == place[p].room
               s == place[p].seat
    <2>1. q \in Room /\ s \in Seat /\ HasRoom(q) /\ HasSeat(p, q, s)
      BY <1>0, <1>2 DEF Ind, PlaceInv, TypeOK, Place
    <2>2. HasRoom(q)'
      BY <1>1, <1>2, <1>3, <1>6, <2>1 DEF HasRoom
    <2>3. HasSeat(p, q, s)'
      BY <1>1, <1>2, <1>6, <2>1 DEF HasSeat
    <2>4. QED
      BY <2>1, <2>2, <2>3
  <1>8. QED
    BY <1>3, <1>6, <1>7 DEF Ind

\* PlaceInv in terms of a PC and its place after a step.
LEMMA PlaceGoal ==
  ASSUME TypeOK',
         \A p \in pcs', q \in Room, s \in Seat \cup {None} :
           clean' /\ q = place'[p].room /\ s = place'[p].seat =>
             s \in Seat /\ HasRoom(q)' /\ HasSeat(p, q, s)'
  PROVE  PlaceInv'
  <1> SUFFICES ASSUME clean', NEW p \in pcs', place'[p].room # None
               PROVE  /\ place'[p].seat \in Seat
                      /\ HasRoom(place[p].room)'
                      /\ HasSeat(p, place[p].room, place[p].seat)'
    BY DEF PlaceInv
  <1>1. place'[p].room \in Room /\ place'[p].seat \in Seat \cup {None}
    BY DEF TypeOK, Place
  <1>2. QED
    BY <1>1 DEF HasRoom, HasSeat

\* The same before a step, for a PC whose place the step keeps.
LEMMA PlaceKnown ==
  ASSUME Ind, clean, NEW p \in pcs, NEW q \in Room, NEW s,
         q = place[p].room, s = place[p].seat
  PROVE  s \in Seat /\ HasRoom(q) /\ HasSeat(p, q, s)
  BY LayoutAssumption DEF Ind, PlaceInv, HasRoom, HasSeat

\* The PCs of a renamed room go first; their seats are still to come.
LEMMA MovePCsStep == ASSUME Ind, NEW h \in Handler, MovePCs(h) PROVE Ind'
  <1> DEFINE w == request[h]
  <1>0. /\ TypeOK /\ ShapeInv /\ ProgressInv
        /\ w \in Work /\ Shape(w) /\ Progress(w)
    BY DEF Ind, TypeOK, ShapeInv, ProgressInv
  <1>1. /\ Goto(h, "movePCs", "moveSeats")
        /\ place' = [p \in PC |-> IF p \in Inside(w.room)
                                  THEN [place[p] EXCEPT !.room = w.new] ELSE place[p]]
        /\ UNCHANGED <<layout, map, pcs>>
    BY DEF MovePCs
  <1>2. w.at = "movePCs" /\ w.new # w.room /\ w.room \in Room /\ w.new \in Room
    BY <1>0, <1>1 DEF Goto, Shape, Work
  <1>3. \A p \in PC :
          /\ p \in Inside(w.room) => place'[p] = [room |-> w.new, seat |-> place[p].seat]
          /\ p \notin Inside(w.room) => place'[p] = place[p]
    BY <1>0, <1>1 DEF TypeOK, Place
  <1>4. TablesTyped' /\ UniqueIds'
    <2>1. ASSUME NEW p \in PC PROVE place'[p] \in Place
      <3>1. place[p] \in Place
        BY <1>0 DEF TypeOK
      <3>2. [room |-> w.new, seat |-> place[p].seat] \in Place
        BY <1>2, <3>1 DEF Place
      <3>3. QED
        BY <1>3, <3>1, <3>2
    <2>2. place' = [p \in PC |-> place'[p]]
      BY <1>1
    <2>3. place' \in [PC -> Place]
      BY <2>1, <2>2
    <2>4. QED
      BY <1>0, <1>1, <2>3 DEF Ind, TypeOK, TablesTyped, UniqueIds
  <1>5. Shape([w EXCEPT !.at = "moveSeats"])
    BY <1>0, <1>2 DEF Shape, Work, Seated
  <1>6. Stays(h, [w EXCEPT !.at = "moveSeats"]) /\ clean' = clean
    BY <1>0, <1>1, <1>5, GotoEffect DEF Places
  <1>7. ASSUME NEW k \in Handler \ {h}, ~Meets(request[k], w) PROVE Unnoticed(request[k])
    <2>1. request[k].room # w.room /\ request[k].room # w.new
      BY <1>7 DEF Meets
    <2>2. QED
      BY <1>0, <1>1, <1>3, <2>1 DEF Unnoticed, TypeOK, Inside
  <1>8. /\ TypeOK' /\ ShapeInv' /\ AloneInv' /\ CleanInv'
        /\ request'[h] = [w EXCEPT !.at = "moveSeats"]
        /\ \A k \in Handler \ {h} : request'[k] = request[k]
        /\ Progress(request[h])' => ProgressInv'
    BY <1>4, <1>6, <1>7, StepKeeps
  <1>9. /\ request'[h].at = "moveSeats" /\ request'[h].room = w.room
        /\ request'[h].new = w.new /\ request'[h].id = w.id /\ request'[h].alone = w.alone
    BY <1>0, <1>8 DEF Work
  <1>10. Progress(request[h])'
    <2>1. ASSUME NEW p \in pcs', place'[p].room = w.room PROVE FALSE
      <3>1. p \in pcs /\ p \in PC
        BY <1>0, <1>1 DEF TypeOK
      <3>2. p \in Inside(w.room)
        BY <1>3, <2>1, <3>1 DEF Inside
      <3>3. place'[p] = [room |-> w.new, seat |-> place[p].seat]
        BY <1>3, <3>1, <3>2
      <3>4. QED
        BY <1>2, <2>1, <3>3
    <2>2. w.alone /\ w.id # NoId => layout'[w.room] = w.id
      BY <1>0, <1>1, <1>2 DEF Progress
    <2>3. QED
      BY <1>9, <2>1, <2>2 DEF Progress, Inside
  <1>11. PlaceInv'
    <2> SUFFICES ASSUME clean', NEW p \in pcs', NEW q \in Room, NEW s,
                        q = place'[p].room, s = place'[p].seat
                 PROVE  s \in Seat /\ HasRoom(q)' /\ HasSeat(p, q, s)'
      BY <1>8, PlaceGoal
    <2>1. clean /\ p \in pcs /\ p \in PC
      BY <1>0, <1>1, <1>6 DEF TypeOK
    <2>2. \A k \in Handler \ {h} : request[k].at # "idle" => ~Meets(request[k], w)
      BY <1>2, <2>1, NoneMet
    <2>3. CASE p \in Inside(w.room)
      <3>0. place'[p] = [room |-> w.new, seat |-> place[p].seat]
        BY <1>3, <2>1, <2>3
      <3>1. q = w.new /\ s = place[p].seat /\ place[p].room = w.room
        BY <2>3, <3>0 DEF Inside
      <3>2. s \in Seat /\ HasSeat(p, w.room, s)
        BY <1>2, <2>1, <3>1, PlaceKnown
      <3>3. map[w.room][s] = p
        <4>1. ASSUME NEW k \in Handler, request[k].at \in {"moveSeats", "clear"},
                     request[k].new = w.room \/ request[k].room = w.room
              PROVE  FALSE
          BY <1>2, <2>2, <4>1 DEF Meets
        <4>2. QED
          BY <3>2, <4>1 DEF HasSeat
      <3>4. HasRoom(q)'
        BY <1>9, <3>1 DEF HasRoom
      <3>5. HasSeat(p, q, s)'
        BY <1>1, <1>9, <3>1, <3>3 DEF HasSeat
      <3>6. QED
        BY <3>2, <3>4, <3>5
    <2>4. CASE p \notin Inside(w.room)
      <3>1. q = place[p].room /\ s = place[p].seat
        BY <1>3, <2>1, <2>4
      <3>2. s \in Seat /\ HasRoom(q) /\ HasSeat(p, q, s)
        BY <2>1, <3>1, PlaceKnown
      <3>3. HasRoom(q)'
        BY <1>1, <1>2, <1>8, <3>2 DEF HasRoom
      <3>4. HasSeat(p, q, s)'
        BY <1>1, <1>2, <1>8, <3>2 DEF HasSeat
      <3>5. QED
        BY <3>2, <3>3, <3>4
    <2>5. QED
      BY <2>3, <2>4
  <1>12. QED
    BY <1>4, <1>8, <1>10, <1>11 DEF Ind

\* The seats follow; the name is still to come.
LEMMA MoveSeatsStep == ASSUME Ind, NEW h \in Handler, MoveSeats(h) PROVE Ind'
  <1> DEFINE w == request[h]
  <1>0. /\ TypeOK /\ ShapeInv /\ ProgressInv
        /\ w \in Work /\ Shape(w) /\ Progress(w)
    BY DEF Ind, TypeOK, ShapeInv, ProgressInv
  <1>1. /\ Goto(h, "moveSeats", "name")
        /\ ~Collide(w.room, w.new)
        /\ map' = Merged(w.room, w.new)
        /\ UNCHANGED <<layout, pcs, place>>
    BY DEF MoveSeats
  <1>2. w.at = "moveSeats" /\ w.new # w.room /\ w.room \in Room /\ w.new \in Room
    BY <1>0, <1>1 DEF Goto, Shape, Work
  <1>3. /\ map'[w.room] = EmptyMap
        /\ map'[w.new] = [s \in Seat |-> IF map[w.room][s] # None THEN map[w.room][s]
                                         ELSE map[w.new][s]]
        /\ \A r \in Room \ {w.room, w.new} : map'[r] = map[r]
    BY <1>0, <1>1, <1>2 DEF Merged, TypeOK
  <1>4. TablesTyped' /\ UniqueIds'
    <2>1. \A r \in Room : map[r] \in [Seat -> PC \cup {None}]
      BY <1>0 DEF TypeOK
    <2>2. EmptyMap \in [Seat -> PC \cup {None}]
      BY DEF EmptyMap
    <2>3. [s \in Seat |-> IF map[w.room][s] # None THEN map[w.room][s] ELSE map[w.new][s]]
            \in [Seat -> PC \cup {None}]
      BY <1>2, <2>1
    <2>4. map' \in [Room -> [Seat -> PC \cup {None}]]
      BY <1>0, <1>1, <2>2, <2>3 DEF Merged, TypeOK
    <2>5. QED
      BY <1>0, <1>1, <2>4 DEF Ind, TypeOK, TablesTyped, UniqueIds
  <1>5. Shape([w EXCEPT !.at = "name"])
    BY <1>0, <1>2 DEF Shape, Work, Seated
  <1>6. Stays(h, [w EXCEPT !.at = "name"]) /\ clean' = clean
    BY <1>0, <1>1, <1>5, GotoEffect DEF Places
  <1>7. ASSUME NEW k \in Handler \ {h}, ~Meets(request[k], w)
        PROVE  /\ Unnoticed(request[k])
               /\ map'[request[k].room] = map[request[k].room]
    <2>1. request[k].room \in Room \ {w.room, w.new}
      BY <1>0, <1>7 DEF Meets, TypeOK, Work
    <2>2. QED
      BY <1>1, <1>3, <2>1 DEF Unnoticed
  <1>8. /\ TypeOK' /\ ShapeInv' /\ AloneInv' /\ CleanInv'
        /\ request'[h] = [w EXCEPT !.at = "name"]
        /\ \A k \in Handler \ {h} : request'[k] = request[k]
        /\ Progress(request[h])' => ProgressInv'
    BY <1>4, <1>6, <1>7, StepKeeps
  <1>9. /\ request'[h].at = "name" /\ request'[h].room = w.room
        /\ request'[h].new = w.new /\ request'[h].id = w.id /\ request'[h].alone = w.alone
    BY <1>0, <1>8 DEF Work
  <1>10. w.alone => Inside(w.room) = {}
    BY <1>0, <1>2 DEF Progress, Leaves
  <1>11. Progress(request[h])'
    <2>1. w.alone => \A p \in pcs' : place'[p].room # w.room
      BY <1>1, <1>10 DEF Inside
    <2>2. w.alone /\ w.id # NoId => layout'[w.room] = w.id
      BY <1>0, <1>1, <1>2 DEF Progress
    <2>3. QED
      BY <1>3, <1>9, <2>1, <2>2 DEF Progress, Inside
  <1>12. PlaceInv'
    <2> SUFFICES ASSUME clean', NEW p \in pcs', NEW q \in Room, NEW s,
                        q = place'[p].room, s = place'[p].seat
                 PROVE  s \in Seat /\ HasRoom(q)' /\ HasSeat(p, q, s)'
      BY <1>8, PlaceGoal
    <2>1. /\ clean /\ p \in pcs /\ p \in PC
          /\ q = place[p].room /\ s = place[p].seat
      BY <1>0, <1>1, <1>6 DEF TypeOK
    <2>2. /\ w.alone
          /\ \A k \in Handler \ {h} : request[k].at # "idle" => ~Meets(request[k], w)
      BY <1>2, <2>1, NoneMet
    <2>3. s \in Seat /\ HasRoom(q) /\ HasSeat(p, q, s)
      BY <2>1, PlaceKnown
    <2>4. q # w.room
      BY <1>10, <2>1, <2>2 DEF Inside
    <2>5. HasRoom(q)'
      BY <1>1, <1>2, <1>8, <1>9, <2>3 DEF HasRoom
    <2>6. ASSUME map[q][s] = p PROVE HasSeat(p, q, s)'
      <3>1. p # None
        BY <2>1, LayoutAssumption
      <3>2. CASE q = w.new
        <4>1. map[w.room][s] = None
          BY <1>1, <2>3, <2>6, <3>1, <3>2 DEF Collide
        <4>2. map'[q][s] = p
          BY <1>3, <2>3, <2>6, <3>2, <4>1
        <4>3. QED
          BY <4>2 DEF HasSeat
      <3>3. CASE q # w.new
        BY <1>3, <2>4, <2>6, <3>3 DEF HasSeat
      <3>4. QED
        BY <3>2, <3>3
    <2>7. ASSUME q = w.new, map[w.room][s] = p PROVE HasSeat(p, q, s)'
      <3>1. p # None
        BY <2>1, LayoutAssumption
      <3>2. map'[q][s] = p
        BY <1>3, <2>3, <2>7, <3>1
      <3>3. QED
        BY <3>2 DEF HasSeat
    <2>8. ASSUME NEW k \in Handler \ {h},
                 \/ /\ request[k].at = "moveSeats" /\ request[k].new = q
                    /\ map[request[k].room][s] = p
                 \/ request[k].at = "clear" /\ request[k].room = q
          PROVE  HasSeat(p, q, s)'
      <3>1. request'[k] = request[k] /\ map'[request[k].room] = map[request[k].room]
        BY <1>7, <1>8, <2>2, <2>8
      <3>2. QED
        BY <2>8, <3>1 DEF HasSeat
    <2>9. HasSeat(p, q, s)'
      BY <1>2, <2>3, <2>6, <2>7, <2>8 DEF HasSeat
    <2>10. QED
      BY <2>3, <2>5, <2>9
  <1>13. QED
    BY <1>4, <1>8, <1>11, <1>12 DEF Ind

\* What a request that has the id of a row does not meet keeps its own row.
LEMMA OtherRow ==
  ASSUME Ind, NEW h \in Handler, NEW k \in Handler \ {h},
         request[k].at # "idle", request[k].alone, ~Meets(request[k], request[h]),
         request[k].id # NoId
  PROVE  layout[request[k].room] = request[k].id /\ request[k].id # request[h].id
  BY DEF Ind, ProgressInv, Progress, Meets

\* The row gets the new name, which ends the rename.
LEMMA SetNameStep == ASSUME Ind, NEW h \in Handler, SetName(h) PROVE Ind'
  <1> DEFINE w == request[h]
  <1>0. /\ TypeOK /\ ShapeInv /\ ProgressInv /\ UniqueIds
        /\ w \in Work /\ Shape(w) /\ Progress(w)
    BY DEF Ind, TypeOK, ShapeInv, ProgressInv
  <1>1. /\ Finish(h, "name") /\ ~NameTaken(w)
        /\ layout' = Named(w)
        /\ UNCHANGED <<map, pcs, place>>
    BY DEF SetName
  <1>2. /\ w.at = "name" /\ Stays(h, Idle) /\ clean' = clean
        /\ w.id # NoId /\ w.id \in Id /\ w.room \in Room /\ w.new \in Room
    BY <1>0, <1>1, FinishEffect DEF Places, Finish, Shape, Work
  <1>3. \A r \in Room :
          /\ r = w.new /\ InUse(w.id) => layout'[r] = w.id
          /\ r = w.new /\ ~InUse(w.id) => layout'[r] = layout[r]
          /\ r # w.new /\ layout[r] = w.id => layout'[r] = NoId
          /\ r # w.new /\ layout[r] # w.id => layout'[r] = layout[r]
    BY <1>1 DEF Named
  <1>4. TablesTyped'
    <2>1. \A r \in Room : layout'[r] \in Id \cup {NoId}
      BY <1>0, <1>2, <1>3 DEF TypeOK
    <2>2. layout' = [r \in Room |-> layout'[r]]
      BY <1>1 DEF Named
    <2>3. layout' \in [Room -> Id \cup {NoId}]
      BY <2>1, <2>2
    <2>4. QED
      BY <1>0, <1>1, <2>3 DEF TypeOK, TablesTyped
  <1>5. UniqueIds'
    <2> SUFFICES ASSUME NEW r \in Room, NEW q \in Room,
                        layout'[r] = layout'[q], layout'[r] # NoId
                 PROVE  r = q
      BY DEF UniqueIds
    <2>1. CASE InUse(w.id)
      BY <1>0, <1>2, <1>3, <2>1 DEF UniqueIds
    <2>2. CASE ~InUse(w.id)
      BY <1>0, <1>3, <2>2 DEF UniqueIds, InUse
    <2>3. QED
      BY <2>1, <2>2
  <1>6. ASSUME NEW k \in Handler \ {h}, request[k].at # "idle", request[k].alone,
               ~Meets(request[k], w)
        PROVE  Unnoticed(request[k])
    <2>1. request[k].room # w.new /\ request[k].room \in Room
      BY <1>0, <1>6 DEF Meets, TypeOK, Work
    <2>2. request[k].id # NoId => layout'[request[k].room] = layout[request[k].room]
      BY <1>3, <1>6, <2>1, OtherRow
    <2>3. QED
      BY <1>1, <2>2 DEF Unnoticed
  <1>7. /\ TypeOK' /\ ShapeInv' /\ AloneInv' /\ CleanInv' /\ ProgressInv'
        /\ request'[h] = Idle
        /\ \A k \in Handler \ {h} : request'[k] = request[k]
    BY <1>2, <1>4, <1>6, FinishKeeps
  <1>8. PlaceInv'
    <2> SUFFICES ASSUME clean', NEW p \in pcs', NEW q \in Room, NEW s,
                        q = place'[p].room, s = place'[p].seat
                 PROVE  s \in Seat /\ HasRoom(q)' /\ HasSeat(p, q, s)'
      BY <1>7, PlaceGoal
    <2>1. /\ clean /\ p \in pcs
          /\ q = place[p].room /\ s = place[p].seat
      BY <1>1, <1>2
    <2>2. s \in Seat /\ HasRoom(q) /\ HasSeat(p, q, s)
      BY <2>1, PlaceKnown
    <2>3. w.alone /\ layout[w.room] = w.id
      BY <1>0, <1>2, <2>1, NoneMet DEF Progress
    <2>4. HasRoom(q)'
      <3>1. CASE q = w.new
        <4>1. layout'[q] # NoId
          BY <1>2, <1>3, <2>3, <3>1 DEF InUse
        <4>2. QED
          BY <4>1 DEF HasRoom
      <3>2. CASE q # w.new
        <4>1. w.new # w.room => q # w.room
          BY <1>0, <1>2, <2>1, <2>3 DEF Progress, Leaves, Inside
        <4>2. layout[q] # w.id
          BY <1>0, <1>2, <2>3, <3>2, <4>1 DEF UniqueIds
        <4>3. layout'[q] = layout[q]
          BY <1>3, <3>2, <4>2
        <4>4. QED
          BY <1>2, <1>7, <2>2, <3>2, <4>3 DEF HasRoom
      <3>3. QED
        BY <3>1, <3>2
    <2>5. HasSeat(p, q, s)'
      BY <1>1, <1>2, <1>7, <2>2 DEF HasSeat
    <2>6. QED
      BY <2>2, <2>4, <2>5
  <1>9. QED
    BY <1>5, <1>7, <1>8 DEF Ind

\* A deletion takes the row of an empty room, unless it met another request.
LEMMA RemoveRoomStep == ASSUME Ind, NEW h \in Handler, RemoveRoom(h) PROVE Ind'
  <1> DEFINE w == request[h]
  <1>0. /\ TypeOK /\ ShapeInv /\ ProgressInv /\ UniqueIds
        /\ w \in Work /\ Shape(w) /\ Progress(w)
    BY DEF Ind, TypeOK, ShapeInv, ProgressInv
  <1>1. /\ Finish(h, "delete")
        /\ layout' = [r \in Room |-> IF layout[r] = w.id THEN NoId ELSE layout[r]]
        /\ UNCHANGED <<map, pcs, place>>
    BY DEF RemoveRoom
  <1>2. /\ w.at = "delete" /\ Stays(h, Idle) /\ clean' = clean
        /\ w.id # NoId /\ w.room \in Room
    BY <1>0, <1>1, FinishEffect DEF Places, Finish, Shape, Work
  <1>3. TablesTyped' /\ UniqueIds'
    BY <1>0, <1>1 DEF TypeOK, TablesTyped, UniqueIds
  <1>4. ASSUME NEW k \in Handler \ {h}, request[k].at # "idle", request[k].alone,
               ~Meets(request[k], w)
        PROVE  Unnoticed(request[k])
    <2>1. request[k].room \in Room
      BY <1>0 DEF TypeOK, Work
    <2>2. request[k].id # NoId => layout'[request[k].room] = layout[request[k].room]
      BY <1>1, <1>4, <2>1, OtherRow
    <2>3. QED
      BY <1>1, <2>2 DEF Unnoticed
  <1>5. /\ TypeOK' /\ ShapeInv' /\ AloneInv' /\ CleanInv' /\ ProgressInv'
        /\ request'[h] = Idle
        /\ \A k \in Handler \ {h} : request'[k] = request[k]
    BY <1>2, <1>3, <1>4, FinishKeeps
  <1>6. PlaceInv'
    <2> SUFFICES ASSUME clean', NEW p \in pcs', NEW q \in Room, NEW s,
                        q = place'[p].room, s = place'[p].seat
                 PROVE  s \in Seat /\ HasRoom(q)' /\ HasSeat(p, q, s)'
      BY <1>5, PlaceGoal
    <2>1. /\ clean /\ p \in pcs
          /\ q = place[p].room /\ s = place[p].seat
      BY <1>1, <1>2
    <2>2. s \in Seat /\ HasRoom(q) /\ HasSeat(p, q, s)
      BY <2>1, PlaceKnown
    <2>3. w.alone
      BY <1>2, <2>1, NoneMet
    <2>4. layout[w.room] = w.id /\ q # w.room
      BY <1>0, <1>2, <2>1, <2>3 DEF Progress, Leaves, Inside
    <2>5. layout'[q] = layout[q]
      BY <1>0, <1>1, <1>2, <2>4 DEF UniqueIds
    <2>6. HasRoom(q)'
      BY <1>2, <1>5, <2>2, <2>5 DEF HasRoom
    <2>7. HasSeat(p, q, s)'
      BY <1>1, <1>2, <1>5, <2>2 DEF HasSeat
    <2>8. QED
      BY <2>2, <2>6, <2>7
  <1>7. QED
    BY <1>3, <1>5, <1>6 DEF Ind

\* A save takes the PCs out of its room.
LEMMA ClearPlacesStep == ASSUME Ind, NEW h \in Handler, ClearPlaces(h) PROVE Ind'
  <1> DEFINE w == request[h]
  <1>0. /\ TypeOK /\ ShapeInv /\ ProgressInv
        /\ w \in Work /\ Shape(w) /\ Progress(w)
    BY DEF Ind, TypeOK, ShapeInv, ProgressInv
  <1>1. /\ Goto(h, "clear", "seats")
        /\ place' = [p \in PC |-> IF p \in Inside(w.room) THEN Nowhere ELSE place[p]]
        /\ UNCHANGED <<layout, map, pcs>>
    BY DEF ClearPlaces, Cleared
  <1>2. w.at = "clear" /\ w.new = w.room /\ w.room \in Room /\ w.todo = Seated(w)
    BY <1>0, <1>1 DEF Goto, Shape, Work
  <1>3. \A p \in PC : place'[p] = IF p \in Inside(w.room) THEN Nowhere ELSE place[p]
    BY <1>1
  <1>4. Nowhere.room = None /\ Nowhere \in Place /\ None \notin Room
    BY SomeConstants, LayoutAssumption DEF Nowhere
  <1>5. TablesTyped' /\ UniqueIds'
    BY <1>0, <1>1, <1>4 DEF Ind, TypeOK, TablesTyped, UniqueIds
  <1>6. Shape([w EXCEPT !.at = "seats"])
    BY <1>0, <1>2 DEF Shape, Work, Seated
  <1>7. Stays(h, [w EXCEPT !.at = "seats"]) /\ clean' = clean
    BY <1>0, <1>1, <1>6, GotoEffect DEF Places
  <1>8. ASSUME NEW k \in Handler \ {h}, ~Meets(request[k], w) PROVE Unnoticed(request[k])
    <2>1. request[k].room # w.room /\ request[k].room \in Room
      BY <1>0, <1>8 DEF Meets, TypeOK, Work
    <2>2. QED
      BY <1>0, <1>1, <1>3, <1>4, <2>1 DEF Unnoticed, TypeOK, Inside
  <1>9. /\ TypeOK' /\ ShapeInv' /\ AloneInv' /\ CleanInv'
        /\ request'[h] = [w EXCEPT !.at = "seats"]
        /\ \A k \in Handler \ {h} : request'[k] = request[k]
        /\ Progress(request[h])' => ProgressInv'
    BY <1>5, <1>7, <1>8, StepKeeps
  <1>10. /\ request'[h].at = "seats" /\ request'[h].room = w.room
         /\ request'[h].new = w.new /\ request'[h].id = w.id /\ request'[h].alone = w.alone
         /\ request'[h].asked = w.asked /\ request'[h].todo = w.todo
    BY <1>0, <1>9 DEF Work
  <1>11. \A p \in pcs : place'[p].room # w.room
    BY <1>0, <1>2, <1>3, <1>4 DEF Inside, TypeOK
  <1>12. Progress(request[h])'
    <2>1. w.alone => MapDone(w) /\ (w.id # NoId => layout[w.room] = w.id)
      BY <1>0, <1>2 DEF Progress
    <2>2. w.alone => MapDone(request[h])'
      BY <1>1, <1>10, <2>1 DEF MapDone, Done, Seated
    <2>3. PlacesDone(request[h])'
      BY <1>1, <1>2, <1>10, <1>11 DEF PlacesDone, Done, Seated
    <2>4. QED
      BY <1>1, <1>10, <2>1, <2>2, <2>3 DEF Progress, Leaves
  <1>13. PlaceInv'
    <2> SUFFICES ASSUME clean', NEW p \in pcs', NEW q \in Room, NEW s,
                        q = place'[p].room, s = place'[p].seat
                 PROVE  s \in Seat /\ HasRoom(q)' /\ HasSeat(p, q, s)'
      BY <1>9, PlaceGoal
    <2>1. clean /\ p \in pcs /\ p \in PC
      BY <1>0, <1>1, <1>7 DEF TypeOK
    <2>2. q = place[p].room /\ s = place[p].seat /\ q # w.room
      BY <1>3, <1>4, <1>11, <2>1
    <2>3. s \in Seat /\ HasRoom(q) /\ HasSeat(p, q, s)
      BY <2>1, <2>2, PlaceKnown
    <2>4. HasRoom(q)'
      BY <1>1, <1>2, <1>9, <2>3 DEF HasRoom
    <2>5. HasSeat(p, q, s)'
      BY <1>1, <1>2, <1>9, <2>2, <2>3 DEF HasSeat
    <2>6. QED
      BY <2>3, <2>4, <2>5
  <1>14. QED
    BY <1>5, <1>9, <1>12, <1>13 DEF Ind

\* A save fills a free seat; the PC's place follows.
LEMMA InsertSeatStep ==
  ASSUME Ind, NEW h \in Handler, NEW c \in PC, InsertSeat(h, c)
  PROVE  Ind'
  <1> DEFINE w == request[h]
             t == w.asked[c]
             v == [w EXCEPT !.at = "place", !.pc = c, !.todo = w.todo \ {c}]
  <1>0. /\ TypeOK /\ ShapeInv /\ ProgressInv
        /\ w \in Work /\ Shape(w) /\ Progress(w)
    BY DEF Ind, TypeOK, ShapeInv, ProgressInv
  <1>1. /\ w.at = "seats" /\ c \in w.todo /\ map[w.room][t] = None
        /\ map' = [map EXCEPT ![w.room][t] = c]
        /\ request' = [request EXCEPT ![h] = v]
        /\ UNCHANGED <<layout, pcs, place, clean>>
    BY DEF InsertSeat
  <1>2. /\ w.room \in Room /\ w.new = w.room /\ c \in Seated(w) /\ t \in Seat
        /\ w.pc = None /\ None \notin PC
    BY <1>0, <1>1, LayoutAssumption DEF Shape, Work, Seated, Asked
  <1>3. /\ v \in Work
        /\ v.at = "place" /\ v.pc = c /\ v.todo = w.todo \ {c}
        /\ v.room = w.room /\ v.new = w.new /\ v.id = w.id /\ v.asked = w.asked
        /\ v.alone = w.alone
    BY <1>0 DEF Work
  <1>4. /\ map' \in [Room -> [Seat -> PC \cup {None}]]
        /\ \A r \in Room \ {w.room} : map'[r] = map[r]
        /\ \A s \in Seat \ {t} : map'[w.room][s] = map[w.room][s]
        /\ map'[w.room][t] = c
    BY <1>0, <1>1, <1>2 DEF TypeOK
  <1>5. TablesTyped' /\ UniqueIds'
    BY <1>0, <1>1, <1>4 DEF Ind, TypeOK, TablesTyped, UniqueIds
  <1>6. Stays(h, v)
    <2>1. Shape(v)
      BY <1>0, <1>2, <1>3 DEF Shape, Seated
    <2>2. SameWork(v, w)
      BY <1>3 DEF SameWork
    <2>3. QED
      BY <1>0, <1>1, <1>3, <2>1, <2>2 DEF Stays, TypeOK
  <1>7. ASSUME NEW k \in Handler \ {h}, ~Meets(request[k], w)
        PROVE  Unnoticed(request[k]) /\ map'[request[k].room] = map[request[k].room]
    <2>1. request[k].room # w.room /\ request[k].room \in Room
      BY <1>0, <1>7 DEF Meets, TypeOK, Work
    <2>2. QED
      BY <1>1, <1>4, <2>1 DEF Unnoticed
  <1> HIDE DEF v
  <1>8. /\ TypeOK' /\ ShapeInv' /\ AloneInv' /\ CleanInv'
        /\ request'[h] = v
        /\ \A k \in Handler \ {h} : request'[k] = request[k]
        /\ Progress(request[h])' => ProgressInv'
    BY <1>5, <1>6, <1>7, StepKeeps
  <1>9. Progress(request[h])'
    <2>1. w.alone => /\ MapDone(w) /\ PlacesDone(w)
                     /\ w.id # NoId => layout[w.room] = w.id
      BY <1>0, <1>1 DEF Progress
    <2>2. Done(v) = Done(w) \cup {c} /\ c \notin Done(w)
      BY <1>1, <1>2, <1>3 DEF Done, Seated
    <2>3. w.alone => \A s \in Seat, p \in PC :
            map'[v.room][s] = p <=> p \in Done(v) /\ v.asked[p] = s
      <3> SUFFICES ASSUME w.alone, NEW s \in Seat, NEW p \in PC
                   PROVE  map'[w.room][s] = p <=> p \in Done(v) /\ w.asked[p] = s
        BY <1>3
      <3>1. map[w.room][s] = p <=> p \in Done(w) /\ w.asked[p] = s
        BY <2>1 DEF MapDone
      <3>2. CASE s = t
        BY <1>1, <1>2, <1>4, <2>2, <3>1, <3>2
      <3>3. CASE s # t
        BY <1>4, <2>2, <3>1, <3>3
      <3>4. QED
        BY <3>2, <3>3
    <2>4. w.alone => \A p \in pcs :
            IF p \in Done(v) \ {v.pc}
            THEN place[p] = [room |-> v.room, seat |-> v.asked[p]]
            ELSE place[p].room # v.room
      <3> SUFFICES ASSUME w.alone, NEW p \in pcs
                   PROVE  IF p \in Done(v) \ {c}
                          THEN place[p] = [room |-> w.room, seat |-> w.asked[p]]
                          ELSE place[p].room # w.room
        BY <1>3
      <3>1. p \in Done(v) \ {c} <=> p \in Done(w) \ {w.pc}
        BY <1>0, <1>2, <2>2 DEF TypeOK
      <3>2. QED
        BY <2>1, <3>1 DEF PlacesDone
    <2>5. w.alone => MapDone(request[h])' /\ PlacesDone(request[h])'
      BY <1>1, <1>8, <2>3, <2>4 DEF MapDone, PlacesDone, Done, Seated
    <2>6. QED
      BY <1>1, <1>3, <1>8, <2>1, <2>5 DEF Progress, Leaves
  <1>10. PlaceInv'
    <2> SUFFICES ASSUME clean', NEW p \in pcs', NEW q \in Room, NEW s,
                        q = place'[p].room, s = place'[p].seat
                 PROVE  s \in Seat /\ HasRoom(q)' /\ HasSeat(p, q, s)'
      BY <1>8, PlaceGoal
    <2>1. /\ clean /\ p \in pcs /\ p \in PC
          /\ q = place[p].room /\ s = place[p].seat
      BY <1>0, <1>1 DEF TypeOK
    <2>2. s \in Seat /\ HasRoom(q) /\ HasSeat(p, q, s)
      BY <2>1, PlaceKnown
    <2>3. \A k \in Handler \ {h} : request[k].at # "idle" => ~Meets(request[k], w)
      BY <1>1, <2>1, NoneMet
    <2>4. HasRoom(q)'
      BY <1>1, <1>3, <1>8, <2>2 DEF HasRoom
    <2>5. ASSUME map[q][s] = p PROVE map'[q][s] = p
      BY <1>1, <1>2, <1>4, <2>1, <2>2, <2>5
    <2>6. ASSUME NEW k \in Handler \ {h},
                 \/ /\ request[k].at = "moveSeats" /\ request[k].new = q
                    /\ map[request[k].room][s] = p
                 \/ request[k].at = "clear" /\ request[k].room = q
          PROVE  HasSeat(p, q, s)'
      <3>1. request'[k] = request[k] /\ map'[request[k].room] = map[request[k].room]
        BY <1>7, <1>8, <2>3, <2>6
      <3>2. QED
        BY <2>6, <3>1 DEF HasSeat
    <2>7. HasSeat(p, q, s)'
      BY <1>1, <2>2, <2>5, <2>6 DEF HasSeat
    <2>8. QED
      BY <2>2, <2>4, <2>7
  <1>11. QED
    BY <1>5, <1>8, <1>9, <1>10 DEF Ind

\* The PC gets the place of its seat.
LEMMA PlacePCStep == ASSUME Ind, NEW h \in Handler, PlacePC(h) PROVE Ind'
  <1> DEFINE w == request[h]
             c == w.pc
             there == [room |-> w.room, seat |-> w.asked[c]]
             v == [w EXCEPT !.at = "seats", !.pc = None]
  <1>0. /\ TypeOK /\ ShapeInv /\ ProgressInv
        /\ w \in Work /\ Shape(w) /\ Progress(w)
    BY DEF Ind, TypeOK, ShapeInv, ProgressInv
  <1>1. /\ w.at = "place"
        /\ request' = [request EXCEPT ![h] = v]
        /\ place' = IF c \in pcs THEN [place EXCEPT ![c] = there] ELSE place
        /\ UNCHANGED <<layout, map, pcs, clean>>
    BY DEF PlacePC
  <1>2. /\ w.room \in Room /\ w.new = w.room
        /\ c \in PC /\ c \in Done(w) /\ w.asked[c] \in Seat
        /\ c \in Seated(w) /\ None \notin PC /\ None \notin Seat
    BY <1>0, <1>1, LayoutAssumption DEF Shape, Work, Seated, Asked, Done
  <1>3. /\ v \in Work
        /\ v.at = "seats" /\ v.pc = None /\ v.todo = w.todo
        /\ v.room = w.room /\ v.new = w.new /\ v.id = w.id /\ v.asked = w.asked
        /\ v.alone = w.alone
    BY <1>0 DEF Work
  <1>4. /\ \A p \in pcs : p = c => place'[p] = there
        /\ \A p \in PC : p # c => place'[p] = place[p]
        /\ place' \in [PC -> Place]
    <2>1. there \in Place
      BY <1>2 DEF Place
    <2>2. QED
      BY <1>0, <1>1, <1>2, <2>1 DEF TypeOK
  <1>5. TablesTyped' /\ UniqueIds'
    BY <1>0, <1>1, <1>4 DEF Ind, TypeOK, TablesTyped, UniqueIds
  <1>6. Stays(h, v)
    <2>1. Shape(v)
      BY <1>0, <1>2, <1>3 DEF Shape, Seated
    <2>2. SameWork(v, w)
      BY <1>3 DEF SameWork
    <2>3. QED
      BY <1>0, <1>1, <1>3, <2>1, <2>2 DEF Stays, TypeOK
  <1>7. ASSUME NEW k \in Handler \ {h}, ~Meets(request[k], w) PROVE Unnoticed(request[k])
    <2>1. request[k].room # w.room /\ c \notin Seated(request[k])
      BY <1>2, <1>7 DEF Meets
    <2>2. ASSUME NEW p \in pcs
          PROVE  \/ place'[p] = place[p]
                 \/ /\ place'[p].room # request[k].room
                    /\ p \notin Seated(request[k])
      BY <1>0, <1>4, <2>1 DEF TypeOK
    <2>3. QED
      BY <1>1, <2>2 DEF Unnoticed
  <1> HIDE DEF v
  <1>8. /\ TypeOK' /\ ShapeInv' /\ AloneInv' /\ CleanInv'
        /\ request'[h] = v
        /\ \A k \in Handler \ {h} : request'[k] = request[k]
        /\ Progress(request[h])' => ProgressInv'
    BY <1>5, <1>6, <1>7, StepKeeps
  <1>9. w.alone => /\ MapDone(w) /\ PlacesDone(w)
                   /\ w.id # NoId => layout[w.room] = w.id
    BY <1>0, <1>1 DEF Progress
  <1>10. Progress(request[h])'
    <2>1. Done(v) = Done(w)
      BY <1>3 DEF Done, Seated
    <2>2. w.alone => \A p \in pcs :
            IF p \in Done(v) \ {v.pc}
            THEN place'[p] = [room |-> v.room, seat |-> v.asked[p]]
            ELSE place'[p].room # v.room
      <3> SUFFICES ASSUME w.alone, NEW p \in pcs
                   PROVE  IF p \in Done(w) \ {None}
                          THEN place'[p] = [room |-> w.room, seat |-> w.asked[p]]
                          ELSE place'[p].room # w.room
        BY <1>3, <2>1
      <3>1. CASE p = c
        BY <1>2, <1>4, <3>1
      <3>2. CASE p # c
        <4>1. p \in Done(w) \ {None} <=> p \in Done(w) \ {c}
          BY <1>0, <1>2, <3>2 DEF TypeOK
        <4>2. place'[p] = place[p]
          BY <1>0, <1>4, <3>2 DEF TypeOK
        <4>3. QED
          BY <1>9, <4>1, <4>2 DEF PlacesDone
      <3>3. QED
        BY <3>1, <3>2
    <2>3. w.alone => MapDone(request[h])' /\ PlacesDone(request[h])'
      BY <1>1, <1>3, <1>8, <1>9, <2>1, <2>2 DEF MapDone, PlacesDone, Done, Seated
    <2>4. QED
      BY <1>1, <1>3, <1>8, <1>9, <2>3 DEF Progress, Leaves
  <1>11. PlaceInv'
    <2> SUFFICES ASSUME clean', NEW p \in pcs', NEW q \in Room, NEW s,
                        q = place'[p].room, s = place'[p].seat
                 PROVE  s \in Seat /\ HasRoom(q)' /\ HasSeat(p, q, s)'
      BY <1>8, PlaceGoal
    <2>1. clean /\ p \in pcs /\ p \in PC
      BY <1>0, <1>1 DEF TypeOK
    <2>2. CASE p = c
      <3>1. place'[p] = there
        BY <1>4, <2>1, <2>2
      <3>2. q = w.room /\ s = w.asked[c] /\ s \in Seat
        BY <1>2, <3>1
      <3>3. map[q][s] = p
        <4>1. w.alone
          BY <1>1, <2>1, NoneMet
        <4>2. QED
          BY <1>2, <1>9, <2>2, <3>2, <4>1 DEF MapDone
      <3>4. HasSeat(p, q, s)'
        BY <1>1, <3>3 DEF HasSeat
      <3>5. HasRoom(q)'
        BY <1>3, <1>8, <3>2 DEF HasRoom
      <3>6. QED
        BY <3>2, <3>4, <3>5
    <2>3. CASE p # c
      <3>1. q = place[p].room /\ s = place[p].seat
        BY <1>4, <2>1, <2>3
      <3>2. s \in Seat /\ HasRoom(q) /\ HasSeat(p, q, s)
        BY <2>1, <3>1, PlaceKnown
      <3>3. HasRoom(q)'
        BY <1>1, <1>3, <1>8, <3>2 DEF HasRoom
      <3>4. HasSeat(p, q, s)'
        BY <1>1, <1>3, <1>8, <3>2 DEF HasSeat
      <3>5. QED
        BY <3>2, <3>3, <3>4
    <2>4. QED
      BY <2>2, <2>3
  <1>12. QED
    BY <1>5, <1>8, <1>10, <1>11 DEF Ind

\* The row of a saved room is replaced by a new one.
LEMMA ReplaceRoomStep == ASSUME Ind, NEW h \in Handler, ReplaceRoom(h) PROVE Ind'
  <1> DEFINE w == request[h]
             r == w.room
  <1>0. TypeOK /\ w \in Work /\ r \in Room
    BY DEF Ind, TypeOK, Work
  <1>1. PICK id \in Id : NewId(id) /\ layout' = [layout EXCEPT ![r] = id]
    BY DEF ReplaceRoom
  <1>2. Finish(h, "seats") /\ UNCHANGED <<map, pcs, place>>
    BY DEF ReplaceRoom
  <1>3. w.at = "seats" /\ Stays(h, Idle) /\ clean' = clean
    BY <1>0, <1>2, FinishEffect DEF Places, Finish
  <1>4. /\ layout' \in [Room -> Id \cup {NoId}]
        /\ layout'[r] # NoId
        /\ \A q \in Room \ {r} : layout'[q] = layout[q]
    BY <1>0, <1>1 DEF TypeOK, Id, NoId
  <1>5. UniqueIds'
    <2>1. \A q \in Room : layout[q] # id
      BY <1>1 DEF NewId, Fresh, InUse
    <2>2. QED
      BY <1>0, <1>1, <2>1 DEF Ind, TypeOK, UniqueIds
  <1>6. TablesTyped'
    BY <1>0, <1>2, <1>4 DEF TypeOK, TablesTyped
  <1>7. ASSUME NEW k \in Handler \ {h}, ~Meets(request[k], w) PROVE Unnoticed(request[k])
    <2>1. request[k].room # r /\ request[k].room \in Room
      BY <1>0, <1>7 DEF Meets, TypeOK, Work
    <2>2. QED
      BY <1>2, <1>4, <2>1 DEF Unnoticed
  <1>8. /\ TypeOK' /\ ShapeInv' /\ AloneInv' /\ CleanInv' /\ ProgressInv'
        /\ \A k \in Handler \ {h} : request'[k] = request[k]
    BY <1>3, <1>6, <1>7, FinishKeeps
  <1>9. PlaceInv'
    <2> SUFFICES ASSUME clean', NEW p \in pcs', NEW q \in Room, NEW s,
                        q = place'[p].room, s = place'[p].seat
                 PROVE  s \in Seat /\ HasRoom(q)' /\ HasSeat(p, q, s)'
      BY <1>8, PlaceGoal
    <2>1. /\ clean /\ p \in pcs
          /\ q = place[p].room /\ s = place[p].seat
      BY <1>2, <1>3
    <2>2. s \in Seat /\ HasRoom(q) /\ HasSeat(p, q, s)
      BY <2>1, PlaceKnown
    <2>3. HasRoom(q)'
      <3>1. CASE q = r
        BY <1>4, <3>1 DEF HasRoom
      <3>2. CASE q # r
        <4>1. layout'[q] = layout[q]
          BY <1>4, <3>2
        <4>2. QED
          BY <1>3, <1>8, <2>2, <3>2, <4>1 DEF HasRoom
      <3>3. QED
        BY <3>1, <3>2
    <2>4. HasSeat(p, q, s)'
      BY <1>2, <1>3, <1>8, <2>2 DEF HasSeat
    <2>5. QED
      BY <2>2, <2>3, <2>4
  <1>10. QED
    BY <1>5, <1>8, <1>9 DEF Ind

\* A PC that goes takes its place along.
LEMMA DeletePCStep == ASSUME Ind, NEW c \in PC, DeletePC(c) PROVE Ind'
  <1>0. TypeOK /\ ShapeInv /\ ProgressInv
    BY DEF Ind
  <1>1. /\ pcs' = pcs \ {c}
        /\ place' = [place EXCEPT ![c] = Nowhere]
        /\ UNCHANGED <<layout, map, request, clean>>
    BY DEF DeletePC
  <1>2. TypeOK'
    BY <1>0, <1>1, SomeConstants DEF TypeOK
  <1>3. ShapeInv' /\ AloneInv' /\ CleanInv' /\ UniqueIds'
    BY <1>1 DEF Ind, ShapeInv, Shape, Seated, AloneInv, Meets, CleanInv, UniqueIds
  <1>4. \A p \in pcs' : p \in pcs /\ place'[p] = place[p]
    BY <1>0, <1>1 DEF TypeOK
  <1>5. ProgressInv'
    <2>1. ASSUME NEW k \in Handler PROVE Progress(request[k])'
      <3>1. Unnoticed(request[k])
        BY <1>1, <1>4 DEF Unnoticed
      <3>2. QED
        BY <1>0, <1>1, <3>1, UnnoticedEffect
    <2>2. QED
      BY <2>1 DEF ProgressInv
  <1>6. PlaceInv'
    <2> SUFFICES ASSUME clean', NEW p \in pcs', NEW q \in Room, NEW s,
                        q = place'[p].room, s = place'[p].seat
                 PROVE  s \in Seat /\ HasRoom(q)' /\ HasSeat(p, q, s)'
      BY <1>2, PlaceGoal
    <2>1. s \in Seat /\ HasRoom(q) /\ HasSeat(p, q, s)
      BY <1>1, <1>4, PlaceKnown
    <2>2. QED
      BY <1>1, <2>1 DEF HasRoom, HasSeat
  <1>7. QED
    BY <1>2, <1>3, <1>5, <1>6 DEF Ind

-----------------------------------------------------------------------------
(* The theorems *)

\* Every step keeps the inductive invariant.
LEMMA NextInd == Ind /\ [Next]_vars => Ind'
  <1> SUFFICES ASSUME Ind, [Next]_vars PROVE Ind'
    OBVIOUS
  <1>0. TypeOK
    BY DEF Ind
  <1>1. ASSUME NEW h \in Handler, Start(h) PROVE Ind'
    BY <1>1, MakeRoomStep, UpdateRoomStep, DeleteRoomStep, SaveMapStep DEF Start
  <1>2. ASSUME NEW h \in Handler, Continue(h) PROVE Ind'
    <2>1. CASE InsertRoom(h)
      BY <2>1, InsertRoomStep
    <2>2. CASE CheckName(h)
      BY <2>2, CheckNameStep
    <2>3. CASE MovePCs(h)
      BY <2>3, MovePCsStep
    <2>4. CASE MoveSeats(h)
      BY <2>4, MoveSeatsStep
    <2>5. CASE SeatsCollide(h)
      BY <2>5, BreakOffStep DEF SeatsCollide, Places
    <2>6. CASE SetName(h)
      BY <2>6, SetNameStep
    <2>7. CASE NameCollides(h)
      BY <2>7, BreakOffStep DEF NameCollides, Places
    <2>8. CASE CountPCs(h)
      BY <2>8, CountPCsStep
    <2>9. CASE RemoveRoom(h)
      BY <2>9, RemoveRoomStep
    <2>10. CASE ClearPlaces(h)
      BY <2>10, ClearPlacesStep
    <2>11. ASSUME NEW p \in PC, InsertSeat(h, p) PROVE Ind'
      BY <2>11, InsertSeatStep
    <2>12. ASSUME NEW p \in PC, SeatTaken(h, p) PROVE Ind'
      BY <2>12, BreakOffStep DEF SeatTaken, Places
    <2>13. CASE PlacePC(h)
      BY <2>13, PlacePCStep
    <2>14. CASE ReplaceRoom(h)
      BY <2>14, ReplaceRoomStep
    <2>15. CASE StatementFails(h)
      <3>1. request[h].at \in Places
        BY <1>0, <2>15 DEF StatementFails, TypeOK, Work, Places
      <3>2. BreakOff(h, request[h].at) /\ UNCHANGED tables
        BY <2>15 DEF StatementFails
      <3>3. QED
        BY <3>1, <3>2, BreakOffStep
    <2>16. QED
      BY <1>2, <2>1, <2>2, <2>3, <2>4, <2>5, <2>6, <2>7, <2>8, <2>9, <2>10, <2>11,
         <2>12, <2>13, <2>14, <2>15 DEF Continue
  <1>3. CASE UNCHANGED vars
    BY <1>3
    DEF vars, Ind, TypeOK, ShapeInv, Shape, Seated, AloneInv, Meets, CleanInv, UniqueIds,
        ProgressInv, Progress, Leaves, Inside, MapDone, PlacesDone, Done, PlaceInv,
        HasRoom, HasSeat
  <1>4. QED
    BY <1>1, <1>2, <1>3, DeletePCStep DEF Next

\* The inductive invariant holds in every behaviour.
THEOREM Invariant == Spec => []Ind
  <1>1. Init => Ind
    BY InitInd
  <1>2. Ind /\ [Next]_vars => Ind'
    BY NextInd
  <1>3. QED
    BY <1>1, <1>2, PTL DEF Spec

\* All variables keep their types.
THEOREM TypeCorrect == Spec => []TypeOK
  <1>1. Ind => TypeOK
    BY DEF Ind
  <1>2. QED
    BY <1>1, Invariant, PTL

\* As long as no two requests met and none broke off, every placed PC is, between
\* requests, on its seat in a room that exists.
THEOREM PlacesAgree == Spec => []PlacesHaveSeats
  <1>1. Ind => PlacesHaveSeats
    <2> SUFFICES ASSUME Ind, clean, \A h \in Handler : request[h].at = "idle",
                        NEW p \in pcs, place[p].room # None
                 PROVE  /\ layout[place[p].room] # NoId
                        /\ map[place[p].room][place[p].seat] = p
      BY DEF PlacesHaveSeats
    <2>1. HasRoom(place[p].room) /\ HasSeat(p, place[p].room, place[p].seat)
      BY DEF Ind, PlaceInv
    <2>2. QED
      BY <2>1 DEF HasRoom, HasSeat
  <1>2. QED
    BY <1>1, Invariant, PTL

\* What a save that met no other request did when it ends.
LEMMA SaveIsComplete ==
  ASSUME Ind, NEW h \in Handler, ReplaceRoom(h), request[h].alone
  PROVE  SavedAsAsked(request[h])
  <1> DEFINE w == request[h]
  <1>1. w.at = "seats" /\ w.todo = {}
    BY DEF ReplaceRoom, Finish
  <1>2. Shape(w) /\ Progress(w)
    BY DEF Ind, ShapeInv, ProgressInv
  <1>3. MapDone(w) /\ PlacesDone(w) /\ w.pc = None
    BY <1>1, <1>2 DEF Progress, Shape
  <1>4. Done(w) = {p \in PC : w.asked[p] # None}
    BY <1>1 DEF Done, Seated
  <1>5. ASSUME NEW s \in Seat, NEW p \in PC PROVE map[w.room][s] = p <=> w.asked[p] = s
    BY <1>3, <1>4, LayoutAssumption DEF MapDone
  <1>6. ASSUME NEW p \in pcs
        PROVE  IF w.asked[p] = None
               THEN place[p].room # w.room
               ELSE place[p] = [room |-> w.room, seat |-> w.asked[p]]
    <2>1. p \in PC /\ p # None
      BY LayoutAssumption DEF Ind, TypeOK
    <2>2. p \in Done(w) \ {w.pc} <=> w.asked[p] # None
      BY <1>3, <1>4, <2>1
    <2>3. QED
      BY <1>3, <2>2 DEF PlacesDone
  <1>7. QED
    BY <1>5, <1>6 DEF SavedAsAsked

\* A save that met no other request and answers success left what it was asked for.
THEOREM SavesReplace == Spec => SaveReplacesMap
  <1>1. Ind /\ [Next]_vars =>
          [\A h \in Handler : ReplaceRoom(h) /\ request[h].alone
                                => SavedAsAsked(request[h])]_vars
    BY SaveIsComplete
  <1>2. QED
    BY <1>1, Invariant, PTL DEF Spec, SaveReplacesMap

\* A rename that met no other request and answers success moved the PCs, the seats
\* and the room.
THEOREM RenamesMove == Spec => RenameMovesAll
  <1>1. ASSUME Ind, NEW h \in Handler, SetName(h), request[h].alone,
               request[h].new # request[h].room
        PROVE  MovedAway(request[h])
    <2> DEFINE w == request[h]
    <2>1. /\ w.at = "name" /\ layout' = Named(w)
          /\ w.room \in Room /\ w.new \in Room
      BY <1>1 DEF SetName, Finish, Ind, TypeOK, Work
    <2>2. Shape(w) /\ Progress(w)
      BY <1>1 DEF Ind, ShapeInv, ProgressInv
    <2>3. map[w.room] = EmptyMap /\ Inside(w.room) = {} /\ layout[w.room] = w.id
      BY <1>1, <2>1, <2>2 DEF Progress, Shape, Leaves
    <2>4. layout'[w.room] = NoId /\ layout'[w.new] = w.id
      BY <1>1, <2>1, <2>3 DEF Named, InUse
    <2>5. QED
      BY <2>3, <2>4 DEF MovedAway
  <1>2. Ind /\ [Next]_vars =>
          [\A h \in Handler :
             SetName(h) /\ request[h].alone /\ request[h].new # request[h].room
               => MovedAway(request[h])]_vars
    BY <1>1
  <1>3. QED
    BY <1>2, Invariant, PTL DEF Spec, RenameMovesAll

\* A deletion that met no other request does not take a room with PCs.
THEOREM DeletesEmptyRooms == Spec => OnlyEmptyRoomsGo
  <1>1. ASSUME Ind, NEW h \in Handler, RemoveRoom(h), request[h].alone
        PROVE  Inside(request[h].room) = {}
    BY <1>1 DEF Ind, ProgressInv, Progress, Leaves, RemoveRoom, Finish
  <1>2. Ind /\ [Next]_vars =>
          [\A h \in Handler :
             RemoveRoom(h) /\ request[h].alone => Inside(request[h].room) = {}]_vars
    BY <1>1
  <1>3. QED
    BY <1>2, Invariant, PTL DEF Spec, OnlyEmptyRoomsGo

-----------------------------------------------------------------------------
(* Layout implements SeatPlan: the plan as requests make it *)

\* The handlers that take a room out of the plan, and those that put one in.
LEMMA RoomView ==
  \A q : q \in PlannedRooms <=>
    \/ /\ q \in Room /\ layout[q] # NoId
       /\ \A h \in Handler : ~(Renaming(request[h]) /\ request[h].room = q)
    \/ \E h \in Handler :
         (Renaming(request[h]) \/ Placing(request[h])) /\ request[h].new = q
  BY DEF PlannedRooms

\* The same after a step.
LEMMA RoomViewAfter ==
  \A q : q \in PlannedRooms' <=>
    \/ /\ q \in Room /\ layout'[q] # NoId
       /\ \A h \in Handler : ~(Renaming(request'[h]) /\ request'[h].room = q)
    \/ \E h \in Handler :
         (Renaming(request'[h]) \/ Placing(request'[h])) /\ request'[h].new = q
  BY DEF PlannedRooms, Renaming, Placing

\* Requests under way have names and PCs of their own.
ApartInv ==
  \A h, k \in Handler :
    h # k /\ request[h].at # "idle" /\ request[k].at # "idle" =>
      /\ request[h].room # request[k].room /\ request[h].room # request[k].new
      /\ request[h].new # request[k].room /\ request[h].new # request[k].new
      /\ \A p \in PC : ~(p \in Seated(request[h]) /\ p \in Seated(request[k]))

\* As long as no two requests met, every two are apart,
LEMMA Apart == Ind /\ clean => ApartInv
  <1> SUFFICES ASSUME Ind, clean, NEW h \in Handler, NEW k \in Handler, h # k,
                      request[h].at # "idle", request[k].at # "idle"
               PROVE  /\ request[h].room # request[k].room /\ request[h].room # request[k].new
                      /\ request[h].new # request[k].room /\ request[h].new # request[k].new
                      /\ \A p \in PC : ~(p \in Seated(request[h]) /\ p \in Seated(request[k]))
    BY DEF ApartInv
  <1>1. ~Meets(request[h], request[k])
    BY DEF Ind, AloneInv, CleanInv
  <1>2. QED
    BY <1>1 DEF Meets

\* also after a step.
LEMMA ApartAfter == ASSUME Ind', clean' PROVE ApartInv'
  <1>1. (Ind /\ clean => ApartInv)'
    BY Apart, PTL
  <1>2. QED
    BY <1>1

\* A PC is planned where the one save that seats it wants it, or else where it is.
ViewInv ==
  \A p \in PC :
    /\ p \notin pcs => PlannedPlace(p) = Nowhere
    /\ \A h \in Handler : p \in pcs /\ Seats(h, p) =>
         PlannedPlace(p) = [room |-> request[h].room, seat |-> request[h].asked[p]]
    /\ p \in pcs /\ (\A h \in Handler : ~Seats(h, p)) => PlannedPlace(p) = place[p]

\* The choice in PlannedPlace is among at most one save.
LEMMA PlaceView == Ind /\ clean => ViewInv
  <1> SUFFICES ASSUME Ind, clean, NEW p \in PC
               PROVE  /\ p \notin pcs => PlannedPlace(p) = Nowhere
                      /\ \A h \in Handler : p \in pcs /\ Seats(h, p) =>
                           PlannedPlace(p) = [room |-> request[h].room,
                                              seat |-> request[h].asked[p]]
                      /\ p \in pcs /\ (\A h \in Handler : ~Seats(h, p)) =>
                           PlannedPlace(p) = place[p]
    BY DEF ViewInv
  <1>1. p \notin pcs => PlannedPlace(p) = Nowhere
    BY DEF PlannedPlace
  <1>2. ASSUME NEW h \in Handler, p \in pcs, Seats(h, p)
        PROVE  PlannedPlace(p) = [room |-> request[h].room, seat |-> request[h].asked[p]]
    <2> DEFINE c == CHOOSE k \in Handler : Seats(k, p)
    <2>1. c \in Handler /\ Seats(c, p)
      BY <1>2
    <2>2. \A k \in Handler : Seats(k, p) => k = h
      BY <1>2, Apart DEF ApartInv, Seats, Placing
    <2>3. c = h
      BY <2>1, <2>2
    <2>4. PlannedPlace(p) = LET w == request[c] IN [room |-> w.room, seat |-> w.asked[p]]
      BY <1>2 DEF PlannedPlace
    <2>5. QED
      BY <2>3, <2>4
  <1>3. p \in pcs /\ (\A h \in Handler : ~Seats(h, p)) => PlannedPlace(p) = place[p]
    BY DEF PlannedPlace
  <1>4. QED
    BY <1>1, <1>2, <1>3

\* Before a step,
LEMMA ViewBefore ==
  ASSUME Ind, clean, NEW c \in PC
  PROVE  /\ c \notin pcs => PlannedPlace(c) = Nowhere
         /\ \A h \in Handler : c \in pcs /\ Seats(h, c) =>
              PlannedPlace(c) = [room |-> request[h].room, seat |-> request[h].asked[c]]
         /\ c \in pcs /\ (\A h \in Handler : ~Seats(h, c)) => PlannedPlace(c) = place[c]
  BY PlaceView DEF ViewInv

\* and after it.
LEMMA ViewAfter ==
  ASSUME Ind', clean', NEW c \in PC
  PROVE  /\ c \notin pcs' => PlannedPlace(c)' = Nowhere
         /\ \A h \in Handler : c \in pcs' /\ Seats(h, c)' =>
              PlannedPlace(c)' = [room |-> request'[h].room, seat |-> request'[h].asked[c]]
         /\ c \in pcs' /\ (\A h \in Handler : ~Seats(h, c)') => PlannedPlace(c)' = place'[c]
  <1>1. (Ind /\ clean => ViewInv)'
    BY PlaceView, PTL
  <1>2. QED
    BY <1>1 DEF ViewInv

\* A thread shows as much of its request as before.
Shows(v, w) ==
  /\ Renaming(v) <=> Renaming(w)
  /\ Placing(v) <=> Placing(w)
  /\ Renaming(v) \/ Placing(v) => v.room = w.room /\ v.new = w.new

SeatsAsBefore(h) ==
  \A p \in PC : /\ Seats(h, p)' <=> Seats(h, p)
                /\ Seats(h, p) => /\ request'[h].room = request[h].room
                                  /\ request'[h].asked[p] = request[h].asked[p]

\* Steps that do not concern the planned rooms.
LEMMA SameRooms ==
  ASSUME UNCHANGED layout, \A h \in Handler : Shows(request[h], request'[h])
  PROVE  PlannedRooms' = PlannedRooms
  <1>1. \A q : q \in PlannedRooms' <=> q \in PlannedRooms
    BY RoomView, RoomViewAfter DEF Shows
  <1>2. QED
    BY <1>1

\* Steps that do not concern the planned places.
LEMMA SamePlaces ==
  ASSUME Ind, Ind', clean, clean', UNCHANGED pcs,
         \A h \in Handler : SeatsAsBefore(h),
         \A p \in pcs : (\A h \in Handler : ~Seats(h, p)) => place'[p] = place[p]
  PROVE  PlannedPlaces' = PlannedPlaces
  <1>1. ASSUME NEW p \in PC PROVE PlannedPlace(p)' = PlannedPlace(p)
    <2>1. CASE p \notin pcs
      BY <2>1, ViewBefore DEF PlannedPlace
    <2>2. ASSUME p \in pcs, NEW h \in Handler, Seats(h, p)
          PROVE  PlannedPlace(p)' = PlannedPlace(p)
      <3>1. p \in pcs' /\ Seats(h, p)'
        BY <2>2 DEF SeatsAsBefore
      <3>2. PlannedPlace(p)' = [room |-> request'[h].room, seat |-> request'[h].asked[p]]
        BY <3>1, ViewAfter
      <3>3. QED
        BY <2>2, <3>2, ViewBefore DEF SeatsAsBefore
    <2>3. ASSUME p \in pcs, \A h \in Handler : ~Seats(h, p)
          PROVE  PlannedPlace(p)' = PlannedPlace(p)
      <3>1. p \in pcs' /\ \A h \in Handler : ~Seats(h, p)'
        BY <2>3 DEF SeatsAsBefore
      <3>2. PlannedPlace(p)' = place'[p]
        BY <3>1, ViewAfter
      <3>3. QED
        BY <2>3, <3>2, ViewBefore
    <2>4. QED
      BY <2>1, <2>2, <2>3
  <1>2. QED
    BY <1>1 DEF PlannedPlaces

-----------------------------------------------------------------------------
(* Steps of threads while nothing has gone wrong *)

OthersStay(h) == \A k \in Handler \ {h} : request'[k] = request[k]

\* A request begins.
LEMMA BeginCalmly ==
  ASSUME Ind, NEW h \in Handler, NEW w \in Work, Begin(h, w), clean'
  PROVE  /\ clean /\ OthersStay(h) /\ request[h].at = "idle"
         /\ request'[h].at = w.at /\ request'[h].room = w.room /\ request'[h].new = w.new
         /\ request'[h].id = w.id /\ request'[h].asked = w.asked
  <1>1. /\ request[h].at = "idle"
        /\ request' = [k \in Handler |->
             IF k = h THEN [w EXCEPT !.alone = (Met(w) = {})]
             ELSE IF k \in Met(w) THEN [request[k] EXCEPT !.alone = FALSE]
             ELSE request[k]]
        /\ clean' = (clean /\ Met(w) = {})
    BY DEF Begin
  <1>2. clean /\ Met(w) = {}
    BY <1>1, Zenon
  <1>3. request'[h] = [w EXCEPT !.alone = (Met(w) = {})]
    BY <1>1
  <1>4. OthersStay(h)
    BY <1>1, <1>2 DEF OthersStay
  <1>5. QED
    BY <1>1, <1>2, <1>3, <1>4 DEF Work

\* All that a request's first action does.
LEMMA StartCalmly ==
  ASSUME Ind, NEW h \in Handler, Start(h), clean'
  PROVE  /\ clean /\ OthersStay(h) /\ request[h].at = "idle"
         /\ UNCHANGED <<layout, pcs, place>>
         /\ request'[h].at \in {"insert", "check", "name", "count", "clear"}
         /\ request'[h].at = "name" =>
              /\ request'[h].room \in Room /\ request'[h].new = request'[h].room
              /\ layout[request'[h].room] # NoId
  <1>0. layout \in [Room -> Id \cup {NoId}] /\ \A r \in Room : layout[r] \in Id \cup {NoId}
    BY DEF Ind, TypeOK
  <1>1. ASSUME NEW r \in Room, MakeRoom(h, r)
        PROVE  \E w \in Work : /\ Begin(h, w) /\ w.at = "insert"
                               /\ UNCHANGED <<layout, pcs, place>>
    <2> DEFINE w == [Idle EXCEPT !.at = "insert", !.room = r, !.new = r]
    <2>1. w \in Work /\ w.at = "insert"
      BY SomeConstants DEF Idle, Work
    <2>2. Begin(h, w) /\ UNCHANGED tables
      BY <1>1 DEF MakeRoom
    <2>3. QED
      BY <2>1, <2>2 DEF tables
  <1>2. ASSUME NEW r \in Room, NEW new \in Room, UpdateRoom(h, r, new)
        PROVE  \E w \in Work :
                 /\ Begin(h, w) /\ w.at \in {"name", "check"}
                 /\ UNCHANGED <<layout, pcs, place>>
                 /\ w.at = "name" => w.room \in Room /\ w.new = w.room /\ layout[w.room] # NoId
    <2> DEFINE from == IF new = r THEN "name" ELSE "check"
               w == [Idle EXCEPT !.at = from, !.room = r, !.new = new, !.id = layout[r]]
    <2>1. w \in Work /\ w.at = from /\ w.room = r /\ w.new = new
      BY <1>0, SomeConstants DEF Idle, Work
    <2>2. Begin(h, w) /\ UNCHANGED tables /\ layout[r] # NoId
      BY <1>2 DEF UpdateRoom
    <2> HIDE DEF w
    <2>3. QED
      BY <2>1, <2>2 DEF tables
  <1>3. ASSUME NEW r \in Room, DeleteRoom(h, r)
        PROVE  \E w \in Work : /\ Begin(h, w) /\ w.at = "count"
                               /\ UNCHANGED <<layout, pcs, place>>
    <2> DEFINE w == [Idle EXCEPT !.at = "count", !.room = r, !.new = r, !.id = layout[r]]
    <2>1. w \in Work /\ w.at = "count"
      BY <1>0, SomeConstants DEF Idle, Work
    <2>2. Begin(h, w) /\ UNCHANGED tables
      BY <1>3 DEF DeleteRoom
    <2>3. QED
      BY <2>1, <2>2 DEF tables
  <1>4. ASSUME NEW r \in Room, NEW asked \in Asked, SaveMap(h, r, asked)
        PROVE  \E w \in Work : /\ Begin(h, w) /\ w.at = "clear"
                               /\ UNCHANGED <<layout, pcs, place>>
    <2> DEFINE w == [Idle EXCEPT !.at = "clear", !.room = r, !.new = r, !.asked = asked,
                                 !.todo = {p \in PC : asked[p] # None}]
    <2>1. w \in Work /\ w.at = "clear"
      BY SomeConstants DEF Idle, Work
    <2>2. Begin(h, w) /\ UNCHANGED <<layout, pcs, place>>
      BY <1>4 DEF SaveMap
    <2>3. QED
      BY <2>1, <2>2
  <1>5. PICK w \in Work :
          /\ Begin(h, w) /\ w.at \in {"insert", "check", "name", "count", "clear"}
          /\ UNCHANGED <<layout, pcs, place>>
          /\ w.at = "name" => w.room \in Room /\ w.new = w.room /\ layout[w.room] # NoId
    BY <1>1, <1>2, <1>3, <1>4 DEF Start
  <1>6. QED
    BY <1>5, BeginCalmly

\* A step to the next statement.
LEMMA WentOn ==
  ASSUME Ind, NEW h \in Handler, NEW from, NEW to, Goto(h, from, to)
  PROVE  /\ OthersStay(h) /\ request[h].at = from /\ request'[h].at = to
         /\ request'[h].room = request[h].room /\ request'[h].new = request[h].new
         /\ request'[h].asked = request[h].asked /\ request'[h].id = request[h].id
  <1>1. request[h] \in Work
    BY DEF Ind, TypeOK
  <1>2. request'[h] = [request[h] EXCEPT !.at = to] /\ OthersStay(h) /\ request[h].at = from
    BY DEF Goto, Ind, TypeOK, OthersStay
  <1>3. QED
    BY <1>1, <1>2 DEF Work

\* The last step of a request.
LEMMA Ended ==
  ASSUME Ind, NEW h \in Handler, NEW from, Finish(h, from)
  PROVE  OthersStay(h) /\ request[h].at = from /\ request'[h] = Idle
  BY DEF Finish, Ind, TypeOK, OthersStay

\* A seat or a place of a save.
LEMMA Seating ==
  ASSUME Ind, NEW h \in Handler, \/ PlacePC(h)
                                 \/ \E p \in PC : InsertSeat(h, p)
  PROVE  /\ OthersStay(h) /\ Placing(request[h]) /\ Placing(request'[h])
         /\ request[h].room = request'[h].room /\ request'[h].new = request[h].new
         /\ request'[h].asked = request[h].asked
         /\ UNCHANGED <<layout, pcs, clean>>
         /\ request'[h].at # "movePCs" /\ request[h].at # "idle"
  <1>1. request[h] \in Work
    BY DEF Ind, TypeOK
  <1>2. CASE PlacePC(h)
    <2>1. /\ request'[h] = [request[h] EXCEPT !.at = "seats", !.pc = None]
          /\ OthersStay(h) /\ request[h].at = "place" /\ UNCHANGED <<layout, pcs, clean>>
      BY <1>2 DEF PlacePC, Ind, TypeOK, OthersStay
    <2>2. QED
      BY <1>1, <2>1 DEF Work, Placing
  <1>3. ASSUME NEW p \in PC, InsertSeat(h, p)
        PROVE  /\ OthersStay(h) /\ Placing(request[h]) /\ Placing(request'[h])
               /\ request[h].room = request'[h].room /\ request'[h].new = request[h].new
               /\ request'[h].asked = request[h].asked
               /\ UNCHANGED <<layout, pcs, clean>>
               /\ request'[h].at # "movePCs" /\ request[h].at # "idle"
    <2>1. /\ request'[h] = [request[h] EXCEPT !.at = "place", !.pc = p,
                                              !.todo = request[h].todo \ {p}]
          /\ OthersStay(h) /\ request[h].at = "seats" /\ UNCHANGED <<layout, pcs, clean>>
      BY <1>3 DEF InsertSeat, Ind, TypeOK, OthersStay
    <2>2. QED
      BY <1>1, <2>1 DEF Work, Placing
  <1>4. QED
    BY <1>2, <1>3

\* Steps that break a request off end all promises.
LEMMA Broken ==
  ASSUME NEW h \in Handler, \/ SeatsCollide(h) \/ NameCollides(h) \/ StatementFails(h)
                            \/ \E p \in PC : SeatTaken(h, p)
  PROVE  ~clean'
  BY DEF SeatsCollide, NameCollides, StatementFails, SeatTaken, BreakOff

\* What a request under way has reached.
LEMMA Reached ==
  ASSUME Ind, clean, NEW h \in Handler, request[h].at # "idle"
  PROVE  /\ request[h] \in Work /\ request[h].alone
         /\ Shape(request[h]) /\ Progress(request[h])
         /\ request[h].room \in Room /\ request[h].new \in Room
  BY DEF Ind, TypeOK, CleanInv, ShapeInv, ProgressInv, Work

\* A request changes the rows of its own names.
LEMMA OtherNames ==
  ASSUME Ind, clean, NEW h \in Handler, request[h].at # "idle",
         Continue(h), NEW q \in Room, q # request[h].room, q # request[h].new
  PROVE  layout'[q] = layout[q]
  <1> DEFINE w == request[h]
  <1>0. layout \in [Room -> Id \cup {NoId}] /\ w.room \in Room /\ Progress(w) /\ w.alone
        /\ Shape(w)
    BY Reached DEF Ind, TypeOK
  <1>1. ASSUME w.id # NoId PROVE layout[q] # w.id
    BY <1>0, <1>1 DEF Progress, Ind, UniqueIds
  <1>2. CASE InsertRoom(h)
    BY <1>0, <1>2 DEF InsertRoom
  <1>3. CASE SetName(h)
    <2>1. w.id # NoId /\ layout' = Named(w)
      BY <1>0, <1>3 DEF SetName, Finish, Shape
    <2>2. QED
      BY <1>1, <2>1 DEF Named
  <1>4. CASE RemoveRoom(h)
    <2>1. w.id # NoId /\ layout' = [r \in Room |-> IF layout[r] = w.id THEN NoId ELSE layout[r]]
      BY <1>0, <1>4 DEF RemoveRoom, Finish, Shape
    <2>2. QED
      BY <1>1, <2>1
  <1>5. CASE ReplaceRoom(h)
    BY <1>0, <1>5 DEF ReplaceRoom
  <1>6. CASE UNCHANGED layout
    BY <1>6
  <1>7. QED
    BY <1>2, <1>3, <1>4, <1>5, <1>6
    DEF Continue, CheckName, MovePCs, MoveSeats, SeatsCollide, NameCollides, CountPCs,
        ClearPlaces, InsertSeat, SeatTaken, PlacePC, StatementFails, tables

-----------------------------------------------------------------------------
(* A name that was free for a rename stays free *)

\* Ind does not say so, because a save may give the new name to a room of its own
\* meanwhile: then the two have met.
NewNamesFree ==
  clean => \A h \in Handler : request[h].at = "movePCs" => layout[request[h].new] = NoId

\* Steps that break off, and steps within requests, leave the history clean or not.
LEMMA ContinueCalmly ==
  ASSUME Ind, NEW h \in Handler, Continue(h), clean'
  PROVE  /\ clean /\ OthersStay(h) /\ request[h].at # "idle"
         /\ request'[h].at = "movePCs" => CheckName(h)
  <1>1. ASSUME NEW from, NEW to, from # "idle", Goto(h, from, to)
        PROVE  clean /\ OthersStay(h) /\ request[h].at # "idle" /\ request'[h].at = to
    BY <1>1, WentOn DEF Goto
  <1>2. ASSUME NEW from, from # "idle", Finish(h, from)
        PROVE  /\ clean /\ OthersStay(h) /\ request[h].at # "idle"
               /\ request'[h].at # "movePCs"
    BY <1>2, Ended, IdleShape DEF Finish
  <1>3. CASE PlacePC(h) \/ \E p \in PC : InsertSeat(h, p)
    BY <1>3, Seating
  <1>4. CASE \/ InsertRoom(h) \/ SetName(h) \/ RemoveRoom(h) \/ ReplaceRoom(h)
    BY <1>2, <1>4 DEF InsertRoom, SetName, RemoveRoom, ReplaceRoom
  <1>5. CASE MovePCs(h) \/ MoveSeats(h) \/ ClearPlaces(h)
    BY <1>1, <1>5 DEF MovePCs, MoveSeats, ClearPlaces
  <1>6. CASE CheckName(h)
    BY <1>1, <1>2, <1>6 DEF CheckName
  <1>7. CASE CountPCs(h)
    BY <1>1, <1>2, <1>7 DEF CountPCs
  <1>8. QED
    BY <1>3, <1>4, <1>5, <1>6, <1>7, Broken DEF Continue

\* The check of the name finds it free, and no other request takes it.
LEMMA NamesStep == Ind /\ NewNamesFree /\ [Next]_vars => NewNamesFree'
  <1> SUFFICES ASSUME Ind, NewNamesFree, [Next]_vars, clean',
                      NEW k \in Handler, request'[k].at = "movePCs"
               PROVE  layout'[request'[k].new] = NoId
    BY DEF NewNamesFree
  <1>1. ASSUME NEW h \in Handler, Start(h) PROVE layout'[request'[k].new] = NoId
    <2>1. /\ clean /\ OthersStay(h) /\ UNCHANGED layout /\ request'[h].at # "movePCs"
      BY <1>1, StartCalmly
    <2>2. QED
      BY <2>1 DEF OthersStay, NewNamesFree
  <1>2. ASSUME NEW h \in Handler, Continue(h) PROVE layout'[request'[k].new] = NoId
    <2>1. clean /\ OthersStay(h) /\ request[h].at # "idle"
      BY <1>2, ContinueCalmly
    <2>2. CASE k = h
      <3>1. CheckName(h) /\ Goto(h, "check", "movePCs") /\ UNCHANGED layout
            /\ layout[request[h].new] \in {NoId, request[h].id}
        BY <1>2, <2>2, ContinueCalmly, Ended, IdleShape DEF CheckName, tables
      <3>2. request'[h].new = request[h].new /\ request[h].at = "check"
        BY <3>1, WentOn
      <3>3. /\ request[h].new # request[h].room /\ request[h].id # NoId
            /\ layout[request[h].room] = request[h].id
            /\ request[h].room \in Room /\ request[h].new \in Room
        BY <2>1, <3>2, Reached DEF Shape, Progress
      <3>4. layout[request[h].new] # request[h].id
        BY <3>3 DEF Ind, UniqueIds
      <3>5. QED
        BY <2>2, <3>1, <3>2, <3>4
    <2>3. CASE k # h
      <3>1. request'[k] = request[k]
        BY <2>1, <2>3 DEF OthersStay
      <3>2. layout[request[k].new] = NoId
        BY <2>1, <3>1 DEF NewNamesFree
      <3>3. /\ request[k].new # request[h].room /\ request[k].new # request[h].new
            /\ request[k].new \in Room
        BY <2>1, <2>3, <3>1, Apart, Reached DEF ApartInv
      <3>4. layout'[request[k].new] = layout[request[k].new]
        BY <1>2, <2>1, <3>3, OtherNames
      <3>5. QED
        BY <3>1, <3>2, <3>4
    <2>4. QED
      BY <2>2, <2>3
  <1>3. ASSUME NEW p \in PC, DeletePC(p) PROVE layout'[request'[k].new] = NoId
    BY <1>3 DEF DeletePC, NewNamesFree
  <1>4. CASE UNCHANGED vars
    BY <1>4 DEF vars, NewNamesFree
  <1>5. QED
    BY <1>1, <1>2, <1>3, <1>4 DEF Next

-----------------------------------------------------------------------------
(* Calm is over for good *)

\* A save that asks for a seat twice does not end with success.
LEMMA DoomedFails ==
  ASSUME Ind, NEW h \in Handler, ReplaceRoom(h), clean
  PROVE  ~Doomed(request[h])
  <1> DEFINE w == request[h]
  <1>1. w.at = "seats" /\ w \in Work /\ w.alone
    BY Reached DEF ReplaceRoom, Finish
  <1>2. SavedAsAsked(w)
    BY <1>1, SaveIsComplete
  <1> SUFFICES ASSUME NEW p \in PC, NEW q \in PC, w.asked[p] # None,
                      p # q, w.asked[p] = w.asked[q]
               PROVE  FALSE
    BY DEF Doomed, Seated
  <1>3. w.asked[p] \in Seat
    BY <1>1 DEF Work, Asked
  <1>4. QED
    BY <1>2, <1>3 DEF SavedAsAsked

\* A disturbed plan stays disturbed.
LEMMA CalmBefore ==
  ASSUME Ind, Next, Calm'
  PROVE  Calm /\ clean /\ clean'
  <1>1. clean' /\ \A h \in Handler : ~Doomed(request'[h])
    BY DEF Calm, Doomed, Seated
  <1>2. ASSUME NEW k \in Handler, request'[k] = request[k] PROVE ~Doomed(request[k])
    BY <1>1, <1>2
  <1>3. ASSUME NEW h \in Handler, Start(h) PROVE Calm
    <2>1. clean /\ OthersStay(h) /\ request[h].at = "idle"
      BY <1>1, <1>3, StartCalmly
    <2>2. QED
      BY <1>2, <2>1 DEF OthersStay, Calm, Doomed
  <1>4. ASSUME NEW h \in Handler, Continue(h) PROVE Calm
    <2>1. clean /\ OthersStay(h)
      BY <1>1, <1>4, ContinueCalmly
    <2>2. ~Doomed(request[h])
      <3>1. CASE PlacePC(h) \/ \E p \in PC : InsertSeat(h, p)
        <4>1. request'[h].asked = request[h].asked /\ Placing(request'[h])
          BY <3>1, Seating
        <4>2. QED
          BY <1>1, <4>1 DEF Doomed, Seated, Placing
      <3>2. CASE ClearPlaces(h)
        <4>1. request'[h].asked = request[h].asked /\ request'[h].at = "seats"
          BY <3>2, WentOn DEF ClearPlaces
        <4>2. QED
          BY <1>1, <4>1 DEF Doomed, Seated
      <3>3. CASE ReplaceRoom(h)
        BY <2>1, <3>3, DoomedFails
      <3>4. CASE request[h].at \notin {"clear", "seats", "place"}
        BY <3>4 DEF Doomed
      <3>5. QED
        BY <1>1, <1>4, <3>1, <3>2, <3>3, <3>4, Broken
        DEF Continue, InsertRoom, CheckName, MovePCs, MoveSeats, SetName, CountPCs,
            RemoveRoom, Goto, Finish
    <2>3. QED
      BY <1>2, <2>1, <2>2 DEF OthersStay, Calm
  <1>5. ASSUME NEW p \in PC, DeletePC(p) PROVE Calm
    BY <1>1, <1>5 DEF DeletePC, Calm
  <1>6. QED
    BY <1>1, <1>3, <1>4, <1>5 DEF Next, Calm

-----------------------------------------------------------------------------
(* What each step does to the plan *)

StaysPlanned == UNCHANGED <<PlannedRooms, pcs, PlannedPlaces>>

\* A step of one thread that shows as much of its request as before.
LEMMA Unseen ==
  ASSUME Ind, Ind', clean, clean', NEW h \in Handler, OthersStay(h),
         Shows(request[h], request'[h]),
         Placing(request[h]) => request'[h].asked = request[h].asked,
         UNCHANGED <<layout, pcs>>,
         \A p \in pcs : (\A k \in Handler : ~Seats(k, p)) => place'[p] = place[p]
  PROVE  StaysPlanned
  <1>1. \A k \in Handler : Shows(request[k], request'[k])
    BY DEF OthersStay, Shows
  <1>2. \A k \in Handler : SeatsAsBefore(k)
    BY DEF OthersStay, Shows, SeatsAsBefore, Seats, Seated, Placing
  <1>3. QED
    BY <1>1, <1>2, SameRooms, SamePlaces DEF StaysPlanned

\* A new request is not seen; a rename to the same name shows the room it has.
LEMMA StartUnseen ==
  ASSUME Ind, Ind', clean, clean', NEW h \in Handler, Start(h)
  PROVE  StaysPlanned
  <1>1. /\ OthersStay(h) /\ request[h].at = "idle"
        /\ UNCHANGED <<layout, pcs, place>>
        /\ request'[h].at \in {"insert", "check", "name", "count", "clear"}
        /\ request'[h].at = "name" =>
             /\ request'[h].room \in Room /\ request'[h].new = request'[h].room
             /\ layout[request'[h].room] # NoId
    BY StartCalmly
  <1>2. CASE request'[h].at # "name"
    <2>1. ~Renaming(request[h]) /\ ~Placing(request[h])
          /\ ~Renaming(request'[h]) /\ ~Placing(request'[h])
      BY <1>1, <1>2 DEF Renaming, Placing
    <2>2. QED
      BY <1>1, <2>1, Unseen DEF Shows
  <1>3. CASE request'[h].at = "name"
    <2> DEFINE r == request'[h].room
    <2>1. ~Renaming(request[h]) /\ ~Placing(request[h])
          /\ Renaming(request'[h]) /\ ~Placing(request'[h])
      BY <1>1, <1>3 DEF Renaming, Placing
    <2>2. \A k \in Handler : SeatsAsBefore(k)
      BY <1>1, <2>1 DEF OthersStay, SeatsAsBefore, Seats, Seated, Placing
    <2>3. PlannedPlaces' = PlannedPlaces
      BY <1>1, <2>2, SamePlaces
    <2>4. \A k \in Handler \ {h} :
            Renaming(request'[k]) => request'[k].room # r
      BY <1>1, <1>3, ApartAfter DEF ApartInv, Renaming
    <2>5. \A q : q \in PlannedRooms' <=> q \in PlannedRooms
      <3> SUFFICES ASSUME NEW q PROVE q \in PlannedRooms' <=> q \in PlannedRooms
        OBVIOUS
      <3>1. CASE q = r
        <4>1. q \in PlannedRooms'
          BY <1>1, <1>3, <2>1, <3>1, RoomViewAfter
        <4>2. q \in PlannedRooms
          BY <1>1, <1>3, <2>1, <2>4, <3>1, RoomView DEF OthersStay
        <4>3. QED
          BY <4>1, <4>2
      <3>2. CASE q # r
        BY <1>1, <1>3, <2>1, <3>2, RoomView, RoomViewAfter DEF OthersStay
      <3>3. QED
        BY <3>1, <3>2
    <2>6. PlannedRooms' = PlannedRooms
      BY <2>5
    <2>7. QED
      BY <1>1, <2>3, <2>6 DEF StaysPlanned
  <1>4. QED
    BY <1>2, <1>3

\* A request that ends without having shown anything.
LEMMA EndUnseen ==
  ASSUME Ind, Ind', clean, clean', NEW h \in Handler, NEW from, Finish(h, from),
         ~Renaming(request[h]), ~Placing(request[h]), UNCHANGED tables
  PROVE  StaysPlanned
  <1>1. OthersStay(h) /\ ~Renaming(request'[h]) /\ ~Placing(request'[h])
    BY Ended, IdleShape DEF Renaming, Placing
  <1>2. QED
    BY <1>1, Unseen DEF Shows, tables

\* A step to a statement that shows as much.
LEMMA GotoUnseen ==
  ASSUME Ind, Ind', clean, clean', NEW h \in Handler, NEW from, NEW to, Goto(h, from, to),
         \/ {from, to} \cap {"moveSeats", "name", "seats", "place"} = {}
         \/ from = "moveSeats" /\ to = "name",
         UNCHANGED <<layout, pcs, place>>
  PROVE  StaysPlanned
  <1>1. /\ OthersStay(h) /\ request[h].at = from /\ request'[h].at = to
        /\ request'[h].room = request[h].room /\ request'[h].new = request[h].new
        /\ request'[h].asked = request[h].asked
    BY WentOn
  <1>2. Shows(request[h], request'[h])
    BY <1>1 DEF Shows, Renaming, Placing
  <1>3. QED
    BY <1>1, <1>2, Unseen

\* The seats and the places of a save were planned.
LEMMA SeatingUnseen ==
  ASSUME Ind, Ind', clean, clean', NEW h \in Handler,
         PlacePC(h) \/ \E p \in PC : InsertSeat(h, p)
  PROVE  StaysPlanned
  <1>1. /\ OthersStay(h) /\ Placing(request[h]) /\ Placing(request'[h])
        /\ request[h].room = request'[h].room /\ request'[h].new = request[h].new
        /\ request'[h].asked = request[h].asked
        /\ UNCHANGED <<layout, pcs>>
        /\ request[h].at # "idle"
    BY Seating
  <1>2. Shows(request[h], request'[h])
    BY <1>1 DEF Shows, Renaming, Placing
  <1>3. \A p \in pcs : (\A k \in Handler : ~Seats(k, p)) => place'[p] = place[p]
    <2> SUFFICES ASSUME NEW p \in pcs, ~Seats(h, p), place'[p] # place[p] PROVE FALSE
      OBVIOUS
    <2>1. PlacePC(h) /\ p = request[h].pc
      BY DEF PlacePC, InsertSeat, Ind, TypeOK
    <2>2. p \in Seated(request[h])
      BY <1>1, <2>1, Reached DEF Shape, PlacePC
    <2>3. QED
      BY <1>1, <2>2 DEF Seats
  <1>4. QED
    BY <1>1, <1>2, <1>3, Unseen

\* The row of a new room is the creation.
LEMMA InsertRoomPlanned ==
  ASSUME Ind, Ind', clean, clean', NEW h \in Handler, InsertRoom(h)
  PROVE  StaysPlanned \/ Plan!CreateRoom(request[h].room)
  <1> DEFINE r == request[h].room
  <1>1. /\ OthersStay(h) /\ request[h].at = "insert" /\ request'[h] = Idle
        /\ UNCHANGED <<pcs, place>>
    BY Ended DEF InsertRoom
  <1>2. /\ ~Renaming(request[h]) /\ ~Placing(request[h])
        /\ ~Renaming(request'[h]) /\ ~Placing(request'[h])
    BY <1>1, IdleShape DEF Renaming, Placing
  <1>3. CASE layout[r] # NoId
    <2>1. UNCHANGED layout
      BY <1>3 DEF InsertRoom
    <2>2. QED
      BY <1>1, <1>2, <2>1, Unseen DEF Shows
  <1>4. CASE layout[r] = NoId
    <2>1. PICK id \in Id : layout' = [layout EXCEPT ![r] = id]
      BY <1>4 DEF InsertRoom
    <2>2. /\ r \in Room /\ layout'[r] # NoId
          /\ \A q \in Room \ {r} : layout'[q] = layout[q]
      BY <1>1, <2>1, Reached DEF Ind, TypeOK, Id, NoId
    <2>3. \A k \in Handler \ {h} :
            Renaming(request[k]) \/ Placing(request[k]) =>
              request[k].room # r /\ request[k].new # r
      BY <1>1, Apart DEF ApartInv, Renaming, Placing
    <2>4. r \notin PlannedRooms
      BY <1>2, <1>4, <2>3, RoomView
    <2>5. \A q : q \in PlannedRooms' <=> q \in PlannedRooms \cup {r}
      <3> SUFFICES ASSUME NEW q PROVE q \in PlannedRooms' <=> q \in PlannedRooms \cup {r}
        OBVIOUS
      <3>1. CASE q = r
        BY <1>1, <1>2, <2>2, <2>3, <3>1, RoomViewAfter DEF OthersStay
      <3>2. CASE q # r
        BY <1>1, <1>2, <2>2, <3>2, RoomView, RoomViewAfter DEF OthersStay
      <3>3. QED
        BY <3>1, <3>2
    <2>6. PlannedRooms' = PlannedRooms \cup {r}
      BY <2>5
    <2>7. \A k \in Handler : SeatsAsBefore(k)
      BY <1>1, <1>2 DEF OthersStay, SeatsAsBefore, Seats, Seated, Placing
    <2>8. PlannedPlaces' = PlannedPlaces
      BY <1>1, <2>7, SamePlaces
    <2>9. QED
      BY <1>1, <2>4, <2>6, <2>8 DEF Plan!CreateRoom
  <1>5. QED
    BY <1>3, <1>4

\* The PCs' change to the new name is the rename.
LEMMA MovePCsPlanned ==
  ASSUME Ind, Ind', NewNamesFree, clean, clean', NEW h \in Handler, MovePCs(h)
  PROVE  /\ request[h].new \in Room \ {request[h].room} /\ request[h].room \in Room
         /\ Plan!RenameRoom(request[h].room, request[h].new)
  <1> DEFINE w == request[h]
             r == w.room
             n == w.new
  <1>1. /\ OthersStay(h) /\ w.at = "movePCs" /\ request'[h].at = "moveSeats"
        /\ request'[h].room = r /\ request'[h].new = n
        /\ UNCHANGED <<layout, pcs>>
    BY WentOn DEF MovePCs
  <1>2. /\ ~Renaming(w) /\ ~Placing(w) /\ Renaming(request'[h]) /\ ~Placing(request'[h])
    BY <1>1 DEF Renaming, Placing
  <1>3. /\ r \in Room /\ n \in Room /\ n # r
        /\ layout[r] # NoId /\ layout[n] = NoId
    BY <1>1, Reached DEF Shape, Progress, NewNamesFree
  <1>4. \A k \in Handler \ {h} :
          Renaming(request[k]) \/ Placing(request[k]) =>
            /\ request[k].room # r /\ request[k].room # n
            /\ request[k].new # r /\ request[k].new # n
    BY <1>1, Apart DEF ApartInv, Renaming, Placing
  <1>5. r \in PlannedRooms /\ n \notin PlannedRooms
    BY <1>2, <1>3, <1>4, RoomView
  <1>6. \A q : q \in PlannedRooms' <=> q \in (PlannedRooms \ {r}) \cup {n}
    <2> SUFFICES ASSUME NEW q PROVE q \in PlannedRooms' <=> q \in (PlannedRooms \ {r}) \cup {n}
      OBVIOUS
    <2>1. CASE q = n
      BY <1>1, <1>2, <2>1, RoomViewAfter
    <2>2. CASE q = r
      <3>1. q \notin PlannedRooms'
        BY <1>1, <1>2, <1>3, <1>4, <2>2, RoomViewAfter DEF OthersStay
      <3>2. QED
        BY <1>3, <2>2, <3>1
    <2>3. CASE q # n /\ q # r
      BY <1>1, <1>2, <2>3, RoomView, RoomViewAfter DEF OthersStay
    <2>4. QED
      BY <2>1, <2>2, <2>3
  <1>7. PlannedRooms' = (PlannedRooms \ {r}) \cup {n}
    BY <1>6
  <1>8. ASSUME NEW p \in PC
        PROVE  PlannedPlace(p)' = IF PlannedPlace(p).room = r
                                  THEN [PlannedPlace(p) EXCEPT !.room = n]
                                  ELSE PlannedPlace(p)
    <2>1. CASE p \notin pcs
      <3>1. PlannedPlace(p) = Nowhere /\ PlannedPlace(p)' = Nowhere
        BY <1>1, <2>1, ViewBefore, ViewAfter
      <3>2. Nowhere.room # r
        BY <1>3, LayoutAssumption DEF Nowhere
      <3>3. QED
        BY <3>1, <3>2
    <2>2. ASSUME p \in pcs, NEW k \in Handler, Seats(k, p)
          PROVE  PlannedPlace(p)' = IF PlannedPlace(p).room = r
                                    THEN [PlannedPlace(p) EXCEPT !.room = n]
                                    ELSE PlannedPlace(p)
      <3>1. k # h /\ request'[k] = request[k] /\ request[k].room # r
        BY <1>1, <1>2, <1>4, <2>2 DEF Seats, OthersStay
      <3>2. Seats(k, p)' /\ p \in pcs'
        BY <1>1, <2>2, <3>1 DEF Seats, Placing, Seated
      <3>3. PlannedPlace(p) = [room |-> request[k].room, seat |-> request[k].asked[p]]
        BY <2>2, ViewBefore
      <3>4. PlannedPlace(p)' = [room |-> request[k].room, seat |-> request[k].asked[p]]
        BY <3>1, <3>2, ViewAfter
      <3>5. QED
        BY <3>1, <3>3, <3>4
    <2>3. ASSUME p \in pcs, \A k \in Handler : ~Seats(k, p)
          PROVE  PlannedPlace(p)' = IF PlannedPlace(p).room = r
                                    THEN [PlannedPlace(p) EXCEPT !.room = n]
                                    ELSE PlannedPlace(p)
      <3>1. \A k \in Handler : ~Seats(k, p)'
        BY <1>1, <1>2, <2>3 DEF OthersStay, Seats, Placing, Seated
      <3>2. PlannedPlace(p) = place[p] /\ PlannedPlace(p)' = place'[p]
        BY <1>1, <2>3, <3>1, ViewBefore, ViewAfter
      <3>3. place'[p] = IF place[p].room = r THEN [place[p] EXCEPT !.room = n] ELSE place[p]
        BY <2>3 DEF MovePCs, Inside
      <3>4. QED
        BY <3>2, <3>3
    <2>4. QED
      BY <2>1, <2>2, <2>3
  <1>9. PlannedPlaces' = [p \in PC |-> IF p \in Plan!In(r)
                                       THEN [PlannedPlaces[p] EXCEPT !.room = n]
                                       ELSE PlannedPlaces[p]]
    BY <1>8 DEF PlannedPlaces, Plan!In
  <1>10. QED
    BY <1>1, <1>3, <1>5, <1>7, <1>9 DEF Plan!RenameRoom

\* The row of a room that is renamed gets the name it has in the plan already.
LEMMA SetNameUnseen ==
  ASSUME Ind, Ind', clean, clean', NEW h \in Handler, SetName(h)
  PROVE  StaysPlanned
  <1> DEFINE w == request[h]
             r == w.room
             n == w.new
  <1>1. /\ OthersStay(h) /\ w.at = "name" /\ request'[h] = Idle
        /\ UNCHANGED <<pcs, place>> /\ layout' = Named(w)
    BY Ended DEF SetName
  <1>2. /\ Renaming(w) /\ ~Placing(w) /\ ~Renaming(request'[h]) /\ ~Placing(request'[h])
    BY <1>1, IdleShape DEF Renaming, Placing
  <1>3. /\ r \in Room /\ n \in Room /\ w.id # NoId /\ layout[r] = w.id
    BY <1>1, Reached DEF Shape, Progress
  <1>4. \A q \in Room : layout[q] = w.id => q = r
    BY <1>3 DEF Ind, UniqueIds
  <1>5. /\ layout'[n] # NoId
        /\ \A q \in Room \ {n} : layout'[q] = IF q = r THEN NoId ELSE layout[q]
    BY <1>1, <1>3, <1>4 DEF Named, InUse
  <1>6. \A k \in Handler \ {h} :
          Renaming(request[k]) \/ Placing(request[k]) => request[k].room # n
    BY <1>1, Apart DEF ApartInv, Renaming, Placing
  <1>7. \A q : q \in PlannedRooms' <=> q \in PlannedRooms
    <2> SUFFICES ASSUME NEW q PROVE q \in PlannedRooms' <=> q \in PlannedRooms
      OBVIOUS
    <2>1. CASE q = n
      <3>1. q \in PlannedRooms
        BY <1>2, <2>1, RoomView
      <3>2. q \in PlannedRooms'
        BY <1>1, <1>2, <1>3, <1>5, <1>6, <2>1, RoomViewAfter DEF OthersStay
      <3>3. QED
        BY <3>1, <3>2
    <2>2. CASE q # n
      BY <1>1, <1>2, <1>3, <1>5, <2>2, RoomView, RoomViewAfter DEF OthersStay
    <2>3. QED
      BY <2>1, <2>2
  <1>8. \A k \in Handler : SeatsAsBefore(k)
    BY <1>1, <1>2 DEF OthersStay, SeatsAsBefore, Seats, Seated, Placing
  <1>9. PlannedPlaces' = PlannedPlaces
    BY <1>1, <1>8, SamePlaces
  <1>10. QED
    BY <1>1, <1>7, <1>9 DEF StaysPlanned

\* The row of a room that is deleted goes when no PC is planned in the room.
LEMMA RemoveRoomPlanned ==
  ASSUME Ind, Ind', clean, clean', NEW h \in Handler, RemoveRoom(h)
  PROVE  request[h].room \in Room /\ Plan!DeleteRoom(request[h].room)
  <1> DEFINE w == request[h]
             r == w.room
  <1>1. /\ OthersStay(h) /\ w.at = "delete" /\ request'[h] = Idle
        /\ UNCHANGED <<pcs, place>>
    BY Ended DEF RemoveRoom
  <1>2. /\ ~Renaming(w) /\ ~Placing(w) /\ ~Renaming(request'[h]) /\ ~Placing(request'[h])
    BY <1>1, IdleShape DEF Renaming, Placing
  <1>3. /\ r \in Room /\ w.id # NoId /\ layout[r] = w.id /\ Inside(r) = {}
    BY <1>1, Reached DEF Shape, Progress, Leaves
  <1>4. /\ layout'[r] = NoId
        /\ \A q \in Room \ {r} : layout'[q] = layout[q]
    BY <1>3 DEF RemoveRoom, Ind, UniqueIds
  <1>5. \A k \in Handler \ {h} :
          Renaming(request[k]) \/ Placing(request[k]) =>
            request[k].room # r /\ request[k].new # r
    BY <1>1, Apart DEF ApartInv, Renaming, Placing
  <1>6. r \in PlannedRooms
    BY <1>2, <1>3, <1>5, RoomView
  <1>7. \A q : q \in PlannedRooms' <=> q \in PlannedRooms \ {r}
    <2> SUFFICES ASSUME NEW q PROVE q \in PlannedRooms' <=> q \in PlannedRooms \ {r}
      OBVIOUS
    <2>1. CASE q = r
      <3>1. q \notin PlannedRooms'
        BY <1>1, <1>2, <1>4, <1>5, <2>1, RoomViewAfter DEF OthersStay
      <3>2. QED
        BY <2>1, <3>1
    <2>2. CASE q # r
      BY <1>1, <1>2, <1>4, <2>2, RoomView, RoomViewAfter DEF OthersStay
    <2>3. QED
      BY <2>1, <2>2
  <1>8. ASSUME NEW p \in PC PROVE PlannedPlace(p).room # r
    <2>1. CASE p \notin pcs
      BY <1>3, <2>1, ViewBefore, LayoutAssumption DEF Nowhere
    <2>2. ASSUME p \in pcs, NEW k \in Handler, Seats(k, p) PROVE PlannedPlace(p).room # r
      <3>1. request[k].room # r
        BY <1>2, <1>5, <2>2 DEF Seats
      <3>2. QED
        BY <2>2, <3>1, ViewBefore
    <2>3. ASSUME p \in pcs, \A k \in Handler : ~Seats(k, p) PROVE PlannedPlace(p).room # r
      BY <1>3, <2>3, ViewBefore DEF Inside
    <2>4. QED
      BY <2>1, <2>2, <2>3
  <1>9. Plan!In(r) = {}
    BY <1>8 DEF Plan!In, PlannedPlaces
  <1>10. \A k \in Handler : SeatsAsBefore(k)
    BY <1>1, <1>2 DEF OthersStay, SeatsAsBefore, Seats, Seated, Placing
  <1>11. PlannedPlaces' = PlannedPlaces
    BY <1>1, <1>10, SamePlaces
  <1>12. QED
    BY <1>1, <1>3, <1>6, <1>7, <1>9, <1>11 DEF Plan!DeleteRoom

\* Clearing the places of the room is the save.
LEMMA ClearPlacesPlanned ==
  ASSUME Ind, Ind', Calm, clean, clean', NEW h \in Handler, ClearPlaces(h)
  PROVE  /\ request[h].room \in Room /\ request[h].asked \in [PC -> Seat \cup {None}]
         /\ Plan!SeatPCs(request[h].room, request[h].asked)
  <1> DEFINE w == request[h]
             r == w.room
             Wanted(p) == IF p \in pcs /\ w.asked[p] # None
                          THEN [room |-> r, seat |-> w.asked[p]]
                          ELSE IF PlannedPlace(p).room = r THEN Nowhere
                          ELSE PlannedPlace(p)
  <1>1. /\ OthersStay(h) /\ w.at = "clear" /\ request'[h].at = "seats"
        /\ request'[h].room = r /\ request'[h].new = w.new /\ request'[h].asked = w.asked
        /\ UNCHANGED <<layout, pcs>>
        /\ place' = Cleared(r)
    BY WentOn DEF ClearPlaces
  <1>2. /\ ~Renaming(w) /\ ~Placing(w) /\ ~Renaming(request'[h]) /\ Placing(request'[h])
    BY <1>1 DEF Renaming, Placing
  <1>3. r \in Room /\ w.new = r /\ w.asked \in [PC -> Seat \cup {None}]
    BY <1>1, Reached DEF Shape, Work, Asked
  <1>4. \A p, q \in PC : w.asked[p] = w.asked[q] /\ w.asked[p] # None => p = q
    BY <1>1 DEF Calm, Doomed, Seated
  <1>5. \A k \in Handler \ {h} :
          Renaming(request[k]) \/ Placing(request[k]) =>
            request[k].room # r /\ request[k].new # r
    BY <1>1, Apart DEF ApartInv, Renaming, Placing
  <1>6. \A q : q \in PlannedRooms' <=> q \in PlannedRooms \cup {r}
    BY <1>1, <1>2, <1>3, RoomView, RoomViewAfter DEF OthersStay
  <1>7. ASSUME NEW p \in PC PROVE PlannedPlace(p)' = Wanted(p)
    <2>1. CASE p \notin pcs
      <3>1. PlannedPlace(p) = Nowhere /\ PlannedPlace(p)' = Nowhere
        BY <1>1, <2>1, ViewBefore, ViewAfter
      <3>2. QED
        BY <2>1, <3>1
    <2>2. CASE p \in pcs /\ w.asked[p] # None
      <3>1. Seats(h, p)' /\ p \in pcs'
        BY <1>1, <1>2, <2>2 DEF Seats, Placing, Seated
      <3>2. PlannedPlace(p)' = [room |-> r, seat |-> w.asked[p]]
        BY <1>1, <3>1, ViewAfter
      <3>3. QED
        BY <2>2, <3>2
    <2>3. ASSUME p \in pcs, w.asked[p] = None, NEW k \in Handler, Seats(k, p)
          PROVE  PlannedPlace(p)' = Wanted(p)
      <3>1. k # h /\ request'[k] = request[k] /\ request[k].room # r
        BY <1>1, <1>2, <1>5, <2>3 DEF Seats, OthersStay
      <3>2. Seats(k, p)' /\ p \in pcs'
        BY <1>1, <2>3, <3>1 DEF Seats, Placing, Seated
      <3>3. PlannedPlace(p) = [room |-> request[k].room, seat |-> request[k].asked[p]]
        BY <2>3, ViewBefore
      <3>4. PlannedPlace(p)' = [room |-> request[k].room, seat |-> request[k].asked[p]]
        BY <3>1, <3>2, ViewAfter
      <3>5. QED
        BY <2>3, <3>1, <3>3, <3>4
    <2>4. ASSUME p \in pcs, w.asked[p] = None, \A k \in Handler : ~Seats(k, p)
          PROVE  PlannedPlace(p)' = Wanted(p)
      <3>1. \A k \in Handler : ~Seats(k, p)'
        BY <1>1, <2>4 DEF OthersStay, Seats, Placing, Seated
      <3>2. PlannedPlace(p) = place[p] /\ PlannedPlace(p)' = place'[p]
        BY <1>1, <2>4, <3>1, ViewBefore, ViewAfter
      <3>3. place'[p] = IF place[p].room = r THEN Nowhere ELSE place[p]
        BY <1>1, <2>4 DEF Cleared, Inside
      <3>4. QED
        BY <2>4, <3>2, <3>3
    <2>5. QED
      BY <2>1, <2>2, <2>3, <2>4
  <1>8. PlannedPlaces' = [p \in PC |->
          IF p \in pcs /\ w.asked[p] # None THEN [room |-> r, seat |-> w.asked[p]]
          ELSE IF p \in Plan!In(r) THEN Plan!Nowhere
          ELSE PlannedPlaces[p]]
    BY <1>7 DEF PlannedPlaces, Plan!In, Plan!Nowhere, Nowhere
  <1>9. QED
    BY <1>1, <1>3, <1>4, <1>6, <1>8 DEF Plan!SeatPCs

\* When a save ends, the tables have what was planned.
LEMMA ReplaceRoomUnseen ==
  ASSUME Ind, Ind', clean, clean', NEW h \in Handler, ReplaceRoom(h)
  PROVE  StaysPlanned
  <1> DEFINE w == request[h]
             r == w.room
  <1>1. /\ OthersStay(h) /\ w.at = "seats" /\ request'[h] = Idle
        /\ UNCHANGED <<pcs, place>>
    BY Ended DEF ReplaceRoom
  <1>2. /\ ~Renaming(w) /\ Placing(w) /\ ~Renaming(request'[h]) /\ ~Placing(request'[h])
    BY <1>1, IdleShape DEF Renaming, Placing
  <1>3. r \in Room /\ w.new = r /\ w.alone
    BY <1>1, Reached DEF Shape
  <1>4. /\ layout'[r] # NoId
        /\ \A q \in Room \ {r} : layout'[q] = layout[q]
    BY <1>3 DEF ReplaceRoom, Ind, TypeOK, Id, NoId
  <1>5. \A k \in Handler \ {h} : Renaming(request[k]) => request[k].room # r
    BY <1>1, Apart DEF ApartInv, Renaming
  <1>6. \A q : q \in PlannedRooms' <=> q \in PlannedRooms
    <2> SUFFICES ASSUME NEW q PROVE q \in PlannedRooms' <=> q \in PlannedRooms
      OBVIOUS
    <2>1. CASE q = r
      <3>1. q \in PlannedRooms
        BY <1>2, <1>3, <2>1, RoomView
      <3>2. q \in PlannedRooms'
        BY <1>1, <1>2, <1>3, <1>4, <1>5, <2>1, RoomViewAfter DEF OthersStay
      <3>3. QED
        BY <3>1, <3>2
    <2>2. CASE q # r
      BY <1>1, <1>2, <1>3, <1>4, <2>2, RoomView, RoomViewAfter DEF OthersStay
    <2>3. QED
      BY <2>1, <2>2
  <1>7. SavedAsAsked(w)
    BY <1>3, SaveIsComplete
  <1>8. ASSUME NEW p \in PC PROVE PlannedPlace(p)' = PlannedPlace(p)
    <2>1. CASE p \notin pcs
      BY <1>1, <2>1, ViewBefore, ViewAfter
    <2>2. CASE p \in pcs /\ Seats(h, p)
      <3>1. PlannedPlace(p) = [room |-> r, seat |-> w.asked[p]]
        BY <2>2, ViewBefore
      <3>2. \A k \in Handler : ~Seats(k, p)'
        BY <1>1, <1>2, <2>2, Apart DEF ApartInv, OthersStay, Seats, Placing, Seated
      <3>3. PlannedPlace(p)' = place[p]
        BY <1>1, <2>2, <3>2, ViewAfter
      <3>4. place[p] = [room |-> r, seat |-> w.asked[p]]
        BY <1>7, <2>2 DEF SavedAsAsked, Seats, Seated
      <3>5. QED
        BY <3>1, <3>3, <3>4
    <2>3. ASSUME p \in pcs, NEW k \in Handler \ {h}, Seats(k, p)
          PROVE  PlannedPlace(p)' = PlannedPlace(p)
      <3>1. request'[k] = request[k]
        BY <1>1 DEF OthersStay
      <3>2. Seats(k, p)' /\ p \in pcs'
        BY <1>1, <2>3, <3>1 DEF Seats, Placing, Seated
      <3>3. PlannedPlace(p) = [room |-> request[k].room, seat |-> request[k].asked[p]]
        BY <2>3, ViewBefore
      <3>4. PlannedPlace(p)' = [room |-> request[k].room, seat |-> request[k].asked[p]]
        BY <3>1, <3>2, ViewAfter
      <3>5. QED
        BY <3>3, <3>4
    <2>4. ASSUME p \in pcs, \A k \in Handler : ~Seats(k, p)
          PROVE  PlannedPlace(p)' = PlannedPlace(p)
      <3>1. \A k \in Handler : ~Seats(k, p)'
        BY <1>1, <1>2, <2>4 DEF OthersStay, Seats, Placing, Seated
      <3>2. QED
        BY <1>1, <2>4, <3>1, ViewBefore, ViewAfter
    <2>5. QED
      BY <2>1, <2>2, <2>3, <2>4
  <1>9. PlannedPlaces' = PlannedPlaces
    BY <1>8 DEF PlannedPlaces
  <1>10. QED
    BY <1>1, <1>6, <1>9 DEF StaysPlanned

\* A deleted PC is nowhere, whatever a save under way wanted.
LEMMA DeletePCPlanned ==
  ASSUME Ind, Ind', clean, clean', NEW c \in PC, DeletePC(c)
  PROVE  Plan!DeletePC(c)
  <1>1. /\ c \in pcs /\ pcs' = pcs \ {c} /\ place' = [place EXCEPT ![c] = Nowhere]
        /\ UNCHANGED <<layout, request>>
    BY DEF DeletePC
  <1>2. PlannedRooms' = PlannedRooms
    BY <1>1, SameRooms DEF Shows
  <1>3. \A k \in Handler, p \in PC : Seats(k, p)' <=> Seats(k, p)
    BY <1>1 DEF Seats, Placing, Seated
  <1>4. ASSUME NEW p \in PC
        PROVE  PlannedPlace(p)' = IF p = c THEN Nowhere ELSE PlannedPlace(p)
    <2>1. CASE p \notin pcs'
      <3>1. PlannedPlace(p)' = Nowhere
        BY <2>1, ViewAfter
      <3>2. p # c => PlannedPlace(p) = Nowhere
        BY <1>1, <2>1, ViewBefore
      <3>3. QED
        BY <3>1, <3>2
    <2>2. ASSUME p \in pcs', NEW k \in Handler, Seats(k, p)
          PROVE  PlannedPlace(p)' = PlannedPlace(p) /\ p # c
      <3>1. p \in pcs /\ p # c
        BY <1>1, <2>2
      <3>2. PlannedPlace(p) = [room |-> request[k].room, seat |-> request[k].asked[p]]
        BY <2>2, <3>1, ViewBefore
      <3>3. PlannedPlace(p)' = [room |-> request[k].room, seat |-> request[k].asked[p]]
        BY <1>1, <1>3, <2>2, ViewAfter
      <3>4. QED
        BY <3>1, <3>2, <3>3
    <2>3. ASSUME p \in pcs', \A k \in Handler : ~Seats(k, p)
          PROVE  PlannedPlace(p)' = PlannedPlace(p) /\ p # c
      <3>1. p \in pcs /\ p # c /\ place'[p] = place[p]
        BY <1>1, <2>3 DEF Ind, TypeOK
      <3>2. QED
        BY <1>3, <2>3, <3>1, ViewBefore, ViewAfter
    <2>4. QED
      BY <2>1, <2>2, <2>3
  <1>5. PlannedPlaces' = [PlannedPlaces EXCEPT ![c] = Plan!Nowhere]
    BY <1>4 DEF PlannedPlaces, Plan!Nowhere, Nowhere
  <1>6. QED
    BY <1>1, <1>2, <1>5 DEF Plan!DeletePC

\* While the plan is calm, a step is a request's one moment or not seen at all.
LEMMA CalmStep ==
  ASSUME Ind, Ind', NewNamesFree, Next, Calm'
  PROVE  StaysPlanned \/ Plan!Request
  <1>1. Calm /\ clean /\ clean'
    BY CalmBefore
  <1>2. ASSUME NEW h \in Handler, Start(h) PROVE StaysPlanned
    BY <1>1, <1>2, StartUnseen
  <1>3. ASSUME NEW h \in Handler, Continue(h) PROVE StaysPlanned \/ Plan!Request
    <2>1. request[h].at # "idle"
      BY <1>1, <1>3, ContinueCalmly
    <2>2. request[h].room \in Room
      BY <1>1, <2>1, Reached
    <2>3. CASE InsertRoom(h)
      <3>1. StaysPlanned \/ Plan!CreateRoom(request[h].room)
        BY <1>1, <2>3, InsertRoomPlanned
      <3>2. QED
        BY <2>2, <3>1 DEF Plan!Request
    <2>4. CASE CheckName(h)
      <3>1. UNCHANGED tables /\ (Goto(h, "check", "movePCs") \/ Finish(h, "check"))
        BY <2>4, Zenon DEF CheckName
      <3>2. CASE Goto(h, "check", "movePCs")
        BY <1>1, <3>1, <3>2, GotoUnseen DEF tables
      <3>3. CASE Finish(h, "check")
        <4>1. ~Renaming(request[h]) /\ ~Placing(request[h])
          BY <3>3 DEF Finish, Renaming, Placing
        <4>2. QED
          BY <1>1, <3>1, <3>3, <4>1, EndUnseen
      <3>4. QED
        BY <3>1, <3>2, <3>3
    <2>5. CASE MovePCs(h)
      <3>1. /\ request[h].new \in Room \ {request[h].room}
            /\ Plan!RenameRoom(request[h].room, request[h].new)
        BY <1>1, <2>5, MovePCsPlanned
      <3>2. QED
        BY <2>2, <3>1 DEF Plan!Request
    <2>6. CASE MoveSeats(h)
      BY <1>1, <2>6, GotoUnseen DEF MoveSeats
    <2>7. CASE SetName(h)
      BY <1>1, <2>7, SetNameUnseen
    <2>8. CASE CountPCs(h)
      <3>1. UNCHANGED tables /\ (Goto(h, "count", "delete") \/ Finish(h, "count"))
        BY <2>8, Zenon DEF CountPCs
      <3>2. CASE Goto(h, "count", "delete")
        BY <1>1, <3>1, <3>2, GotoUnseen DEF tables
      <3>3. CASE Finish(h, "count")
        <4>1. ~Renaming(request[h]) /\ ~Placing(request[h])
          BY <3>3 DEF Finish, Renaming, Placing
        <4>2. QED
          BY <1>1, <3>1, <3>3, <4>1, EndUnseen
      <3>4. QED
        BY <3>1, <3>2, <3>3
    <2>9. CASE RemoveRoom(h)
      <3>1. Plan!DeleteRoom(request[h].room)
        BY <1>1, <2>9, RemoveRoomPlanned
      <3>2. QED
        BY <2>2, <3>1 DEF Plan!Request
    <2>10. CASE ClearPlaces(h)
      <3>1. /\ request[h].asked \in [PC -> Seat \cup {None}]
            /\ Plan!SeatPCs(request[h].room, request[h].asked)
        BY <1>1, <2>10, ClearPlacesPlanned
      <3>2. QED
        BY <2>2, <3>1 DEF Plan!Request
    <2>11. CASE PlacePC(h) \/ \E p \in PC : InsertSeat(h, p)
      BY <1>1, <2>11, SeatingUnseen
    <2>12. CASE ReplaceRoom(h)
      BY <1>1, <2>12, ReplaceRoomUnseen
    <2>13. QED
      BY <1>1, <1>3, <2>3, <2>4, <2>5, <2>6, <2>7, <2>8, <2>9, <2>10, <2>11, <2>12, Broken
      DEF Continue
  <1>4. ASSUME NEW p \in PC, DeletePC(p) PROVE Plan!Request
    <2>1. Plan!DeletePC(p)
      BY <1>1, <1>4, DeletePCPlanned
    <2>2. QED
      BY <2>1 DEF Plan!Request
  <1>5. QED
    BY <1>2, <1>3, <1>4 DEF Next

-----------------------------------------------------------------------------
(* The refinement *)

\* Nothing is planned at first.
LEMMA InitPlanned == Init => NewNamesFree /\ Plan!SPInit
  <1> SUFFICES ASSUME Init PROVE NewNamesFree /\ Plan!SPInit
    OBVIOUS
  <1>1. /\ layout = [r \in Room |-> NoId] /\ pcs = PC
        /\ place = [p \in PC |-> Nowhere] /\ request = [h \in Handler |-> Idle]
        /\ clean = TRUE
    BY DEF Init
  <1>2. \A h \in Handler : request[h].at = "idle"
    BY <1>1, IdleShape
  <1>3. NewNamesFree
    BY <1>2 DEF NewNamesFree
  <1>4. PlannedRooms = {}
    <2>1. \A q : q \notin PlannedRooms
      BY <1>1, <1>2, RoomView DEF Renaming, Placing
    <2>2. QED
      BY <2>1
  <1>5. \A p \in PC : PlannedPlace(p) = Nowhere
    BY <1>1, <1>2 DEF PlannedPlace, Seats, Placing
  <1>6. PlannedPlaces = [p \in PC |-> Plan!Nowhere]
    BY <1>5 DEF PlannedPlaces, Plan!Nowhere, Nowhere
  <1>7. Calm = TRUE
    BY <1>1, <1>2 DEF Calm, Doomed
  <1>8. QED
    BY <1>1, <1>3, <1>4, <1>6, <1>7 DEF Plan!SPInit

\* Every step of the tables is a step of the plan, or none.
LEMMA PlanStep ==
  ASSUME Ind, Ind', NewNamesFree, [Next]_vars
  PROVE  [Plan!SPNext]_(Plan!plan)
  <1>1. Calm \in BOOLEAN /\ Calm' \in BOOLEAN
    BY DEF Calm
  <1>2. CASE ~Calm'
    <2>1. Calm' = FALSE
      BY <1>1, <1>2
    <2>2. QED
      BY <2>1 DEF Plan!SPNext, Plan!Disturbed
  <1>3. CASE Calm' /\ Next
    <2>1. Calm
      BY <1>3, CalmBefore
    <2>2. Calm' = Calm
      BY <1>1, <1>3, <2>1
    <2>3. StaysPlanned \/ Plan!Request
      BY <1>3, CalmStep
    <2>4. CASE StaysPlanned
      BY <2>2, <2>4 DEF StaysPlanned, Plan!plan
    <2>5. CASE Plan!Request
      BY <2>1, <2>2, <2>5 DEF Plan!SPNext
    <2>6. QED
      BY <2>3, <2>4, <2>5
  <1>4. CASE Calm' /\ UNCHANGED vars
    <2>1. UNCHANGED <<layout, pcs, place, request, clean>>
      BY <1>4 DEF vars
    <2>2. clean /\ clean'
      BY <1>4, <2>1 DEF Calm
    <2>3. Calm' = Calm
      BY <2>1 DEF Calm
    <2>4. PlannedRooms' = PlannedRooms
      BY <2>1, SameRooms DEF Shows
    <2>5. PlannedPlaces' = PlannedPlaces
      BY <2>1, <2>2, SamePlaces DEF SeatsAsBefore, Seats, Placing, Seated
    <2>6. QED
      BY <2>1, <2>3, <2>4, <2>5 DEF Plan!plan
  <1>5. QED
    BY <1>2, <1>3, <1>4

\* The requests of administrators, interleaved statement by statement, look as if
\* each were carried out at one moment, as long as no two meet and none breaks off.
THEOREM LayoutImplementsSeatPlan == Spec => SeatPlanSpec
  <1>1. Init => NewNamesFree /\ Plan!SPInit
    BY InitPlanned
  <1>2. Ind /\ NewNamesFree /\ [Next]_vars => NewNamesFree'
    BY NamesStep
  <1>3. Ind /\ Ind' /\ NewNamesFree /\ [Next]_vars => [Plan!SPNext]_(Plan!plan)
    BY PlanStep
  <1>4. QED
    BY <1>1, <1>2, <1>3, Invariant, PTL DEF Spec, SeatPlanSpec, Plan!SPSpec

-----------------------------------------------------------------------------
(* Conflicts *)

Renames(w) == w.at \in {"movePCs", "moveSeats", "name"} /\ w.new # w.room

\* Nobody else takes the new name of a rename after its check, unless they have met.
FreeInv ==
  \A h \in Handler :
    request[h].alone /\ Renames(request[h]) => layout[request[h].new] = NoId

\* A request gives ids to rows of its own names only.
LEMMA NoRowForOthers ==
  ASSUME Ind, NEW k \in Handler, Continue(k), NEW q \in Room,
         q # request[k].room, q # request[k].new, layout[q] = NoId
  PROVE  layout'[q] = NoId
  <1>0. layout \in [Room -> Id \cup {NoId}]
    BY DEF Ind, TypeOK
  <1>1. CASE InsertRoom(k)
    BY <1>0, <1>1 DEF InsertRoom
  <1>2. CASE SetName(k)
    BY <1>2 DEF SetName, Named
  <1>3. CASE RemoveRoom(k)
    BY <1>3 DEF RemoveRoom
  <1>4. CASE ReplaceRoom(k)
    BY <1>0, <1>4 DEF ReplaceRoom
  <1>5. CASE UNCHANGED layout
    BY <1>5
  <1>6. QED
    BY <1>1, <1>2, <1>3, <1>4, <1>5
    DEF Continue, CheckName, MovePCs, MoveSeats, SeatsCollide, NameCollides, CountPCs,
        ClearPlaces, InsertSeat, SeatTaken, PlacePC, StatementFails, tables

\* A new request renames nothing yet, and keeps who has met whom.
LEMMA StartsNoRename ==
  ASSUME Ind, NEW h \in Handler, Start(h), NEW k \in Handler,
         request'[k].alone, Renames(request'[k])
  PROVE  request'[k] = request[k] /\ UNCHANGED layout
  <1>0. TypeOK /\ ShapeInv /\ AloneInv /\ CleanInv /\ \A r \in Room : layout[r] \in Id \cup {NoId}
    BY DEF Ind, TypeOK
  <1>1. ASSUME NEW r \in Room, MakeRoom(h, r)
        PROVE  \E w \in Work : /\ Begin(h, w) /\ w.at # "idle" /\ Shape(w) /\ ~Renames(w)
                               /\ UNCHANGED layout
    <2> DEFINE w == [Idle EXCEPT !.at = "insert", !.room = r, !.new = r]
    <2>1. w \in Work /\ w.at = "insert" /\ Shape(w)
      BY SomeConstants DEF Idle, Work, Shape, Seated
    <2>2. Begin(h, w) /\ UNCHANGED tables
      BY <1>1 DEF MakeRoom
    <2> HIDE DEF w
    <2>3. QED
      BY <2>1, <2>2 DEF tables, Renames
  <1>2. ASSUME NEW r \in Room, NEW new \in Room, UpdateRoom(h, r, new)
        PROVE  \E w \in Work : /\ Begin(h, w) /\ w.at # "idle" /\ Shape(w) /\ ~Renames(w)
                               /\ UNCHANGED layout
    <2> DEFINE from == IF new = r THEN "name" ELSE "check"
               w == [Idle EXCEPT !.at = from, !.room = r, !.new = new, !.id = layout[r]]
    <2>1. Begin(h, w) /\ UNCHANGED tables /\ layout[r] # NoId
      BY <1>2 DEF UpdateRoom
    <2>2. w \in Work /\ w.at = from /\ w.room = r /\ w.new = new
      BY <1>0, SomeConstants DEF Idle, Work
    <2>3. Shape(w)
      BY <2>1 DEF Idle, Shape, Seated
    <2> HIDE DEF w
    <2>4. QED
      BY <2>1, <2>2, <2>3 DEF tables, Renames
  <1>3. ASSUME NEW r \in Room, DeleteRoom(h, r)
        PROVE  \E w \in Work : /\ Begin(h, w) /\ w.at # "idle" /\ Shape(w) /\ ~Renames(w)
                               /\ UNCHANGED layout
    <2> DEFINE w == [Idle EXCEPT !.at = "count", !.room = r, !.new = r, !.id = layout[r]]
    <2>1. Begin(h, w) /\ UNCHANGED tables /\ layout[r] # NoId
      BY <1>3 DEF DeleteRoom
    <2>2. w \in Work /\ w.at = "count" /\ Shape(w)
      BY <1>0, <2>1, SomeConstants DEF Idle, Work, Shape, Seated
    <2> HIDE DEF w
    <2>3. QED
      BY <2>1, <2>2 DEF tables, Renames
  <1>4. ASSUME NEW r \in Room, NEW asked \in Asked, SaveMap(h, r, asked)
        PROVE  \E w \in Work : /\ Begin(h, w) /\ w.at # "idle" /\ Shape(w) /\ ~Renames(w)
                               /\ UNCHANGED layout
    <2> DEFINE w == [Idle EXCEPT !.at = "clear", !.room = r, !.new = r, !.asked = asked,
                                 !.todo = {p \in PC : asked[p] # None}]
    <2>1. w \in Work /\ w.at = "clear" /\ Shape(w)
      BY SomeConstants DEF Idle, Work, Shape, Seated
    <2>2. Begin(h, w) /\ UNCHANGED layout
      BY <1>4 DEF SaveMap
    <2> HIDE DEF w
    <2>3. QED
      BY <2>1, <2>2 DEF Renames
  <1>5. PICK w \in Work : /\ Begin(h, w) /\ w.at # "idle" /\ Shape(w) /\ ~Renames(w)
                          /\ UNCHANGED layout
    BY <1>1, <1>2, <1>3, <1>4 DEF Start
  <1>6. /\ \E b \in BOOLEAN : request'[h] = [w EXCEPT !.alone = b]
        /\ \A j \in Handler \ {h} :
             /\ request'[j] \in {request[j], [request[j] EXCEPT !.alone = FALSE]}
             /\ request'[j].at # "idle" /\ request'[j].alone => request'[j] = request[j]
    BY <1>0, <1>5, BeginEffect
  <1>7. k # h
    BY <1>5, <1>6 DEF Renames, Work
  <1>8. request'[k] = request[k]
    BY <1>6, <1>7 DEF Renames
  <1>9. QED
    BY <1>5, <1>8

\* What a request's next action does to the requests.
LEMMA ContinueOne ==
  ASSUME Ind, NEW h \in Handler, Continue(h)
  PROVE  /\ OthersStay(h) /\ request[h].at # "idle"
         /\ Renames(request'[h]) =>
              \/ CheckName(h) /\ Goto(h, "check", "movePCs")
              \/ /\ Renames(request[h]) /\ UNCHANGED layout
                 /\ request'[h].alone = request[h].alone
                 /\ request'[h].new = request[h].new
  <1>0. request[h] \in Work
    BY DEF Ind, TypeOK
  <1> DEFINE Goal ==
        /\ OthersStay(h) /\ request[h].at # "idle"
        /\ Renames(request'[h]) =>
             \/ CheckName(h) /\ Goto(h, "check", "movePCs")
             \/ /\ Renames(request[h]) /\ UNCHANGED layout
                /\ request'[h].alone = request[h].alone
                /\ request'[h].new = request[h].new
  <1>1. ASSUME NEW from, from # "idle", Finish(h, from) \/ BreakOff(h, from) PROVE Goal
    <2>1. request' = [request EXCEPT ![h] = Idle] /\ request[h].at = from
      BY <1>1, Zenon DEF Finish, BreakOff
    <2>2. OthersStay(h) /\ request'[h] = Idle
      BY <2>1 DEF OthersStay, Ind, TypeOK
    <2>3. QED
      BY <1>1, <2>1, <2>2, IdleShape DEF Renames
  <1>2. ASSUME NEW from, NEW to, from # "idle", Goto(h, from, to)
        PROVE  /\ OthersStay(h) /\ request[h].at # "idle"
               /\ request'[h] = [request[h] EXCEPT !.at = to]
    BY <1>2, WentOn DEF Goto, Ind, TypeOK
  <1>3. ASSUME NEW from, from # "idle", Goto(h, from, "delete") \/ Goto(h, from, "seats")
        PROVE  Goal
    <2>1. \E to \in {"delete", "seats"} :
            /\ OthersStay(h) /\ request[h].at # "idle"
            /\ request'[h] = [request[h] EXCEPT !.at = to]
      BY <1>2, <1>3
    <2>2. request'[h].at \in {"delete", "seats"}
      BY <1>0, <2>1 DEF Work
    <2>3. QED
      BY <2>1, <2>2 DEF Renames
  <1>4. CASE CheckName(h)
    <2>1. Goto(h, "check", "movePCs") \/ Finish(h, "check")
      BY <1>4, Zenon DEF CheckName
    <2>2. CASE Goto(h, "check", "movePCs")
      BY <1>2, <1>4, <2>2
    <2>3. CASE Finish(h, "check")
      BY <1>1, <2>3
    <2>4. QED
      BY <2>1, <2>2, <2>3
  <1>5. CASE MovePCs(h) \/ MoveSeats(h)
    <2>1. /\ UNCHANGED layout /\ request[h].at \in {"movePCs", "moveSeats"}
          /\ \E to \in {"moveSeats", "name"} :
               OthersStay(h) /\ request'[h] = [request[h] EXCEPT !.at = to]
      BY <1>2, <1>5 DEF MovePCs, MoveSeats, Goto
    <2>2. request[h].new # request[h].room
      BY <2>1 DEF Ind, ShapeInv, Shape
    <2>3. QED
      BY <1>0, <2>1, <2>2 DEF Renames, Work
  <1>6. CASE ClearPlaces(h)
    BY <1>3, <1>6 DEF ClearPlaces
  <1>7. CASE CountPCs(h)
    <2>1. Goto(h, "count", "delete") \/ Finish(h, "count")
      BY <1>7, Zenon DEF CountPCs
    <2>2. QED
      BY <1>1, <1>3, <2>1
  <1>8. CASE InsertRoom(h) \/ SetName(h) \/ RemoveRoom(h) \/ ReplaceRoom(h)
    BY <1>1, <1>8 DEF InsertRoom, SetName, RemoveRoom, ReplaceRoom
  <1>9. CASE \/ SeatsCollide(h) \/ NameCollides(h) \/ StatementFails(h)
            \/ \E p \in PC : SeatTaken(h, p)
    BY <1>1, <1>9 DEF SeatsCollide, NameCollides, StatementFails, SeatTaken
  <1>10. CASE PlacePC(h) \/ \E p \in PC : InsertSeat(h, p)
    <2>1. /\ OthersStay(h) /\ Placing(request'[h]) /\ request[h].at # "idle"
      BY <1>10, Seating
    <2>2. QED
      BY <2>1 DEF Placing, Renames
  <1>11. QED
    BY <1>4, <1>5, <1>6, <1>7, <1>8, <1>9, <1>10 DEF Continue

\* Every step keeps the new names of lone renames free.
LEMMA FreeStep == Ind /\ FreeInv /\ [Next]_vars => FreeInv'
  <1> SUFFICES ASSUME Ind, FreeInv, [Next]_vars, NEW k \in Handler,
                      request'[k].alone, Renames(request'[k])
               PROVE  layout'[request'[k].new] = NoId
    BY DEF FreeInv, Renames
  <1>1. ASSUME NEW h \in Handler, Start(h) PROVE layout'[request'[k].new] = NoId
    BY <1>1, StartsNoRename DEF FreeInv
  <1>2. ASSUME NEW h \in Handler, Continue(h) PROVE layout'[request'[k].new] = NoId
    <2>1. OthersStay(h) /\ request[h].at # "idle"
      BY <1>2, ContinueOne
    <2>2. CASE k = h /\ CheckName(h) /\ Goto(h, "check", "movePCs")
      <3>1. /\ UNCHANGED layout /\ request'[h].new = request[h].new
            /\ request[h].at = "check" /\ request'[h].at = "movePCs"
        BY <2>2, WentOn DEF CheckName, tables
      <3>2. layout[request[h].new] \in {NoId, request[h].id}
        BY <2>2, <3>1, Ended, IdleShape DEF CheckName
      <3>3. request'[h].alone = request[h].alone
        BY <2>2 DEF Goto, Ind, TypeOK, Work
      <3>4. /\ request[h].new # request[h].room /\ request[h].id # NoId
            /\ layout[request[h].room] = request[h].id
            /\ request[h].room \in Room /\ request[h].new \in Room
        BY <2>2, <3>1, <3>3 DEF Ind, TypeOK, Work, ShapeInv, Shape, ProgressInv, Progress
      <3>5. layout[request[h].new] # request[h].id
        BY <3>4 DEF Ind, UniqueIds
      <3>6. QED
        BY <2>2, <3>1, <3>2, <3>5
    <2>3. CASE k = h /\ ~(CheckName(h) /\ Goto(h, "check", "movePCs"))
      BY <1>2, <2>3, ContinueOne DEF FreeInv
    <2>4. CASE k # h
      <3>1. request'[k] = request[k]
        BY <2>1, <2>4 DEF OthersStay
      <3>2. layout[request[k].new] = NoId /\ request[k].at # "idle" /\ request[k].alone
        BY <3>1 DEF FreeInv, Renames
      <3>3. ~Meets(request[k], request[h])
        BY <2>1, <2>4, <3>2 DEF Ind, AloneInv
      <3>4. /\ request[k].new # request[h].room /\ request[k].new # request[h].new
            /\ request[k].new \in Room
        BY <3>3 DEF Meets, Ind, TypeOK, Work
      <3>5. QED
        BY <1>2, <3>1, <3>2, <3>4, NoRowForOthers
    <2>5. QED
      BY <2>2, <2>3, <2>4
  <1>3. ASSUME NEW p \in PC, DeletePC(p) PROVE layout'[request'[k].new] = NoId
    BY <1>3 DEF DeletePC, FreeInv
  <1>4. CASE UNCHANGED vars
    BY <1>4 DEF vars, FreeInv
  <1>5. QED
    BY <1>1, <1>2, <1>3, <1>4 DEF Next

\* A constraint stops a request that met no other one only for seats left from an
\* earlier room of the new name, or for a seat that is asked for twice.
THEOREM ConflictsAreOwn == Spec => ConflictsExplained
  <1> DEFINE Explained(h) ==
        request[h].alone =>
          LET w == request[h] IN
          /\ ~NameCollides(h)
          /\ SeatsCollide(h) => layout[w.new] = NoId
          /\ \A p \in PC : SeatTaken(h, p) => \E q \in PC \ {p} : w.asked[q] = w.asked[p]
  <1>1. ASSUME Ind, FreeInv, NEW h \in Handler PROVE Explained(h)
    <2> SUFFICES ASSUME request[h].alone
                 PROVE  /\ ~NameCollides(h)
                        /\ SeatsCollide(h) => layout[request[h].new] = NoId
                        /\ \A p \in PC : SeatTaken(h, p) =>
                             \E q \in PC \ {p} : request[h].asked[q] = request[h].asked[p]
      OBVIOUS
    <2>0. request[h] \in Work /\ Shape(request[h]) /\ Progress(request[h])
      BY <1>1 DEF Ind, TypeOK, ShapeInv, ProgressInv
    <2>1. ASSUME NameCollides(h) PROVE FALSE
      <3>1. request[h].at = "name" /\ layout[request[h].new] \notin {NoId, request[h].id}
        BY <2>1 DEF NameCollides, NameTaken, BreakOff
      <3>2. CASE request[h].new = request[h].room
        BY <2>0, <3>1, <3>2 DEF Shape, Progress
      <3>3. CASE request[h].new # request[h].room
        BY <1>1, <3>1, <3>3 DEF FreeInv, Renames
      <3>4. QED
        BY <3>2, <3>3
    <2>2. ASSUME SeatsCollide(h) PROVE layout[request[h].new] = NoId
      <3>1. request[h].at = "moveSeats"
        BY <2>2 DEF SeatsCollide, BreakOff
      <3>2. QED
        BY <1>1, <2>0, <3>1 DEF FreeInv, Renames, Shape
    <2>3. ASSUME NEW p \in PC, SeatTaken(h, p)
          PROVE  \E q \in PC \ {p} : request[h].asked[q] = request[h].asked[p]
      <3> DEFINE w == request[h]
                 q == map[w.room][w.asked[p]]
      <3>1. w.at = "seats" /\ p \in w.todo /\ q # None
        BY <2>3 DEF SeatTaken, BreakOff
      <3>2. p \in Seated(w) /\ w.asked[p] \in Seat /\ w.room \in Room
        BY <2>0, <3>1 DEF Shape, Seated, Work, Asked
      <3>3. q \in PC
        BY <1>1, <3>1, <3>2 DEF Ind, TypeOK
      <3>4. q \in Done(w) /\ w.asked[q] = w.asked[p]
        BY <2>0, <3>1, <3>2, <3>3 DEF Progress, MapDone
      <3>5. q # p
        BY <3>1, <3>4 DEF Done
      <3>6. QED
        BY <3>3, <3>4, <3>5
    <2>4. QED
      BY <2>1, <2>2, <2>3
  <1>2. Ind /\ FreeInv /\ [Next]_vars => [\A h \in Handler : Explained(h)]_vars
    BY <1>1
  <1>3. Init => FreeInv
    BY IdleShape DEF Init, FreeInv, Renames
  <1>4. QED
    BY <1>2, <1>3, FreeStep, Invariant, PTL DEF Spec, ConflictsExplained
=============================================================================
