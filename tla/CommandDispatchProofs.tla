------------------------ MODULE CommandDispatchProofs ------------------------
(***************************************************************************)
(* The safety of CommandDispatch for every set of PCs, handlers and        *)
(* administrators and every bound.                                         *)
(***************************************************************************)
EXTENDS CommandDispatch, TLAPS

(***************************************************************************)
(* The inductive invariant                                                 *)
(***************************************************************************)

\* What a handler holds: only a handler that picked a command has one, it is a
\* command of the handler's PC.
PollInv ==
  \A h \in Handler :
    /\ poll[h].at \in {"idle", "arrived", "looking"} => poll[h].cmd = NoCommand
    /\ poll[h].at = "picked" => poll[h].cmd \in Command
    /\ poll[h].cmd # NoCommand =>
         /\ Existed(poll[h].cmd)
         /\ commands[poll[h].cmd].pc = poll[h].pc

\* The poll thread of a client waits for one answer at a time.
OneLivePoll ==
  \A h, k \in Handler :
    poll[h].live /\ poll[k].live /\ poll[h].pc = poll[k].pc => h = k

\* Ids above lastId are unused.
UnusedInv ==
  \A c \in Command : ~Existed(c) =>
    /\ commands[c].status = "absent"
    /\ outcome[c] = {}
    /\ \A p \in PC : deliveries[c][p] = 0

\* Receptions are paid for: by the answer that marked the command, which took it
\* out of the queue, or by one that went out unmarked.  A client that waits for the
\* answer with the command has its reception paid for in advance.
Paid(c) == \A p \in PC : deliveries[c][p] <= unmarked[c]

ReceiptInv ==
  \A c \in Command :
    /\ commands[c].status = "pending" => Paid(c)
    /\ outcome[c] # {} => Received(c)
    /\ \A h \in Handler : InHand(h, c) /\ poll[h].live =>
         /\ Paid(c)
         /\ poll[h].at = "answered" /\ commands[c].status = "pending"
              => \A p \in PC : deliveries[c][p] < unmarked[c]

\* Each reception of a command has at most one executor thread; as long as the
\* command was always marked, that thread knows whether it has been worked off.
ThreadInv ==
  \A t \in threads :
    /\ 1 <= t.nth /\ t.nth <= deliveries[t.cmd][t.pc]
    /\ t.at = "new" /\ unmarked[t.cmd] = 0 => outcome[t.cmd] = {}
    /\ t.at # "new" => t.outcome \in outcome[t.cmd]
    /\ t.at \in {"new", "report"} => t.tries < MaxTries
    /\ \A u \in threads : u.cmd = t.cmd /\ u.nth = t.nth => u = t

\* A posted result says how the command was worked off, and its row, once
\* found, is there to stay, unless it was given out without being marked.
ResultInv ==
  \A m \in results :
    /\ m.outcome \in outcome[m.cmd]
    /\ m.at = "found" /\ unmarked[m.cmd] = 0 => commands[m.cmd].status # "absent"

\* An earlier command that is as urgent and still pending was not overtaken in the
\* past either, by a command that went out and is pending again.
OrderInv ==
  \A c, d \in Command :
    /\ d < c /\ Existed(c)
    /\ commands[d].pc = commands[c].pc
    /\ commands[d].priority <= commands[c].priority
    /\ commands[d].status = "pending"
    => ~Received(c)

\* A clear request only looks back.
RequestInv ==
  \A a \in Admin : request[a].upto <= lastId

\* The parts of the invariant, by the variables they read.
PollPart == PollInv /\ OneLivePoll /\ NoOvertaking
RowPart == UnusedInv /\ RepeatsAreUnmarked /\ TruthfulStatus /\ OrderInv
RequestPart == RequestInv /\ ClearedStayCleared
ThreadPart == ThreadInv /\ ResultInv

Ind ==
  /\ TypeOK
  /\ PollPart
  /\ ReceiptInv
  /\ RowPart
  /\ RequestPart
  /\ ThreadPart

-----------------------------------------------------------------------------
(* Constants *)

\* The arbitrary PC and command type that stand in unused rows are legal ones.
LEMMA SomeConstants == SomePC \in PC /\ SomeType \in CommandType /\ DefaultPriority \in Nat
  BY DispatchAssumption DEF SomePC, SomeType

\* The initial state satisfies the inductive invariant.
LEMMA InitInd == Init => Ind
  <1> SUFFICES ASSUME Init PROVE Ind
    OBVIOUS
  <1> USE DispatchAssumption, SomeConstants
  <1>1. TypeOK
    BY DEF Init, TypeOK, NoRow, Row, Status, NoRequest, Request, IdlePoll, Poll,
           Command, NoCommand
  <1>2. PollPart
    BY DEF Init, PollPart, PollInv, OneLivePoll, NoOvertaking, IdlePoll, NoCommand, NoRow
  <1>3. RowPart /\ ReceiptInv
    BY DEF Init, RowPart, UnusedInv, ReceiptInv, RepeatsAreUnmarked, TruthfulStatus, OrderInv, Received,
           InHand, IdlePoll, NoRow
  <1>4. ThreadPart
    BY DEF Init, ThreadPart, ThreadInv, ResultInv
  <1>5. RequestPart
    BY DEF Init, RequestPart, RequestInv, ClearedStayCleared, NoRequest
  <1>6. QED
    BY <1>1, <1>2, <1>3, <1>4, <1>5 DEF Ind

\* A part of the invariant holds on when the variables it reads do not change.
LEMMA Frame ==
  ASSUME Ind
  PROVE  /\ UNCHANGED <<commands, lastId, poll>> => PollPart'
         /\ UNCHANGED <<commands, poll, deliveries, outcome, unmarked>> => ReceiptInv'
         /\ UNCHANGED <<commands, lastId, deliveries, outcome, unmarked>> => RowPart'
         /\ UNCHANGED <<commands, lastId, request>> => RequestPart'
         /\ UNCHANGED <<commands, threads, results, deliveries, outcome, unmarked>> => ThreadPart'
  <1> USE DEF Ind
  <1>1. UNCHANGED <<commands, lastId, poll>> => PollPart'
    BY DEF PollPart, PollInv, OneLivePoll, NoOvertaking, Existed, Held, InHand
  <1>2. UNCHANGED <<commands, poll, deliveries, outcome, unmarked>> => ReceiptInv'
    BY DEF ReceiptInv, Paid, Received, InHand
  <1>3. UNCHANGED <<commands, lastId, deliveries, outcome, unmarked>> => RowPart'
    BY DEF RowPart, UnusedInv, RepeatsAreUnmarked, TruthfulStatus, OrderInv, Existed, Received
  <1>4. UNCHANGED <<commands, lastId, request>> => RequestPart'
    BY DEF RequestPart, RequestInv, ClearedStayCleared
  <1>5. UNCHANGED <<commands, threads, results, deliveries, outcome, unmarked>> => ThreadPart'
    BY DEF ThreadPart, ThreadInv, ResultInv
  <1>6. QED
    BY <1>1, <1>2, <1>3, <1>4, <1>5

-----------------------------------------------------------------------------
(* Administrator's requests *)

\* A new request of an administrator.
LEMMA AcceptInd ==
  ASSUME Ind, NEW a \in Admin, NEW op \in {"insert", "clear"}, NEW ps \in SUBSET PC,
         NEW prio \in Priority, NEW t \in CommandType, Accept(a, op, ps, prio, t)
  PROVE  Ind'
  <1> USE DEF Accept, clientVars
  <1>1. TypeOK'
    BY DEF Ind, TypeOK, Request
  <1>2. RequestPart'
    BY DEF Ind, TypeOK, RequestPart, RequestInv, ClearedStayCleared, Request, Command
  <1>3. QED
    BY <1>1, <1>2, Frame DEF Ind

\* Serving one PC of a request changes only what is left to do.
LEMMA DoneRequest ==
  ASSUME TypeOK, NEW a \in Admin, NEW p \in PC, Done(a, p)
  PROVE  /\ request' \in [Admin -> Request]
         /\ \A b \in Admin :
              /\ request'[b].op = request[b].op
              /\ request'[b].scope = request[b].scope
              /\ request'[b].upto = request[b].upto
              /\ request'[b].todo = IF b = a THEN request[a].todo \ {p} ELSE request[b].todo
  BY DEF TypeOK, Done, Request

\* An INSERT: its id is new, so nothing refers to the row yet.
LEMMA InsertCommandInd ==
  ASSUME Ind, NEW a \in Admin, NEW p \in PC, InsertCommand(a, p)
  PROVE  Ind'
  <1> DEFINE new == NextId
  <1>1. /\ new = lastId + 1 /\ new \in Command /\ lastId' = new /\ lastId \in Nat
        /\ commands' = Inserted(new, p, request[a].priority, request[a].type)
        /\ Done(a, p)
        /\ UNCHANGED <<registered, poll, mode, fresh, halting, threads, results,
                       deliveries, outcome, unmarked, faults>>
    BY DispatchAssumption DEF Ind, TypeOK, InsertCommand, NextId, clientVars, Command
  <1> HIDE DEF new
  <1>2. commands' \in [Command -> Row]
    <2>1. request[a].priority \in Priority /\ request[a].type \in CommandType
      BY DEF Ind, TypeOK, Request
    <2>2. QED
      BY <1>1, <2>1 DEF Ind, TypeOK, Row, Status, Inserted
  <1>3. /\ \A c \in Command \ {new} : commands'[c] = commands[c]
        /\ commands'[new].pc = p /\ commands'[new].status = "pending"
    BY <1>1 DEF Ind, TypeOK, Inserted
  <1>4. /\ commands[new].status = "absent" /\ outcome[new] = {}
        /\ \A q \in PC : deliveries[new][q] = 0
        /\ \A h \in Handler : poll[h].cmd # new
        /\ \A t \in threads : t.cmd # new
        /\ \A m \in results : m.cmd # new
    <2>1. UnusedInv!(new) /\ ~Existed(new)
      BY <1>1 DEF Ind, RowPart, UnusedInv, Existed
    <2>2. \A h \in Handler : poll[h].cmd # new
      BY <1>1, <2>1 DEF Ind, PollPart, PollInv, Command, NoCommand
    <2>3. \A t \in threads : t.cmd # new
      BY <2>1 DEF Ind, TypeOK, ThreadPart, ThreadInv, Thread
    <2>4. \A m \in results : m.cmd # new
      BY <2>1 DEF Ind, TypeOK, ThreadPart, ResultInv, Result, Outcome
    <2>5. QED
      BY <2>1, <2>2, <2>3, <2>4
  <1>d. /\ request' \in [Admin -> Request]
        /\ \A b \in Admin :
             /\ request'[b].op = request[b].op
             /\ request'[b].scope = request[b].scope
             /\ request'[b].upto = request[b].upto
             /\ request'[b].todo = IF b = a THEN request[a].todo \ {p} ELSE request[b].todo
    BY <1>1, DoneRequest DEF Ind
  <1>5. TypeOK'
    BY <1>1, <1>2, <1>d DEF Ind, TypeOK, Command
  <1>6. RequestPart'
    <2>1. \A b \in Admin : request[b].upto <= lastId /\ request[b].upto \in Nat
      BY DEF Ind, TypeOK, RequestPart, RequestInv, Request
    <2>2. RequestInv'
      BY <1>1, <2>1, <1>d DEF Ind, RequestInv
    <2>3. ClearedStayCleared'
      <3> SUFFICES ASSUME NEW b \in Admin, request'[b].op = "clear",
                          NEW c \in Command, c <= request'[b].upto,
                          commands'[c].pc \in request'[b].scope \ request'[b].todo
                   PROVE  commands'[c].status # "pending"
        BY DEF ClearedStayCleared
      <3>1. b # a /\ c # new
        BY <1>1, <2>1, <1>d DEF Ind, InsertCommand, Command
      <3>2. QED
        BY <3>1, <1>1, <1>3, <1>d DEF Ind, RequestPart, ClearedStayCleared
    <2>4. QED
      BY <2>2, <2>3 DEF RequestPart
  <1>7. PollPart'
    <2>1. PollInv'
      BY <1>1, <1>3, <1>4 DEF Ind, TypeOK, PollPart, PollInv, Poll, Existed, NoCommand, Command
    <2>2. OneLivePoll'
      BY <1>1 DEF Ind, PollPart, OneLivePoll
    <2>3. NoOvertaking'
      <3> SUFFICES ASSUME NEW c \in Command, NEW d \in Command, d < c, Existed(c)',
                          commands'[d].pc = commands'[c].pc,
                          commands'[d].priority <= commands'[c].priority,
                          commands'[d].status = "pending"
                   PROVE  commands'[c].status = "pending" /\ ~Held(c)'
        BY DEF NoOvertaking
      <3>1. CASE c = new
        BY <3>1, <1>1, <1>3, <1>4 DEF Held, InHand
      <3>2. CASE c # new
        <4>1. Existed(c) /\ d # new
          BY <3>2, <1>1 DEF Existed, Command
        <4>2. QED
          BY <4>1, <3>2, <1>1, <1>3 DEF Ind, PollPart, NoOvertaking, Held, InHand
      <3>3. QED
        BY <3>1, <3>2
    <2>4. QED
      BY <2>1, <2>2, <2>3 DEF PollPart
  <1>8. ReceiptInv'
    <2> SUFFICES ASSUME NEW c \in Command PROVE ReceiptInv!(c)'
      BY DEF ReceiptInv
    <2>1. ReceiptInv!(c)
      BY DEF Ind, ReceiptInv
    <2>2. CASE c = new
      <3>1. unmarked[new] \in Nat
        BY <1>1 DEF Ind, TypeOK
      <3>2. QED
        BY <2>2, <3>1, <1>1, <1>4 DEF Paid, InHand
    <2>3. CASE c # new
      BY <2>1, <2>3, <1>1, <1>3 DEF Paid, Received, InHand
    <2>4. QED
      BY <2>2, <2>3
  <1>9. RowPart'
    <2>1. UnusedInv'
      BY <1>1, <1>3 DEF Ind, RowPart, UnusedInv, Existed, Command
    <2>2. RepeatsAreUnmarked'
      <3>1. \A c \in Command : unmarked[c] \in Nat
        BY DEF Ind, TypeOK
      <3>2. QED
        BY <3>1, <1>1, <1>3, <1>4 DEF Ind, RowPart, RepeatsAreUnmarked
    <2>3. TruthfulStatus'
      BY <1>1, <1>3, <1>4 DEF Ind, RowPart, TruthfulStatus
    <2>5. OrderInv'
      <3> SUFFICES ASSUME NEW c \in Command, NEW d \in Command, d < c, Existed(c)',
                          commands'[d].pc = commands'[c].pc,
                          commands'[d].priority <= commands'[c].priority,
                          commands'[d].status = "pending"
                   PROVE  ~Received(c)'
        BY DEF OrderInv
      <3>1. CASE c = new
        BY <3>1, <1>1, <1>4 DEF Received
      <3>2. CASE c # new
        <4>1. Existed(c) /\ d # new
          BY <3>2, <1>1 DEF Existed, Command
        <4>2. QED
          BY <4>1, <3>2, <1>1, <1>3 DEF Ind, RowPart, OrderInv, Received
      <3>3. QED
        BY <3>1, <3>2
    <2>6. QED
      BY <2>1, <2>2, <2>3, <2>5 DEF RowPart
  <1>10. ThreadPart'
    <2>1. ThreadInv'
      BY <1>1 DEF Ind, ThreadPart, ThreadInv
    <2>2. \A m \in results : commands'[m.cmd] = commands[m.cmd]
      BY <1>3, <1>4 DEF Ind, TypeOK, Result
    <2>3. ResultInv'
      BY <1>1, <2>2 DEF Ind, ThreadPart, ResultInv
    <2>4. QED
      BY <2>1, <2>3 DEF ThreadPart
  <1>11. QED
    BY <1>5, <1>6, <1>7, <1>8, <1>9, <1>10 DEF Ind

\* A DELETE of pending rows: what a client received of them went out unmarked.
LEMMA DeletePendingInd ==
  ASSUME Ind, NEW a \in Admin, NEW p \in PC, DeletePending(a, p)
  PROVE  Ind'
  <1>1. /\ commands' = PendingDeleted(p)
        /\ Done(a, p)
        /\ UNCHANGED <<registered, lastId, poll, mode, fresh, halting, threads, results,
                       deliveries, outcome, unmarked, faults>>
    BY DEF DeletePending, clientVars
  <1>2. commands' \in [Command -> Row]
    BY <1>1 DEF Ind, TypeOK, Row, Status, PendingDeleted, Pending
  <1>3. \A c \in Command :
          /\ commands'[c].pc = commands[c].pc
          /\ commands'[c].priority = commands[c].priority
          /\ commands'[c].status = IF commands[c].status = "pending" /\ commands[c].pc = p
                                   THEN "absent" ELSE commands[c].status
    BY <1>1 DEF Ind, TypeOK, Row, PendingDeleted, Pending
  <1>d. /\ request' \in [Admin -> Request]
        /\ \A b \in Admin :
             /\ request'[b].op = request[b].op
             /\ request'[b].scope = request[b].scope
             /\ request'[b].upto = request[b].upto
             /\ request'[b].todo = IF b = a THEN request[a].todo \ {p} ELSE request[b].todo
    BY <1>1, DoneRequest DEF Ind
  <1>4. TypeOK'
    BY <1>1, <1>2, <1>d DEF Ind, TypeOK
  <1>5. PollPart'
    <2>1. PollInv'
      BY <1>1, <1>3 DEF Ind, TypeOK, PollPart, PollInv, Poll, Existed, NoCommand
    <2>2. OneLivePoll'
      BY <1>1 DEF Ind, PollPart, OneLivePoll
    <2>3. NoOvertaking'
      BY <1>1, <1>3 DEF Ind, TypeOK, PollPart, NoOvertaking, Existed, Held, InHand
    <2>4. QED
      BY <2>1, <2>2, <2>3 DEF PollPart
  <1>6. ReceiptInv'
    BY <1>1, <1>3 DEF Ind, ReceiptInv, Paid, Received, InHand
  <1>7. RowPart'
    <2>1. UnusedInv' /\ RepeatsAreUnmarked' /\ TruthfulStatus'
      BY <1>1, <1>3 DEF Ind, RowPart, UnusedInv, RepeatsAreUnmarked, TruthfulStatus, Existed
    <2>2. OrderInv'
      BY <1>1, <1>3 DEF Ind, RowPart, OrderInv, Existed, Received
    <2>3. QED
      BY <2>1, <2>2 DEF RowPart
  <1>8. RequestPart'
    <2>1. RequestInv'
      BY <1>1, <1>d DEF Ind, RequestPart, RequestInv
    <2>2. ClearedStayCleared'
      BY <1>1, <1>3, <1>d DEF Ind, TypeOK, RequestPart, ClearedStayCleared, Row
    <2>3. QED
      BY <2>1, <2>2 DEF RequestPart
  <1>9. ThreadPart'
    <2>1. ThreadInv'
      BY <1>1 DEF Ind, ThreadPart, ThreadInv
    <2>2. \A m \in results : /\ m.cmd \in Command
                             /\ unmarked[m.cmd] = 0 => commands[m.cmd].status # "pending"
      <3> SUFFICES ASSUME NEW m \in results, unmarked[m.cmd] = 0
                   PROVE  commands[m.cmd].status # "pending"
        BY DEF Ind, TypeOK, Result
      <3>1. m.cmd \in Command /\ outcome[m.cmd] # {}
        BY DEF Ind, TypeOK, Result, ThreadPart, ResultInv
      <3>2. Received(m.cmd)
        BY <3>1 DEF Ind, ReceiptInv
      <3>3. PICK q \in PC : deliveries[m.cmd][q] # 0
        BY <3>2 DEF Received
      <3>4. deliveries[m.cmd][q] \in Nat
        BY <3>1 DEF Ind, TypeOK
      <3>5. QED
        BY <3>1, <3>3, <3>4 DEF Ind, ReceiptInv, Paid
    <2>3. ResultInv'
      BY <1>1, <1>3, <2>2 DEF Ind, ThreadPart, ResultInv
    <2>4. QED
      BY <2>1, <2>3 DEF ThreadPart
  <1>10. QED
    BY <1>4, <1>5, <1>6, <1>7, <1>8, <1>9 DEF Ind

\* The end of a request.
LEMMA RespondInd ==
  ASSUME Ind, NEW a \in Admin, Respond(a)
  PROVE  Ind'
  <1> USE DEF Respond, clientVars
  <1>1. TypeOK'
    BY DispatchAssumption, SomeConstants DEF Ind, TypeOK, Request, NoRequest
  <1>2. RequestPart'
    BY DEF Ind, TypeOK, RequestPart, RequestInv, ClearedStayCleared, NoRequest
  <1>3. QED
    BY <1>1, <1>2, Frame DEF Ind

\* A statement that fails takes its PC out of the request.
LEMMA StatementFailsInd ==
  ASSUME Ind, NEW a \in Admin, NEW p \in PC, StatementFails(a, p)
  PROVE  Ind'
  <1>1. /\ faults' \in 0..MaxFaults
        /\ UNCHANGED <<registered, commands, lastId, poll, mode, fresh, halting, threads,
                       results, deliveries, outcome, unmarked>>
    BY DispatchAssumption DEF StatementFails, Fault, clientVars, Ind, TypeOK
  <1>2. /\ request' \in [Admin -> Request]
        /\ \A b \in Admin :
             /\ request'[b].op = request[b].op
             /\ request'[b].upto = request[b].upto
             /\ request'[b].scope = IF b = a THEN request[a].scope \ {p} ELSE request[b].scope
             /\ request'[b].todo = IF b = a THEN request[a].todo \ {p} ELSE request[b].todo
    BY DEF Ind, TypeOK, StatementFails, Request
  <1>3. TypeOK'
    BY <1>1, <1>2 DEF Ind, TypeOK
  <1>4. RequestPart'
    BY <1>1, <1>2 DEF Ind, RequestPart, RequestInv, ClearedStayCleared
  <1>5. QED
    BY <1>1, <1>3, <1>4, Frame DEF Ind

\* A PC that is deleted leaves its commands alone.
LEMMA DeletePCInd ==
  ASSUME Ind, NEW p \in PC, DeletePC(p)
  PROVE  Ind'
  BY Frame DEF DeletePC, clientVars, Ind, TypeOK

\* Every step of an administrator's request keeps the inductive invariant.
LEMMA AdminInd ==
  ASSUME Ind, AdminNext
  PROVE  Ind'
  <1>1. CASE \E a \in Admin, p \in PC, prio \in Priority, t \in CommandType :
               SendCommand(a, p, prio, t)
    BY <1>1, AcceptInd DEF SendCommand
  <1>2. CASE \E a \in Admin, ps \in SUBSET PC, t \in CommandType : BulkCommand(a, ps, t)
    BY <1>2, AcceptInd, DispatchAssumption DEF BulkCommand
  <1>3. CASE \E a \in Admin, ps \in SUBSET PC : ClearCommands(a, ps)
    BY <1>3, AcceptInd, DispatchAssumption, SomeConstants DEF ClearCommands
  <1>4. CASE \E a \in Admin, p \in PC : InsertCommand(a, p) \/ DeletePending(a, p)
    BY <1>4, InsertCommandInd, DeletePendingInd
  <1>5. CASE \E a \in Admin : Respond(a) \/ \E p \in PC : StatementFails(a, p)
    BY <1>5, RespondInd, StatementFailsInd
  <1>6. CASE \E p \in PC : DeletePC(p)
    BY <1>6, DeletePCInd
  <1>7. QED
    BY <1>1, <1>2, <1>3, <1>4, <1>5, <1>6 DEF AdminNext

-----------------------------------------------------------------------------
(* The handlers of the long-poll *)

\* A step of a handler changes where it stands and what it holds.
LEMMA PollMoveEffect ==
  ASSUME TypeOK, NEW h \in Handler, NEW from, NEW to \in {"looking", "picked", "answered"},
         NEW c \in Command \cup {NoCommand}, PollMove(h, from, to, c)
  PROVE  /\ poll[h].at = from
         /\ poll' \in [Handler -> Poll]
         /\ poll'[h].at = to /\ poll'[h].cmd = c
         /\ poll'[h].pc = poll[h].pc /\ poll'[h].live = poll[h].live
         /\ \A k \in Handler \ {h} : poll'[k] = poll[k]
         /\ UNCHANGED <<registered, lastId, request, mode, fresh, halting, threads, results,
                        deliveries, outcome>>
  BY DEF TypeOK, PollMove, Poll, clientVars

\* The same of a step in which no statement fails.
LEMMA PollStepEffect ==
  ASSUME TypeOK, NEW h \in Handler, NEW from, NEW to \in {"looking", "picked", "answered"},
         NEW c \in Command \cup {NoCommand}, PollStep(h, from, to, c)
  PROVE  /\ poll[h].at = from
         /\ poll' \in [Handler -> Poll]
         /\ poll'[h].at = to /\ poll'[h].cmd = c
         /\ poll'[h].pc = poll[h].pc /\ poll'[h].live = poll[h].live
         /\ \A k \in Handler \ {h} : poll'[k] = poll[k]
         /\ UNCHANGED <<registered, lastId, request, mode, fresh, halting, threads, results,
                        deliveries, outcome, unmarked, faults>>
  BY DEF TypeOK, PollStep, PollMove, Poll, clientVars

\* LookUpPC, TurnAway, PollExpires, LookUpFails: the handler goes on without a command.
LEMMA EmptyHandedInd ==
  ASSUME Ind, NEW h \in Handler, NEW from \in {"arrived", "looking"},
         NEW to \in {"looking", "answered"}, PollMove(h, from, to, NoCommand),
         UNCHANGED <<commands, unmarked>>, faults' \in 0..MaxFaults
  PROVE  Ind'
  <1>1. /\ poll' \in [Handler -> Poll]
        /\ poll'[h].at = to /\ poll'[h].cmd = NoCommand
        /\ poll'[h].pc = poll[h].pc /\ poll'[h].live = poll[h].live
        /\ \A k \in Handler \ {h} : poll'[k] = poll[k]
        /\ UNCHANGED <<registered, commands, lastId, request, mode, fresh, halting, threads,
                       results, deliveries, outcome, unmarked>>
    <2>1. TypeOK
      BY DEF Ind
    <2>2. QED
      BY <2>1 DEF TypeOK, PollMove, Poll, clientVars
  <1>2. TypeOK'
    BY <1>1 DEF Ind, TypeOK
  <1>3. PollPart'
    <2>1. PollInv' /\ OneLivePoll'
      BY <1>1 DEF Ind, PollPart, PollInv, OneLivePoll, Existed
    <2>2. NoOvertaking'
      BY <1>1 DEF Ind, PollPart, NoOvertaking, Existed, Held, InHand, Command, NoCommand
    <2>3. QED
      BY <2>1, <2>2 DEF PollPart
  <1>4. ReceiptInv'
    BY <1>1 DEF Ind, ReceiptInv, Paid, Received, InHand, Command, NoCommand
  <1>5. QED
    BY <1>1, <1>2, <1>3, <1>4, Frame DEF Ind

\* What the SELECT of poll_commands returns.
LEMMA NextIsFirst ==
  ASSUME NEW c, NEW p, IsNext(c, p)
  PROVE  /\ c \in Command /\ commands[c].pc = p /\ commands[c].status = "pending"
         /\ \A d \in Command : d # c /\ commands[d].pc = p /\ commands[d].status = "pending"
                               => Precedes(c, d)
  <1>1. c \in Pending(p)
    BY DEF IsNext
  <1>2. \A d \in Pending(p) \ {c} : Precedes(c, d)
    BY DEF IsNext
  <1>3. ASSUME NEW d \in Command, d # c, commands[d].pc = p, commands[d].status = "pending"
        PROVE  Precedes(c, d)
    <2>1. d \in Pending(p) \ {c}
      BY <1>3 DEF Pending
    <2>2. QED
      BY <2>1, <1>2
  <1>4. c \in Command /\ commands[c].pc = p /\ commands[c].status = "pending"
    BY <1>1 DEF Pending
  <1>5. QED
    BY <1>3, <1>4

\* The command picked is pending, so its receptions are paid for, and no earlier
\* command that is as urgent is pending.
LEMMA PickCommandInd ==
  ASSUME Ind, NEW h \in Handler, PickCommand(h)
  PROVE  Ind'
  <1>1. PICK c \in Command : IsNext(c, poll[h].pc) /\ PollStep(h, "looking", "picked", c)
    BY DEF PickCommand
  <1>2. /\ poll[h].at = "looking"
        /\ poll' \in [Handler -> Poll]
        /\ poll'[h].at = "picked" /\ poll'[h].cmd = c
        /\ poll'[h].pc = poll[h].pc /\ poll'[h].live = poll[h].live
        /\ \A k \in Handler \ {h} : poll'[k] = poll[k]
        /\ UNCHANGED <<registered, commands, lastId, request, mode, fresh, halting, threads,
                       results, deliveries, outcome, unmarked, faults>>
    BY <1>1, PollStepEffect DEF Ind, PickCommand
  <1>3. /\ commands[c].pc = poll[h].pc /\ commands[c].status = "pending"
        /\ \A d \in Command :
             d # c /\ commands[d].pc = poll[h].pc /\ commands[d].status = "pending"
             => Precedes(c, d)
    BY <1>1, NextIsFirst
  <1>4. Existed(c)
    BY <1>3 DEF Ind, RowPart, UnusedInv
  <1>5. TypeOK'
    BY <1>2 DEF Ind, TypeOK
  <1>6. PollPart'
    <2>1. PollInv' /\ OneLivePoll'
      BY <1>2, <1>3, <1>4 DEF Ind, PollPart, PollInv, OneLivePoll, Existed
    <2>2. NoOvertaking'
      <3> SUFFICES ASSUME NEW e \in Command, NEW d \in Command, d < e, Existed(e)',
                          commands'[d].pc = commands'[e].pc,
                          commands'[d].priority <= commands'[e].priority,
                          commands'[d].status = "pending"
                   PROVE  commands'[e].status = "pending" /\ ~Held(e)'
        BY DEF NoOvertaking
      <3>1. commands[e].status = "pending" /\ ~Held(e)
        BY <1>2 DEF Ind, PollPart, NoOvertaking, Existed
      <3>2. c # e
        <4> SUFFICES ASSUME c = e PROVE FALSE
          OBVIOUS
        <4>1. Precedes(c, d)
          BY <1>2, <1>3 DEF Command
        <4>2. commands[c].priority \in Nat /\ commands[d].priority \in Nat
          BY DispatchAssumption DEF Ind, TypeOK, Row
        <4>3. QED
          BY <1>2, <4>1, <4>2 DEF Precedes, Command
      <3>3. QED
        BY <1>2, <3>1, <3>2 DEF Held, InHand
    <2>3. QED
      BY <2>1, <2>2 DEF PollPart
  <1>7. ReceiptInv'
    <2> SUFFICES ASSUME NEW d \in Command PROVE ReceiptInv!(d)'
      BY DEF ReceiptInv
    <2>1. ReceiptInv!(d) /\ (d = c => Paid(d))
      BY <1>3 DEF Ind, ReceiptInv
    <2>2. QED
      BY <2>1, <1>2 DEF Paid, Received, InHand
  <1>8. QED
    BY <1>2, <1>5, <1>6, <1>7, Frame DEF Ind

\* Only the status of the row changes, unless there is none.
LEMMA WithStatusEffect ==
  ASSUME TypeOK, NEW c \in Command, NEW s \in Status, commands' = WithStatus(c, s)
  PROVE  /\ commands' \in [Command -> Row]
         /\ \A d \in Command \ {c} : commands'[d] = commands[d]
         /\ commands'[c].pc = commands[c].pc
         /\ commands'[c].priority = commands[c].priority
         /\ commands[c].status = "absent" => commands'[c].status = "absent"
         /\ commands[c].status # "absent" => commands'[c].status = s
  BY DEF TypeOK, WithStatus, Row

\* The unguarded UPDATE to executing: the command leaves the queue, whatever its
\* status was.
LEMMA StartExecutionInd ==
  ASSUME Ind, NEW h \in Handler, StartExecution(h)
  PROVE  Ind'
  <1> DEFINE c == poll[h].cmd
  <1>1. c \in Command /\ Existed(c) /\ commands[c].pc = poll[h].pc /\ poll[h].at = "picked"
    BY DEF Ind, PollPart, PollInv, StartExecution, PollStep, PollMove, Command, NoCommand
  <1>2. /\ poll' \in [Handler -> Poll]
        /\ poll'[h].at = "answered" /\ poll'[h].cmd = c
        /\ poll'[h].pc = poll[h].pc /\ poll'[h].live = poll[h].live
        /\ \A k \in Handler \ {h} : poll'[k] = poll[k]
        /\ UNCHANGED <<registered, lastId, request, mode, fresh, halting, threads, results,
                       deliveries, outcome, unmarked, faults>>
    BY <1>1, PollStepEffect DEF Ind, StartExecution
  <1>3. commands' = WithStatus(c, "executing") /\ "executing" \in Status
    BY DEF StartExecution, Status
  <1>4. /\ commands' \in [Command -> Row]
        /\ \A d \in Command : /\ commands'[d].pc = commands[d].pc
                              /\ commands'[d].priority = commands[d].priority
                              /\ d # c => commands'[d].status = commands[d].status
        /\ commands[c].status = "absent" => commands'[c].status = "absent"
        /\ commands[c].status # "absent" => commands'[c].status = "executing"
    BY <1>1, <1>3, WithStatusEffect DEF Ind
  <1> HIDE DEF c
  <1>5. TypeOK'
    BY <1>2, <1>4 DEF Ind, TypeOK
  <1>6. PollPart'
    <2>1. PollInv'
      <3> SUFFICES ASSUME NEW k \in Handler PROVE PollInv!(k)'
        BY DEF PollInv
      <3>1. PollInv!(k)
        BY DEF Ind, PollPart, PollInv
      <3>2. CASE k = h
        BY <3>2, <1>1, <1>2, <1>4 DEF Existed
      <3>3. CASE k # h
        <4>1. poll'[k] = poll[k]
          BY <3>3, <1>2
        <4>2. poll[k].cmd # NoCommand => poll[k].cmd \in Command
          BY DEF Ind, TypeOK, Poll
        <4>3. QED
          BY <3>1, <4>1, <4>2, <1>2, <1>4 DEF Existed
      <3>4. QED
        BY <3>2, <3>3
    <2>2. OneLivePoll'
      BY <1>2 DEF Ind, PollPart, OneLivePoll
    <2>3. NoOvertaking'
      <3>1. \A d \in Command : Held(d)' => Held(d)
        BY <1>1, <1>2 DEF c, Held, InHand
      <3>2. Held(c)
        BY <1>1 DEF c, Held, InHand
      <3>3. QED
        BY <1>2, <1>4, <3>1, <3>2 DEF Ind, PollPart, NoOvertaking, Existed
    <2>4. QED
      BY <2>1, <2>2, <2>3 DEF PollPart
  <1>7. ReceiptInv'
    <2> SUFFICES ASSUME NEW d \in Command PROVE ReceiptInv!(d)'
      BY DEF ReceiptInv
    <2>1. ReceiptInv!(d)
      BY DEF Ind, ReceiptInv
    <2>2. commands'[d].status = "pending" => d # c /\ commands[d].status = "pending"
      BY <1>4
    <2>3. \A k \in Handler : InHand(k, d)' =>
            /\ InHand(k, d) /\ poll'[k].live = poll[k].live
            /\ d # c => poll'[k].at = poll[k].at
      BY <1>1, <1>2 DEF c, InHand
    <2>4. QED
      BY <2>1, <2>2, <2>3, <1>2 DEF Paid, Received
  <1>8. RowPart'
    <2>1. UnusedInv' /\ RepeatsAreUnmarked' /\ TruthfulStatus'
      BY <1>2, <1>4 DEF Ind, RowPart, UnusedInv, RepeatsAreUnmarked, TruthfulStatus, Existed
    <2>2. OrderInv'
      BY <1>2, <1>4 DEF Ind, RowPart, OrderInv, Existed, Received
    <2>3. QED
      BY <2>1, <2>2 DEF RowPart
  <1>9. RequestPart'
    BY <1>2, <1>4 DEF Ind, RequestPart, RequestInv, ClearedStayCleared
  <1>10. ThreadPart'
    <2>1. ThreadInv'
      BY <1>2 DEF Ind, ThreadPart, ThreadInv
    <2>2. ResultInv'
      BY <1>2, <1>4 DEF Ind, TypeOK, ThreadPart, ResultInv, Result
    <2>3. QED
      BY <2>1, <2>2 DEF ThreadPart
  <1>11. QED
    BY <1>5, <1>6, <1>7, <1>8, <1>9, <1>10 DEF Ind

\* The UPDATE to executing fails: the row stays, and the answer that goes out pays
\* for one reception more.
LEMMA MarkFailsInd ==
  ASSUME Ind, NEW h \in Handler, MarkFails(h)
  PROVE  Ind'
  <1> DEFINE c == poll[h].cmd
  <1>1. c \in Command /\ Existed(c) /\ commands[c].pc = poll[h].pc /\ poll[h].at = "picked"
    BY DEF Ind, PollPart, PollInv, MarkFails, PollMove, Command, NoCommand
  <1>2. /\ poll' \in [Handler -> Poll]
        /\ poll'[h].at = "answered" /\ poll'[h].cmd = c
        /\ poll'[h].pc = poll[h].pc /\ poll'[h].live = poll[h].live
        /\ \A k \in Handler \ {h} : poll'[k] = poll[k]
        /\ UNCHANGED <<registered, commands, lastId, request, mode, fresh, halting, threads,
                       results, deliveries, outcome>>
    BY <1>1, PollMoveEffect DEF Ind, MarkFails
  <1>3. /\ unmarked' \in [Command -> Nat] /\ unmarked'[c] = unmarked[c] + 1
        /\ \A d \in Command \ {c} : unmarked'[d] = unmarked[d]
        /\ \A d \in Command : unmarked[d] \in Nat /\ unmarked[d] <= unmarked'[d]
                             /\ (unmarked'[d] = 0 => unmarked[d] = 0)
    BY <1>1 DEF Ind, TypeOK, MarkFails
  <1>4. faults' \in 0..MaxFaults
    BY DispatchAssumption DEF MarkFails, Fault, Ind, TypeOK
  <1>5. \A d \in Command, q \in PC : deliveries[d][q] \in Nat
    BY DEF Ind, TypeOK
  <1>6. /\ poll[h].at = "picked"
        /\ \A k \in Handler, d \in Command : InHand(k, d)' <=> InHand(k, d)
    BY <1>1, <1>2 DEF c, InHand
  <1> HIDE DEF c
  <1>7. TypeOK'
    BY <1>2, <1>3, <1>4 DEF Ind, TypeOK
  <1>8. PollPart'
    <2>1. PollInv' /\ OneLivePoll'
      BY <1>1, <1>2 DEF Ind, PollPart, PollInv, OneLivePoll, Existed
    <2>2. NoOvertaking'
      BY <1>2, <1>6 DEF Ind, PollPart, NoOvertaking, Existed, Held
    <2>3. QED
      BY <2>1, <2>2 DEF PollPart
  <1>9. ReceiptInv'
    <2> SUFFICES ASSUME NEW d \in Command PROVE ReceiptInv!(d)'
      BY DEF ReceiptInv
    <2>1. ReceiptInv!(d)
      BY DEF Ind, ReceiptInv
    <2>2. Paid(d) => Paid(d)'
      BY <1>2, <1>3, <1>5 DEF Paid
    <2>3. ASSUME NEW k \in Handler, InHand(k, d)', poll'[k].live,
                 poll'[k].at = "answered", commands'[d].status = "pending",
                 NEW q \in PC
          PROVE  deliveries'[d][q] < unmarked'[d]
      <3>1. InHand(k, d) /\ poll[k].live /\ Paid(d)
        BY <2>1, <2>3, <1>2, <1>6
      <3>2. CASE k = h
        <4>1. d = c
          BY <3>2, <2>3, <1>2 DEF InHand
        <4>2. QED
          BY <4>1, <3>1, <1>2, <1>3, <1>5 DEF Paid
      <3>3. CASE k # h
        BY <3>3, <3>1, <2>1, <2>3, <1>2, <1>3, <1>5
      <3>4. QED
        BY <3>2, <3>3
    <2>4. \A k \in Handler : InHand(k, d)' /\ poll'[k].live => InHand(k, d) /\ poll[k].live
      BY <1>2, <1>6
    <2>5. QED
      BY <2>1, <2>2, <2>3, <2>4, <1>2 DEF Received
  <1>10. RowPart'
    <2>1. UnusedInv' /\ TruthfulStatus' /\ OrderInv'
      BY <1>2 DEF Ind, RowPart, UnusedInv, TruthfulStatus, OrderInv, Existed, Received
    <2>2. RepeatsAreUnmarked'
      BY <1>2, <1>3, <1>5 DEF Ind, RowPart, RepeatsAreUnmarked
    <2>3. QED
      BY <2>1, <2>2 DEF RowPart
  <1>11. RequestPart'
    BY <1>2, Frame
  <1>12. ThreadPart'
    <2>1. \A t \in threads : t.cmd \in Command
      BY DEF Ind, TypeOK, Thread
    <2>2. \A m \in results : m.cmd \in Command
      BY DEF Ind, TypeOK, Result
    <2>3. ThreadInv'
      <3> SUFFICES ASSUME NEW t \in threads PROVE ThreadInv!(t)'
        BY <1>2 DEF ThreadInv
      <3>1. ThreadInv!(t)
        BY DEF Ind, ThreadPart, ThreadInv
      <3>2. QED
        BY <3>1, <2>1, <1>2, <1>3
    <2>4. ResultInv'
      BY <2>2, <1>2, <1>3 DEF Ind, ThreadPart, ResultInv
    <2>5. QED
      BY <2>3, <2>4 DEF ThreadPart
  <1>13. QED
    BY <1>7, <1>8, <1>9, <1>10, <1>11, <1>12 DEF Ind

\* A handler that is done holds nothing.
LEMMA IdlePollParts ==
  ASSUME Ind, NEW h \in Handler, poll' = [poll EXCEPT ![h] = IdlePoll],
         UNCHANGED <<commands, lastId>>
  PROVE  poll' \in [Handler -> Poll] /\ PollPart'
  <1>1. /\ poll' \in [Handler -> Poll]
        /\ poll'[h] = IdlePoll /\ poll'[h].at = "idle" /\ ~poll'[h].live
        /\ poll'[h].cmd = NoCommand
        /\ \A k \in Handler \ {h} : poll'[k] = poll[k]
    BY SomeConstants DEF Ind, TypeOK, IdlePoll, Poll
  <1>2. PollInv' /\ OneLivePoll'
    BY <1>1 DEF Ind, PollPart, PollInv, OneLivePoll, Existed
  <1>3. NoOvertaking'
    BY <1>1 DEF Ind, PollPart, NoOvertaking, Existed, Held, InHand
  <1>4. QED
    BY <1>1, <1>2, <1>3 DEF PollPart

\* An answer nobody waits for is lost with the command it carries.
LEMMA DropAnswerInd ==
  ASSUME Ind, NEW h \in Handler, DropAnswer(h)
  PROVE  Ind'
  <1>1. PollPart' /\ TypeOK'
    BY IdlePollParts DEF Ind, TypeOK, DropAnswer, serverVars, clientVars
  <1>2. ReceiptInv'
    BY DEF Ind, TypeOK, ReceiptInv, Paid, DropAnswer, serverVars, Received, InHand, IdlePoll
  <1>3. QED
    BY <1>1, <1>2, Frame DEF Ind, DropAnswer, serverVars

\* Every step of a handler keeps the inductive invariant.
LEMMA HandlerInd ==
  ASSUME Ind, NEW h \in Handler, HandlerStep(h) \/ HandlerFails(h)
  PROVE  Ind'
  <1>0. faults \in 0..MaxFaults
    BY DEF Ind, TypeOK
  <1>1. CASE LookUpPC(h)
    BY <1>0, <1>1, EmptyHandedInd DEF LookUpPC, PollStep
  <1>2. CASE TurnAway(h)
    BY <1>0, <1>2, EmptyHandedInd DEF TurnAway, PollStep
  <1>3. CASE PickCommand(h)
    BY <1>3, PickCommandInd
  <1>4. CASE StartExecution(h)
    BY <1>4, StartExecutionInd
  <1>5. CASE PollExpires(h)
    BY <1>0, <1>5, EmptyHandedInd DEF PollExpires, PollStep
  <1>6. CASE DropAnswer(h)
    BY <1>6, DropAnswerInd
  <1>7. CASE MarkFails(h)
    BY <1>7, MarkFailsInd
  <1>8. CASE LookUpFails(h)
    <2>1. faults' \in 0..MaxFaults
      BY <1>0, <1>8, DispatchAssumption DEF LookUpFails, Fault
    <2>2. QED
      BY <1>8, <2>1, EmptyHandedInd DEF LookUpFails
  <1>9. QED
    BY <1>1, <1>2, <1>3, <1>4, <1>5, <1>6, <1>7, <1>8 DEF HandlerStep, HandlerFails

-----------------------------------------------------------------------------
(* The client's poll loop and the life of its process *)

\* A client that gives up a poll leaves its handler at work, as a zombie.
LEMMA AbandonedParts ==
  ASSUME Ind, NEW p \in PC, poll' = Abandoned(p),
         UNCHANGED <<commands, lastId, deliveries, outcome, unmarked>>
  PROVE  poll' \in [Handler -> Poll] /\ PollPart' /\ ReceiptInv'
  <1>1. /\ poll' \in [Handler -> Poll]
        /\ \A k \in Handler :
             /\ poll'[k].at = poll[k].at
             /\ poll'[k].pc = poll[k].pc
             /\ poll'[k].cmd = poll[k].cmd
             /\ poll'[k].live => poll[k].live
    BY SMT, ZenonT(40) DEF Ind, TypeOK, Abandoned, Poll
  <1>3. PollInv'
    BY <1>1 DEF Ind, PollPart, PollInv, Existed
  <1>4. OneLivePoll'
    BY <1>1 DEF Ind, PollPart, OneLivePoll
  <1>5. NoOvertaking'
    BY <1>1 DEF Ind, PollPart, NoOvertaking, Existed, Held, InHand
  <1>6. ReceiptInv'
    BY <1>1 DEF Ind, ReceiptInv, Paid, Received, InHand
  <1>7. QED
    BY <1>1, <1>3, <1>4, <1>5, <1>6 DEF PollPart

\* A new long-poll, the only live one of its client.
LEMMA StartPollInd ==
  ASSUME Ind, NEW p \in PC, NEW h \in Handler, StartPoll(p, h)
  PROVE  Ind'
  <1>1. /\ poll' \in [Handler -> Poll]
        /\ poll[h] = IdlePoll
        /\ poll'[h].at = "arrived" /\ poll'[h].cmd = NoCommand /\ poll'[h].pc = p
        /\ \A k \in Handler \ {h} : poll'[k] = poll[k]
        /\ \A k \in Handler : poll[k].live => poll[k].pc # p
        /\ UNCHANGED <<registered, commands, lastId, request, mode, fresh, halting, threads,
                       results, deliveries, outcome, unmarked, faults>>
    BY DEF Ind, TypeOK, Poll, StartPoll, Waiting, serverVars, clientVars
  <1>2. TypeOK'
    BY <1>1 DEF Ind, TypeOK
  <1>3. PollInv'
    BY <1>1 DEF Ind, PollPart, PollInv, Existed
  <1>4. OneLivePoll'
    BY <1>1 DEF Ind, PollPart, OneLivePoll
  <1>5. NoOvertaking'
    BY <1>1 DEF Ind, PollPart, NoOvertaking, Existed, Held, InHand
  <1>6. ReceiptInv'
    BY <1>1 DEF Ind, ReceiptInv, Paid, Received, InHand
  <1>7. QED
    BY <1>1, <1>2, <1>3, <1>4, <1>5, <1>6, Frame DEF Ind, PollPart

\* A client that waits for an answer with a command has its reception paid for, and
\* waits for no other answer with it.
LEMMA LiveAnswerIsPaid ==
  ASSUME Ind, NEW h \in Handler, poll[h].live, poll[h].at = "answered",
         poll[h].cmd # NoCommand
  PROVE  /\ poll[h].cmd \in Command
         /\ Existed(poll[h].cmd)
         /\ commands[poll[h].cmd].pc = poll[h].pc
         /\ Paid(poll[h].cmd)
         /\ commands[poll[h].cmd].status = "pending"
              => \A p \in PC : deliveries[poll[h].cmd][p] < unmarked[poll[h].cmd]
         /\ \A k \in Handler \ {h} : InHand(k, poll[h].cmd) => ~poll[k].live
  <1>1. /\ poll[h].cmd \in Command
        /\ PollInv!(h)
    BY DEF Ind, TypeOK, Poll, PollPart, PollInv
  <1>2. /\ Paid(poll[h].cmd)
        /\ commands[poll[h].cmd].status = "pending"
             => \A p \in PC : deliveries[poll[h].cmd][p] < unmarked[poll[h].cmd]
    BY <1>1 DEF Ind, ReceiptInv, InHand
  <1>3. ASSUME NEW k \in Handler \ {h}, InHand(k, poll[h].cmd), poll[k].live
        PROVE  FALSE
    <2>1. poll[k].pc = poll[h].pc
      BY <1>1, <1>3 DEF Ind, PollPart, PollInv, InHand
    <2>2. QED
      BY <1>3, <2>1 DEF Ind, PollPart, OneLivePoll
  <1>4. QED
    BY <1>1, <1>2, <1>3

\* The answer that starts no executor thread: none was held, or the reconnect
\* loop drops it.
LEMMA ReceiveNothingInd ==
  ASSUME Ind, NEW p \in PC, NEW h \in Handler, Receive(p, h),
         mode[p] # "polling" \/ poll[h].cmd = NoCommand
  PROVE  Ind'
  <1>1. /\ poll' = [poll EXCEPT ![h] = IdlePoll]
        /\ mode' = [mode EXCEPT ![p] = "polling"]
        /\ UNCHANGED <<registered, commands, lastId, request, fresh, halting, threads,
                       results, deliveries, outcome, unmarked, faults>>
    BY DEF Receive, serverVars
  <1>2. poll' \in [Handler -> Poll] /\ PollPart'
    BY <1>1, IdlePollParts
  <1>3. TypeOK'
    BY <1>1, <1>2 DEF Ind, TypeOK
  <1>4. ReceiptInv'
    BY <1>1 DEF Ind, TypeOK, ReceiptInv, Paid, Received, InHand, IdlePoll
  <1>5. QED
    BY <1>1, <1>2, <1>3, <1>4, Frame DEF Ind

\* A client takes a command: its reception is paid for, and no other live poll has it.
LEMMA ReceiveCommandInd ==
  ASSUME Ind, NEW p \in PC, NEW h \in Handler, Receive(p, h),
         mode[p] = "polling", poll[h].cmd # NoCommand
  PROVE  Ind'
  <1> DEFINE c == poll[h].cmd
             new == NewThread(p, c)
  <1>1. /\ poll[h].live /\ poll[h].pc = p /\ poll[h].at = "answered"
        /\ poll' = [poll EXCEPT ![h] = IdlePoll]
        /\ mode' = [mode EXCEPT ![p] = "polling"]
        /\ threads' = threads \cup {new}
        /\ deliveries' = [deliveries EXCEPT ![c][p] = @ + 1]
        /\ UNCHANGED <<registered, commands, lastId, request, fresh, halting,
                       results, outcome, unmarked, faults>>
    BY DEF Receive, serverVars
  <1>2. /\ c \in Command /\ Existed(c)
        /\ commands[c].pc = p /\ Paid(c)
        /\ commands[c].status = "pending" => \A q \in PC : deliveries[c][q] < unmarked[c]
        /\ \A k \in Handler \ {h} : InHand(k, c) => ~poll[k].live
    BY <1>1, LiveAnswerIsPaid
  <1>r. deliveries[c][p] \in Nat /\ unmarked[c] \in Nat /\ deliveries[c][p] <= unmarked[c]
    BY <1>2 DEF Ind, TypeOK, Paid
  <1>3. /\ new \in Thread /\ new.pc = p /\ new.cmd = c /\ new.nth = deliveries[c][p] + 1
        /\ new.at = "new" /\ new.tries = 0
    BY <1>2, <1>r, DispatchAssumption DEF NewThread, Thread
  <1> HIDE DEF c, new
  <1>4. /\ poll' \in [Handler -> Poll] /\ PollPart'
        /\ poll'[h].at = "idle"
        /\ \A k \in Handler \ {h} : poll'[k] = poll[k]
    BY <1>1, IdlePollParts DEF Ind, TypeOK, IdlePoll
  <1>5. /\ deliveries' \in [Command -> [PC -> Nat]]
        /\ deliveries'[c][p] = deliveries[c][p] + 1
        /\ \A q \in PC \ {p} : deliveries'[c][q] = deliveries[c][q]
        /\ \A d \in Command \ {c} : deliveries'[d] = deliveries[d]
    BY <1>1, <1>2 DEF Ind, TypeOK
  <1>6. unmarked[c] = 0 => outcome[c] = {}
    <2> SUFFICES ASSUME unmarked[c] = 0, outcome[c] # {} PROVE FALSE
      OBVIOUS
    <2>1. PICK q \in PC : deliveries[c][q] # 0
      BY <1>2 DEF Ind, ReceiptInv, Received
    <2>2. deliveries[c][q] \in Nat /\ deliveries[c][q] <= 0
      BY <1>2 DEF Ind, TypeOK, Paid
    <2>3. QED
      BY <2>1, <2>2
  <1>a. \A q \in PC \ {p} : deliveries[c][q] = 0
    <2>1. \A q \in PC \ {p} : deliveries[c][q] \in Nat /\ deliveries[c][q] <= 0
      BY <1>2 DEF Ind, TypeOK, RowPart, RepeatsAreUnmarked
    <2>2. QED
      BY <2>1
  <1>7. TypeOK'
    BY <1>1, <1>3, <1>4, <1>5 DEF Ind, TypeOK
  <1>8. ReceiptInv'
    <2> SUFFICES ASSUME NEW d \in Command PROVE ReceiptInv!(d)'
      BY DEF ReceiptInv
    <2>1. ReceiptInv!(d)
      BY DEF Ind, ReceiptInv
    <2>2. CASE d = c
      <3>1. \A k \in Handler : InHand(k, d)' => ~poll'[k].live
        <4>1. ASSUME NEW k \in Handler, poll'[k].live PROVE ~InHand(k, d)'
          <5>1. CASE k = h
            BY <5>1, <1>4 DEF InHand
          <5>2. CASE k # h
            BY <2>2, <5>2, <4>1, <1>2, <1>4 DEF InHand
          <5>3. QED
            BY <5>1, <5>2
        <4>2. QED
          BY <4>1
      <3>2. ASSUME commands'[d].status = "pending", NEW q \in PC
            PROVE  deliveries'[d][q] <= unmarked'[d]
        <4>1. deliveries[d][q] < unmarked[d] /\ deliveries[d][q] \in Nat
              /\ unmarked[d] \in Nat /\ UNCHANGED unmarked
          BY <2>2, <3>2, <1>1, <1>2, <1>r DEF Ind, TypeOK
        <4>2. deliveries'[d][q] = deliveries[d][q] \/ deliveries'[d][q] = deliveries[d][q] + 1
          BY <2>2, <1>5
        <4>3. QED
          BY <4>1, <4>2
      <3>3. Received(d)'
        <4>1. deliveries'[d][p] # 0
          BY <2>2, <1>5, <1>r
        <4>2. QED
          BY <4>1 DEF Received
      <3>4. QED
        BY <2>2, <3>1, <3>2, <3>3 DEF Paid
    <2>3. CASE d # c
      BY <2>1, <2>3, <1>1, <1>4, <1>5 DEF Paid, Received, InHand
    <2>4. QED
      BY <2>2, <2>3
  <1>9. RowPart'
    <2>1. UnusedInv' /\ TruthfulStatus'
      BY <1>1, <1>2, <1>5 DEF Ind, RowPart, UnusedInv, TruthfulStatus, Existed
    <2>2. RepeatsAreUnmarked'
      <3>1. ASSUME NEW d \in Command, NEW q \in PC, d # c \/ q # p
            PROVE  deliveries'[d][q] = deliveries[d][q]
        BY <3>1, <1>5
      <3>2. QED
        BY <3>1, <1>1, <1>2, <1>5, <1>r DEF Ind, RowPart, RepeatsAreUnmarked
    <2>3. OrderInv'
      <3>1. Held(c)
        BY <1>1, <1>4 DEF c, Held, InHand
      <3>2. \A d \in Command \ {c} : Received(d)' => Received(d)
        BY <1>5 DEF Received
      <3>3. QED
        BY <3>1, <3>2, <1>1, <1>2 DEF Ind, PollPart, NoOvertaking, RowPart, OrderInv, Existed
    <2>4. QED
      BY <2>1, <2>2, <2>3 DEF RowPart
  <1>10. ThreadPart'
    <2>1. \A t \in threads : /\ t.cmd \in Command /\ t.pc \in PC /\ t.nth \in Nat
                             /\ t.nth <= deliveries[t.cmd][t.pc]
                             /\ deliveries[t.cmd][t.pc] \in Nat
                             /\ t.cmd = c => t.pc = p
      <3> SUFFICES ASSUME NEW t \in threads
                   PROVE  /\ t.cmd \in Command /\ t.pc \in PC /\ t.nth \in Nat
                          /\ t.nth <= deliveries[t.cmd][t.pc]
                          /\ deliveries[t.cmd][t.pc] \in Nat
                          /\ t.cmd = c => t.pc = p
        OBVIOUS
      <3>1. t.cmd \in Command /\ t.pc \in PC /\ t.nth \in Nat
        BY DEF Ind, TypeOK, Thread
      <3>2. 1 <= t.nth /\ t.nth <= deliveries[t.cmd][t.pc]
        BY DEF Ind, ThreadPart, ThreadInv
      <3>3. deliveries[t.cmd][t.pc] \in Nat
        BY <3>1 DEF Ind, TypeOK
      <3>4. QED
        BY <3>1, <3>2, <3>3, <1>a
    <2>2. ThreadInv'
      <3> SUFFICES ASSUME NEW t \in threads' PROVE ThreadInv!(t)'
        BY DEF ThreadInv
      <3>0. \A u \in threads : ~(u.cmd = c /\ u.nth = new.nth)
        <4>1. ASSUME NEW u \in threads, u.cmd = c PROVE u.nth # new.nth
          <5>1. u.nth \in Nat /\ u.nth <= deliveries[c][p]
            BY <4>1, <2>1
          <5>2. QED
            BY <5>1, <1>3, <1>r
        <4>2. QED
          BY <4>1
      <3>1. CASE t = new
        <4>1. 1 <= t.nth /\ t.nth <= deliveries'[t.cmd][t.pc]
          BY <3>1, <1>3, <1>5, <1>r
        <4>2. \A u \in threads' : u.cmd = t.cmd /\ u.nth = t.nth => u = t
          BY <3>0, <3>1, <1>1, <1>3
        <4>3. QED
          BY <3>1, <4>1, <4>2, <1>1, <1>3, <1>6, DispatchAssumption
      <3>2. CASE t \in threads
        <4>1. ThreadInv!(t)
          BY <3>2 DEF Ind, ThreadPart, ThreadInv
        <4>2. t.nth <= deliveries'[t.cmd][t.pc]
          BY <3>2, <4>1, <2>1, <1>5, <1>r
        <4>3. \A u \in threads' : u.cmd = t.cmd /\ u.nth = t.nth => u = t
          BY <3>0, <3>2, <4>1, <1>1, <1>3
        <4>4. QED
          BY <4>1, <4>2, <4>3, <1>1
      <3>3. QED
        BY <3>1, <3>2, <1>1
    <2>3. ResultInv'
      BY <1>1 DEF Ind, ThreadPart, ResultInv
    <2>4. QED
      BY <2>2, <2>3 DEF ThreadPart
  <1>11. RequestPart'
    BY <1>1, Frame
  <1>12. QED
    BY <1>4, <1>7, <1>8, <1>9, <1>10, <1>11 DEF Ind

\* The end of a client process ends its executor threads.
LEMMA FewerThreads ==
  ASSUME Ind, threads' \subseteq threads, UNCHANGED <<commands, results, deliveries, outcome, unmarked>>
  PROVE  ThreadPart'
  <1>1. ThreadInv'
    BY DEF Ind, ThreadPart, ThreadInv
  <1>2. ResultInv'
    BY DEF Ind, ThreadPart, ResultInv
  <1>3. QED
    BY <1>1, <1>2 DEF ThreadPart

\* A client process ends with its threads.
LEMMA StopInd ==
  ASSUME Ind, NEW p \in PC, Stop(p)
  PROVE  Ind'
  <1>1. /\ poll' = Abandoned(p)
        /\ threads' \subseteq threads
        /\ UNCHANGED <<registered, commands, lastId, request, results, deliveries, outcome, unmarked>>
    BY DEF Stop, serverVars
  <1>2. poll' \in [Handler -> Poll] /\ PollPart' /\ ReceiptInv'
    BY <1>1, AbandonedParts
  <1>3. faults' \in 0..MaxFaults
    BY DispatchAssumption DEF Stop, Fault, Ind, TypeOK
  <1>4. TypeOK'
    BY <1>1, <1>2, <1>3 DEF Stop, Ind, TypeOK
  <1>5. RowPart' /\ RequestPart'
    BY <1>1, Frame
  <1>6. QED
    BY <1>1, <1>2, <1>4, <1>5, FewerThreads DEF Ind

\* A client stops waiting for the answer to its poll.
LEMMA GiveUpInd ==
  ASSUME Ind, NEW p \in PC, ReadTimeout(p) \/ ConnectionError(p)
  PROVE  Ind'
  <1>1. /\ poll' = Abandoned(p)
        /\ UNCHANGED <<registered, commands, lastId, request, fresh, halting, threads,
                       results, deliveries, outcome, unmarked>>
    BY DEF ReadTimeout, ConnectionError, serverVars, clientVars
  <1>2. poll' \in [Handler -> Poll] /\ PollPart' /\ ReceiptInv'
    BY <1>1, AbandonedParts
  <1>3. faults' \in 0..MaxFaults /\ mode' \in [PC -> {"down", "polling", "offline"}]
    BY DispatchAssumption DEF ReadTimeout, ConnectionError, Fault, Ind, TypeOK, clientVars
  <1>4. TypeOK'
    BY <1>1, <1>2, <1>3 DEF Ind, TypeOK
  <1>5. QED
    BY <1>1, <1>2, <1>4, Frame DEF Ind

\* Steps that change only what the machine is doing.
LEMMA MachineInd ==
  ASSUME Ind, NEW p \in PC, LocalShutdown(p) \/ Start(p) \/ GraceEnds(p)
  PROVE  Ind'
  <1>1. UNCHANGED <<registered, commands, lastId, request, poll, threads, results,
                    deliveries, outcome, unmarked>>
    BY DEF LocalShutdown, Start, GraceEnds, serverVars
  <1>2. /\ faults' \in 0..MaxFaults
        /\ mode' \in [PC -> {"down", "polling", "offline"}]
        /\ fresh' \subseteq PC /\ halting' \subseteq PC
    BY DispatchAssumption DEF LocalShutdown, Start, GraceEnds, Fault, Ind, TypeOK
  <1>3. TypeOK'
    BY <1>1, <1>2 DEF Ind, TypeOK
  <1>4. QED
    BY <1>1, <1>3, Frame DEF Ind

\* Every step of a client's poll loop and process keeps the inductive invariant.
LEMMA ClientInd ==
  ASSUME Ind, ClientNext
  PROVE  Ind'
  <1>1. CASE \E p \in PC, h \in Handler : StartPoll(p, h)
    BY <1>1, StartPollInd
  <1>2. CASE \E p \in PC, h \in Handler : Receive(p, h)
    BY <1>2, ReceiveNothingInd, ReceiveCommandInd
  <1>3. CASE \E p \in PC : ReadTimeout(p) \/ ConnectionError(p)
    BY <1>3, GiveUpInd
  <1>4. CASE \E p \in PC : Stop(p)
    BY <1>4, StopInd
  <1>5. CASE \E p \in PC : LocalShutdown(p) \/ Start(p) \/ GraceEnds(p)
    BY <1>5, MachineInd
  <1>6. QED
    BY <1>1, <1>2, <1>3, <1>4, <1>5 DEF ClientNext

-----------------------------------------------------------------------------
(* The executor threads and their results *)

\* What the invariant says about one executor thread.
LEMMA ThreadFacts ==
  ASSUME Ind, NEW t \in threads
  PROVE  /\ t \in Thread /\ t.cmd \in Command /\ t.pc \in PC
         /\ Received(t.cmd) /\ Existed(t.cmd)
         /\ t.pc = commands[t.cmd].pc
         /\ unmarked[t.cmd] = 0 => t.nth = 1 /\ commands[t.cmd].status # "pending"
         /\ ThreadInv!(t)
  <1>1. t \in Thread /\ t.cmd \in Command /\ t.pc \in PC
    BY DEF Ind, TypeOK, Thread
  <1>2. ThreadInv!(t)
    BY DEF Ind, ThreadPart, ThreadInv
  <1>3. /\ t.nth \in Nat /\ deliveries[t.cmd][t.pc] \in Nat /\ unmarked[t.cmd] \in Nat
        /\ deliveries[t.cmd][t.pc] # 0
    BY <1>1, <1>2 DEF Ind, TypeOK, Thread
  <1>4. Received(t.cmd) /\ Existed(t.cmd)
    BY <1>1, <1>3 DEF Ind, RowPart, UnusedInv, Received
  <1>5. /\ t.pc = commands[t.cmd].pc
        /\ deliveries[t.cmd][t.pc] <= 1 + unmarked[t.cmd]
    BY <1>1, <1>3 DEF Ind, RowPart, RepeatsAreUnmarked
  <1>6. unmarked[t.cmd] = 0 => t.nth = 1 /\ commands[t.cmd].status # "pending"
    <2> SUFFICES ASSUME unmarked[t.cmd] = 0
                 PROVE  t.nth = 1 /\ commands[t.cmd].status # "pending"
      OBVIOUS
    <2>1. t.nth = 1
      BY <1>2, <1>3, <1>5
    <2>2. commands[t.cmd].status # "pending"
      BY <1>1, <1>3 DEF Ind, ReceiptInv, Paid
    <2>3. QED
      BY <2>1, <2>2
  <1>7. QED
    BY <1>1, <1>2, <1>4, <1>5, <1>6

\* An executor thread comes to its outcome, the only one of a command that was
\* always marked.
LEMMA EndRunInd ==
  ASSUME Ind, NEW t \in threads, NEW o \in Outcome, EndRun(t, o),
         halting' \subseteq PC
  PROVE  Ind'
  <1> DEFINE c == t.cmd
             new == [t EXCEPT !.at = "report", !.outcome = o]
  <1>1. /\ t.at = "new"
        /\ threads' = (threads \ {t}) \cup {new}
        /\ outcome' = [outcome EXCEPT ![c] = @ \cup {o}]
        /\ UNCHANGED <<registered, commands, lastId, request, poll, mode, fresh,
                       results, deliveries, unmarked, faults>>
    BY DEF EndRun, Replace, serverVars
  <1>2. /\ t \in Thread /\ c \in Command /\ Received(c) /\ Existed(c)
        /\ ThreadInv!(t)
        /\ unmarked[c] = 0 => t.nth = 1
    BY ThreadFacts
  <1>3. /\ new \in Thread /\ new.at = "report" /\ new.outcome = o
        /\ new.cmd = c /\ new.pc = t.pc /\ new.nth = t.nth /\ new.tries = t.tries
    BY <1>2 DEF Thread
  <1> HIDE DEF c, new
  <1>4. /\ outcome' \in [Command -> SUBSET Outcome]
        /\ outcome'[c] = outcome[c] \cup {o}
        /\ \A d \in Command : outcome[d] \subseteq outcome'[d]
        /\ \A d \in Command \ {c} : outcome'[d] = outcome[d]
    BY <1>1, <1>2 DEF Ind, TypeOK, Outcome, c
  <1>5. TypeOK'
    BY <1>1, <1>3, <1>4 DEF Ind, TypeOK
  <1>6. ReceiptInv'
    BY <1>1, <1>2, <1>4 DEF Ind, ReceiptInv, Paid, Received, InHand
  <1>7. RowPart'
    <2>1. UnusedInv'
      BY <1>1, <1>2, <1>4 DEF Ind, RowPart, UnusedInv, Existed
    <2>2. RepeatsAreUnmarked'
      BY <1>1 DEF Ind, RowPart, RepeatsAreUnmarked
    <2>3. TruthfulStatus'
      BY <1>1, <1>4 DEF Ind, RowPart, TruthfulStatus
    <2>4. OrderInv'
      BY <1>1 DEF Ind, RowPart, OrderInv, Existed, Received
    <2>5. QED
      BY <2>1, <2>2, <2>3, <2>4 DEF RowPart
  <1>8. ThreadPart'
    <2>1. ThreadInv'
      <3> SUFFICES ASSUME NEW u \in threads' PROVE ThreadInv!(u)'
        BY DEF ThreadInv
      <3>1. \A w \in threads \ {t} : /\ w.cmd \in Command
                                   /\ ~(w.cmd = c /\ w.nth = t.nth)
                                   /\ unmarked[c] = 0 => w.cmd # c
        BY <1>2, ThreadFacts DEF c
      <3>2. CASE u = new
        BY <3>1, <3>2, <1>1, <1>2, <1>3, <1>4 DEF c
      <3>3. CASE u \in threads \ {t}
        <4>1. ThreadInv!(u)
          BY <3>3 DEF Ind, ThreadPart, ThreadInv
        <4>a. u \in threads /\ u # t
          BY <3>3
        <4>b. ThreadInv!(t) /\ t \in threads
          BY <1>2
        <4>0. /\ u.cmd \in Command
              /\ u.cmd # c \/ (u.nth # t.nth /\ unmarked[c] # 0)
          <5>1. u.cmd \in Command /\ (unmarked[u.cmd] = 0 => u.nth = 1)
            BY <4>a, ThreadFacts
          <5>2. u.cmd = c => u.nth # t.nth
            BY <4>a, <4>b DEF c
          <5>3. QED
            BY <5>1, <5>2, <1>2
        <4>2. unmarked[u.cmd] = 0 => outcome'[u.cmd] = outcome[u.cmd]
          <5>1. CASE u.cmd = c
            BY <5>1, <4>0
          <5>2. CASE u.cmd # c
            BY <5>2, <4>0, <1>4
          <5>3. QED
            BY <5>1, <5>2
        <4>3. outcome[u.cmd] \subseteq outcome'[u.cmd]
          BY <4>0, <1>4
        <4>4. \A w \in threads' : w.cmd = u.cmd /\ w.nth = u.nth => w = u
          BY <4>0, <4>a, <4>1, <1>1, <1>3
        <4>5. QED
          BY <4>1, <4>2, <4>3, <4>4, <1>1
      <3>4. QED
        BY <3>2, <3>3, <1>1
    <2>2. ResultInv'
      BY <1>1, <1>4 DEF Ind, TypeOK, ThreadPart, ResultInv, Result, Outcome
    <2>3. QED
      BY <2>1, <2>2 DEF ThreadPart
  <1>9. PollPart' /\ RequestPart'
    BY <1>1, Frame
  <1>10. QED
    BY <1>5, <1>6, <1>7, <1>8, <1>9 DEF Ind

\* A result is posted.
LEMMA PostResultInd ==
  ASSUME Ind, NEW t \in threads, PostResult(t)
  PROVE  Ind'
  <1> DEFINE c == t.cmd
             new == [t EXCEPT !.at = "await", !.tries = @ + 1]
             m == [pc |-> t.pc, cmd |-> c, nth |-> t.nth, outcome |-> t.outcome,
                   try |-> t.tries + 1, at |-> "sent"]
  <1>1. /\ t.at = "report"
        /\ threads' = (threads \ {t}) \cup {new}
        /\ results' = results \cup {m}
        /\ UNCHANGED <<registered, commands, lastId, request, poll, mode, fresh, halting,
                       deliveries, outcome, unmarked, faults>>
    BY DEF PostResult, Replace, serverVars, clientVars
  <1>2. t \in Thread /\ c \in Command /\ ThreadInv!(t)
    BY ThreadFacts
  <1>3. /\ t.tries \in 0..MaxTries /\ t.tries < MaxTries /\ MaxTries \in Nat
        /\ t.tries + 1 \in 1..MaxTries /\ t.tries + 1 \in 0..MaxTries
    BY <1>1, <1>2, DispatchAssumption DEF Thread
  <1>4. /\ new \in Thread /\ new.at = "await" /\ new.outcome = t.outcome
        /\ new.cmd = c /\ new.pc = t.pc /\ new.nth = t.nth
    <2> DEFINE n == t.tries + 1
    <2>1. n \in 0..MaxTries
      BY <1>3
    <2> HIDE DEF n
    <2>2. [t EXCEPT !.at = "await", !.tries = n] \in Thread
      BY <1>2, <2>1 DEF Thread
    <2>3. new = [t EXCEPT !.at = "await", !.tries = n]
      BY <1>2 DEF n, Thread
    <2>4. QED
      BY <1>2, <2>2, <2>3 DEF Thread
  <1>5. /\ m \in Result /\ m.cmd = c /\ m.outcome = t.outcome /\ m.at = "sent"
    <2>1. t.outcome \in Outcome
      BY <1>1, <1>2 DEF Ind, TypeOK
    <2>2. QED
      BY <1>2, <1>3, <2>1 DEF Thread, Result
  <1> HIDE DEF new, m, c
  <1>6. TypeOK'
    BY <1>1, <1>4, <1>5 DEF Ind, TypeOK
  <1>7. ThreadInv'
    <2> SUFFICES ASSUME NEW u \in threads' PROVE ThreadInv!(u)'
      BY DEF ThreadInv
    <2>1. \A w \in threads \ {t} : ~(w.cmd = c /\ w.nth = t.nth)
      BY <1>2, ThreadFacts DEF c
    <2>2. CASE u = new
      BY <2>1, <2>2, <1>1, <1>2, <1>4 DEF c
    <2>3. CASE u \in threads \ {t}
      <3>1. ThreadInv!(u)
        BY <2>3 DEF Ind, ThreadPart, ThreadInv
      <3>2. QED
        BY <2>1, <2>3, <3>1, <1>1, <1>4
    <2>4. QED
      BY <2>2, <2>3, <1>1
  <1>8. ResultInv'
    BY <1>1, <1>2, <1>5 DEF Ind, ThreadPart, ResultInv, c
  <1>9. QED
    BY <1>1, <1>6, <1>7, <1>8, Frame DEF Ind, ThreadPart

\* Threads whose attempt failed try again or end.
LEMMA RetryThreads ==
  ASSUME Ind, NEW S \in SUBSET threads, \A t \in S : t.at = "await",
         \A u \in threads' : u \in threads \ S \/ \E t \in S : u \in TryAgain(t),
         UNCHANGED <<deliveries, outcome, unmarked>>
  PROVE  threads' \subseteq Thread /\ ThreadInv'
  <1>1. \A u \in threads' :
          \/ u \in threads \ S
          \/ \E t \in S : t.tries < MaxTries /\ u = [t EXCEPT !.at = "report"]
    BY DEF TryAgain
  <1>2. \A t \in threads : t \in Thread /\ ThreadInv!(t)
    BY ThreadFacts
  <1>3. \A t \in Thread : LET u == [t EXCEPT !.at = "report"]
                          IN  /\ u \in Thread /\ u.at = "report" /\ u.pc = t.pc
                              /\ u.cmd = t.cmd /\ u.nth = t.nth
                              /\ u.outcome = t.outcome /\ u.tries = t.tries
    BY DEF Thread
  <1>4. \A u \in threads' : \E t \in threads :
          /\ u \in Thread /\ u.pc = t.pc /\ u.cmd = t.cmd /\ u.nth = t.nth
          /\ u.outcome = t.outcome
          /\ u.at = "new" <=> t.at = "new"
          /\ u.at \in {"new", "report"} => u.tries < MaxTries
          /\ t \in S => u = [t EXCEPT !.at = "report"]
          /\ t \notin S => u = t
    <2> SUFFICES ASSUME NEW u \in threads'
                 PROVE  \E t \in threads :
                          /\ u \in Thread /\ u.pc = t.pc /\ u.cmd = t.cmd
                          /\ u.nth = t.nth
                          /\ u.outcome = t.outcome
                          /\ u.at = "new" <=> t.at = "new"
                          /\ u.at \in {"new", "report"} => u.tries < MaxTries
                          /\ t \in S => u = [t EXCEPT !.at = "report"]
                          /\ t \notin S => u = t
      OBVIOUS
    <2>1. CASE u \in threads \ S
      BY <2>1, <1>2
    <2>2. CASE \E t \in S : t.tries < MaxTries /\ u = [t EXCEPT !.at = "report"]
      BY <2>2, <1>2, <1>3
    <2>3. QED
      BY <2>1, <2>2, <1>1
  <1>5. ThreadInv'
    <2> SUFFICES ASSUME NEW u \in threads' PROVE ThreadInv!(u)'
      BY DEF ThreadInv
    <2>1. PICK t \in threads :
            /\ u.pc = t.pc /\ u.cmd = t.cmd /\ u.nth = t.nth /\ u.outcome = t.outcome
            /\ u.at = "new" <=> t.at = "new"
            /\ u.at \in {"new", "report"} => u.tries < MaxTries
            /\ t \in S => u = [t EXCEPT !.at = "report"]
            /\ t \notin S => u = t
      BY <1>4
    <2>2. ThreadInv!(t)
      BY <1>2
    <2>3. ASSUME NEW w \in threads', w.cmd = u.cmd, w.nth = u.nth
          PROVE  w = u
      <3>1. PICK v \in threads : /\ w.cmd = v.cmd /\ w.nth = v.nth
                                 /\ v \in S => w = [v EXCEPT !.at = "report"]
                                 /\ v \notin S => w = v
        BY <1>4
      <3>2. v = t
        BY <2>1, <2>2, <2>3, <3>1
      <3>3. QED
        BY <2>1, <3>1, <3>2
    <2>4. QED
      BY <2>1, <2>2, <2>3
  <1>6. QED
    BY <1>4, <1>5

\* Some attempts of executor threads fail; what the results say stays true.
LEMMA LoseResultInd ==
  ASSUME Ind, NEW t \in threads, LoseResult(t)
  PROVE  Ind'
  <1>1. /\ t.at = "await"
        /\ threads' = (threads \ {t}) \cup TryAgain(t)
        /\ results' \subseteq results
        /\ UNCHANGED <<registered, commands, lastId, request, poll, mode, fresh, halting,
                       deliveries, outcome, unmarked>>
    BY DEF LoseResult, Replace, serverVars, clientVars
  <1>2. threads' \subseteq Thread /\ ThreadInv'
    <2> DEFINE S == {t}
    <2>1. \A u \in threads' : u \in threads \ S \/ \E w \in S : u \in TryAgain(w)
      BY <1>1
    <2>2. S \in SUBSET threads /\ \A w \in S : w.at = "await"
      BY <1>1
    <2> HIDE DEF S
    <2>3. QED
      BY <1>1, <2>1, <2>2, RetryThreads
  <1>3. ResultInv'
    BY <1>1 DEF Ind, ThreadPart, ResultInv
  <1>4. faults' \in 0..MaxFaults
    BY DispatchAssumption DEF LoseResult, Fault, Ind, TypeOK
  <1>5. TypeOK'
    BY <1>1, <1>2, <1>4 DEF Ind, TypeOK
  <1>6. QED
    BY <1>1, <1>2, <1>3, <1>5, Frame DEF Ind, ThreadPart

\* The server's answer to a result ends or repeats the attempt.
LEMMA AnswerThreads ==
  ASSUME Ind, NEW m, NEW ok \in BOOLEAN, Answer(m, ok), UNCHANGED <<deliveries, outcome, unmarked>>
  PROVE  threads' \subseteq Thread /\ ThreadInv'
  <1> DEFINE S == {u \in threads : AwaitedBy(u, m)}
  <1>1. \A u \in S : u.at = "await"
    BY DEF AwaitedBy
  <1>2. {t \in threads : ~AwaitedBy(t, m)} = threads \ S
    OBVIOUS
  <1>3. CASE ok = TRUE
    <2>1. threads' \subseteq threads
      BY <1>2, <1>3 DEF Answer
    <2>2. QED
      BY <2>1 DEF Ind, TypeOK, ThreadPart, ThreadInv
  <1>4. CASE ok = FALSE
    <2>1. \A u \in threads' : u \in threads \ S \/ \E t \in S : u \in TryAgain(t)
      BY <1>2, <1>4 DEF Answer
    <2> HIDE DEF S
    <2>2. S \in SUBSET threads
      BY DEF S
    <2>3. QED
      BY <1>1, <2>1, <2>2, RetryThreads
  <1>5. QED
    BY <1>3, <1>4

\* The SELECT of a result handler.
LEMMA FindCommandInd ==
  ASSUME Ind, NEW m \in results, FindCommand(m)
  PROVE  Ind'
  <1>1. UNCHANGED <<registered, commands, lastId, request, poll, mode, fresh, halting,
                    deliveries, outcome, unmarked, faults>>
    BY DEF FindCommand, serverVars, clientVars
  <1>2. m \in Result
    BY DEF Ind, TypeOK
  <1>3. CASE commands[m.cmd].status = "absent"
    <2>1. results' \subseteq results /\ Answer(m, FALSE)
      BY <1>3 DEF FindCommand
    <2>2. threads' \subseteq Thread /\ ThreadInv'
      BY <1>1, <2>1, AnswerThreads
    <2>3. ResultInv'
      BY <1>1, <2>1 DEF Ind, ThreadPart, ResultInv
    <2>4. TypeOK'
      BY <1>1, <2>1, <2>2 DEF Ind, TypeOK
    <2>5. QED
      BY <1>1, <2>2, <2>3, <2>4, Frame DEF Ind, ThreadPart
  <1>4. CASE commands[m.cmd].status # "absent"
    <2> DEFINE found == [m EXCEPT !.at = "found"]
    <2>1. /\ results' = (results \ {m}) \cup {found}
          /\ UNCHANGED threads
      BY <1>4 DEF FindCommand
    <2>2. found \in Result /\ found.cmd = m.cmd /\ found.outcome = m.outcome
      BY <1>2 DEF Result
    <2> HIDE DEF found
    <2>3. TypeOK'
      BY <1>1, <2>1, <2>2 DEF Ind, TypeOK
    <2>4. ThreadInv'
      BY <1>1, <2>1 DEF Ind, ThreadPart, ThreadInv
    <2>5. ResultInv'
      BY <1>1, <1>4, <2>1, <2>2 DEF Ind, ThreadPart, ResultInv
    <2>6. QED
      BY <1>1, <2>3, <2>4, <2>5, Frame DEF Ind, ThreadPart
  <1>5. QED
    BY <1>3, <1>4

\* The status a posted result ends in is the one the client came to.
LEMMA FinalStatusIsTrue ==
  ASSUME NEW o \in Outcome
  PROVE  /\ FinalStatus(PostedStatus(o)) \in {"completed", "error"}
         /\ FinalStatus(PostedStatus(o)) = "completed" <=> o \in {"completed", "skipped"}
         /\ FinalStatus(PostedStatus(o)) = "error" <=> o = "error"
  BY DEF Outcome, PostedStatus, FinalStatus

\* A result that was posted belongs to a command that was received.
LEMMA ResultFacts ==
  ASSUME Ind, NEW m \in results
  PROVE  /\ m \in Result /\ m.cmd \in Command /\ m.outcome \in Outcome
         /\ m.outcome \in outcome[m.cmd]
         /\ Received(m.cmd) /\ Existed(m.cmd)
  <1>1. m \in Result /\ m.cmd \in Command /\ m.outcome \in Outcome
    BY DEF Ind, TypeOK, Result
  <1>2. m.outcome \in outcome[m.cmd]
    BY DEF Ind, ThreadPart, ResultInv
  <1>3. Received(m.cmd) /\ Existed(m.cmd)
    BY <1>1, <1>2 DEF Ind, ReceiptInv, RowPart, UnusedInv
  <1>4. QED
    BY <1>1, <1>2, <1>3

\* The UPDATE of a result handler: what it writes is an outcome of the command.
LEMMA RecordResultInd ==
  ASSUME Ind, NEW m \in results, RecordResult(m)
  PROVE  Ind'
  <1> DEFINE c == m.cmd
             s == FinalStatus(PostedStatus(m.outcome))
  <1>1. /\ m.at = "found"
        /\ commands' = WithStatus(c, s)
        /\ results' = results \ {m}
        /\ Answer(m, commands[c].status # "absent")
        /\ UNCHANGED <<registered, lastId, request, poll, mode, fresh, halting,
                       deliveries, outcome, unmarked, faults>>
    BY DEF RecordResult, clientVars
  <1>2. /\ c \in Command /\ m.outcome \in Outcome /\ m.outcome \in outcome[c]
        /\ Received(c) /\ Existed(c)
    BY ResultFacts
  <1>3. /\ s \in {"completed", "error"} /\ s \in Status
        /\ s = "completed" => outcome[c] \cap {"completed", "skipped"} # {}
        /\ s = "error" => "error" \in outcome[c]
    BY <1>2, FinalStatusIsTrue DEF Status
  <1> HIDE DEF c, s
  <1>t. TypeOK
    BY DEF Ind
  <1>4. /\ commands' \in [Command -> Row]
        /\ \A d \in Command \ {c} : commands'[d] = commands[d]
        /\ commands'[c].pc = commands[c].pc
        /\ commands'[c].priority = commands[c].priority
        /\ commands'[c].status \in {"absent", s}
        /\ commands'[c].status = "absent" <=> commands[c].status = "absent"
    BY <1>1, <1>2, <1>3, <1>t, WithStatusEffect
  <1>5. \A d \in Command :
          /\ commands'[d].pc = commands[d].pc
          /\ commands'[d].priority = commands[d].priority
          /\ commands'[d].status = "pending" => d # c /\ commands[d].status = "pending"
          /\ commands'[d].status = "absent" <=> commands[d].status = "absent"
    BY <1>3, <1>4
  <1>6. threads' \subseteq Thread /\ ThreadInv'
    BY <1>1, AnswerThreads
  <1>7. TypeOK'
    BY <1>1, <1>4, <1>6 DEF Ind, TypeOK
  <1>8. PollPart'
    <2>1. PollInv'
      <3> SUFFICES ASSUME NEW k \in Handler PROVE PollInv!(k)'
        BY DEF PollInv
      <3>1. PollInv!(k)
        BY DEF Ind, PollPart, PollInv
      <3>2. poll[k].cmd # NoCommand => poll[k].cmd \in Command
        BY DEF Ind, TypeOK, Poll
      <3>3. QED
        BY <3>1, <3>2, <1>1, <1>5 DEF Existed
    <2>2. OneLivePoll'
      BY <1>1 DEF Ind, PollPart, OneLivePoll
    <2>3. NoOvertaking'
      <3> SUFFICES ASSUME NEW e \in Command, NEW d \in Command, d < e, Existed(e)',
                          commands'[d].pc = commands'[e].pc,
                          commands'[d].priority <= commands'[e].priority,
                          commands'[d].status = "pending"
                   PROVE  commands'[e].status = "pending" /\ ~Held(e)'
        BY DEF NoOvertaking
      <3>1. /\ Existed(e) /\ commands[d].pc = commands[e].pc
            /\ commands[d].priority <= commands[e].priority
            /\ commands[d].status = "pending"
        BY <1>1, <1>5 DEF Existed
      <3>2. commands[e].status = "pending" /\ ~Held(e) /\ ~Received(e)
        BY <3>1 DEF Ind, PollPart, NoOvertaking, RowPart, OrderInv
      <3>3. e # c
        BY <3>2, <1>2
      <3>4. QED
        BY <3>2, <3>3, <1>1, <1>4 DEF Held, InHand
    <2>4. QED
      BY <2>1, <2>2, <2>3 DEF PollPart
  <1>9. ReceiptInv'
    BY <1>1, <1>5 DEF Ind, ReceiptInv, Paid, Received, InHand
  <1>10. RowPart'
    <2>1. UnusedInv'
      BY <1>1, <1>5 DEF Ind, RowPart, UnusedInv, Existed
    <2>2. RepeatsAreUnmarked'
      BY <1>1, <1>5 DEF Ind, RowPart, RepeatsAreUnmarked
    <2>3. TruthfulStatus'
      BY <1>1, <1>3, <1>4 DEF Ind, RowPart, TruthfulStatus
    <2>4. OrderInv'
      BY <1>1, <1>5 DEF Ind, RowPart, OrderInv, Existed, Received
    <2>5. QED
      BY <2>1, <2>2, <2>3, <2>4 DEF RowPart
  <1>11. RequestPart'
    BY <1>1, <1>5 DEF Ind, RequestPart, RequestInv, ClearedStayCleared
  <1>12. ResultInv'
    <2>1. \A r \in results : r.cmd \in Command
      BY ResultFacts
    <2>2. QED
      BY <2>1, <1>1, <1>5 DEF Ind, ThreadPart, ResultInv
  <1>13. QED
    BY <1>6, <1>7, <1>8, <1>9, <1>10, <1>11, <1>12 DEF Ind, ThreadPart

\* A statement of a result handler fails: its client tries again or gives up.
LEMMA ResultFailsInd ==
  ASSUME Ind, NEW m \in results, ResultFails(m)
  PROVE  Ind'
  <1>1. /\ results' \subseteq results /\ Answer(m, FALSE)
        /\ UNCHANGED <<registered, commands, lastId, request, poll, mode, fresh, halting,
                       deliveries, outcome, unmarked>>
    BY DEF ResultFails, serverVars, clientVars
  <1>2. threads' \subseteq Thread /\ ThreadInv'
    BY <1>1, AnswerThreads
  <1>3. ResultInv'
    BY <1>1 DEF Ind, ThreadPart, ResultInv
  <1>4. faults' \in 0..MaxFaults
    BY DispatchAssumption DEF ResultFails, Fault, Ind, TypeOK
  <1>5. TypeOK'
    BY <1>1, <1>2, <1>4 DEF Ind, TypeOK
  <1>6. QED
    BY <1>1, <1>2, <1>3, <1>5, Frame DEF Ind, ThreadPart

\* Every step of an executor thread or of a result handler keeps it.
LEMMA ThreadNextInd ==
  ASSUME Ind, ThreadNext \/ ResultNext
  PROVE  Ind'
  <1>1. CASE \E t \in threads : Skip(t) \/ Execute(t) \/ Raise(t)
    <2>1. PICK t \in threads : Skip(t) \/ Execute(t) \/ Raise(t)
      BY <1>1
    <2>2. halting \subseteq PC /\ t.pc \in PC
      BY ThreadFacts DEF Ind, TypeOK
    <2>3. CASE Skip(t)
      BY <2>2, <2>3, EndRunInd DEF Skip, Outcome
    <2>4. CASE Execute(t)
      BY <2>2, <2>4, EndRunInd DEF Execute, Outcome
    <2>5. CASE Raise(t)
      BY <2>2, <2>5, EndRunInd DEF Raise, Outcome
    <2>6. QED
      BY <2>1, <2>3, <2>4, <2>5
  <1>2. CASE \E t \in threads : PostResult(t) \/ LoseResult(t)
    BY <1>2, PostResultInd, LoseResultInd
  <1>3. CASE \E m \in results : FindCommand(m) \/ RecordResult(m) \/ ResultFails(m)
    BY <1>3, FindCommandInd, RecordResultInd, ResultFailsInd
  <1>4. QED
    BY <1>1, <1>2, <1>3 DEF ThreadNext, ResultNext

-----------------------------------------------------------------------------
(* Theorems *)

\* Ind is an invariant of the dispatch of commands.
THEOREM Invariant == Spec => []Ind
  <1>1. Init => Ind
    BY InitInd
  <1>2. Ind /\ [Next]_vars => Ind'
    <2> SUFFICES ASSUME Ind, [Next]_vars PROVE Ind'
      OBVIOUS
    <2>1. CASE AdminNext
      BY <2>1, AdminInd
    <2>2. CASE PollNext
      BY <2>2, HandlerInd DEF PollNext
    <2>3. CASE ClientNext
      BY <2>3, ClientInd
    <2>4. CASE ThreadNext \/ ResultNext
      BY <2>4, ThreadNextInd
    <2>5. CASE UNCHANGED vars
      BY <2>5, Frame DEF vars, Ind, TypeOK
    <2>6. QED
      BY <2>1, <2>2, <2>3, <2>4, <2>5 DEF Next
  <1>3. QED
    BY <1>1, <1>2, PTL DEF Spec

\* Every variable keeps its type, whatever the number of PCs, handlers,
\* administrators, commands and faults.
THEOREM TypeCorrect == Spec => []TypeOK
  BY Invariant, PTL DEF Ind

\* No client receives a command of another PC, and none receives one more often than
\* once and once for each of its answers that went out without the row being marked.
THEOREM RepeatsAreCounted == Spec => []RepeatsAreUnmarked
  <1>1. Ind => RepeatsAreUnmarked
    BY DEF Ind, RowPart
  <1>2. QED
    BY <1>1, Invariant, PTL

\* What a client received is out of the queue for good, unless each reception so far
\* came with an answer whose UPDATE failed.
THEOREM OutOfTheQueue == Spec => []ReceivedLeftQueue
  <1>1. Ind => ReceivedLeftQueue
    BY DEF Ind, ReceiptInv, Paid, ReceivedLeftQueue
  <1>2. QED
    BY <1>1, Invariant, PTL

\* Commands leave the queue in the order of their priorities and ids.
THEOREM InOrder == Spec => []NoOvertaking
  <1>1. Ind => NoOvertaking
    BY DEF Ind, PollPart
  <1>2. QED
    BY <1>1, Invariant, PTL

\* A final status in the table is how the client ended the command.
THEOREM ResultsAreTrue == Spec => []TruthfulStatus
  <1>1. Ind => TruthfulStatus
    BY DEF Ind, RowPart, ThreadPart
  <1>2. QED
    BY <1>1, Invariant, PTL

\* The row that submit_command_result found is still there when it writes the result,
\* unless its command was given out without being marked.
THEOREM RowsStay == Spec => []FoundRowStays
  <1>1. Ind => FoundRowStays
    BY DEF Ind, RowPart, ThreadPart, ResultInv, FoundRowStays
  <1>2. QED
    BY <1>1, Invariant, PTL

\* A clear request leaves nothing behind of what it found.
THEOREM ClearsForGood == Spec => []ClearedStayCleared
  <1>1. Ind => ClearedStayCleared
    BY DEF Ind, RequestPart
  <1>2. QED
    BY <1>1, Invariant, PTL

-----------------------------------------------------------------------------
(* A command that was cleared in time is never delivered *)

\* What keeps a dead command dead.
LEMMA StayDead ==
  ASSUME NEW c \in Command, Dead(c), Existed(c)', commands'[c].status = "absent",
         Held(c)' => Held(c), deliveries'[c] = deliveries[c]
  PROVE  Dead(c)' /\ deliveries'[c] = deliveries[c]
  BY DEF Dead

\* Requests insert rows with new ids and delete rows: the dead stay dead.
LEMMA AdminDead ==
  ASSUME Ind, AdminNext, NEW c \in Command, Dead(c)
  PROVE  Dead(c)' /\ deliveries'[c] = deliveries[c]
  <1>1. /\ UNCHANGED <<poll, deliveries>>
        /\ lastId' \in Nat /\ lastId <= lastId' /\ lastId \in Nat
        /\ commands'[c].status = "absent"
    <2> USE DEF Dead, Existed, Ind, TypeOK, clientVars
    <2>1. CASE \E a \in Admin, op \in {"insert", "clear"}, ps \in SUBSET PC,
                  prio \in Priority, t \in CommandType : Accept(a, op, ps, prio, t)
      BY <2>1, DispatchAssumption DEF Accept
    <2>2. CASE \E a \in Admin, p \in PC : InsertCommand(a, p)
      BY <2>2, DispatchAssumption DEF InsertCommand, Inserted, NextId, Command
    <2>3. CASE \E a \in Admin, p \in PC : DeletePending(a, p)
      BY <2>3, DispatchAssumption DEF DeletePending, PendingDeleted, Pending
    <2>4. CASE (\E a \in Admin : Respond(a)) \/ \E p \in PC : DeletePC(p)
      BY <2>4, DispatchAssumption DEF Respond, DeletePC
    <2>5. CASE \E a \in Admin, p \in PC : StatementFails(a, p)
      BY <2>5, DispatchAssumption DEF StatementFails
    <2>6. QED
      BY <2>1, <2>2, <2>3, <2>4, <2>5, SomeConstants, DispatchAssumption
         DEF AdminNext, SendCommand, BulkCommand, ClearCommands
  <1>2. QED
    BY <1>1, StayDead, DispatchAssumption DEF Existed, Held, InHand, Dead, Command

\* A poll that takes no command leaves the dead alone.
LEMMA EmptyHandedDead ==
  ASSUME Ind, NEW h \in Handler, NEW from \in {"arrived", "looking"},
         NEW to \in {"looking", "answered"}, PollMove(h, from, to, NoCommand),
         UNCHANGED commands, NEW c \in Command, Dead(c)
  PROVE  Dead(c)' /\ deliveries'[c] = deliveries[c]
  <1>1. TypeOK /\ to \in {"looking", "picked", "answered"}
    BY DEF Ind
  <1>2. /\ poll'[h].at = to /\ poll'[h].cmd = NoCommand
        /\ \A k \in Handler \ {h} : poll'[k] = poll[k]
        /\ UNCHANGED <<lastId, deliveries>>
    BY <1>1 DEF TypeOK, PollMove, Poll
  <1>3. c # NoCommand
    BY DispatchAssumption DEF Command, NoCommand
  <1>4. Held(c)' => Held(c)
    BY <1>2, <1>3 DEF Held, InHand
  <1>5. QED
    BY <1>2, <1>4, StayDead DEF Dead, Existed

\* A long-poll picks pending commands only, and its UPDATE misses a deleted row.
LEMMA HandlerDead ==
  ASSUME Ind, NEW h \in Handler, HandlerStep(h) \/ HandlerFails(h),
         NEW c \in Command, Dead(c)
  PROVE  Dead(c)' /\ deliveries'[c] = deliveries[c]
  <1>0. TypeOK
    BY DEF Ind
  <1>1. CASE LookUpPC(h) \/ TurnAway(h) \/ PollExpires(h) \/ LookUpFails(h)
    BY <1>1, EmptyHandedDead DEF LookUpPC, TurnAway, PollExpires, LookUpFails, PollStep
  <1>2. CASE PickCommand(h)
    <2>1. PICK d \in Command : IsNext(d, poll[h].pc) /\ PollStep(h, "looking", "picked", d)
      BY <1>2 DEF PickCommand
    <2>2. /\ poll'[h].cmd = d
          /\ \A k \in Handler \ {h} : poll'[k] = poll[k]
          /\ UNCHANGED <<lastId, deliveries>>
      <3>1. d \in Command \cup {NoCommand}
        OBVIOUS
      <3>2. QED
        BY <1>0, <2>1, <3>1, PollStepEffect
    <2>3. d # c
      BY <2>1, NextIsFirst DEF Dead
    <2>4. Held(c)' => Held(c)
      BY <2>2, <2>3 DEF Held, InHand
    <2>5. UNCHANGED commands
      BY <1>2 DEF PickCommand
    <2>6. QED
      BY <2>2, <2>4, <2>5, StayDead DEF Dead, Existed
  <1>3. CASE StartExecution(h) \/ MarkFails(h)
    <2> DEFINE d == poll[h].cmd
    <2>1. d \in Command /\ poll[h].at = "picked" /\ PollMove(h, "picked", "answered", d)
      BY <1>3 DEF Ind, PollPart, PollInv, StartExecution, MarkFails, PollStep, PollMove
    <2>2. /\ poll'[h].cmd = d
          /\ \A k \in Handler \ {h} : poll'[k] = poll[k]
          /\ UNCHANGED <<lastId, deliveries>>
      BY <1>0, <2>1, PollMoveEffect
    <2>3. Held(c)' => Held(c)
      BY <2>1, <2>2 DEF Held, InHand
    <2>4. commands'[c].status = "absent"
      BY <1>0, <1>3, <2>1, WithStatusEffect DEF StartExecution, MarkFails, Status, Dead
    <2>5. QED
      BY <2>2, <2>3, <2>4, StayDead DEF Dead, Existed
  <1>4. CASE DropAnswer(h)
    <2>1. /\ \A k \in Handler \ {h} : poll'[k] = poll[k]
          /\ poll'[h].at = "idle"
          /\ UNCHANGED <<commands, lastId, deliveries>>
      BY <1>0, <1>4 DEF DropAnswer, serverVars, TypeOK, IdlePoll
    <2>2. Held(c)' => Held(c)
      BY <2>1 DEF Held, InHand
    <2>3. QED
      BY <2>1, <2>2, StayDead DEF Dead, Existed
  <1>5. QED
    BY <1>1, <1>2, <1>3, <1>4 DEF HandlerStep, HandlerFails

\* A client receives only what a handler holds.
LEMMA ClientDead ==
  ASSUME Ind, ClientNext, NEW c \in Command, Dead(c)
  PROVE  Dead(c)' /\ deliveries'[c] = deliveries[c]
  <1>1. UNCHANGED <<commands, lastId>>
    BY DEF ClientNext, StartPoll, Receive, ReadTimeout, ConnectionError, LocalShutdown,
           Stop, Start, GraceEnds, serverVars
  <1>2. (Held(c)' => Held(c)) /\ deliveries'[c] = deliveries[c]
    <2>1. CASE \E p \in PC, h \in Handler : StartPoll(p, h)
      BY <2>1 DEF StartPoll, Held, InHand, Ind, TypeOK
    <2>2. CASE \E p \in PC, h \in Handler : Receive(p, h)
      <3>1. PICK p \in PC, h \in Handler : Receive(p, h)
        BY <2>2
      <3>2. c # poll[h].cmd
        BY <3>1 DEF Receive, Dead, Held, InHand
      <3>3. deliveries'[c] = deliveries[c]
        BY <3>1, <3>2 DEF Receive, Ind, TypeOK
      <3>4. Held(c)' => Held(c)
        BY <3>1 DEF Receive, Held, InHand, Ind, TypeOK, IdlePoll
      <3>5. QED
        BY <3>3, <3>4
    <2>3. CASE \E p \in PC : poll' = Abandoned(p) /\ UNCHANGED deliveries
      BY <2>3 DEF Abandoned, Held, InHand, Ind, TypeOK, Poll
    <2>4. CASE UNCHANGED <<poll, deliveries>>
      BY <2>4 DEF Held, InHand
    <2>5. QED
      BY <2>1, <2>2, <2>3, <2>4 DEF ClientNext, ReadTimeout, ConnectionError, LocalShutdown,
                                    Stop, Start, GraceEnds
  <1>3. QED
    BY <1>1, <1>2, StayDead DEF Dead, Existed

\* The UPDATE of a result handler misses a deleted row.
LEMMA ThreadDead ==
  ASSUME Ind, ThreadNext \/ ResultNext, NEW c \in Command, Dead(c)
  PROVE  Dead(c)' /\ deliveries'[c] = deliveries[c]
  <1>1. UNCHANGED <<lastId, poll, deliveries>>
    BY DEF ThreadNext, ResultNext, Skip, Execute, Raise, EndRun, PostResult, LoseResult,
           FindCommand, RecordResult, ResultFails, serverVars
  <1>2. commands'[c].status = "absent"
    <2>1. CASE ThreadNext
      BY <2>1 DEF ThreadNext, Skip, Execute, Raise, EndRun, PostResult, LoseResult,
                  serverVars, Dead
    <2>2. CASE \E m \in results : FindCommand(m) \/ ResultFails(m)
      BY <2>2 DEF FindCommand, ResultFails, serverVars, Dead
    <2>3. CASE \E m \in results : RecordResult(m)
      BY <2>3 DEF RecordResult, WithStatus, Dead, Ind, TypeOK
    <2>4. QED
      BY <2>1, <2>2, <2>3 DEF ResultNext
  <1>3. QED
    BY <1>1, <1>2, StayDead DEF Dead, Existed, Held, InHand

\* Once a command is deleted and no handler holds it, no client ever gets it.
THEOREM ClearedInTime == Spec => DeadStayDead
  <1>1. ASSUME Ind, [Next]_vars
        PROVE  \A c \in Command : Dead(c) => Dead(c)' /\ deliveries'[c] = deliveries[c]
    <2> SUFFICES ASSUME NEW c \in Command, Dead(c)
                 PROVE  Dead(c)' /\ deliveries'[c] = deliveries[c]
      OBVIOUS
    <2>1. CASE AdminNext
      BY <1>1, <2>1, AdminDead
    <2>2. CASE PollNext
      BY <1>1, <2>2, HandlerDead DEF PollNext
    <2>3. CASE ClientNext
      BY <1>1, <2>3, ClientDead
    <2>4. CASE ThreadNext \/ ResultNext
      BY <1>1, <2>4, ThreadDead
    <2>5. CASE UNCHANGED vars
      BY <2>5, StayDead DEF vars, Dead, Existed, Held, InHand
    <2>6. QED
      BY <1>1, <2>1, <2>2, <2>3, <2>4, <2>5 DEF Next
  <1>2. QED
    BY <1>1, Invariant, PTL DEF Spec, DeadStayDead
=============================================================================
