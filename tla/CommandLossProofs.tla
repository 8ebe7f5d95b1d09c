-------------------------- MODULE CommandLossProofs --------------------------
(***************************************************************************)
(* No command is lost between the queue and its result while nothing goes  *)
(* wrong, for every value of the constants of CommandDispatch.             *)
(***************************************************************************)
EXTENDS CommandDispatchProofs

\* The client of an undisturbed PC is in its main loop, and it waits for the answer
\* of every handler that serves it: there is no zombie and nobody drops answers.
CalmPC(p) ==
  /\ mode[p] = "polling" /\ p \notin halting
  /\ \A h \in Handler : poll[h].pc = p /\ poll[h].at # "idle" => poll[h].live

CalmInv == \A p \in PC : Undisturbed(p) => CalmPC(p)

Safe == CalmInv /\ ExecutingIsInHand

\* Nothing happened at first, and no command exists.
LEMMA InitSafe == Init => Safe
  BY DEF Init, Safe, CalmInv, CalmPC, ExecutingIsInHand, NoRow, IdlePoll

-----------------------------------------------------------------------------
(* The past: a disturbance is not forgotten *)

\* The row of a command that has an outcome keeps its PC and type.
LEMMA RowsKeep ==
  ASSUME Ind, Next
  PROVE  \A c \in Command : outcome[c] # {} =>
           commands'[c].pc = commands[c].pc /\ commands'[c].type = commands[c].type
  <1>0. TypeOK
    BY DEF Ind
  <1> SUFFICES ASSUME NEW c \in Command, outcome[c] # {}
               PROVE  commands'[c].pc = commands[c].pc /\ commands'[c].type = commands[c].type
    OBVIOUS
  <1>1. CASE \E a \in Admin, p \in PC : InsertCommand(a, p)
    <2>1. Existed(c) /\ c \in Int
      BY DEF Ind, RowPart, UnusedInv, Command
    <2>2. ASSUME NEW p, NEW prio, NEW t, NEW d, d # c
          PROVE  Inserted(d, p, prio, t)[c] = commands[c]
      BY <1>0, <2>2 DEF Inserted, TypeOK
    <2>3. NextId # c
      BY <1>0, <2>1, DispatchAssumption DEF NextId, Existed, TypeOK
    <2>4. QED
      BY <1>1, <2>2, <2>3 DEF InsertCommand
  <1>2. CASE \E a \in Admin, p \in PC : DeletePending(a, p)
    BY <1>0, <1>2 DEF DeletePending, PendingDeleted, TypeOK, Row
  <1>3. ASSUME NEW d \in Command, NEW s \in Status, commands' = WithStatus(d, s)
        PROVE  commands'[c].pc = commands[c].pc /\ commands'[c].type = commands[c].type
    BY <1>0, <1>3 DEF WithStatus, TypeOK, Row
  <1>4. CASE \E h \in Handler : StartExecution(h)
    BY <1>3, <1>4 DEF StartExecution, PollStep, PollMove, Ind, PollPart, PollInv, Status
  <1>5. CASE \E m \in results : RecordResult(m)
    <2>1. PICK m \in results : RecordResult(m)
      BY <1>5
    <2>2. m.cmd \in Command /\ m.outcome \in Outcome
      BY <1>0, <2>1 DEF TypeOK, Result
    <2>3. QED
      BY <1>3, <2>1, <2>2, FinalStatusIsTrue DEF RecordResult, Status
  <1>6. CASE UNCHANGED commands
    BY <1>6
  <1>7. QED
    BY <1>1, <1>2, <1>4, <1>5, <1>6
    DEF Next, AdminNext, SendCommand, BulkCommand, ClearCommands, Accept, StatementFails, Respond, DeletePC,
        PollNext, HandlerStep, LookUpPC, TurnAway, PickCommand, PollExpires, DropAnswer,
        HandlerFails, MarkFails, LookUpFails,
        ClientNext, StartPoll, Receive, ReadTimeout, ConnectionError, LocalShutdown, Stop,
        Start, GraceEnds, ThreadNext, Skip, Execute, Raise, EndRun, PostResult, LoseResult,
        ResultNext, FindCommand, ResultFails, serverVars

\* Faults and outcomes are only added.
LEMMA PastStays ==
  ASSUME Ind, Next
  PROVE  /\ faults' = faults \/ faults' = faults + 1
         /\ \A c \in Command : outcome[c] \subseteq outcome'[c]
  <1>1. CASE \E t \in threads : Skip(t) \/ Execute(t) \/ Raise(t)
    <2>1. PICK t \in threads, o \in Outcome : EndRun(t, o)
      BY <1>1 DEF Skip, Execute, Raise, Outcome
    <2>2. QED
      BY <2>1, ThreadFacts DEF EndRun, Ind, TypeOK
  <1>2. CASE UNCHANGED outcome /\ (UNCHANGED faults \/ faults' = faults + 1)
    BY <1>2
  <1>3. QED
    BY <1>1, <1>2
    DEF Next, AdminNext, SendCommand, BulkCommand, ClearCommands, Accept, InsertCommand,
        DeletePending, StatementFails, Respond, DeletePC, PollNext, HandlerStep, LookUpPC, TurnAway,
        PickCommand, StartExecution, PollExpires, PollStep, PollMove,
        HandlerFails, MarkFails, LookUpFails, DropAnswer, ClientNext, StartPoll,
        Receive, ReadTimeout, ConnectionError, LocalShutdown, Stop, Start, GraceEnds, Fault,
        ThreadNext, PostResult, LoseResult, ResultNext, FindCommand, RecordResult,
        ResultFails

\* A PC that is undisturbed after a step was so before.
LEMMA UndisturbedBefore ==
  ASSUME Ind, Next, NEW p \in PC, Undisturbed(p)'
  PROVE  Undisturbed(p) /\ faults' = faults
  <1>1. faults = 0 /\ faults' = 0
    BY PastStays, DispatchAssumption DEF Undisturbed, Ind, TypeOK
  <1>2. ASSUME NEW c \in Command, commands[c].pc = p, TurnsOff(commands[c].type),
               "completed" \in outcome[c]
        PROVE  FALSE
    BY <1>2, PastStays, RowsKeep DEF Undisturbed
  <1>3. QED
    BY <1>1, <1>2 DEF Undisturbed

-----------------------------------------------------------------------------
(* Frames *)

\* Steps that touch neither polls nor clients.
LEMMA CalmFrame ==
  ASSUME Ind, Next, CalmInv, UNCHANGED <<poll, mode>>,
         \A p \in PC : Undisturbed(p)' => (p \in halting' => p \in halting)
  PROVE  CalmInv'
  BY UndisturbedBefore DEF CalmInv, CalmPC

\* A step after which a command that is executing was so before, and in work still.
LEMMA InWorkFrame ==
  ASSUME Ind, Ind', Next, ExecutingIsInHand,
         \A c \in Command :
           commands'[c].status = "executing" /\ Undisturbed(commands'[c].pc) =>
             \/ InWork(c)'
             \/ /\ commands[c].status = "executing" /\ commands'[c].pc = commands[c].pc
                /\ InWork(c) => InWork(c)'
  PROVE  ExecutingIsInHand'
  <1>1. ASSUME NEW c \in Command, Undisturbed(commands[c].pc)'
        PROVE  Undisturbed(commands'[c].pc)
    <2>1. PICK p \in PC : p = commands'[c].pc
      BY DEF Ind, TypeOK, Row
    <2>2. Undisturbed(p)'
      BY <1>1, <2>1 DEF Undisturbed
    <2>3. QED
      BY <2>1, <2>2, UndisturbedBefore
  <1>2. QED
    BY <1>1 DEF ExecutingIsInHand

\* After a step that is a fault nothing is claimed.
LEMMA FaultSafe ==
  ASSUME Ind, Fault
  PROVE  Safe'
  <1>1. faults' # 0
    BY DispatchAssumption DEF Fault, Ind, TypeOK
  <1>2. QED
    BY <1>1 DEF Safe, CalmInv, ExecutingIsInHand, Undisturbed

-----------------------------------------------------------------------------
(* Every step keeps commands in work *)

\* Requests insert and delete pending commands.
LEMMA AdminSafe ==
  ASSUME Ind, Ind', Safe, Next, AdminNext, ~Fault
  PROVE  Safe'
  <1>0. TypeOK /\ TypeOK'
    BY DEF Ind
  <1>1. UNCHANGED <<poll, mode, halting, threads, results>>
    BY DEF AdminNext, SendCommand, BulkCommand, ClearCommands, Accept, InsertCommand,
           DeletePending, StatementFails, Respond, DeletePC, clientVars
  <1>2. ASSUME NEW c \in Command, commands'[c].status = "executing"
        PROVE  commands'[c].pc \in PC /\ commands'[c] = commands[c]
    <2>1. CASE \E a \in Admin, p \in PC : InsertCommand(a, p)
      BY <1>0, <1>2, <2>1 DEF InsertCommand, Inserted, TypeOK, Row
    <2>2. CASE \E a \in Admin, p \in PC : DeletePending(a, p)
      BY <1>0, <1>2, <2>2 DEF DeletePending, PendingDeleted, TypeOK, Row
    <2>3. CASE UNCHANGED commands
      BY <1>0, <1>2, <2>3 DEF TypeOK, Row
    <2>4. QED
      BY <2>1, <2>2, <2>3
      DEF AdminNext, SendCommand, BulkCommand, ClearCommands, Accept, StatementFails, Respond, DeletePC
  <1>3. \A c \in Command : InWork(c) => InWork(c)'
    BY <1>1 DEF InWork, Answered, Working, AwaitedBy
  <1>4. CalmInv'
    BY <1>1, CalmFrame DEF Safe
  <1>5. ExecutingIsInHand'
    BY <1>2, <1>3, InWorkFrame DEF Safe
  <1>6. QED
    BY <1>4, <1>5 DEF Safe

\* A handler that marks a command as executing answers a client that waits for it.
LEMMA HandlerSafe ==
  ASSUME Ind, Ind', Safe, Next, NEW h \in Handler, HandlerStep(h)
  PROVE  Safe'
  <1>0. TypeOK /\ TypeOK'
    BY DEF Ind
  <1>1. CASE \E from \in {"arrived", "looking"}, to \in {"looking", "picked", "answered"},
                c \in Command \cup {NoCommand} : PollStep(h, from, to, c) /\ UNCHANGED commands
    <2>1. PICK from \in {"arrived", "looking"}, to \in {"looking", "picked", "answered"},
               c \in Command \cup {NoCommand} : PollStep(h, from, to, c) /\ UNCHANGED commands
      BY <1>1
    <2>2. /\ poll[h].at \in {"arrived", "looking"}
          /\ poll'[h].pc = poll[h].pc /\ poll'[h].live = poll[h].live
          /\ \A k \in Handler \ {h} : poll'[k] = poll[k]
          /\ UNCHANGED <<commands, mode, halting, threads, results>>
      BY SMT, ZenonT(40), <1>0, <2>1, PollStepEffect
    <2>3. CalmInv'
      BY <2>2, UndisturbedBefore DEF Safe, CalmInv, CalmPC
    <2>4. \A c2 \in Command : InWork(c2) => InWork(c2)'
      BY <2>2 DEF InWork, Answered, Working, AwaitedBy
    <2>5. QED
      BY <2>2, <2>3, <2>4, InWorkFrame DEF Safe
  <1>2. CASE StartExecution(h)
    <2>1. poll[h].at = "picked" /\ poll[h].cmd \in Command
      BY <1>2, DispatchAssumption
      DEF Ind, PollPart, PollInv, StartExecution, PollStep, PollMove, Command, NoCommand
    <2>2. PICK d \in Command : d = poll[h].cmd
      BY <2>1
    <2>3. /\ PollStep(h, "picked", "answered", d)
          /\ commands[d].pc = poll[h].pc /\ commands' = WithStatus(d, "executing")
      BY <1>2, <2>1, <2>2, DispatchAssumption
      DEF Ind, PollPart, PollInv, StartExecution, Command, NoCommand
    <2>4. /\ poll'[h].at = "answered" /\ poll'[h].cmd = d
          /\ poll'[h].pc = poll[h].pc /\ poll'[h].live = poll[h].live
          /\ \A k \in Handler \ {h} : poll'[k] = poll[k]
          /\ UNCHANGED <<mode, halting, threads, results>>
      BY <1>0, <2>1, <2>2, <2>3, PollStepEffect
    <2>5. /\ \A c \in Command \ {d} : commands'[c] = commands[c]
          /\ commands'[d].pc = commands[d].pc
      BY <1>0, <2>1, <2>2, <2>3, WithStatusEffect DEF Status
    <2>6. CalmInv'
      BY <2>1, <2>2, <2>4, UndisturbedBefore DEF Safe, CalmInv, CalmPC
    <2>7. Undisturbed(commands[d].pc) => InWork(d)'
      <3>1. commands[d].pc \in PC
        BY <1>0, <2>2 DEF TypeOK, Row
      <3>2. Undisturbed(commands[d].pc) => poll[h].live
        BY <2>1, <2>2, <2>3, <3>1 DEF Safe, CalmInv, CalmPC
      <3>3. QED
        BY <2>4, <3>2 DEF InWork, Answered
    <2>8. \A c \in Command \ {d} : InWork(c) => InWork(c)'
      BY <2>1, <2>2, <2>4 DEF InWork, Answered, Working, AwaitedBy
    <2>9. ASSUME NEW c \in Command, commands'[c].status = "executing",
                 Undisturbed(commands'[c].pc)
          PROVE  \/ InWork(c)'
                 \/ commands'[c] = commands[c] /\ (InWork(c) => InWork(c)')
      <3>1. CASE c = d
        BY <2>5, <2>7, <2>9, <3>1
      <3>2. CASE c # d
        BY <2>5, <2>8, <3>2
      <3>3. QED
        BY <3>1, <3>2
    <2>10. ExecutingIsInHand'
      BY <2>9, InWorkFrame DEF Safe
    <2>11. QED
      BY <2>6, <2>10 DEF Safe
  <1>3. CASE DropAnswer(h)
    <2>1. /\ ~poll[h].live /\ poll'[h].at = "idle"
          /\ \A k \in Handler \ {h} : poll'[k] = poll[k]
          /\ UNCHANGED <<commands, mode, halting, threads, results>>
      BY <1>0, <1>3 DEF DropAnswer, serverVars, clientVars, TypeOK, IdlePoll
    <2>2. CalmInv'
      BY <2>1, UndisturbedBefore DEF Safe, CalmInv, CalmPC
    <2>3. \A c \in Command : InWork(c) => InWork(c)'
      BY <2>1 DEF InWork, Answered, Working, AwaitedBy
    <2>4. QED
      BY <2>1, <2>2, <2>3, InWorkFrame DEF Safe
  <1>4. ASSUME PickCommand(h)
        PROVE  \E c \in Command : PollStep(h, "looking", "picked", c) /\ UNCHANGED commands
    BY <1>4 DEF PickCommand
  <1>5. QED
    BY <1>1, <1>2, <1>3, <1>4 DEF HandlerStep, LookUpPC, TurnAway, PollExpires

\* The client that receives an answer starts a thread for the command in it.
LEMMA ReceiveSafe ==
  ASSUME Ind, Ind', Safe, Next, NEW p \in PC, NEW h \in Handler, Receive(p, h)
  PROVE  Safe'
  <1> DEFINE d == poll[h].cmd
  <1>0. TypeOK /\ TypeOK'
    BY DEF Ind
  <1>1. /\ poll[h].live /\ poll[h].pc = p /\ poll[h].at = "answered"
        /\ mode' = [mode EXCEPT ![p] = "polling"]
        /\ poll'[h].at = "idle"
        /\ \A k \in Handler \ {h} : poll'[k] = poll[k]
        /\ threads \subseteq threads'
        /\ UNCHANGED <<commands, halting, results>>
    BY <1>0 DEF Receive, serverVars, TypeOK, IdlePoll
  <1>2. CalmInv'
    BY <1>0, <1>1, UndisturbedBefore DEF Safe, CalmInv, CalmPC, TypeOK
  <1>3. ASSUME NEW c \in Command, Undisturbed(commands[c].pc), InWork(c)
        PROVE  InWork(c)'
    <2>1. CASE c = d
      <3>1. c # NoCommand /\ commands[c].pc = p
        BY <1>1, <2>1, DispatchAssumption DEF Ind, PollPart, PollInv, Command, NoCommand
      <3>2. mode[p] = "polling"
        BY <1>3, <3>1 DEF Safe, CalmInv, CalmPC
      <3>3. NewThread(p, c) \in threads'
        BY <2>1, <3>1, <3>2 DEF Receive
      <3>4. NewThread(p, c).cmd = c /\ NewThread(p, c).at = "new"
        BY DEF NewThread
      <3>5. QED
        BY <3>3, <3>4 DEF InWork, Working
    <2>2. CASE c # d
      BY <1>1, <1>3, <2>2 DEF InWork, Answered, Working, AwaitedBy
    <2>3. QED
      BY <2>1, <2>2
  <1>4. QED
    BY <1>1, <1>2, <1>3, InWorkFrame DEF Safe

\* A client that ends takes only what belongs to its own PC with it.
LEMMA StopSafe ==
  ASSUME Ind, Ind', Safe, Next, NEW p \in PC, Stop(p), p \in halting
  PROVE  Safe'
  <1>0. TypeOK /\ TypeOK'
    BY DEF Ind
  <1>1. /\ mode' = [mode EXCEPT ![p] = "down"]
        /\ poll' = Abandoned(p)
        /\ threads' = {t \in threads : t.pc # p}
        /\ halting' = halting \ {p}
        /\ UNCHANGED <<commands, results>>
    BY DEF Stop, serverVars
  <1>2. ~Undisturbed(p) /\ ~Undisturbed(p)'
    BY UndisturbedBefore DEF Safe, CalmInv, CalmPC
  <1>3. ASSUME NEW k \in Handler
        PROVE  /\ poll'[k].pc = poll[k].pc /\ poll'[k].at = poll[k].at
               /\ poll'[k].cmd = poll[k].cmd
               /\ poll[k].pc # p => poll'[k].live = poll[k].live
    <2>1. poll'[k] = IF poll[k].pc = p THEN [poll[k] EXCEPT !.live = FALSE] ELSE poll[k]
      BY <1>1 DEF Abandoned
    <2>2. poll[k] \in Poll
      BY <1>0 DEF TypeOK
    <2>3. QED
      BY <2>1, <2>2 DEF Poll
  <1>4. CalmInv'
    <2>1. ASSUME NEW q \in PC, Undisturbed(q)' PROVE CalmPC(q)'
      <3>1. q # p
        BY <1>2, <2>1
      <3>2. CalmPC(q)
        BY <2>1, UndisturbedBefore DEF Safe, CalmInv
      <3>3. mode'[q] = "polling" /\ q \notin halting'
        BY <1>0, <1>1, <3>1, <3>2 DEF CalmPC, TypeOK
      <3>4. ASSUME NEW k \in Handler, poll'[k].pc = q, poll'[k].at # "idle"
            PROVE  poll'[k].live
        BY <1>3, <3>1, <3>2, <3>4 DEF CalmPC
      <3>5. QED
        BY <3>3, <3>4 DEF CalmPC
    <2>2. QED
      BY <2>1 DEF CalmInv
  <1>5. ASSUME NEW c \in Command, commands[c].pc # p, InWork(c)
        PROVE  InWork(c)'
    <2>1. ASSUME NEW k \in Handler, poll[k].cmd = c PROVE poll[k].pc # p
      BY <1>5, <2>1, DispatchAssumption DEF Ind, PollPart, PollInv, Command, NoCommand
    <2>2. ASSUME NEW t \in threads, t.cmd = c PROVE t \in threads'
      <3>1. t.pc = commands[c].pc
        BY <2>2, ThreadFacts
      <3>2. QED
        BY <1>1, <1>5, <3>1
    <2>3. CASE Answered(c)
      BY <1>3, <2>1, <2>3 DEF InWork, Answered
    <2>4. CASE \E t \in threads : t.cmd = c /\ Working(t)
      BY <1>1, <2>2, <2>4 DEF InWork, Answered, Working, AwaitedBy
    <2>5. QED
      BY <1>5, <2>3, <2>4 DEF InWork
  <1>6. QED
    BY <1>1, <1>2, <1>4, <1>5, InWorkFrame DEF Safe

\* The other steps of a client.
LEMMA ClientSafe ==
  ASSUME Ind, Ind', Safe, Next, ClientNext
  PROVE  Safe'
  <1>0. TypeOK /\ TypeOK'
    BY DEF Ind
  <1>1. CASE \E p \in PC, h \in Handler : StartPoll(p, h)
    <2>1. PICK p \in PC, h \in Handler : StartPoll(p, h)
      BY <1>1
    <2>2. /\ poll[h].at = "idle" /\ poll'[h].live
          /\ \A k \in Handler \ {h} : poll'[k] = poll[k]
          /\ UNCHANGED <<commands, mode, halting, threads, results>>
      BY <1>0, <2>1 DEF StartPoll, serverVars, clientVars, TypeOK, IdlePoll
    <2>3. CalmInv'
      BY <2>2, UndisturbedBefore DEF Safe, CalmInv, CalmPC
    <2>4. \A c \in Command : InWork(c) => InWork(c)'
      BY <2>2 DEF InWork, Answered, Working, AwaitedBy
    <2>5. QED
      BY <2>2, <2>3, <2>4, InWorkFrame DEF Safe
  <1>2. CASE \E p \in PC, h \in Handler : Receive(p, h)
    BY <1>2, ReceiveSafe
  <1>3. CASE Fault
    BY <1>3, FaultSafe
  <1>4. CASE \E p \in PC : Start(p) \/ GraceEnds(p)
    <2>1. PICK p \in PC : Start(p) \/ GraceEnds(p)
      BY <1>4
    <2>2. /\ mode' = mode \/ mode' = [mode EXCEPT ![p] = "polling"]
          /\ UNCHANGED <<commands, poll, halting, threads, results>>
      BY <2>1 DEF Start, GraceEnds, serverVars
    <2>3. CalmInv'
      BY <1>0, <2>2, UndisturbedBefore DEF Safe, CalmInv, CalmPC, TypeOK
    <2>4. \A c \in Command : InWork(c) => InWork(c)'
      BY <2>2 DEF InWork, Answered, Working, AwaitedBy
    <2>5. QED
      BY <2>2, <2>3, <2>4, InWorkFrame DEF Safe
  <1>5. CASE \E p \in PC : Stop(p) /\ p \in halting
    BY <1>5, StopSafe
  <1>6. QED
    BY <1>1, <1>2, <1>3, <1>4, <1>5
    DEF ClientNext, ReadTimeout, ConnectionError, LocalShutdown, Stop

\* An executor thread works a command off, reports it and waits for the server.
LEMMA ThreadSafe ==
  ASSUME Ind, Ind', Safe, Next, NEW t \in threads,
         Skip(t) \/ Execute(t) \/ Raise(t) \/ PostResult(t) \/ LoseResult(t)
  PROVE  Safe'
  <1>0. /\ TypeOK /\ TypeOK' /\ t \in Thread /\ t.cmd \in Command /\ t.pc \in PC
        /\ t.pc = commands[t.cmd].pc
    BY ThreadFacts DEF Ind
  <1>1. UNCHANGED <<commands, poll, mode>>
    BY DEF Skip, Execute, Raise, EndRun, PostResult, LoseResult, serverVars, clientVars
  <1>2. CASE Skip(t) \/ Execute(t) \/ Raise(t)
    <2>1. PICK o \in Outcome :
            /\ EndRun(t, o)
            /\ \/ UNCHANGED halting
               \/ /\ o = "completed" /\ TurnsOff(commands[t.cmd].type)
                  /\ halting' = halting \cup {t.pc}
      BY <1>2 DEF Skip, Execute, Raise, Outcome
    <2> DEFINE new == [t EXCEPT !.at = "report", !.outcome = o]
    <2>2. /\ threads' = (threads \ {t}) \cup {new} /\ new.cmd = t.cmd /\ new.at = "report"
          /\ o \in outcome'[t.cmd]
          /\ UNCHANGED results
      BY <1>0, <2>1 DEF EndRun, Replace, Thread, TypeOK
    <2> HIDE DEF new
    <2>3. ASSUME NEW p \in PC, Undisturbed(p)', p \in halting' PROVE p \in halting
      BY <1>0, <1>1, <2>1, <2>2, <2>3 DEF Undisturbed
    <2>4. CalmInv'
      BY <1>1, <2>3, CalmFrame DEF Safe
    <2>5. \A c \in Command : InWork(c) => InWork(c)'
      BY <1>1, <2>2 DEF InWork, Answered, Working, AwaitedBy
    <2>6. QED
      BY <1>1, <2>4, <2>5, InWorkFrame DEF Safe
  <1>3. CASE PostResult(t)
    <2> DEFINE new == [t EXCEPT !.at = "await", !.tries = t.tries + 1]
               m == [pc |-> t.pc, cmd |-> t.cmd, nth |-> t.nth, outcome |-> t.outcome,
                     try |-> t.tries + 1, at |-> "sent"]
    <2>1. /\ threads' = (threads \ {t}) \cup {new} /\ new.cmd = t.cmd
          /\ AwaitedBy(new, m)
          /\ results' = results \cup {m}
          /\ UNCHANGED halting
      BY <1>0, <1>3 DEF PostResult, Replace, Thread, AwaitedBy, clientVars
    <2> HIDE DEF new, m
    <2>2. CalmInv'
      BY <1>1, <2>1, CalmFrame DEF Safe
    <2>3. \A c \in Command : InWork(c) => InWork(c)'
      <3> SUFFICES ASSUME NEW c \in Command, InWork(c) PROVE InWork(c)'
        OBVIOUS
      <3>1. CASE Answered(c)
        BY <1>1, <3>1 DEF InWork, Answered
      <3>2. CASE c = t.cmd
        <4>1. new \in threads' /\ new.cmd = c /\ \E r \in results' : AwaitedBy(new, r)
          BY <2>1, <3>2
        <4>2. QED
          BY <4>1 DEF InWork, Answered, Working, AwaitedBy
      <3>3. CASE \E u \in threads : u.cmd = c /\ u # t /\ Working(u)
        BY <2>1, <3>3 DEF InWork, Answered, Working, AwaitedBy
      <3>4. QED
        BY <3>1, <3>2, <3>3 DEF InWork
    <2>4. QED
      BY <1>1, <2>2, <2>3, InWorkFrame DEF Safe
  <1>4. CASE LoseResult(t)
    BY <1>4, FaultSafe DEF LoseResult
  <1>5. QED
    BY <1>2, <1>3, <1>4

\* The answer to a result concerns the threads of its command only.
LEMMA AnswerKeeps ==
  ASSUME NEW m, NEW ok \in BOOLEAN, Answer(m, ok), NEW u \in threads, u.cmd # m.cmd
  PROVE  u \in threads'
  BY DEF Answer, AwaitedBy

\* A result handler finds the row and ends the command, or there is none.
LEMMA ResultSafe ==
  ASSUME Ind, Ind', Safe, Next, NEW m \in results, FindCommand(m) \/ RecordResult(m)
  PROVE  Safe'
  <1>0. /\ TypeOK /\ TypeOK' /\ m \in Result /\ m.cmd \in Command /\ m.outcome \in Outcome
    BY DEF Ind, TypeOK, Result
  <1>1. UNCHANGED <<poll, mode, halting>>
    BY DEF FindCommand, RecordResult, clientVars
  <1>2. CalmInv'
    BY <1>1, CalmFrame DEF Safe
  <1>3. CASE FindCommand(m) /\ commands[m.cmd].status # "absent"
    <2> DEFINE found == [m EXCEPT !.at = "found"]
    <2>1. /\ results' = (results \ {m}) \cup {found}
          /\ found.pc = m.pc /\ found.cmd = m.cmd /\ found.try = m.try
          /\ found.nth = m.nth
          /\ UNCHANGED <<commands, threads>>
      BY <1>0, <1>3 DEF FindCommand, serverVars, Result
    <2> HIDE DEF found
    <2>2. \A c \in Command : InWork(c) => InWork(c)'
      BY <1>1, <2>1 DEF InWork, Answered, Working, AwaitedBy
    <2>3. QED
      BY <1>2, <2>1, <2>2, InWorkFrame DEF Safe
  <1>4. CASE RecordResult(m) \/ commands[m.cmd].status = "absent"
    <2>1. /\ \E ok \in BOOLEAN : Answer(m, ok)
          /\ results' = results \ {m}
          /\ commands'[m.cmd].status # "executing"
          /\ \A c \in Command \ {m.cmd} : commands'[c] = commands[c]
      <3>1. CASE RecordResult(m)
        <4> DEFINE s == FinalStatus(PostedStatus(m.outcome))
        <4>1. s \in Status /\ s # "executing" /\ commands' = WithStatus(m.cmd, s)
          BY <1>0, <3>1, FinalStatusIsTrue DEF RecordResult, Status
        <4> HIDE DEF s
        <4>2. /\ \A c \in Command \ {m.cmd} : commands'[c] = commands[c]
              /\ commands'[m.cmd].status # "executing"
          BY <1>0, <4>1, WithStatusEffect
        <4>3. QED
          BY <3>1, <4>2 DEF RecordResult
      <3>2. CASE FindCommand(m) /\ commands[m.cmd].status = "absent"
        BY <3>2 DEF FindCommand, serverVars
      <3>3. QED
        BY <1>4, <3>1, <3>2
    <2>2. ASSUME NEW c \in Command \ {m.cmd}, InWork(c) PROVE InWork(c)'
      <3>1. CASE Answered(c)
        BY <1>1, <3>1 DEF InWork, Answered
      <3>2. CASE \E u \in threads : u.cmd = c /\ Working(u)
        <4>1. PICK u \in threads : u.cmd = c /\ Working(u)
          BY <3>2
        <4>2. u \in threads'
          BY <2>1, <2>2, <4>1, AnswerKeeps
        <4>3. \A r \in results : AwaitedBy(u, r) => r \in results'
          BY <2>1, <4>1 DEF AwaitedBy
        <4>4. QED
          BY <4>1, <4>2, <4>3 DEF InWork, Answered, Working, AwaitedBy
      <3>3. QED
        BY <2>2, <3>1, <3>2 DEF InWork
    <2>3. QED
      BY <1>2, <2>1, <2>2, InWorkFrame DEF Safe
  <1>5. QED
    BY <1>3, <1>4

\* While nothing goes wrong and the PC is not switched off by one of its commands,
\* every command that shows as executing is in work at its client or on its way
\* there or back, for any number of PCs, handlers and commands.
THEOREM NoneLost == Spec => []ExecutingIsInHand
  <1>1. Ind /\ Ind' /\ Safe /\ [Next]_vars => Safe'
    <2> SUFFICES ASSUME Ind, Ind', Safe, [Next]_vars PROVE Safe'
      OBVIOUS
    <2>1. CASE UNCHANGED vars
      BY <2>1 DEF vars, Safe, CalmInv, CalmPC, ExecutingIsInHand, Undisturbed, InWork,
                  Answered, Working, AwaitedBy
    <2>2. CASE Fault
      BY <2>2, FaultSafe
    <2>3. CASE Next /\ ~Fault
      BY <2>3, AdminSafe, HandlerSafe, ClientSafe, ThreadSafe, ResultSafe
      DEF Next, PollNext, HandlerFails, MarkFails, LookUpFails, ThreadNext, ResultNext,
          ResultFails
    <2>4. QED
      BY <2>1, <2>2, <2>3
  <1>2. Safe => ExecutingIsInHand
    BY DEF Safe
  <1>3. QED
    BY <1>1, <1>2, InitSafe, Invariant, PTL DEF Spec
=============================================================================
