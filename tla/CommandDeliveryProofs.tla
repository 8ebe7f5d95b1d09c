------------------------ MODULE CommandDeliveryProofs ------------------------
(***************************************************************************)
(* CommandDispatch implements CommandDelivery, for every value of the      *)
(* constants.                                                              *)
(***************************************************************************)
EXTENDS CommandDispatchProofs

\* The promise's variables are functions of these five.
LEMMA DeliveryStutter ==
  UNCHANGED <<commands, lastId, deliveries, outcome, unmarked>> => UNCHANGED Delivery!cdVars
  BY DEF Delivery!cdVars, Owner, Recorded, Existed

\* No row of commands at first, and nothing issued, received or recorded.
LEMMA DeliveryInit == Init => Delivery!CDInit
  BY SomeConstants, DispatchAssumption
     DEF Init, Delivery!CDInit, Owner, Recorded, Existed, NoRow, Command

\* A step that changes the row of one command.
LEMMA OneRow ==
  ASSUME NEW c \in Command, TypeOK, UNCHANGED lastId, commands' \in [Command -> Row],
         commands'[c].pc = commands[c].pc,
         \A d \in Command \ {c} : commands'[d] = commands[d]
  PROVE  /\ UNCHANGED Owner
         /\ Recorded' = [Recorded EXCEPT ![c] = Recorded'[c]]
  <1>1. UNCHANGED Owner
    <2>1. \A d \in Command : commands'[d].pc = commands[d].pc
      OBVIOUS
    <2>2. QED
      BY <2>1 DEF Owner, Existed
  <1>2. \A d \in Command \ {c} : Recorded'[d] = Recorded[d]
    BY DEF Recorded
  <1>3. Recorded' = [Recorded EXCEPT ![c] = Recorded'[c]]
    BY <1>2 DEF Recorded
  <1>4. QED
    BY <1>1, <1>3

\* An inserted row issues its command; a cleared one withdraws at most a status
\* that was not final.
LEMMA AdminDelivery ==
  ASSUME Ind, AdminNext
  PROVE  [Delivery!CDNext]_(Delivery!cdVars)
  <1>1. CASE \E a \in Admin, p \in PC : InsertCommand(a, p)
    <2>1. PICK a \in Admin, p \in PC : InsertCommand(a, p)
      BY <1>1
    <2>2. PICK c \in Command :
            /\ c = lastId + 1 /\ lastId' = c /\ lastId \in Nat
            /\ commands' = Inserted(c, p, request[a].priority, request[a].type)
            /\ UNCHANGED <<deliveries, outcome, unmarked>>
      BY <2>1, DispatchAssumption DEF Ind, TypeOK, InsertCommand, NextId, Command
    <2>3. /\ commands'[c].pc = p /\ commands'[c].status = "pending"
          /\ \A d \in Command \ {c} : commands'[d] = commands[d]
          /\ commands[c].status = "absent"
      BY <2>2 DEF Ind, TypeOK, Inserted, RowPart, UnusedInv, Existed
    <2>4. Owner[c] = {} /\ Owner' = [Owner EXCEPT ![c] = {p}]
      <3>1. ~Existed(c) /\ Existed(c)'
        BY <2>2 DEF Existed
      <3>2. ASSUME NEW d \in Command \ {c} PROVE Existed(d)' <=> Existed(d)
        <4>1. d \in Int /\ d # lastId + 1
          BY <2>2 DEF Command
        <4>2. QED
          BY <4>1, <2>2 DEF Existed
      <3>3. Owner[c] = {}
        BY <2>2, <3>1 DEF Owner
      <3>4. Owner'[c] = {p}
        BY <2>2, <2>3, <3>1 DEF Owner
      <3>5. \A d \in Command \ {c} : Owner'[d] = Owner[d]
        BY <2>3, <3>2 DEF Owner
      <3>6. QED
        BY <3>3, <3>4, <3>5 DEF Owner
    <2>5. UNCHANGED Recorded
      BY <2>3 DEF Recorded
    <2>6. Delivery!Issue(c, p)
      BY <2>2, <2>4, <2>5 DEF Delivery!Issue
    <2>7. QED
      BY <2>2, <2>6 DEF Delivery!CDNext
  <1>2. CASE \E a \in Admin, p \in PC : DeletePending(a, p)
    <2>1. PICK a \in Admin, p \in PC : DeletePending(a, p)
      BY <1>2
    <2>2. /\ commands' = PendingDeleted(p)
          /\ UNCHANGED <<lastId, deliveries, outcome, unmarked>>
      BY <2>1 DEF DeletePending
    <2>3. \A d \in Command :
            /\ commands'[d].pc = commands[d].pc
            /\ \/ commands'[d].status = commands[d].status
               \/ commands[d].status = "pending" /\ commands'[d].status = "absent"
      BY <2>2 DEF Ind, TypeOK, Row, PendingDeleted, Pending
    <2>4. UNCHANGED Owner
      BY <2>2, <2>3 DEF Owner, Existed
    <2>5. UNCHANGED Recorded
      BY <2>3 DEF Recorded
    <2>6. QED
      BY <2>2, <2>4, <2>5 DEF Delivery!cdVars
  <1>3. CASE UNCHANGED <<commands, lastId, deliveries, outcome, unmarked>>
    BY <1>3, DeliveryStutter
  <1>4. QED
    BY <1>1, <1>2, <1>3 DEF AdminNext, SendCommand, BulkCommand, ClearCommands, Accept,
                            Respond, StatementFails, DeletePC

\* A long-poll at most reopens the command it marks as executing, or fails to mark it.
LEMMA HandlerDelivery ==
  ASSUME Ind, NEW h \in Handler, HandlerStep(h) \/ HandlerFails(h)
  PROVE  [Delivery!CDNext]_(Delivery!cdVars)
  <1>1. CASE StartExecution(h)
    <2> DEFINE c == poll[h].cmd
    <2>1. /\ TypeOK /\ c \in Command /\ "executing" \in Status
          /\ commands' = WithStatus(c, "executing")
          /\ UNCHANGED <<lastId, deliveries, outcome, unmarked>>
      BY <1>1 DEF Ind, PollPart, PollInv, StartExecution, PollStep, PollMove, Status
    <2> HIDE DEF c
    <2>2. /\ commands' \in [Command -> Row]
          /\ \A d \in Command \ {c} : commands'[d] = commands[d]
          /\ commands'[c].pc = commands[c].pc
          /\ commands'[c].status \in {"absent", "executing"}
      BY <2>1, WithStatusEffect
    <2>3. UNCHANGED Owner /\ Recorded' = [Recorded EXCEPT ![c] = Recorded'[c]]
      BY <2>1, <2>2, OneRow
    <2>4. Recorded'[c] = "none"
      BY <2>1, <2>2 DEF Recorded
    <2>5. Delivery!Reopen(c)
      BY <2>1, <2>3, <2>4 DEF Delivery!Reopen
    <2>6. QED
      BY <2>1, <2>5 DEF Delivery!CDNext
  <1>2. CASE UNCHANGED <<commands, lastId, deliveries, outcome, unmarked>>
    BY <1>2, DeliveryStutter
  <1>3. CASE MarkFails(h)
    <2> DEFINE c == poll[h].cmd
    <2>1. /\ c \in Command /\ Existed(c)
          /\ unmarked' = [unmarked EXCEPT ![c] = @ + 1]
          /\ UNCHANGED <<commands, lastId, deliveries, outcome>>
      BY <1>3 DEF Ind, PollPart, PollInv, MarkFails, PollMove, Command, NoCommand
    <2>2. Owner[c] # {}
      BY <2>1 DEF Owner
    <2>3. UNCHANGED <<Owner, Recorded>>
      BY <2>1 DEF Owner, Recorded, Existed
    <2> HIDE DEF c
    <2>4. Delivery!Slip(c)
      BY <2>1, <2>2, <2>3 DEF Delivery!Slip
    <2>5. QED
      BY <2>1, <2>4 DEF Delivery!CDNext
  <1>4. QED
    BY <1>1, <1>2, <1>3
    DEF HandlerStep, HandlerFails, LookUpPC, TurnAway, PickCommand, PollExpires, DropAnswer,
        LookUpFails, PollStep, PollMove, serverVars

\* A client that receives a command of its answer is handed it over, and nothing
\* else the client does concerns the promise.
LEMMA ClientDelivery ==
  ASSUME Ind, ClientNext
  PROVE  [Delivery!CDNext]_(Delivery!cdVars)
  <1>1. CASE \E p \in PC, h \in Handler :
               Receive(p, h) /\ mode[p] = "polling" /\ poll[h].cmd # NoCommand
    <2>1. PICK p \in PC, h \in Handler :
            Receive(p, h) /\ mode[p] = "polling" /\ poll[h].cmd # NoCommand
      BY <1>1
    <2> DEFINE c == poll[h].cmd
    <2>2. /\ poll[h].live /\ poll[h].pc = p /\ poll[h].at = "answered"
          /\ deliveries' = [deliveries EXCEPT ![c][p] = @ + 1]
          /\ UNCHANGED <<commands, lastId, outcome, unmarked>>
      BY <2>1 DEF Receive, serverVars
    <2>3. c \in Command /\ Existed(c) /\ commands[c].pc = p /\ Paid(c)
      BY <2>1, <2>2, LiveAnswerIsPaid
    <2> HIDE DEF c
    <2>5. p \in Owner[c] /\ deliveries[c][p] <= unmarked[c]
      BY <2>3 DEF Owner, Paid
    <2>6. UNCHANGED <<Owner, Recorded>>
      BY <2>2 DEF Owner, Recorded, Existed
    <2>7. Delivery!HandOver(c, p)
      BY <2>2, <2>5, <2>6 DEF Delivery!HandOver
    <2>8. QED
      BY <2>3, <2>7 DEF Delivery!CDNext
  <1>2. CASE UNCHANGED <<commands, lastId, deliveries, outcome, unmarked>>
    BY <1>2, DeliveryStutter
  <1>3. QED
    BY <1>1, <1>2 DEF ClientNext, StartPoll, Receive, ReadTimeout, ConnectionError,
                      LocalShutdown, Stop, Start, GraceEnds, serverVars

\* An executor thread that ends its run works the command off.
LEMMA ThreadDelivery ==
  ASSUME Ind, ThreadNext
  PROVE  [Delivery!CDNext]_(Delivery!cdVars)
  <1>1. CASE \E t \in threads, o \in Outcome : EndRun(t, o)
    <2>1. PICK t \in threads, o \in Outcome : EndRun(t, o)
      BY <1>1
    <2>2. /\ t.at = "new"
          /\ outcome' = [outcome EXCEPT ![t.cmd] = @ \cup {o}]
          /\ UNCHANGED <<commands, lastId, deliveries, unmarked>>
      BY <2>1 DEF EndRun, serverVars
    <2>3. /\ t.cmd \in Command /\ Received(t.cmd) /\ unmarked[t.cmd] \in Nat
          /\ outcome[t.cmd] # {} => unmarked[t.cmd] > 0
      <3>1. /\ t.cmd \in Command /\ Received(t.cmd)
            /\ unmarked[t.cmd] = 0 => outcome[t.cmd] = {}
        BY <2>2, ThreadFacts
      <3>2. unmarked[t.cmd] \in Nat
        BY <3>1 DEF Ind, TypeOK
      <3>3. QED
        BY <3>1, <3>2
    <2>4. UNCHANGED <<Owner, Recorded>>
      BY <2>2 DEF Owner, Recorded, Existed
    <2>5. Delivery!WorkOff(t.cmd, o)
      BY <2>2, <2>3, <2>4 DEF Delivery!WorkOff, Delivery!HandedOver, Received
    <2>6. QED
      BY <2>3, <2>5 DEF Delivery!CDNext, Outcome, Delivery!Outcome
  <1>2. CASE UNCHANGED <<commands, lastId, deliveries, outcome, unmarked>>
    BY <1>2, DeliveryStutter
  <1>3. QED
    BY <1>1, <1>2 DEF ThreadNext, Skip, Execute, Raise, PostResult, LoseResult, Outcome,
                      serverVars

\* A result handler records the outcome of the command.
LEMMA ResultDelivery ==
  ASSUME Ind, ResultNext
  PROVE  [Delivery!CDNext]_(Delivery!cdVars)
  <1>1. CASE \E m \in results : RecordResult(m)
    <2>1. PICK m \in results : RecordResult(m)
      BY <1>1
    <2> DEFINE c == m.cmd
               s == FinalStatus(PostedStatus(m.outcome))
    <2>2. /\ m.at = "found" /\ commands' = WithStatus(c, s)
          /\ UNCHANGED <<lastId, deliveries, outcome, unmarked>>
      BY <2>1 DEF RecordResult
    <2>3. /\ TypeOK /\ c \in Command /\ m.outcome \in Outcome /\ m.outcome \in outcome[c]
      BY ResultFacts DEF Ind
    <2>4. /\ s \in {"completed", "error"} /\ s \in Status
          /\ s = Delivery!VerdictOf(m.outcome)
      BY <2>3 DEF Status, Outcome, FinalStatus, PostedStatus, Delivery!VerdictOf
    <2> HIDE DEF c, s
    <2>a. CASE commands[c].status = "absent"
      BY <2>a, <2>2, DeliveryStutter DEF WithStatus
    <2>b. CASE commands[c].status # "absent"
      <3>1. /\ commands' \in [Command -> Row]
            /\ \A d \in Command \ {c} : commands'[d] = commands[d]
            /\ commands'[c].pc = commands[c].pc
            /\ commands'[c].status = s
        BY <2>b, <2>2, <2>3, <2>4, WithStatusEffect
      <3>2. UNCHANGED Owner /\ Recorded' = [Recorded EXCEPT ![c] = Recorded'[c]]
        BY <2>2, <2>3, <3>1, OneRow
      <3>3. Recorded'[c] = s
        BY <2>3, <2>4, <3>1 DEF Recorded
      <3>4. Delivery!Record(c, m.outcome)
        BY <2>2, <2>3, <2>4, <3>2, <3>3 DEF Delivery!Record
      <3>5. QED
        BY <2>3, <3>4 DEF Delivery!CDNext, Outcome, Delivery!Outcome
    <2>9. QED
      BY <2>a, <2>b
  <1>2. CASE \E m \in results : FindCommand(m) \/ ResultFails(m)
    BY <1>2, DeliveryStutter DEF FindCommand, ResultFails, serverVars
  <1>3. QED
    BY <1>1, <1>2 DEF ResultNext

\* The dispatch keeps the promise of CommandDelivery: one client, one reception and
\* one more for each failed UPDATE to executing, and a status column that reports no
\* end but one the client came to.
THEOREM DispatchImplementsDelivery == Spec => DeliverySpec
  <1>1. Init => Delivery!CDInit
    BY DeliveryInit
  <1>2. Ind /\ [Next]_vars => [Delivery!CDNext]_(Delivery!cdVars)
    <2> SUFFICES ASSUME Ind, [Next]_vars PROVE [Delivery!CDNext]_(Delivery!cdVars)
      OBVIOUS
    <2>1. CASE AdminNext
      BY <2>1, AdminDelivery
    <2>2. CASE PollNext
      BY <2>2, HandlerDelivery DEF PollNext
    <2>3. CASE ClientNext
      BY <2>3, ClientDelivery
    <2>4. CASE ThreadNext
      BY <2>4, ThreadDelivery
    <2>5. CASE ResultNext
      BY <2>5, ResultDelivery
    <2>6. CASE UNCHANGED vars
      BY <2>6, DeliveryStutter DEF vars
    <2>7. QED
      BY <2>1, <2>2, <2>3, <2>4, <2>5, <2>6 DEF Next
  <1>3. QED
    BY <1>1, <1>2, Invariant, PTL DEF Spec, DeliverySpec, Delivery!CDSpec
=============================================================================
