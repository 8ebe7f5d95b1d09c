-------------------------- MODULE RegistrationProofs --------------------------
(***************************************************************************)
(* The safety of Registration for every set of machines, PINs and server   *)
(* threads and every bound.                                                *)
(***************************************************************************)
EXTENDS Registration, FiniteSetTheorems, TLAPS

(***************************************************************************)
(* The inductive invariant                                                 *)
(***************************************************************************)

\* What a registration under way has reached: its row, unless the PC was
\* deleted meanwhile, then the specs, then the verification.
Reached(w) ==
  /\ w.at \in {"update", "specs", "verify", "mark", "answer"} =>
       /\ w.id \in Id
       /\ row[w.machine] = w.id \/ w.machine \in deleted
  /\ w.at \in {"verify", "mark", "answer"} => w.id \in specs
  /\ w.at \in {"mark", "answer"} => w.machine \in deleted \/ row[w.machine] \in verified

HandlerInv == \A h \in Handler : Reached(handler[h])

\* A client that tries has an attempt left.
ClientInv == \A m \in Machine : client[m].at = "trying" => client[m].tries < MaxTries

Ind ==
  /\ TypeOK
  /\ HandlerInv
  /\ ClientInv
  /\ VerifiedIsComplete
  /\ FlagIsHonest

-----------------------------------------------------------------------------
(* Constants and the effects of the parts of actions *)

\* The arbitrary machine and PIN of idle threads and clients are legal ones.
LEMMA SomeConstants == SomeMachine \in Machine /\ SomePin \in Pin /\ Idle \in Work
  BY RegistrationAssumption DEF SomeMachine, SomePin, Idle, Work, NoId

\* The initial state satisfies the inductive invariant.
LEMMA InitInd == Init => Ind
  BY RegistrationAssumption, SomeConstants
  DEF Init, Ind, TypeOK, HandlerInv, Reached, ClientInv, VerifiedIsComplete, FlagIsHonest,
      Idle, NoToken, Token, Client

\* A failed attempt leaves a client with an attempt left or without hope.
LEMMA FailedEffect ==
  ASSUME NEW c \in Client
  PROVE  /\ Failed(c) \in Client
         /\ Failed(c).at = "trying" => Failed(c).tries < MaxTries
  <1>1. CASE c.tries < MaxTries
    <2>1. Failed(c) = [c EXCEPT !.at = "trying"]
      BY <1>1 DEF Failed
    <2>2. QED
      BY <1>1, <2>1 DEF Client
  <1>2. CASE ~(c.tries < MaxTries) /\ c.round = 1
    <2>1. Failed(c) = [at |-> "trying", pin |-> c.pin, round |-> 2, tries |-> 0]
      BY <1>2 DEF Failed, Client
    <2>2. 0 \in 0..MaxTries /\ 0 < MaxTries
      BY RegistrationAssumption
    <2>3. QED
      BY <2>1, <2>2 DEF Client
  <1>3. CASE ~(c.tries < MaxTries) /\ c.round # 1
    <2>1. Failed(c) = [c EXCEPT !.at = "gone"]
      BY <1>3 DEF Failed
    <2>2. QED
      BY <2>1 DEF Client
  <1>4. QED
    BY <1>1, <1>2, <1>3

\* A thread that goes on keeps its machine and its PIN.
LEMMA StepEffect ==
  ASSUME TypeOK, NEW h \in Handler, NEW from, NEW id \in Id \cup {NoId},
         NEW place \in {"lookup", "update", "insert", "specs", "verify", "mark", "answer"},
         Step(h, from, place, id)
  PROVE  /\ handler' \in [Handler -> Work]
         /\ \A g \in Handler \ {h} : handler'[g] = handler[g]
         /\ handler[h].at = from
         /\ handler'[h].at = place
         /\ handler'[h].id = id
         /\ handler'[h].machine = handler[h].machine
         /\ handler'[h].pin = handler[h].pin
         /\ UNCHANGED <<client, flag, deleted, faults>>
  <1>1. handler[h] \in Work
    BY DEF TypeOK
  <1>2. handler' = [handler EXCEPT ![h] = [handler[h] EXCEPT !.at = place, !.id = id]]
    BY DEF Step, Goto
  <1>3. [handler[h] EXCEPT !.at = place, !.id = id] \in Work
    BY <1>1 DEF Work
  <1>4. QED
    BY <1>1, <1>2, <1>3 DEF TypeOK, Step, Work

\* An answer ends the thread's work and lets its client go on.
LEMMA RespondEffect ==
  ASSUME TypeOK, ClientInv, NEW h \in Handler, NEW ok \in BOOLEAN, Respond(h, ok)
  PROVE  /\ handler' \in [Handler -> Work]
         /\ \A g \in Handler \ {h} : handler'[g] = handler[g]
         /\ handler'[h].at = "idle"
         /\ client' \in [Machine -> Client]
         /\ ClientInv'
         /\ flag' \subseteq flag \cup {m \in Machine : ok /\ m = handler[h].machine}
         /\ UNCHANGED <<deleted, uses>>
  <1> DEFINE m == handler[h].machine
  <1>1. m \in Machine /\ client[m] \in Client
    BY DEF TypeOK, Work
  <1>2. /\ handler' \in [Handler -> Work]
        /\ \A g \in Handler \ {h} : handler'[g] = handler[g]
        /\ handler'[h].at = "idle"
        /\ UNCHANGED <<deleted, uses>>
    BY SomeConstants DEF TypeOK, Respond, Idle
  <1>3. /\ client' \in [Machine -> Client]
        /\ ClientInv'
    <2>1. CASE handler[h].live /\ ok
      <3>1. client' = [client EXCEPT ![m] = [client[m] EXCEPT !.at = "running"]]
        BY <2>1 DEF Respond
      <3>2. [client[m] EXCEPT !.at = "running"] \in Client
        BY <1>1 DEF Client
      <3>3. QED
        BY <1>1, <3>1, <3>2 DEF TypeOK, ClientInv, Client
    <2>2. CASE handler[h].live /\ ~ok
      <3>1. client' = [client EXCEPT ![m] = Failed(client[m])]
        BY <2>2 DEF Respond
      <3>2. QED
        BY <1>1, <3>1, FailedEffect DEF TypeOK, ClientInv
    <2>3. CASE ~handler[h].live
      BY <2>3 DEF Respond, TypeOK, ClientInv
    <2>4. QED
      BY <2>1, <2>2, <2>3
  <1>4. flag' \subseteq flag \cup {n \in Machine : ok /\ n = handler[h].machine}
    BY <1>1 DEF Respond
  <1>5. QED
    BY <1>2, <1>3, <1>4

\* A lost connection changes only which answers are still waited for.
LEMMA AbandonedEffect ==
  ASSUME TypeOK, NEW m \in Machine, handler' = Abandoned(m)
  PROVE  /\ handler' \in [Handler -> Work]
         /\ \A h \in Handler : /\ handler'[h].at = handler[h].at
                               /\ handler'[h].id = handler[h].id
                               /\ handler'[h].machine = handler[h].machine
                               /\ handler'[h].pin = handler[h].pin
  <1>1. ASSUME NEW h \in Handler
        PROVE  /\ handler'[h] \in Work
               /\ handler'[h].at = handler[h].at
               /\ handler'[h].id = handler[h].id
               /\ handler'[h].machine = handler[h].machine
               /\ handler'[h].pin = handler[h].pin
    <2>1. handler[h] \in Work
      BY DEF TypeOK
    <2>2. handler'[h] = IF handler[h].machine = m THEN [handler[h] EXCEPT !.live = FALSE]
                                                  ELSE handler[h]
      BY DEF Abandoned
    <2>3. QED
      BY <2>1, <2>2 DEF Work
  <1>2. handler' \in [Handler -> Work]
    BY <1>1 DEF Abandoned
  <1>3. QED
    BY <1>1, <1>2

-----------------------------------------------------------------------------
(* Frames *)

\* Specs, verifications and deletions last, and a machine's row goes only by
\* deletion and comes only where there was none.
TablesGrow ==
  /\ specs \subseteq specs'
  /\ verified \subseteq verified'
  /\ deleted \subseteq deleted'
  /\ \A m \in Machine : row'[m] = row[m] \/ m \in deleted' \/ row[m] = NoId

\* A step that leaves the tables alone, or only adds to them.
LEMMA SameTables ==
  ASSUME UNCHANGED <<row, verified, specs>>, deleted \subseteq deleted'
  PROVE  TablesGrow
  BY DEF TablesGrow

\* What one registration has reached is not undone by others.
LEMMA ReachedFrame ==
  ASSUME Ind, TablesGrow, NEW h \in Handler,
         \/ handler'[h].at \in {"idle", "arrived", "lookup", "insert"}
         \/ /\ handler'[h].at = handler[h].at
            /\ handler'[h].id = handler[h].id
            /\ handler'[h].machine = handler[h].machine
  PROVE  Reached(handler[h])'
  <1>1. Reached(handler[h]) /\ handler[h].machine \in Machine
    BY DEF Ind, HandlerInv, TypeOK, Work
  <1>2. NoId \notin Id /\ NoId \notin verified
    BY RegistrationAssumption DEF Ind, TypeOK, NoId, Id
  <1>3. QED
    BY <1>1, <1>2 DEF Reached, TablesGrow

\* A step of one registration.
LEMMA HandlerFrame ==
  ASSUME Ind, TablesGrow, NEW h \in Handler,
         \A g \in Handler \ {h} : handler'[g] = handler[g],
         Reached(handler[h])'
  PROVE  HandlerInv'
  <1>1. ASSUME NEW g \in Handler \ {h} PROVE Reached(handler[g])'
    BY <1>1, ReachedFrame
  <1>2. QED
    BY <1>1 DEF HandlerInv

\* Flags stay honest while the tables grow.
LEMMA FlagFrame ==
  ASSUME Ind, TablesGrow, flag' \subseteq flag
  PROVE  FlagIsHonest'
  <1>1. NoId \notin verified /\ flag \subseteq Machine
    BY RegistrationAssumption DEF Ind, TypeOK, NoId, Id
  <1>2. QED
    BY <1>1 DEF Ind, FlagIsHonest, TablesGrow


-----------------------------------------------------------------------------
(* Every step preserves the invariant *)

\* The steps of a registration at the server.
LEMMA HandlerStepInd ==
  ASSUME Ind, NEW h \in Handler, HandlerStep(h)
  PROVE  Ind'
  <1>0. TypeOK /\ ClientInv /\ Reached(handler[h]) /\ handler[h] \in Work
    BY DEF Ind, HandlerInv, TypeOK
  <1>1. NoId \notin Id /\ NoId \in Id \cup {NoId}
    BY RegistrationAssumption DEF NoId, Id
  <1> USE DEF tables, uses
  <1>2. CASE Validate(h)
    <2>1. Step(h, "arrived", "lookup", NoId) /\ UNCHANGED <<tables, uses>>
      BY <1>2 DEF Validate
    <2>2. TypeOK' /\ ClientInv' /\ TablesGrow
      BY <1>0, <1>1, <2>1, StepEffect, SameTables DEF TypeOK, ClientInv
    <2>3. HandlerInv'
      BY <1>0, <1>1, <2>1, <2>2, StepEffect, HandlerFrame, ReachedFrame
    <2>4. QED
      BY <1>0, <1>1, <2>1, <2>2, <2>3, StepEffect, FlagFrame DEF Ind, VerifiedIsComplete
  <1>3. CASE Reject(h) \/ Duplicate(h)
    <2>1. Respond(h, FALSE) /\ UNCHANGED <<tables, faults>>
      BY <1>3 DEF Reject, Duplicate, DuplicateAnswer
    <2>2. TypeOK' /\ ClientInv' /\ TablesGrow /\ flag' \subseteq flag
      BY <1>0, <2>1, RespondEffect, SameTables DEF TypeOK
    <2>3. HandlerInv'
      BY <1>0, <2>1, <2>2, RespondEffect, HandlerFrame, ReachedFrame
    <2>4. QED
      BY <2>1, <2>2, <2>3, FlagFrame DEF Ind, VerifiedIsComplete
  <1>4. CASE LookUp(h)
    <2> DEFINE id == row[handler[h].machine]
    <2>1. id \in Id \cup {NoId}
      BY <1>0 DEF TypeOK, Work
    <2>2. PICK place \in {"insert", "update"} : /\ Step(h, "lookup", place, id)
                                                /\ place = "update" => id \in Id
      BY <1>4, <2>1 DEF LookUp
    <2>3. UNCHANGED <<tables, uses>>
      BY <1>4 DEF LookUp
    <2>4. TypeOK' /\ ClientInv' /\ TablesGrow
      BY <1>0, <2>1, <2>2, <2>3, StepEffect, SameTables DEF TypeOK, ClientInv
    <2>5. Reached(handler[h])'
      BY <1>0, <2>1, <2>2, <2>3, StepEffect DEF Reached
    <2>6. HandlerInv'
      BY <1>0, <2>1, <2>2, <2>4, <2>5, StepEffect, HandlerFrame
    <2>7. QED
      BY <1>0, <2>1, <2>2, <2>3, <2>4, <2>6, StepEffect, FlagFrame
      DEF Ind, VerifiedIsComplete
  <1>5. CASE UpdatePC(h)
    <2> DEFINE id == handler[h].id
    <2>1. id \in Id \cup {NoId}
      BY <1>0 DEF Work
    <2>2. PICK place \in {"verify", "specs"} : /\ Step(h, "update", place, id)
                                               /\ place = "verify" => id \in specs
      BY <1>5 DEF UpdatePC, HasSpecs
    <2>3. UNCHANGED <<tables, uses>>
      BY <1>5 DEF UpdatePC
    <2>4. TypeOK' /\ ClientInv' /\ TablesGrow
      BY <1>0, <2>1, <2>2, <2>3, StepEffect, SameTables DEF TypeOK, ClientInv
    <2>5. Reached(handler[h])'
      BY <1>0, <2>1, <2>2, <2>3, StepEffect DEF Reached
    <2>6. HandlerInv'
      BY <1>0, <2>1, <2>2, <2>4, <2>5, StepEffect, HandlerFrame
    <2>7. QED
      BY <1>0, <2>1, <2>2, <2>3, <2>4, <2>6, StepEffect, FlagFrame
      DEF Ind, VerifiedIsComplete
  <1>6. CASE InsertPC(h)
    <2> DEFINE m == handler[h].machine
               id == lastId + 1
    <2>1. id \in Id /\ id \in 0..MaxRows
      BY <1>0, <1>6, RegistrationAssumption DEF InsertPC, TypeOK, Id
    <2>2. /\ Step(h, "insert", "specs", id)
          /\ row[m] = NoId
          /\ row' = [row EXCEPT ![m] = id]
          /\ lastId' = id
          /\ UNCHANGED <<token, verified, specs, uses>>
      BY <1>6 DEF InsertPC
    <2>3. handler' \in [Handler -> Work] /\ UNCHANGED <<client, flag, deleted, faults>>
      BY <1>0, <2>1, <2>2, StepEffect
    <2>4. TypeOK' /\ ClientInv'
      BY <1>0, <2>1, <2>2, <2>3 DEF TypeOK, ClientInv
    <2>5. TablesGrow
      BY <1>0, <2>2, <2>3 DEF TablesGrow, TypeOK
    <2>6. Reached(handler[h])'
      BY <1>0, <2>1, <2>2, StepEffect DEF Reached, TypeOK, Work
    <2>7. HandlerInv'
      BY <1>0, <2>1, <2>2, <2>5, <2>6, StepEffect, HandlerFrame
    <2>8. QED
      BY <2>2, <2>3, <2>4, <2>5, <2>7, FlagFrame DEF Ind, VerifiedIsComplete
  <1>7. CASE InsertSpecs(h)
    <2> DEFINE id == handler[h].id
    <2>1. /\ Step(h, "specs", "verify", id)
          /\ specs' = specs \cup {id}
          /\ UNCHANGED <<token, row, lastId, verified, uses>>
          /\ id \in Id
      BY <1>0, <1>7 DEF InsertSpecs, Reached, Step
    <2>2. /\ handler' \in [Handler -> Work]
          /\ UNCHANGED <<client, flag, deleted, faults>>
      BY <1>0, <2>1, StepEffect
    <2>3. TypeOK' /\ ClientInv' /\ TablesGrow
      BY <1>0, <2>1, <2>2 DEF TypeOK, ClientInv, TablesGrow
    <2>4. Reached(handler[h])'
      BY <1>0, <2>1, StepEffect DEF Reached
    <2>5. HandlerInv'
      BY <1>0, <2>1, <2>3, <2>4, StepEffect, HandlerFrame
    <2>6. QED
      BY <2>1, <2>2, <2>3, <2>5, FlagFrame DEF Ind, VerifiedIsComplete
  <1>8. CASE Verify(h)
    <2> DEFINE id == handler[h].id
               m == handler[h].machine
    <2>1. /\ Step(h, "verify", "mark", id)
          /\ verified' = IF row[m] = id THEN verified \cup {id} ELSE verified
          /\ UNCHANGED <<token, row, lastId, specs, uncounted>>
          /\ admitted' = [admitted EXCEPT ![handler[h].pin] = @ + 1]
          /\ id \in Id /\ id \in specs
          /\ row[m] = id \/ m \in deleted
      BY <1>0, <1>8 DEF Verify, Reached, Step
    <2>2. /\ handler' \in [Handler -> Work]
          /\ UNCHANGED <<client, flag, deleted, faults>>
      BY <1>0, <2>1, StepEffect
    <2>3. TypeOK' /\ ClientInv' /\ TablesGrow
      <3>1. admitted' \in [Pin -> Nat]
        BY <1>0, <2>1 DEF TypeOK, Work
      <3>2. QED
        BY <1>0, <2>1, <2>2, <3>1 DEF TypeOK, ClientInv, TablesGrow
    <2>4. Reached(handler[h])'
      BY <1>0, <2>1, <2>2, StepEffect DEF Reached
    <2>5. HandlerInv'
      BY <1>0, <2>1, <2>3, <2>4, StepEffect, HandlerFrame
    <2>6. VerifiedIsComplete'
      BY <2>1 DEF Ind, VerifiedIsComplete
    <2>7. QED
      BY <2>2, <2>3, <2>5, <2>6, FlagFrame DEF Ind
  <1>9. CASE MarkUsed(h)
    <2> DEFINE id == handler[h].id
    <2>1. /\ Step(h, "mark", "answer", id)
          /\ token' = Counted(handler[h].pin)
          /\ UNCHANGED <<row, lastId, verified, specs, uses>>
          /\ id \in Id
      BY <1>0, <1>9 DEF MarkUsed, Reached, Step
    <2>2. /\ handler' \in [Handler -> Work]
          /\ UNCHANGED <<client, flag, deleted, faults>>
      BY <1>0, <2>1, StepEffect
    <2>3. token' \in [Pin -> Token]
      <3> DEFINE k == handler[h].pin
      <3>1. k \in Pin /\ token[k] \in Token
        BY <1>0 DEF TypeOK, Work
      <3>2. token' \in {token, [token EXCEPT ![k] = [token[k] EXCEPT !.used = token[k].used + 1]]}
        BY <2>1 DEF Counted
      <3>3. [token[k] EXCEPT !.used = token[k].used + 1] \in Token
        BY <3>1 DEF Token
      <3>4. QED
        BY <1>0, <3>1, <3>2, <3>3 DEF TypeOK
    <2>4. TypeOK' /\ ClientInv' /\ TablesGrow
      BY <1>0, <2>1, <2>2, <2>3 DEF TypeOK, ClientInv, TablesGrow
    <2>5. Reached(handler[h])'
      BY <1>0, <2>1, <2>2, StepEffect DEF Reached
    <2>6. HandlerInv'
      BY <1>0, <2>1, <2>4, <2>5, StepEffect, HandlerFrame
    <2>7. QED
      BY <2>1, <2>2, <2>4, <2>6, FlagFrame DEF Ind, VerifiedIsComplete
  <1>10. CASE Answer(h)
    <2>1. Respond(h, TRUE) /\ UNCHANGED <<tables, faults>> /\ handler[h].at = "answer"
      BY <1>10 DEF Answer
    <2>2. TypeOK' /\ ClientInv' /\ TablesGrow
      BY <1>0, <2>1, RespondEffect, SameTables DEF TypeOK
    <2>3. HandlerInv'
      BY <1>0, <2>1, <2>2, RespondEffect, HandlerFrame, ReachedFrame
    <2>4. handler[h].machine \in deleted \/ row[handler[h].machine] \in verified
      BY <1>0, <2>1 DEF Reached
    <2>5. FlagIsHonest'
      <3>1. /\ flag' \subseteq flag \cup {handler[h].machine}
            /\ UNCHANGED <<deleted, row, verified>>
        BY <1>0, <2>1, RespondEffect
      <3>2. QED
        BY <2>4, <3>1 DEF Ind, FlagIsHonest
    <2>6. QED
      BY <2>1, <2>2, <2>3, <2>5 DEF Ind, VerifiedIsComplete
  <1>11. QED
    BY <1>2, <1>3, <1>4, <1>5, <1>6, <1>7, <1>8, <1>9, <1>10 DEF HandlerStep

\* A statement of a registration fails.
LEMMA HandlerFailsInd ==
  ASSUME Ind, NEW h \in Handler, HandlerFails(h)
  PROVE  Ind'
  <1>0. TypeOK /\ ClientInv /\ Reached(handler[h]) /\ handler[h] \in Work
    BY DEF Ind, HandlerInv, TypeOK
  <1>1. faults' \in 0..MaxFaults
    <2>1. Fault
      BY DEF HandlerFails, MarkFails, StatementFails
    <2>2. QED
      BY <1>0, <2>1, RegistrationAssumption DEF Fault, TypeOK
  <1> USE DEF tables, uses
  <1>2. CASE MarkFails(h)
    <2> DEFINE id == handler[h].id
    <2>1. /\ handler' = [handler EXCEPT ![h] = [handler[h] EXCEPT !.at = "answer", !.id = id]]
          /\ handler[h].at = "mark"
          /\ uncounted' = [uncounted EXCEPT ![handler[h].pin] = @ + 1]
          /\ UNCHANGED <<tables, client, flag, deleted, admitted>>
      BY <1>2 DEF MarkFails, Goto
    <2>2. [handler[h] EXCEPT !.at = "answer", !.id = id] \in Work
      BY <1>0 DEF Work
    <2>3. /\ handler' \in [Handler -> Work]
          /\ \A g \in Handler \ {h} : handler'[g] = handler[g]
          /\ handler'[h].at = "answer"
          /\ handler'[h].id = handler[h].id
          /\ handler'[h].machine = handler[h].machine
      BY <1>0, <2>1, <2>2 DEF TypeOK, Work
    <2>4. TypeOK' /\ ClientInv' /\ TablesGrow
      <3>1. uncounted' \in [Pin -> Nat]
        BY <1>0, <2>1 DEF TypeOK, Work
      <3>2. QED
        BY <1>0, <1>1, <2>1, <2>3, <3>1, SameTables DEF TypeOK, ClientInv
    <2>5. Reached(handler[h])'
      BY <1>0, <2>1, <2>3 DEF Reached
    <2>6. HandlerInv'
      BY <2>3, <2>4, <2>5, HandlerFrame
    <2>7. QED
      BY <2>1, <2>4, <2>6, FlagFrame DEF Ind, VerifiedIsComplete
  <1>3. CASE StatementFails(h)
    <2>1. Respond(h, FALSE) /\ UNCHANGED tables
      BY <1>3 DEF StatementFails
    <2>2. TypeOK' /\ ClientInv' /\ TablesGrow /\ flag' \subseteq flag
      BY <1>0, <1>1, <2>1, RespondEffect, SameTables DEF TypeOK
    <2>3. HandlerInv'
      BY <1>0, <2>1, <2>2, RespondEffect, HandlerFrame, ReachedFrame
    <2>4. QED
      BY <2>1, <2>2, <2>3, FlagFrame DEF Ind, VerifiedIsComplete
  <1>4. QED
    BY <1>2, <1>3 DEF HandlerFails

\* The steps of administrators and of time.
LEMMA AdminInd ==
  ASSUME Ind, AdminNext
  PROVE  Ind'
  <1>0. TypeOK
    BY DEF Ind
  <1> USE DEF uses
  <1>1. /\ UNCHANGED <<lastId, verified, specs, handler, client, flag, faults>>
        /\ TypeOK'
        /\ TablesGrow
    <2>1. CASE \E k \in Pin, usage \in {"single", "multi"} : CreateToken(k, usage)
      <3>1. PICK k \in Pin, usage \in {"single", "multi"} : CreateToken(k, usage)
        BY <2>1
      <3>2. token' \in [Pin -> Token]
        BY <1>0, <3>1 DEF CreateToken, TypeOK, Token
      <3>3. QED
        BY <1>0, <3>1, <3>2 DEF CreateToken, TypeOK, TablesGrow
    <2>2. CASE \E k \in Pin : Expire(k)
      <3>1. PICK k \in Pin : Expire(k)
        BY <2>2
      <3>2. [token[k] EXCEPT !.status = "expired"] \in Token
        BY <1>0 DEF TypeOK, Token
      <3>3. token' = [token EXCEPT ![k] = [token[k] EXCEPT !.status = "expired"]]
        BY <3>1 DEF Expire
      <3>4. token' \in [Pin -> Token]
        BY <1>0, <3>2, <3>3 DEF TypeOK
      <3>5. QED
        BY <1>0, <3>1, <3>4 DEF Expire, TypeOK, TablesGrow
    <2>3. CASE \E k \in Pin : DeleteToken(k)
      <3>1. PICK k \in Pin : DeleteToken(k)
        BY <2>3
      <3>2. token' \in [Pin -> Token]
        BY <1>0, <3>1 DEF DeleteToken, NoToken, TypeOK, Token
      <3>3. QED
        BY <1>0, <3>1, <3>2 DEF DeleteToken, TypeOK, TablesGrow
    <2>4. CASE \E m \in Machine : DeletePC(m)
      BY <1>0, <2>4 DEF DeletePC, TypeOK, TablesGrow
    <2>5. QED
      BY <2>1, <2>2, <2>3, <2>4 DEF AdminNext
  <1>2. HandlerInv'
    BY <1>1, ReachedFrame DEF HandlerInv
  <1>3. QED
    BY <1>1, <1>2, FlagFrame DEF Ind, ClientInv, VerifiedIsComplete

\* A client that starts is installed or has all its attempts left.
LEMMA LaunchedEffect ==
  ASSUME TypeOK, ClientInv, NEW m \in Machine, NEW k \in Pin, Launched(m, k)
  PROVE  client' \in [Machine -> Client] /\ ClientInv'
  <1>1. 0 \in 0..MaxTries /\ 0 < MaxTries
    BY RegistrationAssumption
  <1>2. QED
    BY <1>1 DEF Launched, TypeOK, Client, ClientInv

\* The steps of a client.
LEMMA ClientInd ==
  ASSUME Ind, ClientNext
  PROVE  Ind'
  <1>0. TypeOK /\ ClientInv
    BY DEF Ind
  <1> USE DEF tables, uses
  <1>1. PICK m \in Machine :
          \/ \E k \in Pin : Install(m, k)
          \/ Boot(m)
          \/ \E h \in Handler : Attempt(m, h)
          \/ LoseAttempt(m)
          \/ SwitchOff(m)
          \/ SendHeartbeat(m)
          \/ EndHeartbeat(m)
    BY DEF ClientNext
  <1>2. UNCHANGED <<tables, deleted, uses>> /\ flag' \subseteq flag
    BY <1>1
    DEF Install, Boot, Attempt, LoseAttempt, SwitchOff, SendHeartbeat, EndHeartbeat
  <1>3. TablesGrow
    BY <1>2, SameTables
  <1>4. client[m] \in Client
    BY <1>0 DEF TypeOK
  <1>5. client' \in [Machine -> Client] /\ ClientInv'
    <2>1. CASE (\E k \in Pin : Install(m, k)) \/ Boot(m)
      BY <1>0, <1>4, <2>1, LaunchedEffect DEF Install, Boot, Client
    <2>2. CASE \E h \in Handler : Attempt(m, h)
      <3>1. /\ client' = [client EXCEPT ![m] = [at |-> "await", pin |-> client[m].pin,
                                                round |-> client[m].round,
                                                tries |-> client[m].tries + 1]]
            /\ client[m].tries < MaxTries
        BY <1>0, <1>4, <2>2 DEF Attempt, ClientInv, Client, TypeOK
      <3>2. client[m].tries + 1 \in 0..MaxTries
        BY <1>4, <3>1, RegistrationAssumption DEF Client
      <3>3. QED
        BY <1>0, <1>4, <3>1, <3>2 DEF Client, TypeOK, ClientInv
    <2>3. CASE LoseAttempt(m)
      <3>1. client' = [client EXCEPT ![m] = Failed(client[m])]
        BY <2>3 DEF LoseAttempt
      <3>2. QED
        BY <1>0, <1>4, <3>1, FailedEffect DEF TypeOK, ClientInv
    <2>4. CASE SwitchOff(m) \/ SendHeartbeat(m)
      <3>1. PICK place \in {"off", "beat"} : client' = [client EXCEPT ![m] = [client[m] EXCEPT !.at = place]]
        BY <2>4 DEF SwitchOff, SendHeartbeat
      <3>2. [client[m] EXCEPT !.at = place] \in Client
        BY <1>4, <3>1 DEF Client
      <3>3. QED
        BY <1>0, <1>4, <3>1, <3>2 DEF TypeOK, ClientInv, Client
    <2>5. CASE EndHeartbeat(m)
      <3>1. \/ client' = [client EXCEPT ![m] = [client[m] EXCEPT !.at = "running"]]
            \/ client' = [client EXCEPT ![m] = [at |-> "trying", pin |-> client[m].pin,
                                                round |-> client[m].round, tries |-> 0]]
        BY <1>0, <1>4, <2>5 DEF EndHeartbeat, Client, TypeOK
      <3>2. 0 \in 0..MaxTries /\ 0 < MaxTries
        BY RegistrationAssumption
      <3>3. [client[m] EXCEPT !.at = "running"] \in Client
        BY <1>4 DEF Client
      <3>4. PICK c \in Client : /\ client' = [client EXCEPT ![m] = c]
                                /\ c.at = "trying" => c.tries < MaxTries
        BY <1>4, <3>1, <3>2, <3>3 DEF Client
      <3>5. QED
        BY <1>0, <3>4 DEF TypeOK, ClientInv
    <2>6. QED
      BY <1>1, <2>1, <2>2, <2>3, <2>4, <2>5
  <1>6. handler' \in [Handler -> Work] /\ HandlerInv'
    <2>1. CASE \E h \in Handler : Attempt(m, h)
      <3>1. PICK h \in Handler : Attempt(m, h)
        BY <2>1
      <3>2. /\ handler' \in [Handler -> Work]
            /\ \A g \in Handler \ {h} : handler'[g] = handler[g]
            /\ handler'[h].at = "arrived"
        BY <1>0, <1>4, <3>1 DEF Attempt, TypeOK, Work, Client
      <3>3. QED
        BY <1>3, <3>2, HandlerFrame, ReachedFrame
    <2>2. CASE handler' = Abandoned(m)
      <3>1. handler' \in [Handler -> Work]
        BY <1>0, <2>2, AbandonedEffect
      <3>2. \A h \in Handler : Reached(handler[h])'
        BY <1>0, <1>3, <2>2, AbandonedEffect, ReachedFrame
      <3>3. QED
        BY <3>1, <3>2 DEF HandlerInv
    <2>3. CASE UNCHANGED handler
      <3>1. \A h \in Handler : Reached(handler[h])'
        BY <1>3, <2>3, ReachedFrame
      <3>2. QED
        BY <1>0, <2>3, <3>1 DEF HandlerInv, TypeOK
    <2>4. QED
      BY <1>1, <2>1, <2>2, <2>3
      DEF Install, Boot, LoseAttempt, SwitchOff, SendHeartbeat, EndHeartbeat
  <1>7. faults' \in 0..MaxFaults
    BY <1>0, <1>1, RegistrationAssumption
    DEF Install, Boot, Attempt, LoseAttempt, SwitchOff, SendHeartbeat, EndHeartbeat, Fault, TypeOK
  <1>8. TypeOK'
    BY <1>0, <1>2, <1>5, <1>6, <1>7 DEF TypeOK
  <1>9. QED
    BY <1>2, <1>3, <1>5, <1>6, <1>8, FlagFrame DEF Ind, VerifiedIsComplete

\* A restart of the server.
LEMMA RestartInd ==
  ASSUME Ind, Restart
  PROVE  Ind'
  <1>0. TypeOK /\ ClientInv
    BY DEF Ind
  <1> USE DEF tables
  <1>1. TablesGrow /\ UNCHANGED <<tables, flag, deleted>>
    BY SameTables DEF Restart
  <1>2. handler' \in [Handler -> Work] /\ HandlerInv'
    BY SomeConstants DEF Restart, HandlerInv, Reached, Idle
  <1>3. client' \in [Machine -> Client] /\ ClientInv'
    <2>1. ASSUME NEW m \in Machine
          PROVE  client'[m] \in Client /\ (client'[m].at = "trying" => client'[m].tries < MaxTries)
      BY <1>0, FailedEffect DEF Restart, TypeOK, ClientInv
    <2>2. QED
      BY <2>1 DEF Restart, ClientInv
  <1>4. faults' \in 0..MaxFaults
    BY <1>0, RegistrationAssumption DEF Restart, Fault, TypeOK
  <1>5. admitted' \in [Pin -> Nat] /\ uncounted' \in [Pin -> Nat]
    <2>1. ASSUME NEW k \in Pin PROVE Cardinality(AboutToCount(k)) \in Nat
      <3>1. AboutToCount(k) \in SUBSET Handler
        BY DEF AboutToCount
      <3>2. QED
        BY <3>1, RegistrationAssumption, FS_Subset, FS_CardinalityType
    <2>2. QED
      BY <1>0, <2>1 DEF Restart, TypeOK
  <1>6. QED
    BY <1>0, <1>1, <1>2, <1>3, <1>4, <1>5, FlagFrame DEF Ind, TypeOK, VerifiedIsComplete

\* Ind is an invariant of the registration.
THEOREM Invariant == Spec => []Ind
  <1>1. Ind /\ [Next]_vars => Ind'
    <2> SUFFICES ASSUME Ind, [Next]_vars PROVE Ind'
      OBVIOUS
    <2>1. CASE UNCHANGED vars
      BY <2>1
      DEF vars, Ind, TypeOK, HandlerInv, Reached, ClientInv, VerifiedIsComplete, FlagIsHonest
    <2>2. QED
      BY <2>1, AdminInd, ClientInd, HandlerStepInd, HandlerFailsInd, RestartInd DEF Next
  <1>2. QED
    BY <1>1, InitInd, PTL DEF Spec

\* All variables keep their types.
THEOREM TypeCorrect == Spec => []TypeOK
  <1>1. Ind => TypeOK
    BY DEF Ind
  <1>2. QED
    BY <1>1, Invariant, PTL

\* No restart, retry or race of registrations leaves a verified PC without specs.
THEOREM NeverHalfVerified == Spec => []VerifiedIsComplete
  <1>1. Ind => VerifiedIsComplete
    BY DEF Ind
  <1>2. QED
    BY <1>1, Invariant, PTL

\* A machine that believes it is registered is, unless its PC was deleted.
THEOREM FlagsTellTheTruth == Spec => []FlagIsHonest
  <1>1. Ind => FlagIsHonest
    BY DEF Ind
  <1>2. QED
    BY <1>1, Invariant, PTL

-----------------------------------------------------------------------------
(* How many registrations a single-use PIN lets through *)

\* The registrations that found the PIN good and have not counted its use.
InFlight(k) ==
  {h \in Handler : /\ handler[h].pin = k
                   /\ handler[h].at \in {"lookup", "update", "insert", "specs", "verify", "mark"}}

\* Threads are finitely many.
LEMMA Finite ==
  ASSUME NEW k \in Pin
  PROVE  /\ IsFiniteSet(Handler)
         /\ IsFiniteSet(InFlight(k)) /\ IsFiniteSet(InFlight(k)')
         /\ Cardinality(Handler) \in Nat
         /\ IsFiniteSet(AboutToCount(k)) /\ IsFiniteSet(AboutToCount(k)')
         /\ Cardinality(AboutToCount(k)) \in Nat
         /\ Cardinality(AboutToCount(k)') \in Nat
         /\ Cardinality(AboutToCount(k)) <= Cardinality(InFlight(k))
         /\ Cardinality(InFlight(k)) \in Nat
         /\ Cardinality(InFlight(k)') \in Nat
         /\ Cardinality(InFlight(k)') <= Cardinality(Handler)
  <1>1. IsFiniteSet(Handler)
    BY RegistrationAssumption
  <1>2. InFlight(k) \in SUBSET Handler /\ InFlight(k)' \in SUBSET Handler
    BY DEF InFlight
  <1>3. IsFiniteSet(InFlight(k)) /\ IsFiniteSet(InFlight(k)')
    BY <1>1, <1>2, FS_Subset
  <1>4. AboutToCount(k) \in SUBSET InFlight(k) /\ AboutToCount(k)' \in SUBSET InFlight(k)'
    BY DEF InFlight, AboutToCount
  <1>5. IsFiniteSet(AboutToCount(k)) /\ IsFiniteSet(AboutToCount(k)')
    BY <1>3, <1>4, FS_Subset
  <1>6. QED
    BY <1>1, <1>2, <1>3, <1>4, <1>5, FS_Subset, FS_CardinalityType

Bounded(k) ==
  token[k].usage = "single" =>
    token[k].used + Cardinality(InFlight(k)) <= Cardinality(Handler)

\* A PIN nobody used yet: at most all threads are at it.
LEMMA FreshPin ==
  ASSUME NEW k \in Pin, token'[k].used = 0
  PROVE  Bounded(k)'
  BY Finite DEF Bounded

\* Steps that count no use and start no registration.
LEMMA BoundedFrame ==
  ASSUME TypeOK, NEW k \in Pin, Bounded(k),
         token'[k].usage = token[k].usage, token'[k].used = token[k].used,
         \A h \in Handler : h \in InFlight(k)' => h \in InFlight(k)
  PROVE  Bounded(k)'
  <1>1. token[k].used \in Nat
    BY DEF TypeOK, Token
  <1>2. InFlight(k)' \in SUBSET InFlight(k)
    BY DEF InFlight
  <1>3. Cardinality(InFlight(k)') <= Cardinality(InFlight(k))
    BY <1>2, Finite, FS_Subset
  <1>4. QED
    BY <1>1, <1>3, Finite DEF Bounded

\* A registration starts only when a single-use PIN shows no use.
LEMMA ValidateBounded ==
  ASSUME Ind, NEW h \in Handler, Validate(h), NEW k \in Pin, Bounded(k)
  PROVE  Bounded(k)'
  <1>0. TypeOK /\ NoId \in Id \cup {NoId}
    BY DEF Ind
  <1>1. Step(h, "arrived", "lookup", NoId) /\ token' = token
    BY DEF Validate, tables
  <1>2. CASE handler[h].pin # k
    <2>1. \A g \in Handler : g \in InFlight(k)' => g \in InFlight(k)
      BY <1>0, <1>1, <1>2, StepEffect DEF InFlight
    <2>2. QED
      BY <1>0, <1>1, <2>1, BoundedFrame
  <1>3. CASE handler[h].pin = k /\ token[k].usage = "multi"
    BY <1>1, <1>3 DEF Bounded
  <1>4. CASE handler[h].pin = k /\ token[k].used = 0
    BY <1>1, <1>4, FreshPin
  <1>5. QED
    BY <1>2, <1>3, <1>4 DEF Validate, Usable

\* A counted use is one registration fewer under way.
LEMMA MarkUsedBounded ==
  ASSUME Ind, NEW h \in Handler, MarkUsed(h), NEW k \in Pin, Bounded(k)
  PROVE  Bounded(k)'
  <1>0. TypeOK /\ handler[h] \in Work
    BY DEF Ind, TypeOK
  <1>1. /\ Step(h, "mark", "answer", handler[h].id)
        /\ handler[h].id \in Id \cup {NoId}
        /\ token' = Counted(handler[h].pin)
    BY <1>0 DEF MarkUsed, Work
  <1>2. \A g \in Handler : g \in InFlight(k)' => g \in InFlight(k) /\ g # h
    BY <1>0, <1>1, StepEffect DEF InFlight
  <1>3. CASE handler[h].pin # k \/ token[k].status = "absent"
    <2>1. token'[k] = token[k]
      BY <1>0, <1>1, <1>3 DEF Counted, TypeOK, Work
    <2>2. QED
      BY <1>0, <1>2, <2>1, BoundedFrame
  <1>4. CASE handler[h].pin = k /\ token[k].status # "absent"
    <2>1. token[k] \in Token
      BY <1>0 DEF TypeOK
    <2>2. token' = [token EXCEPT ![k] = [token[k] EXCEPT !.used = token[k].used + 1]]
      BY <1>1, <1>4 DEF Counted
    <2>3. /\ token'[k].usage = token[k].usage
          /\ token'[k].used = token[k].used + 1
          /\ token[k].used \in Nat
      BY <1>0, <2>1, <2>2 DEF TypeOK, Token
    <2>4. h \in InFlight(k)
      BY <1>1, <1>4 DEF InFlight, Step
    <2>5. InFlight(k)' \in SUBSET (InFlight(k) \ {h})
      BY <1>2 DEF InFlight
    <2>6. /\ IsFiniteSet(InFlight(k) \ {h})
          /\ Cardinality(InFlight(k) \ {h}) = Cardinality(InFlight(k)) - 1
      BY <2>4, Finite, FS_RemoveElement
    <2>7. Cardinality(InFlight(k)') <= Cardinality(InFlight(k)) - 1
      BY <2>5, <2>6, FS_Subset
    <2>8. QED
      BY <2>3, <2>7, Finite DEF Bounded
  <1>5. QED
    BY <1>3, <1>4

\* Tokens created, expired or deleted.
LEMMA AdminBounded ==
  ASSUME Ind, AdminNext, NEW k \in Pin, Bounded(k)
  PROVE  Bounded(k)'
  <1>0. TypeOK
    BY DEF Ind
  <1>1. UNCHANGED handler
    BY DEF AdminNext, CreateToken, Expire, DeleteToken, DeletePC
  <1>2. \/ token'[k].used = 0
        \/ token'[k].usage = token[k].usage /\ token'[k].used = token[k].used
    <2>1. CASE \E j \in Pin, usage \in {"single", "multi"} : CreateToken(j, usage)
      BY <1>0, <2>1 DEF CreateToken, TypeOK
    <2>2. CASE \E j \in Pin : Expire(j)
      <3>1. PICK j \in Pin : Expire(j)
        BY <2>2
      <3>2. token' = [token EXCEPT ![j] = [token[j] EXCEPT !.status = "expired"]]
        BY <3>1 DEF Expire
      <3>3. QED
        BY <1>0, <3>2 DEF TypeOK, Token
    <2>3. CASE \E j \in Pin : DeleteToken(j)
      BY <1>0, <2>3 DEF DeleteToken, NoToken, TypeOK
    <2>4. CASE \E m \in Machine : DeletePC(m)
      BY <2>4 DEF DeletePC
    <2>5. QED
      BY <2>1, <2>2, <2>3, <2>4 DEF AdminNext
  <1>3. InFlight(k)' = InFlight(k)
    BY <1>1 DEF InFlight
  <1>4. QED
    BY <1>0, <1>2, <1>3, FreshPin, BoundedFrame

\* All other steps; a use that is not counted is no less one registration fewer.
LEMMA OtherBounded ==
  ASSUME Ind, [Next]_vars, ~AdminNext, NEW k \in Pin, Bounded(k),
         ~\E h \in Handler : Validate(h) \/ MarkUsed(h)
  PROVE  Bounded(k)'
  <1>0. TypeOK /\ ClientInv
    BY DEF Ind
  <1> USE DEF tables
  <1>1. UNCHANGED token
    BY DEF Next, ClientNext, Install, Boot, Attempt, LoseAttempt, SwitchOff, SendHeartbeat,
           EndHeartbeat, HandlerStep, Reject, LookUp, UpdatePC, InsertPC, Duplicate,
           InsertSpecs, Verify, Answer, HandlerFails, MarkFails, StatementFails, Restart, vars
  <1>2. \A g \in Handler : g \in InFlight(k)' => g \in InFlight(k)
    <2>1. CASE \E h \in Handler : HandlerStep(h)
      <3>1. PICK h \in Handler : HandlerStep(h) /\ ~Validate(h) /\ ~MarkUsed(h)
        BY <2>1
      <3>2. \A g \in Handler \ {h} : handler'[g] = handler[g]
        BY <1>0, <3>1
        DEF HandlerStep, Reject, LookUp, UpdatePC, InsertPC, Duplicate, InsertSpecs, Verify,
            Answer, Step, Goto, Respond, TypeOK
      <3>3. CASE Reject(h) \/ Duplicate(h) \/ Answer(h)
        <4>1. handler'[h].at = "idle"
          BY <1>0, <3>3, RespondEffect DEF Reject, Duplicate, DuplicateAnswer, Answer
        <4>2. QED
          BY <3>2, <4>1 DEF InFlight
      <3>4. CASE LookUp(h) \/ UpdatePC(h) \/ InsertPC(h) \/ InsertSpecs(h) \/ Verify(h)
        <4>1. /\ handler'[h].pin = handler[h].pin
              /\ handler[h].at \in {"lookup", "update", "insert", "specs", "verify"}
          BY <1>0, <3>4
          DEF LookUp, UpdatePC, InsertPC, InsertSpecs, Verify, Step, Goto, TypeOK, Work
        <4>2. QED
          BY <3>2, <4>1 DEF InFlight
      <3>5. QED
        BY <3>1, <3>3, <3>4 DEF HandlerStep
    <2>2. CASE \E m \in Machine, h \in Handler : Attempt(m, h)
      <3>1. PICK m \in Machine, h \in Handler : Attempt(m, h)
        BY <2>2
      <3>2. /\ \A g \in Handler \ {h} : handler'[g] = handler[g]
            /\ handler'[h].at = "arrived"
        BY <1>0, <3>1 DEF Attempt, TypeOK
      <3>3. QED
        BY <3>2 DEF InFlight
    <2>3. CASE \E m \in Machine : handler' = Abandoned(m)
      BY <1>0, <2>3, AbandonedEffect DEF InFlight
    <2>4. CASE Restart
      BY <2>4 DEF Restart, Idle, InFlight
    <2>5. CASE UNCHANGED handler
      BY <2>5 DEF InFlight
    <2>6. CASE \E h \in Handler : HandlerFails(h)
      <3>1. PICK h \in Handler : HandlerFails(h)
        BY <2>6
      <3>2. /\ \A g \in Handler \ {h} : handler'[g] = handler[g]
            /\ handler'[h].at \in {"idle", "answer"}
        BY <1>0, <3>1
        DEF HandlerFails, MarkFails, StatementFails, Goto, Respond, TypeOK, Work, Idle
      <3>3. QED
        BY <3>2 DEF InFlight
    <2>7. QED
      BY <2>1, <2>2, <2>3, <2>4, <2>5, <2>6
      DEF Next, ClientNext, Install, Boot, LoseAttempt, SwitchOff, SendHeartbeat, EndHeartbeat,
          vars
  <1>3. QED
    BY <1>0, <1>1, <1>2, BoundedFrame

\* Every registration admitted with a PIN is counted, about to be or known to be
\* uncounted.
Accounted(k) ==
  token[k].status # "absent" =>
    admitted[k] <= token[k].used + uncounted[k] + Cardinality(AboutToCount(k))

\* Steps that admit nobody and let no use be forgotten.
LEMMA AccountedFrame ==
  ASSUME NEW k \in Pin, Accounted(k),
         token'[k].status # "absent" =>
           /\ token[k].status # "absent"
           /\ token'[k].used = token[k].used,
         UNCHANGED <<admitted[k], uncounted[k]>>,
         \A h \in Handler : h \in AboutToCount(k)' <=> h \in AboutToCount(k)
  PROVE  Accounted(k)'
  <1>1. AboutToCount(k)' = AboutToCount(k)
    BY DEF AboutToCount
  <1>2. QED
    BY <1>1 DEF Accounted

\* One thread comes to or leaves the count of the use of its PIN.
LEMMA AccountedCard ==
  ASSUME NEW h \in Handler, NEW k \in Pin,
         \A g \in Handler \ {h} : handler'[g] = handler[g]
  PROVE  /\ h \in AboutToCount(k) /\ h \notin AboutToCount(k)' =>
              Cardinality(AboutToCount(k)') = Cardinality(AboutToCount(k)) - 1
         /\ h \notin AboutToCount(k) /\ h \in AboutToCount(k)' =>
              Cardinality(AboutToCount(k)') = Cardinality(AboutToCount(k)) + 1
  <1>1. ASSUME h \in AboutToCount(k), h \notin AboutToCount(k)'
        PROVE  Cardinality(AboutToCount(k)') = Cardinality(AboutToCount(k)) - 1
    <2>1. AboutToCount(k)' = AboutToCount(k) \ {h}
      BY <1>1 DEF AboutToCount
    <2>2. QED
      BY <1>1, <2>1, Finite, FS_RemoveElement
  <1>2. ASSUME h \notin AboutToCount(k), h \in AboutToCount(k)'
        PROVE  Cardinality(AboutToCount(k)') = Cardinality(AboutToCount(k)) + 1
    <2>1. AboutToCount(k)' = AboutToCount(k) \cup {h}
      BY <1>2 DEF AboutToCount
    <2>2. QED
      BY <1>2, <2>1, Finite, FS_AddElement
  <1>3. QED
    BY <1>1, <1>2

\* A thread that admits a machine goes on to count it; one that counts or fails to
\* shows up in one of the two counters.
LEMMA CountingAccounted ==
  ASSUME Ind, NEW h \in Handler, Verify(h) \/ MarkUsed(h) \/ MarkFails(h),
         NEW k \in Pin, Accounted(k)
  PROVE  Accounted(k)'
  <1>0. /\ TypeOK /\ handler[h] \in Work
        /\ admitted[k] \in Nat /\ uncounted[k] \in Nat /\ token[k] \in Token
        /\ token[k].used \in Nat
    BY DEF Ind, TypeOK, Token
  <1> USE DEF tables, uses
  <1>1. /\ \A g \in Handler \ {h} : handler'[g] = handler[g]
        /\ handler'[h].pin = handler[h].pin
        /\ handler'[h].at = IF Verify(h) THEN "mark" ELSE "answer"
        /\ handler[h].at = IF Verify(h) THEN "verify" ELSE "mark"
    BY <1>0 DEF Verify, MarkUsed, MarkFails, Step, Goto, TypeOK, Work
  <1>2. CASE handler[h].pin # k
    <2>1. \A g \in Handler : g \in AboutToCount(k)' <=> g \in AboutToCount(k)
      BY <1>1, <1>2 DEF AboutToCount
    <2>2. UNCHANGED <<token[k], admitted[k], uncounted[k]>>
      BY <1>0, <1>2 DEF Verify, MarkUsed, MarkFails, Counted, TypeOK, Work
    <2>3. QED
      BY <2>1, <2>2, AccountedFrame
  <1>3. CASE handler[h].pin = k /\ Verify(h)
    <2>1. admitted'[k] = admitted[k] + 1 /\ UNCHANGED <<token, uncounted>>
      BY <1>0, <1>3 DEF Verify, TypeOK
    <2>2. h \notin AboutToCount(k) /\ h \in AboutToCount(k)'
      BY <1>1, <1>3 DEF AboutToCount
    <2>3. Cardinality(AboutToCount(k)') = Cardinality(AboutToCount(k)) + 1
      BY <1>1, <2>2, AccountedCard
    <2>4. QED
      BY <1>0, <2>1, <2>3, Finite DEF Accounted
  <1>4. CASE handler[h].pin = k /\ (MarkUsed(h) \/ MarkFails(h))
    <2>1. h \in AboutToCount(k) /\ h \notin AboutToCount(k)'
      BY <1>1, <1>4 DEF AboutToCount, MarkUsed, MarkFails, Step
    <2>2. Cardinality(AboutToCount(k)') = Cardinality(AboutToCount(k)) - 1
      BY <1>1, <2>1, AccountedCard
    <2>3. CASE MarkUsed(h) /\ token[k].status # "absent"
      <3>1. token' = [token EXCEPT ![k] = [token[k] EXCEPT !.used = token[k].used + 1]]
        BY <1>4, <2>3 DEF MarkUsed, Counted
      <3>2. token'[k].used = token[k].used + 1 /\ UNCHANGED <<admitted, uncounted>>
        BY <1>0, <2>3, <3>1 DEF MarkUsed, TypeOK, Token
      <3>3. QED
        BY <1>0, <2>2, <2>3, <3>2, Finite DEF Accounted
    <2>4. CASE MarkUsed(h) /\ token[k].status = "absent"
      BY <1>4, <2>4 DEF MarkUsed, Counted, Accounted
    <2>5. CASE MarkFails(h)
      <3>1. uncounted'[k] = uncounted[k] + 1 /\ UNCHANGED <<token, admitted>>
        BY <1>0, <1>4, <2>5 DEF MarkFails, TypeOK
      <3>2. QED
        BY <1>0, <2>2, <3>1, Finite DEF Accounted
    <2>6. QED
      BY <1>4, <2>3, <2>4, <2>5
  <1>5. QED
    BY <1>2, <1>3, <1>4

\* A restart leaves what was about to be counted uncounted.
LEMMA RestartAccounted ==
  ASSUME Ind, Restart, NEW k \in Pin, Accounted(k)
  PROVE  Accounted(k)'
  <1>1. /\ admitted[k] \in Nat /\ uncounted[k] \in Nat /\ token[k].used \in Nat
    BY DEF Ind, TypeOK, Token
  <1>2. /\ uncounted'[k] = uncounted[k] + Cardinality(AboutToCount(k))
        /\ UNCHANGED <<token, admitted>>
    BY DEF Restart, tables
  <1>3. AboutToCount(k)' = {}
    BY DEF Restart, Idle, AboutToCount
  <1>4. Cardinality(AboutToCount(k)') = 0
    BY <1>3, FS_EmptySet
  <1>5. QED
    BY <1>1, <1>2, <1>4, Finite DEF Accounted

\* A PIN is created with nobody admitted; expiry and deletion admit nobody.
LEMMA AdminAccounted ==
  ASSUME Ind, AdminNext, NEW k \in Pin, Accounted(k)
  PROVE  Accounted(k)'
  <1>0. TypeOK
    BY DEF Ind
  <1> USE DEF uses
  <1>1. \A h \in Handler : h \in AboutToCount(k)' <=> h \in AboutToCount(k)
    BY DEF AdminNext, CreateToken, Expire, DeleteToken, DeletePC, AboutToCount
  <1>2. CASE \E j \in Pin, usage \in {"single", "multi"} : CreateToken(j, usage)
    <2>1. PICK j \in Pin, usage \in {"single", "multi"} : CreateToken(j, usage)
      BY <1>2
    <2>2. CASE j = k
      <3>1. token'[k].used = 0 /\ admitted'[k] = 0 /\ uncounted'[k] = 0
        BY <1>0, <2>1, <2>2 DEF CreateToken, TypeOK
      <3>2. QED
        BY <3>1, Finite DEF Accounted
    <2>3. CASE j # k
      <3>1. UNCHANGED <<token[k], admitted[k], uncounted[k]>>
        BY <1>0, <2>1, <2>3 DEF CreateToken, TypeOK
      <3>2. QED
        BY <1>1, <3>1, AccountedFrame
    <2>4. QED
      BY <2>2, <2>3
  <1>3. CASE \E j \in Pin : Expire(j)
    <2>1. PICK j \in Pin : Expire(j)
      BY <1>3
    <2>2. /\ token' = [token EXCEPT ![j] = [token[j] EXCEPT !.status = "expired"]]
          /\ token[j].status # "absent"
          /\ UNCHANGED <<admitted, uncounted>>
      BY <2>1 DEF Expire
    <2>3. token'[k].used = token[k].used /\ (token[k].status = "absent" => token'[k] = token[k])
      BY <1>0, <2>2 DEF TypeOK, Token
    <2>4. QED
      BY <1>1, <2>2, <2>3, AccountedFrame
  <1>4. CASE \E j \in Pin : DeleteToken(j)
    <2>1. PICK j \in Pin : DeleteToken(j)
      BY <1>4
    <2>2. token'[k].status = "absent" \/ token'[k] = token[k]
      BY <1>0, <2>1 DEF DeleteToken, NoToken, TypeOK
    <2>3. UNCHANGED <<admitted, uncounted>>
      BY <2>1 DEF DeleteToken
    <2>4. QED
      BY <1>1, <2>2, <2>3, AccountedFrame
  <1>5. CASE \E m \in Machine : DeletePC(m)
    BY <1>1, <1>5, AccountedFrame DEF DeletePC
  <1>6. QED
    BY <1>2, <1>3, <1>4, <1>5 DEF AdminNext

\* All other steps.
LEMMA OtherAccounted ==
  ASSUME Ind, [Next]_vars, ~AdminNext, ~Restart, NEW k \in Pin, Accounted(k),
         ~\E h \in Handler : Verify(h) \/ MarkUsed(h) \/ MarkFails(h)
  PROVE  Accounted(k)'
  <1>0. TypeOK /\ ClientInv
    BY DEF Ind
  <1> USE DEF tables, uses
  <1>1. UNCHANGED <<token, admitted, uncounted>>
    BY DEF Next, ClientNext, Install, Boot, Attempt, LoseAttempt, SwitchOff, SendHeartbeat,
           EndHeartbeat, HandlerStep, Validate, Reject, LookUp, UpdatePC, InsertPC, Duplicate,
           InsertSpecs, Answer, HandlerFails, StatementFails, Respond, vars
  <1>2. \A g \in Handler : g \in AboutToCount(k)' <=> g \in AboutToCount(k)
    <2>1. CASE \E h \in Handler : HandlerStep(h) \/ HandlerFails(h)
      <3>1. PICK h \in Handler : HandlerStep(h) \/ HandlerFails(h)
        BY <2>1
      <3>2. /\ \A g \in Handler \ {h} : handler'[g] = handler[g]
            /\ handler[h].at # "mark" /\ handler'[h].at # "mark"
        BY <1>0, <3>1
        DEF HandlerStep, HandlerFails, Validate, Reject, LookUp, UpdatePC, InsertPC, Duplicate,
            InsertSpecs, Answer, StatementFails, Step, Goto, Respond, TypeOK, Work, Idle
      <3>3. QED
        BY <3>2 DEF AboutToCount
    <2>2. CASE \E m \in Machine, h \in Handler : Attempt(m, h)
      <3>1. PICK m \in Machine, h \in Handler : Attempt(m, h)
        BY <2>2
      <3>2. /\ \A g \in Handler \ {h} : handler'[g] = handler[g]
            /\ handler[h].at = "idle" /\ handler'[h].at = "arrived"
        BY <1>0, <3>1 DEF Attempt, TypeOK
      <3>3. QED
        BY <3>2 DEF AboutToCount
    <2>3. CASE \E m \in Machine : handler' = Abandoned(m)
      BY <1>0, <2>3, AbandonedEffect DEF AboutToCount
    <2>4. CASE UNCHANGED handler
      BY <2>4 DEF AboutToCount
    <2>5. QED
      BY <2>1, <2>2, <2>3, <2>4
      DEF Next, ClientNext, Install, Boot, LoseAttempt, SwitchOff, SendHeartbeat, EndHeartbeat,
          vars
  <1>3. QED
    BY <1>1, <1>2, AccountedFrame

\* The race between the check of a single-use PIN and the count of its use lets through
\* no more registrations than there are server threads, beside those that were never
\* counted.
THEOREM SinglePinBounded == Spec => []UsesBounded
  <1>1. Init => \A k \in Pin : Bounded(k) /\ Accounted(k)
    <2> SUFFICES ASSUME Init, NEW k \in Pin PROVE Bounded(k) /\ Accounted(k)
      OBVIOUS
    <2>1. InFlight(k) = {} /\ token[k].used = 0 /\ token[k].status = "absent"
      BY DEF Init, InFlight, Idle, NoToken
    <2>2. QED
      BY <2>1, Finite, FS_EmptySet DEF Bounded, Accounted
  <1>2. Ind /\ [Next]_vars /\ (\A k \in Pin : Bounded(k) /\ Accounted(k))
          => (\A k \in Pin : Bounded(k) /\ Accounted(k))'
    <2>1. ASSUME Ind, [Next]_vars, NEW k \in Pin, Bounded(k) PROVE Bounded(k)'
      BY <2>1, AdminBounded, ValidateBounded, MarkUsedBounded, OtherBounded
    <2>2. ASSUME Ind, [Next]_vars, NEW k \in Pin, Accounted(k) PROVE Accounted(k)'
      BY <2>2, AdminAccounted, CountingAccounted, RestartAccounted, OtherAccounted
    <2>3. QED
      BY <2>1, <2>2 DEF Bounded, Accounted
  <1>3. Ind /\ (\A k \in Pin : Bounded(k) /\ Accounted(k)) => UsesBounded
    <2> SUFFICES ASSUME Ind, NEW k \in Pin, Bounded(k), Accounted(k),
                        token[k].status # "absent", token[k].usage = "single"
                 PROVE  admitted[k] <= Cardinality(Handler) + uncounted[k]
      BY DEF UsesBounded
    <2>1. admitted[k] \in Nat /\ uncounted[k] \in Nat /\ token[k].used \in Nat
      BY DEF Ind, TypeOK, Token
    <2>2. QED
      BY <2>1, Finite DEF Bounded, Accounted
  <1>4. QED
    BY <1>1, <1>2, <1>3, Invariant, PTL DEF Spec

-----------------------------------------------------------------------------
(* The promise: registrations admit machines in one step each *)

\* An id belongs to one machine, and only ids that were given out are verified.
IdInv ==
  /\ verified \subseteq 1..lastId
  /\ \A m \in Machine : row[m] <= lastId
  /\ \A m, n \in Machine : row[m] = row[n] => m = n \/ row[m] = NoId

\* Steps that give out no id and verify none.
LEMMA IdFrame ==
  ASSUME TypeOK, IdInv, UNCHANGED <<lastId, verified>>,
         \A m \in Machine : row'[m] = row[m] \/ row'[m] = NoId
  PROVE  IdInv'
  <1>1. lastId \in Nat
    BY RegistrationAssumption DEF TypeOK
  <1>2. QED
    BY <1>1 DEF IdInv, NoId

\* Ids stay unique.
LEMMA IdStep ==
  ASSUME Ind, IdInv, [Next]_vars
  PROVE  IdInv'
  <1>0. TypeOK /\ lastId \in Nat
    BY RegistrationAssumption DEF Ind, TypeOK
  <1>1. CASE \E h \in Handler : InsertPC(h)
    <2>1. PICK h \in Handler : InsertPC(h)
      BY <1>1
    <2> DEFINE m == handler[h].machine
    <2>2. /\ m \in Machine
          /\ row' = [row EXCEPT ![m] = lastId + 1]
          /\ lastId' = lastId + 1
          /\ verified' = verified
      BY <1>0, <2>1 DEF InsertPC, TypeOK, Work
    <2>3. \A n \in Machine : row'[n] = IF n = m THEN lastId + 1 ELSE row[n]
      BY <1>0, <2>2 DEF TypeOK
    <2>4. \A n \in Machine : row[n] \in Nat
      BY <1>0 DEF TypeOK, Id, NoId
    <2>5. QED
      BY <1>0, <2>2, <2>3, <2>4 DEF IdInv, NoId
  <1>2. CASE \E h \in Handler : Verify(h)
    <2>1. PICK h \in Handler : Verify(h)
      BY <1>2
    <2>2. handler[h].machine \in Machine /\ handler[h].id \in Id
      BY <1>0, <2>1 DEF Verify, Step, TypeOK, Work, Ind, HandlerInv, Reached
    <2> DEFINE id == handler[h].id
    <2>3. /\ UNCHANGED <<row, lastId>>
          /\ \/ verified' = verified
             \/ verified' = verified \cup {id} /\ row[handler[h].machine] = id
      BY <2>1 DEF Verify
    <2>4. row[handler[h].machine] = id => id \in 1..lastId
      BY <1>0, <2>2 DEF IdInv, Id
    <2>5. QED
      BY <2>3, <2>4 DEF IdInv
  <1>3. CASE \E m \in Machine : DeletePC(m)
    BY <1>0, <1>3, IdFrame DEF DeletePC, TypeOK
  <1>4. CASE UNCHANGED <<row, lastId, verified>>
    BY <1>0, <1>4, IdFrame
  <1>5. QED
    BY <1>1, <1>2, <1>3, <1>4
    DEF Next, AdminNext, CreateToken, Expire, DeleteToken, ClientNext, Install, Boot, Attempt,
        LoseAttempt, SwitchOff, SendHeartbeat, EndHeartbeat, HandlerStep, Validate, Reject,
        LookUp, UpdatePC, Duplicate, InsertSpecs, MarkUsed, Answer, HandlerFails, MarkFails,
        StatementFails, Restart, tables, vars

\* Verified PCs have their specs, so members are the machines with a verified PC.
LEMMA MembersAreVerified ==
  /\ Ind => Members = {m \in Machine : row[m] \in verified}
  /\ Ind' => Members' = {m \in Machine : row'[m] \in verified'}
  BY DEF Ind, VerifiedIsComplete, Members

\* No registrations and no members at first.
LEMMA PromiseInit == Init => Promise!AdInit
  BY DEF Init, Promise!AdInit, Promise!NoPin, NoToken, Promise!NoTicket, Tickets, Members, Idle

\* A step that concerns the work of thread h alone.
LEMMA OneTicket ==
  ASSUME NEW h \in Handler, \A g \in Handler \ {h} : handler'[g] = handler[g]
  PROVE  Tickets' = [Tickets EXCEPT ![h] = Tickets'[h]]
  BY DEF Tickets

\* Work that ends before a machine is admitted, or after the use is counted, is dropped,
\* if it was accepted at all.
LEMMA EndOfWork ==
  ASSUME NEW h \in Handler, \A g \in Handler \ {h} : handler'[g] = handler[g],
         handler[h] \in Work, handler[h].at # "mark", handler'[h].at = "idle",
         UNCHANGED <<token, Members, flag, deleted>>, faults' \in {faults, faults + 1}
  PROVE  Promise!Drop({h})
  <1>1. Tickets'[h] = Promise!NoTicket
    BY DEF Tickets, Promise!NoTicket
  <1>2. Tickets' = [c \in Handler |-> IF c \in {h} THEN Promise!NoTicket ELSE Tickets[c]]
    BY <1>1, OneTicket DEF Tickets
  <1>3. CASE handler[h].at \in {"idle", "arrived"}
    BY <1>2, <1>3 DEF Promise!Drop, Tickets
  <1>4. CASE handler[h].at \in {"lookup", "update", "insert", "specs", "verify"}
    BY <1>2, <1>4 DEF Promise!Drop, Tickets, TicketAt
  <1>5. CASE handler[h].at = "answer"
    BY <1>2, <1>5 DEF Promise!Drop, Tickets, TicketAt
  <1>6. QED
    BY <1>3, <1>4, <1>5 DEF Work

\* A fault that meets no registration.
LEMMA OnlyAMishap ==
  ASSUME UNCHANGED <<token, Tickets, Members, flag, deleted>>, faults' = faults + 1
  PROVE  Promise!Drop({})
  <1>1. Tickets' = [c \in Handler |-> IF c \in {} THEN Promise!NoTicket ELSE Tickets[c]]
    BY DEF Tickets
  <1>2. QED
    BY <1>1 DEF Promise!Drop

\* Statements that do not take a registration further.
LEMMA SameTicket ==
  ASSUME NEW h \in Handler, \A g \in Handler \ {h} : handler'[g] = handler[g],
         handler'[h].machine = handler[h].machine, handler'[h].pin = handler[h].pin,
         handler[h].at \in {"lookup", "update", "insert", "specs", "verify"},
         handler'[h].at \in {"lookup", "update", "insert", "specs", "verify"}
  PROVE  UNCHANGED Tickets
  <1>1. Tickets'[h] = Tickets[h]
    BY DEF Tickets, TicketAt
  <1>2. QED
    BY <1>1, OneTicket DEF Tickets

\* Every statement of a registration is a step of the promise or none.
LEMMA HandlerPromise ==
  ASSUME Ind, Ind', IdInv, NEW h \in Handler, HandlerStep(h)
  PROVE  [Promise!AdNext]_(Promise!adVars)
  <1> DEFINE m == handler[h].machine
             k == handler[h].pin
  <1>0. /\ TypeOK /\ ClientInv /\ Reached(handler[h]) /\ handler[h] \in Work
        /\ m \in Machine /\ k \in Pin /\ NoId \in Id \cup {NoId}
        /\ Members = {n \in Machine : row[n] \in verified}
        /\ Members' = {n \in Machine : row'[n] \in verified'}
    BY MembersAreVerified DEF Ind, HandlerInv, TypeOK, Work
  <1> USE DEF tables
  <1>1. CASE Validate(h)
    <2>1. Step(h, "arrived", "lookup", NoId) /\ UNCHANGED tables /\ Usable(k)
      BY <1>1 DEF Validate
    <2>2. /\ \A g \in Handler \ {h} : handler'[g] = handler[g]
          /\ handler[h].at = "arrived" /\ handler'[h].at = "lookup"
          /\ handler'[h].machine = m /\ handler'[h].pin = k
          /\ UNCHANGED <<client, flag, deleted, faults>>
      BY <1>0, <2>1, StepEffect
    <2>3. /\ Tickets[h] = Promise!NoTicket
          /\ Tickets'[h] = [at |-> "accepted", machine |-> m, pin |-> k]
      BY <2>2 DEF Tickets, TicketAt, Promise!NoTicket
    <2>4. Tickets' = [Tickets EXCEPT ![h] = [at |-> "accepted", machine |-> m, pin |-> k]]
      BY <2>2, <2>3, OneTicket
    <2>5. Promise!GoodFor(k)
      BY <2>1 DEF Usable, Promise!GoodFor
    <2>6. UNCHANGED <<token, Members, flag, deleted, faults>>
      BY <1>0, <2>1, <2>2
    <2>7. Promise!Accept(h, m, k)
      BY <2>3, <2>4, <2>5, <2>6 DEF Promise!Accept
    <2>8. QED
      BY <1>0, <2>7 DEF Promise!AdNext
  <1>2. CASE Reject(h) \/ Duplicate(h)
    <2>1. Respond(h, FALSE) /\ UNCHANGED <<tables, faults>> /\ handler[h].at # "mark"
      BY <1>2 DEF Reject, Duplicate, DuplicateAnswer
    <2>2. UNCHANGED <<token, Members, flag, deleted>>
      BY <1>0, <2>1 DEF Respond
    <2>3. Promise!Drop({h})
      BY <1>0, <2>1, <2>2, RespondEffect, EndOfWork
    <2>4. QED
      BY <2>3 DEF Promise!AdNext
  <1>3. CASE LookUp(h) \/ UpdatePC(h) \/ InsertSpecs(h)
    <2>1. PICK from \in {"lookup", "update", "specs"},
               place \in {"update", "insert", "specs", "verify"}, id \in Id \cup {NoId} :
            Step(h, from, place, id) /\ UNCHANGED <<token, row, lastId, verified>>
      BY <1>0, <1>3 DEF LookUp, UpdatePC, InsertSpecs, TypeOK, Work
    <2>2. UNCHANGED <<token, Members, flag, deleted, faults>> /\ UNCHANGED Tickets
      BY <1>0, <2>1, StepEffect, SameTicket
    <2>3. QED
      BY <2>2 DEF Promise!adVars
  <1>4. CASE InsertPC(h)
    <2>1. /\ Step(h, "insert", "specs", lastId + 1)
          /\ lastId + 1 \in Id
          /\ row[m] = NoId
          /\ row' = [row EXCEPT ![m] = lastId + 1]
          /\ UNCHANGED <<token, verified>>
      BY <1>0, <1>4, RegistrationAssumption DEF InsertPC, TypeOK, Id
    <2>2. NoId \notin verified /\ lastId + 1 \notin verified
      BY <1>0, RegistrationAssumption DEF TypeOK, IdInv, NoId, Id
    <2>3. \A n \in Machine : row'[n] \in verified <=> row[n] \in verified
      BY <1>0, <2>1, <2>2 DEF TypeOK
    <2>4. UNCHANGED <<token, Members, flag, deleted, faults>> /\ UNCHANGED Tickets
      BY <1>0, <2>1, <2>3, StepEffect, SameTicket
    <2>5. QED
      BY <2>4 DEF Promise!adVars
  <1>5. CASE Verify(h)
    <2> DEFINE id == handler[h].id
    <2>1. /\ Step(h, "verify", "mark", id)
          /\ verified' = IF row[m] = id THEN verified \cup {id} ELSE verified
          /\ UNCHANGED <<token, row, lastId, specs>>
          /\ id \in Id
          /\ row[m] = id \/ m \in deleted
      BY <1>0, <1>5 DEF Verify, Reached, Step
    <2>2. /\ \A g \in Handler \ {h} : handler'[g] = handler[g]
          /\ handler[h].at = "verify" /\ handler'[h].at = "mark"
          /\ handler'[h].machine = m /\ handler'[h].pin = k
          /\ UNCHANGED <<client, flag, deleted, faults>>
      BY <1>0, <2>1, StepEffect
    <2>3. /\ Tickets[h].at = "accepted" /\ Tickets[h].machine = m
          /\ Tickets' = [Tickets EXCEPT ![h].at = "admitted"]
      BY SMT, ZenonT(40), <2>2, OneTicket DEF Tickets, TicketAt
    <2>4. Promise!Advance(h, "accepted", "admitted")
      BY <2>3 DEF Promise!Advance
    <2>5. CASE row[m] = id
      <3>1. \A n \in Machine : row[n] = id => n = m
        BY <1>0, <2>1, <2>5, RegistrationAssumption DEF IdInv, NoId, Id
      <3>2. Members' = Members \cup {m}
        BY <1>0, <2>1, <2>5, <3>1
      <3>3. Promise!Admit(h)
        BY <2>1, <2>2, <2>3, <2>4, <3>2 DEF Promise!Admit
      <3>4. QED
        BY <3>3 DEF Promise!AdNext
    <2>6. CASE row[m] # id
      <3>1. m \in deleted /\ Members' = Members
        BY <1>0, <2>1, <2>6
      <3>2. Promise!Admit(h)
        BY <2>1, <2>2, <2>3, <2>4, <3>1 DEF Promise!Admit
      <3>3. QED
        BY <3>2 DEF Promise!AdNext
    <2>7. QED
      BY <2>5, <2>6
  <1>6. CASE MarkUsed(h)
    <2>1. /\ Step(h, "mark", "answer", handler[h].id)
          /\ handler[h].id \in Id \cup {NoId}
          /\ token' = Counted(k)
          /\ UNCHANGED <<row, lastId, verified, specs>>
      BY <1>0, <1>6 DEF MarkUsed, Work
    <2>2. /\ \A g \in Handler \ {h} : handler'[g] = handler[g]
          /\ handler[h].at = "mark" /\ handler'[h].at = "answer"
          /\ handler'[h].machine = m /\ handler'[h].pin = k
          /\ UNCHANGED <<client, flag, deleted, faults>>
      BY <1>0, <2>1, StepEffect
    <2>3. /\ Tickets[h].at = "admitted" /\ Tickets[h].pin = k
          /\ Tickets' = [Tickets EXCEPT ![h].at = "counted"]
      BY SMT, ZenonT(40), <2>2, OneTicket DEF Tickets, TicketAt
    <2>4. Promise!Advance(h, "admitted", "counted")
      BY <2>3 DEF Promise!Advance
    <2>5. UNCHANGED <<Members, flag, deleted, faults>>
      BY <1>0, <2>1, <2>2
    <2>6. Promise!Count(h)
      BY <2>1, <2>3, <2>4, <2>5 DEF Promise!Count, Counted
    <2>7. QED
      BY <2>6 DEF Promise!AdNext
  <1>7. CASE Answer(h)
    <2>1. Respond(h, TRUE) /\ UNCHANGED <<tables, faults>> /\ handler[h].at = "answer"
      BY <1>7 DEF Answer
    <2>2. /\ \A g \in Handler \ {h} : handler'[g] = handler[g]
          /\ handler'[h].at = "idle"
          /\ UNCHANGED <<token, Members, deleted, faults>>
      BY <1>0, <2>1, RespondEffect
    <2>3. CASE handler[h].live
      <3>1. flag' = flag \cup {m}
        BY <2>1, <2>3 DEF Respond
      <3>2. Tickets[h].at = "counted" /\ Tickets[h].machine = m
        BY <2>1 DEF Tickets, TicketAt
      <3>3. Tickets' = [Tickets EXCEPT ![h] = Promise!NoTicket]
        BY <2>2, OneTicket DEF Tickets, Promise!NoTicket
      <3>4. Promise!Tell(h)
        BY <2>2, <3>1, <3>2, <3>3 DEF Promise!Tell
      <3>5. QED
        BY <3>4 DEF Promise!AdNext
    <2>4. CASE ~handler[h].live
      <3>1. UNCHANGED flag
        BY <2>1, <2>4 DEF Respond
      <3>2. Promise!Drop({h})
        BY <1>0, <2>1, <2>2, <3>1, EndOfWork
      <3>3. QED
        BY <3>2 DEF Promise!AdNext
    <2>5. QED
      BY <2>3, <2>4
  <1>8. QED
    BY <1>1, <1>2, <1>3, <1>4, <1>5, <1>6, <1>7 DEF HandlerStep

\* A use that is not counted is a miss, any other failure the end of a registration
\* that admitted nobody yet.
LEMMA FailurePromise ==
  ASSUME Ind, Ind', NEW h \in Handler, HandlerFails(h)
  PROVE  Promise!AdNext
  <1>0. /\ TypeOK /\ ClientInv /\ handler[h] \in Work
        /\ Members = {n \in Machine : row[n] \in verified}
        /\ Members' = {n \in Machine : row'[n] \in verified'}
    BY MembersAreVerified DEF Ind, TypeOK
  <1> USE DEF tables
  <1>1. CASE MarkFails(h)
    <2>1. /\ \A g \in Handler \ {h} : handler'[g] = handler[g]
          /\ handler[h].at = "mark" /\ handler'[h].at = "answer"
          /\ handler'[h].machine = handler[h].machine /\ handler'[h].pin = handler[h].pin
      BY <1>0, <1>1 DEF MarkFails, Goto, TypeOK, Work
    <2>2. /\ Tickets[h].at = "admitted"
          /\ Tickets' = [Tickets EXCEPT ![h].at = "counted"]
      BY SMT, ZenonT(40), <2>1, OneTicket DEF Tickets, TicketAt
    <2>3. Promise!Advance(h, "admitted", "counted")
      BY <2>2 DEF Promise!Advance
    <2>4. UNCHANGED <<token, Members, flag, deleted>> /\ faults' = faults + 1
      BY <1>0, <1>1 DEF MarkFails, Fault
    <2>5. Promise!Miss(h)
      BY <2>3, <2>4 DEF Promise!Miss
    <2>6. QED
      BY <2>5 DEF Promise!AdNext
  <1>2. CASE StatementFails(h)
    <2>1. /\ Respond(h, FALSE) /\ UNCHANGED tables /\ handler[h].at # "mark"
          /\ faults' = faults + 1
      BY <1>2 DEF StatementFails, Fault
    <2>2. UNCHANGED <<token, Members, flag, deleted>>
      BY <1>0, <2>1 DEF Respond
    <2>3. Promise!Drop({h})
      BY <1>0, <2>1, <2>2, RespondEffect, EndOfWork
    <2>4. QED
      BY <2>3 DEF Promise!AdNext
  <1>3. QED
    BY <1>1, <1>2 DEF HandlerFails

\* An administrator's steps are the promise's; a deletion takes one member at most.
LEMMA AdminPromise ==
  ASSUME Ind, AdminNext
  PROVE  [Promise!AdNext]_(Promise!adVars)
  <1>0. TypeOK /\ NoId \notin verified
    BY RegistrationAssumption DEF Ind, TypeOK, NoId, Id
  <1>1. UNCHANGED Tickets
    BY DEF AdminNext, CreateToken, Expire, DeleteToken, DeletePC, Tickets
  <1>2. CASE \E k \in Pin, usage \in {"single", "multi"} : CreateToken(k, usage)
    <2>1. PICK k \in Pin, usage \in {"single", "multi"} : CreateToken(k, usage)
      BY <1>2
    <2>2. Promise!Issue(k, usage)
      BY <1>1, <2>1 DEF CreateToken, Promise!Issue, Promise!NoPin, Members
    <2>3. QED
      BY <2>2 DEF Promise!AdNext
  <1>3. CASE \E k \in Pin : Expire(k)
    <2>1. PICK k \in Pin : Expire(k)
      BY <1>3
    <2>2. Promise!Lapse(k)
      BY <1>1, <2>1 DEF Expire, Promise!Lapse, Members
    <2>3. QED
      BY <2>2 DEF Promise!AdNext
  <1>4. CASE \E k \in Pin : DeleteToken(k)
    <2>1. PICK k \in Pin : DeleteToken(k)
      BY <1>4
    <2>2. Promise!Withdraw(k)
      BY <1>1, <2>1 DEF DeleteToken, NoToken, Promise!NoPin, Promise!Withdraw, Members
    <2>3. QED
      BY <2>2 DEF Promise!AdNext
  <1>5. CASE \E m \in Machine : DeletePC(m)
    <2>1. PICK m \in Machine : DeletePC(m)
      BY <1>5
    <2>2. \A n \in Machine : row'[n] = IF n = m THEN NoId ELSE row[n]
      BY <1>0, <2>1 DEF DeletePC, TypeOK
    <2>3. Members' = Members \ {m}
      BY <1>0, <2>1, <2>2 DEF DeletePC, Members
    <2>4. Promise!Remove(m)
      BY <1>1, <2>1, <2>3 DEF DeletePC, Promise!Remove
    <2>5. QED
      BY <2>4 DEF Promise!AdNext
  <1>6. QED
    BY <1>2, <1>3, <1>4, <1>5 DEF AdminNext

\* Nothing a client does concerns the promise: it neither forgets that it was told,
\* since no heartbeat shows it a 404, nor does an attempt count before it is checked.
\* At most it is a mishap.
LEMMA ClientPromise ==
  ASSUME Ind, ClientNext
  PROVE  UNCHANGED Promise!adVars \/ Promise!Drop({})
  <1>0. TypeOK
    BY DEF Ind
  <1> USE DEF tables
  <1>1. PICK m \in Machine :
          \/ \E k \in Pin : Install(m, k)
          \/ Boot(m)
          \/ \E h \in Handler : Attempt(m, h)
          \/ LoseAttempt(m)
          \/ SwitchOff(m)
          \/ SendHeartbeat(m)
          \/ EndHeartbeat(m)
    BY DEF ClientNext
  <1>2. UNCHANGED <<token, Members, flag, deleted>>
    BY <1>1
    DEF Install, Boot, Attempt, LoseAttempt, SwitchOff, SendHeartbeat, EndHeartbeat,
        SafeRequest, HeartbeatStatus, Members
  <1>3. UNCHANGED Tickets
    <2>1. CASE \E h \in Handler : Attempt(m, h)
      <3>1. PICK h \in Handler : Attempt(m, h)
        BY <2>1
      <3>2. /\ \A g \in Handler \ {h} : handler'[g] = handler[g]
            /\ handler[h].at = "idle" /\ handler'[h].at = "arrived"
        BY <1>0, <3>1 DEF Attempt, TypeOK
      <3>3. QED
        BY <3>2 DEF Tickets
    <2>2. CASE handler' = Abandoned(m)
      BY <1>0, <2>2, AbandonedEffect DEF Tickets
    <2>3. CASE UNCHANGED handler
      BY <2>3 DEF Tickets
    <2>4. QED
      BY <1>1, <2>1, <2>2, <2>3
      DEF Install, Boot, LoseAttempt, SwitchOff, SendHeartbeat, EndHeartbeat
  <1>4. faults' = faults \/ faults' = faults + 1
    BY <1>1
    DEF Install, Boot, Attempt, LoseAttempt, SwitchOff, SendHeartbeat, EndHeartbeat, Fault
  <1>5. QED
    BY <1>2, <1>3, <1>4, OnlyAMishap DEF Promise!adVars

\* A restart breaks off all registrations.
LEMMA RestartPromise ==
  ASSUME Ind, Restart
  PROVE  Promise!Drop(Handler)
  <1>1. Tickets' = [c \in Handler |-> IF c \in Handler THEN Promise!NoTicket ELSE Tickets[c]]
    BY DEF Restart, Tickets, Idle, Promise!NoTicket
  <1>2. UNCHANGED <<token, Members, flag, deleted>>
    BY DEF Restart, tables, Members
  <1>3. faults' = faults + 1 /\ faults' # faults
    BY RegistrationAssumption DEF Restart, Fault, Ind, TypeOK
  <1>4. QED
    BY <1>1, <1>2, <1>3 DEF Promise!Drop

\* The interleaved, repeated and broken off statements of registrations implement
\* admissions that let a machine in by one step, on a PIN that was good for it, and
\* count it before the machine is told, save for one mishap each.
THEOREM RegistrationImplementsAdmission == Spec => AdmissionSpec
  <1>1. Init => IdInv
    BY RegistrationAssumption DEF Init, IdInv, NoId
  <1>2. Ind /\ IdInv /\ [Next]_vars => IdInv'
    BY IdStep
  <1>3. Ind /\ Ind' /\ IdInv /\ [Next]_vars => [Promise!AdNext]_(Promise!adVars)
    <2> SUFFICES ASSUME Ind, Ind', IdInv, [Next]_vars
                 PROVE  [Promise!AdNext]_(Promise!adVars)
      OBVIOUS
    <2>1. CASE UNCHANGED vars
      BY <2>1 DEF vars, Promise!adVars, Tickets, Members
    <2>2. CASE Restart
      BY <2>2, RestartPromise DEF Promise!AdNext
    <2>3. QED
      BY <2>1, <2>2, AdminPromise, ClientPromise, HandlerPromise, FailurePromise
      DEF Next, Promise!AdNext
  <1>4. QED
    BY <1>1, <1>2, <1>3, PromiseInit, Invariant, PTL
    DEF Spec, AdmissionSpec, Promise!AdSpec
=============================================================================
