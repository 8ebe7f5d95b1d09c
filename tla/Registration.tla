----------------------------- MODULE Registration -----------------------------
EXTENDS Integers, FiniteSets

(***************************************************************************)
(* How a machine becomes a PC of the server: an administrator creates a    *)
(* PIN, the machine's client posts it together with its machine_id, and    *)
(* the server validates the PIN, writes the rows of the PC and counts the  *)
(* use of the PIN.  The handler's statements are transactions of their     *)
(* own, so handlers interleave and a failing statement or a restart of the *)
(* server leaves half a registration behind.  The client repeats what      *)
(* failed.                                                                 *)
(***************************************************************************)
CONSTANTS
  Machine,     \* machines, each with one machine_id
  Pin,         \* PINs in circulation
  Handler,     \* server threads that serve registrations
  MaxRows,     \* bound: rows of pc_info ever inserted
  MaxFaults,   \* bound: lost connections, failing statements, restarts of the
               \* server, power cuts
  MaxTries     \* attempts safe_request makes per call of register_client

ASSUME RegistrationAssumption ==
  /\ Machine # {} /\ Pin # {}
  /\ IsFiniteSet(Handler)
  /\ IsFiniteSet(Machine)
  /\ MaxRows \in Nat /\ MaxRows >= Cardinality(Machine)
  /\ MaxFaults \in Nat
  /\ MaxTries \in Nat \ {0}

VARIABLES
  token,      \* token[k]: the row of PIN k in pc_registration_tokens
  row,        \* row[m]: the id of machine m in pc_info, or NoId
  lastId,     \* the id AUTOINCREMENT gave out last
  verified,   \* ids with is_verified = 1
  specs,      \* ids with a row in pc_specs
  handler,    \* handler[h]: the registration thread h serves
  client,     \* client[m]: the client process of m
  flag,       \* machines with a file registered.flag
  deleted,    \* history: machines an administrator deleted
  admitted,   \* history: admitted[k]: registrations verified with PIN k since its creation
  uncounted,  \* history: uncounted[k]: those of them whose use will not be counted
  faults      \* history: faults so far

uses == <<admitted, uncounted>>
tables == <<token, row, lastId, verified, specs>>
vars == <<token, row, lastId, verified, specs, handler, client, flag, deleted, admitted,
          uncounted, faults>>

-----------------------------------------------------------------------------
(* Data *)

Id == 1..MaxRows
NoId == 0

SomeMachine == CHOOSE m \in Machine : TRUE
SomePin == CHOOSE k \in Pin : TRUE

NoToken == [status |-> "absent", usage |-> "single", used |-> 0]
Idle == [at |-> "idle", machine |-> SomeMachine, pin |-> SomePin, id |-> NoId, live |-> FALSE]

Token == [status : {"absent", "valid", "expired"}, usage : {"single", "multi"}, used : Nat]
Work == [at : {"idle", "arrived", "lookup", "update", "insert", "specs", "verify",
               "mark", "answer"},
         machine : Machine, pin : Pin, id : Id \cup {NoId}, live : BOOLEAN]

\* A client in "beat" runs and has a heartbeat on its way; one that is "gone" gave
\* up and ended, one that is "off" was switched off.
Client == [at : {"off", "gone", "trying", "await", "running", "beat"}, pin : Pin,
           round : 1..2, tries : 0..MaxTries]

TypeOK ==
  /\ token \in [Pin -> Token]
  /\ row \in [Machine -> Id \cup {NoId}]
  /\ lastId \in 0..MaxRows
  /\ verified \subseteq Id
  /\ specs \subseteq Id
  /\ handler \in [Handler -> Work]
  /\ client \in [Machine -> Client]
  /\ flag \subseteq Machine
  /\ deleted \subseteq Machine
  /\ admitted \in [Pin -> Nat]
  /\ uncounted \in [Pin -> Nat]
  /\ faults \in 0..MaxFaults

Init ==
  /\ token = [k \in Pin |-> NoToken]
  /\ row = [m \in Machine |-> NoId]
  /\ lastId = 0
  /\ verified = {}
  /\ specs = {}
  /\ handler = [h \in Handler |-> Idle]
  /\ client = [m \in Machine |-> [at |-> "off", pin |-> SomePin, round |-> 1, tries |-> 0]]
  /\ flag = {}
  /\ deleted = {}
  /\ admitted = [k \in Pin |-> 0]
  /\ uncounted = [k \in Pin |-> 0]
  /\ faults = 0

Fault == faults < MaxFaults /\ faults' = faults + 1

-----------------------------------------------------------------------------
(* The administrator *)

\* create draws a PIN that has no row.
CreateToken(k, usage) ==
  /\ token[k].status = "absent"
  /\ token' = [token EXCEPT ![k] = [status |-> "valid", usage |-> usage, used |-> 0]]
  /\ admitted' = [admitted EXCEPT ![k] = 0]
  /\ uncounted' = [uncounted EXCEPT ![k] = 0]
  /\ UNCHANGED <<row, lastId, verified, specs, handler, client, flag, deleted, faults>>

\* expires_at passes.
Expire(k) ==
  /\ token[k].status = "valid"
  /\ token' = [token EXCEPT ![k].status = "expired"]
  /\ UNCHANGED <<row, lastId, verified, specs, handler, client, flag, deleted, uses, faults>>

DeleteToken(k) ==
  /\ token[k].status # "absent"
  /\ token' = [token EXCEPT ![k] = NoToken]
  /\ UNCHANGED <<row, lastId, verified, specs, handler, client, flag, deleted, uses, faults>>

\* DELETE FROM pc_info only: the specs stay, under an id that is not used again.
\* Bound: enough ids are left for the machines without a row.
DeletePC(m) ==
  /\ row[m] # NoId
  /\ Cardinality({n \in Machine : row[n] = NoId}) < MaxRows - lastId
  /\ row' = [row EXCEPT ![m] = NoId]
  /\ deleted' = deleted \cup {m}
  /\ UNCHANGED <<token, lastId, verified, specs, handler, client, flag, uses, faults>>

-----------------------------------------------------------------------------
(* The client: run_client, register_client and safe_request *)

\* register_client returns at once when registered.flag exists.
Launched(m, k) ==
  client' = [client EXCEPT ![m] = [at |-> IF m \in flag THEN "running" ELSE "trying",
                                   pin |-> k, round |-> 1, tries |-> 0]]

\* Installation puts a PIN into the configuration.
Install(m, k) ==
  /\ client[m].at \in {"off", "gone"}
  /\ Launched(m, k)
  /\ UNCHANGED <<tables, handler, flag, deleted, uses, faults>>

\* The service starts with the system.
Boot(m) ==
  /\ client[m].at \in {"off", "gone"}
  /\ Launched(m, client[m].pin)
  /\ UNCHANGED <<tables, handler, flag, deleted, uses, faults>>

Attempt(m, h) ==
  /\ client[m].at = "trying"
  /\ handler[h].at = "idle"
  /\ handler' = [handler EXCEPT ![h] = [at |-> "arrived", machine |-> m,
                                        pin |-> client[m].pin, id |-> NoId, live |-> TRUE]]
  /\ client' = [client EXCEPT ![m].at = "await", ![m].tries = @ + 1]
  /\ UNCHANGED <<tables, flag, deleted, uses, faults>>

FailedForever(c) == [c EXCEPT !.at = "trying", !.tries = 0]

FailedOnceMore(c) ==
  IF c.tries <= MaxTries THEN [c EXCEPT !.at = "trying"] ELSE [c EXCEPT !.at = "gone"]

\* After MaxTries failed attempts register_client returns False; run_client calls
\* it once more after a minute and then ends the process.
Failed(c) ==
  IF c.tries < MaxTries THEN [c EXCEPT !.at = "trying"]
  ELSE IF c.round = 1 THEN [c EXCEPT !.at = "trying", !.round = 2, !.tries = 0]
  ELSE [c EXCEPT !.at = "gone"]

Abandoned(m) ==
  [h \in Handler |-> IF handler[h].machine = m THEN [handler[h] EXCEPT !.live = FALSE]
                                               ELSE handler[h]]

\* Connection error or timeout; the server may still be at work.
LoseAttempt(m) ==
  /\ client[m].at = "await"
  /\ Fault
  /\ handler' = Abandoned(m)
  /\ client' = [client EXCEPT ![m] = Failed(@)]
  /\ UNCHANGED <<tables, flag, deleted, uses>>

SwitchOff(m) ==
  /\ client[m].at \notin {"off", "gone"}
  /\ Fault
  /\ handler' = Abandoned(m)
  /\ client' = [client EXCEPT ![m].at = "off"]
  /\ UNCHANGED <<tables, flag, deleted, uses>>

\* raise_for_status turns every error status into an exception, and safe_request
\* that into None.
SafeRequest(status) == IF status < 400 THEN status ELSE 0

HeartbeatStatus(m) == IF row[m] = NoId THEN 404 ELSE 200

SendHeartbeat(m) ==
  /\ client[m].at = "running"
  /\ client' = [client EXCEPT ![m].at = "beat"]
  /\ UNCHANGED <<tables, handler, flag, deleted, uses, faults>>

\* send_heartbeat removes the flag and registers again when it sees a 404, which
\* safe_request never lets it see.
EndHeartbeat(m) ==
  /\ client[m].at = "beat"
  /\ IF SafeRequest(HeartbeatStatus(m)) = 404
     THEN /\ flag' = flag \ {m}
          /\ client' = [client EXCEPT ![m].at = "trying", ![m].tries = 0]
     ELSE /\ client' = [client EXCEPT ![m].at = "running"]
          /\ UNCHANGED flag
  /\ UNCHANGED <<tables, handler, deleted, uses, faults>>

-----------------------------------------------------------------------------
(* The server: register *)

Goto(h, place, id) ==
  handler' = [handler EXCEPT ![h].at = place, ![h].id = id]

Step(h, from, place, id) ==
  /\ handler[h].at = from
  /\ Goto(h, place, id)
  /\ UNCHANGED <<client, flag, deleted, faults>>

\* The answer to a client that still waits for it.
Respond(h, ok) ==
  LET m == handler[h].machine IN
  /\ handler' = [handler EXCEPT ![h] = Idle]
  /\ IF handler[h].live
     THEN /\ client' = [client EXCEPT ![m] = IF ok THEN [@ EXCEPT !.at = "running"]
                                                   ELSE Failed(@)]
          /\ flag' = IF ok THEN flag \cup {m} ELSE flag
     ELSE UNCHANGED <<client, flag>>
  /\ UNCHANGED <<deleted, uses>>

\* validate
UsableAtAll(k) == token[k].status = "valid"

Usable(k) ==
  /\ token[k].status = "valid"
  /\ token[k].usage = "multi" \/ token[k].used = 0

Validate(h) ==
  /\ Usable(handler[h].pin)
  /\ Step(h, "arrived", "lookup", NoId)
  /\ UNCHANGED <<tables, uses>>

\* 403
Reject(h) ==
  /\ handler[h].at = "arrived"
  /\ ~Usable(handler[h].pin)
  /\ Respond(h, FALSE)
  /\ UNCHANGED <<tables, faults>>

\* update_or_create: SELECT the row of the machine ...
LookUp(h) ==
  LET id == row[handler[h].machine] IN
  /\ Step(h, "lookup", IF id = NoId THEN "insert" ELSE "update", id)
  /\ UNCHANGED <<tables, uses>>

\* ... UPDATE it, which changes nothing here, and SELECT its specs ...
SpecsAssumed(id) == TRUE

SpecsUnknown(id) == FALSE

HasSpecs(id) == id \in specs

UpdatePC(h) ==
  LET id == handler[h].id IN
  /\ Step(h, "update", IF HasSpecs(id) THEN "verify" ELSE "specs", id)
  /\ UNCHANGED <<tables, uses>>

\* ... or INSERT one, as long as no other handler did: machine_id is UNIQUE.
InsertPC(h) ==
  LET m == handler[h].machine IN
  /\ row[m] = NoId
  /\ lastId < MaxRows
  /\ Step(h, "insert", "specs", lastId + 1)
  /\ row' = [row EXCEPT ![m] = lastId + 1]
  /\ lastId' = lastId + 1
  /\ UNCHANGED <<token, verified, specs, uses>>

\* An IntegrityError is answered with 500.
DuplicateIsFine == TRUE

DuplicateAnswer == FALSE

Duplicate(h) ==
  /\ \/ handler[h].at = "insert" /\ row[handler[h].machine] # NoId
     \/ handler[h].at = "specs" /\ handler[h].id \in specs
  /\ Respond(h, DuplicateAnswer)
  /\ UNCHANGED <<tables, faults>>

InsertSpecs(h) ==
  LET id == handler[h].id IN
  /\ id \notin specs
  /\ Step(h, "specs", "verify", id)
  /\ specs' = specs \cup {id}
  /\ UNCHANGED <<token, row, lastId, verified, uses>>

\* UPDATE ... WHERE id=?: a row deleted meanwhile is not missed.
Verify(h) ==
  LET id == handler[h].id IN
  /\ Step(h, "verify", "mark", id)
  /\ verified' = IF row[handler[h].machine] = id THEN verified \cup {id} ELSE verified
  /\ admitted' = [admitted EXCEPT ![handler[h].pin] = @ + 1]
  /\ UNCHANGED <<token, row, lastId, specs, uncounted>>

\* mark_used, whose result is not read.
CountedIfReusable(k) ==
  IF token[k].usage = "single" THEN token ELSE [token EXCEPT ![k].used = @ + 1]

Counted(k) ==
  IF token[k].status = "absent" THEN token ELSE [token EXCEPT ![k].used = @ + 1]

MarkUsed(h) ==
  /\ Step(h, "mark", "answer", handler[h].id)
  /\ token' = Counted(handler[h].pin)
  /\ UNCHANGED <<row, lastId, verified, specs, uses>>

\* mark_used swallows the failure of its statement, and the registration goes on.
MarkFails(h) ==
  /\ handler[h].at = "mark"
  /\ Fault
  /\ Goto(h, "answer", handler[h].id)
  /\ uncounted' = [uncounted EXCEPT ![handler[h].pin] = @ + 1]
  /\ UNCHANGED <<tables, client, flag, deleted, admitted>>

\* Any other statement that fails ends the registration with 500.
StatementFails(h) ==
  /\ handler[h].at \in {"arrived", "lookup", "update", "insert", "specs", "verify"}
  /\ Fault
  /\ Respond(h, FALSE)
  /\ UNCHANGED tables

Answer(h) ==
  /\ handler[h].at = "answer"
  /\ Respond(h, TRUE)
  /\ UNCHANGED <<tables, faults>>

AboutToCount(k) == {h \in Handler : handler[h].at = "mark" /\ handler[h].pin = k}

\* The server restarts: whoever waits for an answer sees the connection break.
Restart ==
  /\ Fault
  /\ handler' = [h \in Handler |-> Idle]
  /\ uncounted' = [k \in Pin |-> uncounted[k] + Cardinality(AboutToCount(k))]
  /\ client' = [m \in Machine |-> IF client[m].at = "await" THEN Failed(client[m])
                                                            ELSE client[m]]
  /\ UNCHANGED <<tables, flag, deleted, admitted>>

-----------------------------------------------------------------------------
AdminNext ==
  \/ \E k \in Pin :
       \/ \E usage \in {"single", "multi"} : CreateToken(k, usage)
       \/ Expire(k)
       \/ DeleteToken(k)
  \/ \E m \in Machine : DeletePC(m)

ClientNext ==
  \E m \in Machine :
    \/ \E k \in Pin : Install(m, k)
    \/ Boot(m)
    \/ \E h \in Handler : Attempt(m, h)
    \/ LoseAttempt(m)
    \/ SwitchOff(m)
    \/ SendHeartbeat(m)
    \/ EndHeartbeat(m)

HandlerStep(h) ==
  \/ Validate(h)
  \/ Reject(h)
  \/ LookUp(h)
  \/ UpdatePC(h)
  \/ InsertPC(h)
  \/ Duplicate(h)
  \/ InsertSpecs(h)
  \/ Verify(h)
  \/ MarkUsed(h)
  \/ Answer(h)

HandlerFails(h) == MarkFails(h) \/ StatementFails(h)

Next ==
  \/ AdminNext
  \/ ClientNext
  \/ \E h \in Handler : HandlerStep(h) \/ HandlerFails(h)
  \/ Restart

Spec == Init /\ [][Next]_vars

-----------------------------------------------------------------------------
(* Fairness.  Server threads and clients that run go on; administrators,   *)
(* users and faults need not do anything.                                  *)

Fairness ==
  /\ \A h \in Handler : WF_vars(HandlerStep(h))
  /\ \A m \in Machine : /\ WF_vars(\E h \in Handler : Attempt(m, h))
                         /\ WF_vars(SendHeartbeat(m))
                         /\ WF_vars(EndHeartbeat(m))

FairSpec == Spec /\ Fairness

-----------------------------------------------------------------------------
(* Properties *)

\* A single-use PIN may register more than one machine: as many as there are threads
\* to validate it before the first of them counts its use, and one more for each
\* registration whose use is never counted, because the UPDATE failed or the server
\* restarted just before it.
UsesBounded ==
  \A k \in Pin :
    token[k].status # "absent" /\ token[k].usage = "single" =>
      admitted[k] <= Cardinality(Handler) + uncounted[k]

\* A verified PC has its hardware specs, although the rows are written one by
\* one, a restart may come between them and an attempt repeated by the client
\* may overtake the first one.
VerifiedIsComplete == verified \subseteq specs

\* A client that has its registered.flag is registered and verified at the
\* server, unless an administrator deleted its PC.
FlagIsHonest ==
  \A m \in flag : m \in deleted \/ row[m] \in verified

\* The registration that thread h has accepted and not finished.
TicketAt(place) ==
  CASE place \in {"lookup", "update", "insert", "specs", "verify"} -> "accepted"
    [] place = "mark" -> "admitted"
    [] place = "answer" -> "counted"

Tickets ==
  [h \in Handler |->
     IF handler[h].at \in {"idle", "arrived"} THEN [at |-> "none"]
     ELSE [at |-> TicketAt(handler[h].at), machine |-> handler[h].machine,
           pin |-> handler[h].pin]]

\* The machines with a verified PC and its specs.
Members == {m \in Machine : row[m] \in verified /\ row[m] \in specs}

\* The statements of registrations, interleaved, repeated and broken off, look like
\* admissions in one step each: see module Admission.
Promise == INSTANCE Admission WITH Clerk <- Handler, pin <- token, ticket <- Tickets,
                                   member <- Members, told <- flag, removed <- deleted,
                                   mishaps <- faults

AdmissionSpec == Promise!AdSpec

\* The start of a registration with a PIN that is good for it.
Starts(m, usage) ==
  /\ client[m].at = "trying" /\ client[m].round = 1 /\ client[m].tries = 0
  /\ token[client[m].pin].usage = usage
  /\ Usable(client[m].pin)

Registers(m, usage) ==
  Starts(m, usage) ~> \/ client[m].at \in {"running", "off"}
                      \/ token[client[m].pin].status # "valid"

\* With a reusable PIN, one lost request or answer, one failing statement or one
\* restart of the server in the middle, and attempts that overtake each other, do
\* not keep a machine from being registered.
MultiPinRegisters ==
  \A m \in Machine :
    Starts(m, "multi") /\ MaxFaults - faults <= 1
      ~> \/ client[m].at \in {"running", "off"}
         \/ token[client[m].pin].status # "valid"

\* A client does not try for ever: it is registered or gives up.
RegistrationEnds ==
  \A m \in Machine : client[m].at = "trying" ~> client[m].at \in {"running", "gone", "off"}

-----------------------------------------------------------------------------
(* What the documentation says and the code does not keep *)

\* "enter the PIN during the installation, and the machine is registered and
\* the service starts" (docs/GETTING_STARTED.md).
SinglePinRegisters == \A m \in Machine : Registers(m, "single")

\* "the PC is not registered at the server, trying to register again"
\* (client/main.py).
DeletedComesBack ==
  \A m \in Machine :
    client[m].at = "running" /\ row[m] = NoId
      ~> \/ row[m] # NoId
         \/ client[m].at \in {"off", "gone"}
         \/ token[client[m].pin].status # "valid"
=============================================================================
