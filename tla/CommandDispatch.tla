--------------------------- MODULE CommandDispatch ---------------------------
EXTENDS Integers, FiniteSets

(***************************************************************************)
(* The path of a command: an administrator's request inserts a row into    *)
(* the table commands, a long-poll handler of the server picks it, marks   *)
(* it as executing and answers the client's poll with it, an executor      *)
(* thread of the client works it off and posts the result, and a result    *)
(* handler of the server writes the final status.                          *)
(*                                                                         *)
(* get_db opens the database with isolation_level=None, so each SQL        *)
(* statement is a transaction of its own and handlers interleave between   *)
(* statements.  An action below is therefore at most one SQL statement     *)
(* that reads or writes shared rows, together with the code around it.     *)
(***************************************************************************)

CONSTANTS
  PC,              \* ids in pc_info (each stands for one machine and client)
  Handler,         \* server threads that may serve a long-poll
  Admin,           \* server threads that may serve an administrator's request
  Priority,        \* priorities a request may ask for (1 is the most urgent)
  DefaultPriority, \* the one a bulk request gets
  CommandType,     \* command types in use (see IsPowerCommand)
  MaxCommands,     \* bound: rows ever inserted
  MaxFaults,       \* bound: lost connections, timeouts, crashes and
                   \* statements that fail (a locked or full database)
  MaxTries         \* attempts safe_request makes to post one result

ASSUME DispatchAssumption ==
  /\ PC # {}
  /\ Priority \subseteq Nat
  /\ DefaultPriority \in Priority
  /\ CommandType \subseteq {"shutdown", "reboot", "restart", "execute_power", "execute"}
  /\ CommandType # {}
  /\ MaxCommands \in Nat
  /\ MaxFaults \in Nat
  /\ MaxTries \in Nat \ {0}

VARIABLES
  registered,  \* PCs with a row in pc_info
  commands,    \* commands[c]: the row with id c
  lastId,      \* the id AUTOINCREMENT gave out last
  request,     \* request[a]: the administrator's request thread a serves
  poll,        \* poll[h]: the long-poll thread h serves
  mode,        \* mode[p]: where the client's poll_command loop is
  fresh,       \* PCs whose client process started within the grace period
  halting,     \* PCs whose operating system is shutting down
  threads,     \* executor threads of the clients
  results,     \* result requests on their way to or inside the server
  deliveries,  \* history: deliveries[c][p] counts receptions of c by p's client
  outcome,     \* history: outcome[c] is how executor threads ended c
  unmarked,    \* history: unmarked[c] counts the answers given out with c
               \* although its UPDATE to executing failed
  faults       \* history: faults so far

serverVars == <<registered, commands, lastId, request>>
clientVars == <<mode, fresh, halting>>
vars == <<registered, commands, lastId, request, poll, mode, fresh, halting,
          threads, results, deliveries, outcome, unmarked, faults>>

-----------------------------------------------------------------------------
(* Data *)

Command == 1..MaxCommands
NoCommand == 0

\* "timeout" is part of the schema; no client posts it.
Status == {"absent", "pending", "executing", "completed", "error", "timeout"}
Outcome == {"completed", "skipped", "error"}

SomePC == CHOOSE p \in PC : TRUE
SomeType == CHOOSE t \in CommandType : TRUE

\* A row that is "absent" was not inserted yet or was deleted; a deleted row
\* keeps its other columns, which the snapshots held by handlers still show.
NoRow == [pc |-> SomePC, priority |-> DefaultPriority, type |-> SomeType,
          status |-> "absent"]

NoRequest == [op |-> "none", scope |-> {}, todo |-> {}, upto |-> 0,
              priority |-> DefaultPriority, type |-> SomeType]

IdlePoll == [at |-> "idle", pc |-> SomePC, cmd |-> NoCommand, live |-> FALSE]

Row == [pc : PC, priority : Priority, type : CommandType, status : Status]
Request == [op : {"none", "insert", "clear"}, scope : SUBSET PC,
            todo : SUBSET PC, upto : 0..MaxCommands, priority : Priority,
            type : CommandType]
Poll == [at : {"idle", "arrived", "looking", "picked", "answered"}, pc : PC,
         cmd : Command \cup {NoCommand}, live : BOOLEAN]
\* nth tells the threads of a command apart that was received more than once.
Thread == [pc : PC, cmd : Command, nth : Nat, at : {"new", "report", "await"},
           outcome : Outcome \cup {"none"}, tries : 0..MaxTries]
Result == [pc : PC, cmd : Command, nth : Nat, outcome : Outcome,
           try : 1..MaxTries, at : {"sent", "found"}]

TypeOK ==
  /\ registered \subseteq PC
  /\ commands \in [Command -> Row]
  /\ lastId \in 0..MaxCommands
  /\ request \in [Admin -> Request]
  /\ poll \in [Handler -> Poll]
  /\ mode \in [PC -> {"down", "polling", "offline"}]
  /\ fresh \subseteq PC
  /\ halting \subseteq PC
  /\ threads \subseteq Thread
  /\ results \subseteq Result
  /\ deliveries \in [Command -> [PC -> Nat]]
  /\ outcome \in [Command -> SUBSET Outcome]
  /\ unmarked \in [Command -> Nat]
  /\ faults \in 0..MaxFaults

Init ==
  /\ registered = PC
  /\ commands = [c \in Command |-> NoRow]
  /\ lastId = 0
  /\ request = [a \in Admin |-> NoRequest]
  /\ poll = [h \in Handler |-> IdlePoll]
  /\ mode = [p \in PC |-> "polling"]
  /\ fresh = {}
  /\ halting = {}
  /\ threads = {}
  /\ results = {}
  /\ deliveries = [c \in Command |-> [p \in PC |-> 0]]
  /\ outcome = [c \in Command |-> {}]
  /\ unmarked = [c \in Command |-> 0]
  /\ faults = 0

Fault == faults < MaxFaults /\ faults' = faults + 1

-----------------------------------------------------------------------------
(* CommandModel: one SQL statement each, as the new value of commands *)

\* c was inserted, and maybe deleted since.
Existed(c) == c <= lastId

\* UPDATE ... WHERE id=?: no row, no change.
WithStatus(c, s) ==
  IF commands[c].status = "absent"
  THEN commands
  ELSE [commands EXCEPT ![c].status = s]

PendingOfAnyStatus(p) == {c \in Command : Existed(c) /\ commands[c].pc = p}

Pending(p) ==
  {c \in Command : commands[c].pc = p /\ commands[c].status = "pending"}

\* ORDER BY priority ASC, created_at ASC.  created_at counts seconds; rows of
\* the same second come in the order of idx_commands_pending, that is by id.
PrecedesNewestFirst(c, d) ==
  \/ commands[c].priority < commands[d].priority
  \/ commands[c].priority = commands[d].priority /\ c > d

Precedes(c, d) ==
  \/ commands[c].priority < commands[d].priority
  \/ commands[c].priority = commands[d].priority /\ c < d

IsNext(c, p) ==
  /\ c \in Pending(p)
  /\ \A d \in Pending(p) \ {c} : Precedes(c, d)

Inserted(c, p, prio, t) ==
  [commands EXCEPT ![c] = [pc |-> p, priority |-> prio, type |-> t,
                           status |-> "pending"]]

UnfinishedDeleted(p) ==
  [c \in Command |->
     IF commands[c].pc = p /\ commands[c].status \in {"pending", "executing"}
     THEN [commands[c] EXCEPT !.status = "absent"]
     ELSE commands[c]]

NextDeleted(p) ==
  [c \in Command |-> IF IsNext(c, p) THEN [commands[c] EXCEPT !.status = "absent"]
                                     ELSE commands[c]]

PendingDeleted(p) ==
  [c \in Command |-> IF c \in Pending(p)
                     THEN [commands[c] EXCEPT !.status = "absent"]
                     ELSE commands[c]]

\* The status a posted result ends in; a client posts "success" for a command
\* it carried out or skipped and "error" otherwise.
PostedStatusSkippedIsError(o) == IF o = "completed" THEN "success" ELSE "error"

PostedStatus(o) == IF o \in {"completed", "skipped"} THEN "success" ELSE "error"

FinalStatusAsPosted(posted) == posted

FinalStatusRequeued(posted) == IF posted = "error" THEN "pending" ELSE "completed"

FinalStatus(posted) ==
  CASE posted \in {"success", "completed"} -> "completed"
    [] posted = "timeout" -> "timeout"
    [] OTHER -> "error"

-----------------------------------------------------------------------------
(* Administrator's requests *)

\* AUTOINCREMENT never gives an id out again; a plain rowid key would.
NextRowid ==
  LET used == {c \in Command : commands[c].status # "absent"}
  IN  CHOOSE c \in 1..(MaxCommands + 1) :
        (\A d \in used : d < c) /\ (c = 1 \/ c - 1 \in used)

NextId == lastId + 1

Accept(a, op, ps, prio, t) ==
  /\ request[a] = NoRequest
  /\ request' = [request EXCEPT ![a] =
                   [op |-> op, scope |-> ps, todo |-> ps, upto |-> lastId,
                    priority |-> prio, type |-> t]]
  /\ UNCHANGED <<registered, commands, lastId, poll, clientVars, threads,
                 results, deliveries, outcome, unmarked, faults>>

\* send_command and _queue_command: the PC must exist when the request starts.
SendCommand(a, p, prio, t) ==
  p \in registered /\ Accept(a, "insert", {p}, prio, t)

\* bulk_command asks for no PC's existence.
BulkCommand(a, ps, t) ==
  ps # {} /\ Accept(a, "insert", ps, DefaultPriority, t)

\* clear_pc_commands (one PC) and clear_all_commands (the PCs of the request).
ClearCommands(a, ps) ==
  ps # {} /\ Accept(a, "clear", ps, DefaultPriority, SomeType)

Done(a, p) == request' = [request EXCEPT ![a].todo = @ \ {p}]

InsertCommand(a, p) ==
  LET c == NextId IN
  /\ request[a].op = "insert"
  /\ p \in request[a].todo
  /\ c <= MaxCommands
  /\ commands' = Inserted(c, p, request[a].priority, request[a].type)
  /\ lastId' = c
  /\ Done(a, p)
  /\ UNCHANGED <<registered, poll, clientVars, threads, results, deliveries,
                 outcome, unmarked, faults>>

DeletePending(a, p) ==
  /\ request[a].op = "clear"
  /\ p \in request[a].todo
  /\ commands' = PendingDeleted(p)
  /\ Done(a, p)
  /\ UNCHANGED <<registered, lastId, poll, clientVars, threads, results,
                 deliveries, outcome, unmarked, faults>>

\* bulk_command and clear_all_commands catch the error of one PC, report it for
\* that PC and go on; the requests for one PC end with a 500.
StatementFails(a, p) ==
  /\ p \in request[a].todo
  /\ Fault
  /\ request' = [request EXCEPT ![a].todo = @ \ {p}, ![a].scope = @ \ {p}]
  /\ UNCHANGED <<registered, commands, lastId, poll, clientVars, threads,
                 results, deliveries, outcome, unmarked>>

Respond(a) ==
  /\ request[a].op # "none"
  /\ request[a].todo = {}
  /\ request' = [request EXCEPT ![a] = NoRequest]
  /\ UNCHANGED <<registered, commands, lastId, poll, clientVars, threads,
                 results, deliveries, outcome, unmarked, faults>>

\* One DELETE FROM pc_info; the commands of the PC stay, because no connection
\* of the application turns on foreign_keys.
DeletePC(p) ==
  /\ p \in registered
  /\ registered' = registered \ {p}
  /\ UNCHANGED <<commands, lastId, request, poll, clientVars, threads,
                 results, deliveries, outcome, unmarked, faults>>

-----------------------------------------------------------------------------
(* The long-poll: poll_command of the client, poll_commands of the server *)

\* The client's poll thread waits for at most one answer at a time.
Waiting(p) == \E h \in Handler : poll[h].live /\ poll[h].pc = p

StartPoll(p, h) ==
  /\ mode[p] # "down"
  /\ ~Waiting(p)
  /\ poll[h] = IdlePoll
  /\ poll' = [poll EXCEPT ![h] = [at |-> "arrived", pc |-> p,
                                  cmd |-> NoCommand, live |-> TRUE]]
  /\ UNCHANGED <<serverVars, clientVars, threads, results, deliveries,
                 outcome, unmarked, faults>>

PollMove(h, from, to, c) ==
  /\ poll[h].at = from
  /\ poll' = [poll EXCEPT ![h].at = to, ![h].cmd = c]
  /\ UNCHANGED <<registered, lastId, request, clientVars, threads, results,
                 deliveries, outcome>>

PollStep(h, from, to, c) ==
  PollMove(h, from, to, c) /\ UNCHANGED <<unmarked, faults>>

LookUpPC(h) ==
  /\ poll[h].pc \in registered
  /\ PollStep(h, "arrived", "looking", NoCommand)
  /\ UNCHANGED commands

\* 404 for a PC that is not registered; no command for a PC that is shown as
\* offline and whose shutdown was recorded within the last five seconds, by its
\* own signal or by a sweep.  When that is, see Presence.
TurnAway(h) ==
  /\ PollStep(h, "arrived", "answered", NoCommand)
  /\ UNCHANGED commands

PickCommand(h) ==
  /\ \E c \in Command : /\ IsNext(c, poll[h].pc)
                        /\ PollStep(h, "looking", "picked", c)
  /\ UNCHANGED commands

\* The UPDATE has no condition on the status and its row count is not read:
\* the answer carries the command whatever became of the row since the SELECT.
AnswerOnly(h) ==
  /\ PollStep(h, "picked", "answered", poll[h].cmd)
  /\ UNCHANGED commands

StartExecution(h) ==
  /\ PollStep(h, "picked", "answered", poll[h].cmd)
  /\ commands' = WithStatus(poll[h].cmd, "executing")

\* start_execution turns an exception into FALSE, which poll_commands does not
\* read: the command goes out and its row stays as it was.
MarkFails(h) ==
  /\ PollMove(h, "picked", "answered", poll[h].cmd)
  /\ Fault
  /\ unmarked' = [unmarked EXCEPT ![poll[h].cmd] = @ + 1]
  /\ UNCHANGED commands

\* A SELECT that fails is answered with 500, which the client waits out.
LookUpFails(h) ==
  /\ PollMove(h, "looking", "answered", NoCommand)
  /\ Fault
  /\ UNCHANGED <<commands, unmarked>>

\* The deadline is looked at only after a SELECT that found nothing.
PollExpires(h) ==
  /\ Pending(poll[h].pc) = {}
  /\ PollStep(h, "looking", "answered", NoCommand)
  /\ UNCHANGED commands

NewThread(p, c) ==
  [pc |-> p, cmd |-> c, nth |-> deliveries[c][p] + 1, at |-> "new",
   outcome |-> "none", tries |-> 0]

\* The main loop of poll_command starts a thread per command; its reconnect
\* loop only checks that the request went through and drops the body.
Receive(p, h) ==
  LET c == poll[h].cmd
      taken == mode[p] = "polling" /\ c # NoCommand
  IN
  /\ mode[p] # "down"
  /\ poll[h].live /\ poll[h].pc = p /\ poll[h].at = "answered"
  /\ poll' = [poll EXCEPT ![h] = IdlePoll]
  /\ mode' = [mode EXCEPT ![p] = "polling"]
  /\ threads' = IF taken THEN threads \cup {NewThread(p, c)} ELSE threads
  /\ deliveries' = IF taken THEN [deliveries EXCEPT ![c][p] = @ + 1] ELSE deliveries
  /\ UNCHANGED <<serverVars, fresh, halting, results, outcome, unmarked, faults>>

\* A handler does not notice that its client is gone; the answer is lost.
DropNothing(h) == FALSE /\ PollStep(h, "answered", "idle", NoCommand) /\ UNCHANGED commands

DropAnswer(h) ==
  /\ poll[h].at = "answered" /\ ~poll[h].live
  /\ poll' = [poll EXCEPT ![h] = IdlePoll]
  /\ UNCHANGED <<serverVars, clientVars, threads, results, deliveries,
                 outcome, unmarked, faults>>

Abandoned(p) ==
  [h \in Handler |-> IF poll[h].pc = p THEN [poll[h] EXCEPT !.live = FALSE]
                                       ELSE poll[h]]

\* requests.exceptions.Timeout: poll again at once (main loop) or after 30
\* seconds (reconnect loop), in either case in the same loop.
ReadTimeout(p) ==
  /\ mode[p] # "down" /\ Waiting(p)
  /\ Fault
  /\ poll' = Abandoned(p)
  /\ UNCHANGED <<serverVars, clientVars, threads, results, deliveries, outcome, unmarked>>

\* requests.exceptions.ConnectionError, of a request under way or a new one.
ConnectionError(p) ==
  /\ mode[p] = "polling" \/ (mode[p] = "offline" /\ Waiting(p))
  /\ Fault
  /\ poll' = Abandoned(p)
  /\ mode' = [mode EXCEPT ![p] = "offline"]
  /\ UNCHANGED <<serverVars, fresh, halting, threads, results, deliveries, outcome, unmarked>>

-----------------------------------------------------------------------------
(* Life of a client process *)

\* Someone at the PC, or Windows Update, shuts it down.
LocalShutdown(p) ==
  /\ mode[p] # "down" /\ p \notin halting
  /\ Fault
  /\ halting' = halting \cup {p}
  /\ UNCHANGED <<serverVars, poll, mode, fresh, threads, results, deliveries, outcome, unmarked>>

\* The process ends; executor threads are daemons and end with it.
Stop(p) ==
  /\ mode[p] # "down"
  /\ (p \in halting /\ UNCHANGED faults) \/ (p \notin halting /\ Fault)
  /\ mode' = [mode EXCEPT ![p] = "down"]
  /\ poll' = Abandoned(p)
  /\ threads' = {t \in threads : t.pc # p}
  /\ halting' = halting \ {p}
  /\ fresh' = fresh \ {p}
  /\ UNCHANGED <<serverVars, results, deliveries, outcome, unmarked>>

\* BOOT_TIME is the start of the process; registered.flag exists already.
Start(p) ==
  /\ mode[p] = "down"
  /\ mode' = [mode EXCEPT ![p] = "polling"]
  /\ fresh' = fresh \cup {p}
  /\ UNCHANGED <<serverVars, poll, halting, threads, results, deliveries,
                 outcome, unmarked, faults>>

GraceEnds(p) ==
  /\ p \in fresh
  /\ fresh' = fresh \ {p}
  /\ UNCHANGED <<serverVars, poll, mode, halting, threads, results, deliveries,
                 outcome, unmarked, faults>>

-----------------------------------------------------------------------------
(* execute_command_async and send_command_result *)

\* is_power_command.  "execute_power" stands for an "execute" whose command
\* line holds one of the words shutdown, restart, logoff.  The type "restart",
\* which the web pages send, is not in the list.
IsPowerCommand(type) == type \in {"shutdown", "reboot", "execute_power"}

\* The executor turns "reboot" into "restart" and runs shutdown /s or /r.
TurnsOff(type) == type \in {"shutdown", "reboot", "restart", "execute_power"}

ShouldSkip(t) == IsPowerCommand(commands[t.cmd].type) /\ t.pc \in fresh

Replace(t, new) == threads' = (threads \ {t}) \cup new

EndRunSilently(t, o) ==
  /\ t.at = "new"
  /\ Replace(t, IF o = "error" THEN {} ELSE {[t EXCEPT !.at = "report", !.outcome = o]})
  /\ outcome' = [outcome EXCEPT ![t.cmd] = @ \cup {o}]
  /\ UNCHANGED <<serverVars, poll, mode, fresh, results, deliveries, unmarked, faults>>

EndRun(t, o) ==
  /\ t.at = "new"
  /\ Replace(t, {[t EXCEPT !.at = "report", !.outcome = o]})
  /\ outcome' = [outcome EXCEPT ![t.cmd] = @ \cup {o}]
  /\ UNCHANGED <<serverVars, poll, mode, fresh, results, deliveries, unmarked, faults>>

Skip(t) ==
  /\ ShouldSkip(t)
  /\ EndRun(t, "skipped")
  /\ UNCHANGED halting

\* execute_command catches what a command raises and returns it as text, so a
\* command that failed is reported as completed too.
Execute(t) ==
  /\ ~ShouldSkip(t)
  /\ EndRun(t, "completed")
  /\ halting' = IF TurnsOff(commands[t.cmd].type) THEN halting \cup {t.pc}
                                                  ELSE halting

\* is_power_command raises for an "execute" whose parameters are no object.
Raise(t) ==
  /\ commands[t.cmd].type = "execute"
  /\ EndRun(t, "error")
  /\ UNCHANGED halting

PostResult(t) ==
  /\ t.at = "report"
  /\ Replace(t, {[t EXCEPT !.at = "await", !.tries = @ + 1]})
  /\ results' = results \cup {[pc |-> t.pc, cmd |-> t.cmd, nth |-> t.nth,
                               outcome |-> t.outcome, try |-> t.tries + 1,
                               at |-> "sent"]}
  /\ UNCHANGED <<serverVars, poll, clientVars, deliveries, outcome, unmarked, faults>>

\* safe_request: an attempt that failed is repeated until MaxTries.
TryAgain(t) == IF t.tries < MaxTries THEN {[t EXCEPT !.at = "report"]} ELSE {}

AwaitedBy(t, m) ==
  /\ t.at = "await" /\ t.tries = m.try
  /\ t.pc = m.pc /\ t.cmd = m.cmd /\ t.nth = m.nth

\* The server answers m: its thread, if it still waits for this attempt, ends
\* after a 200 and tries again after a 404 or 500.
Answer(m, ok) ==
  threads' = {t \in threads : ~AwaitedBy(t, m)}
             \cup IF ok THEN {} ELSE UNION {TryAgain(t) : t \in {u \in threads : AwaitedBy(u, m)}}

\* submit_command_result: SELECT the row, 404 when there is none ...
FindCommand(m) ==
  /\ m.at = "sent"
  /\ IF commands[m.cmd].status = "absent"
     THEN /\ results' = results \ {m}
          /\ Answer(m, FALSE)
     ELSE /\ results' = (results \ {m}) \cup {[m EXCEPT !.at = "found"]}
          /\ UNCHANGED threads
  /\ UNCHANGED <<serverVars, poll, clientVars, deliveries, outcome, unmarked, faults>>

\* ... then UPDATE it; a row count of 0 is answered with 500.
RecordResult(m) ==
  /\ m.at = "found"
  /\ commands' = WithStatus(m.cmd, FinalStatus(PostedStatus(m.outcome)))
  /\ results' = results \ {m}
  /\ Answer(m, commands[m.cmd].status # "absent")
  /\ UNCHANGED <<registered, lastId, request, poll, clientVars, deliveries,
                 outcome, unmarked, faults>>

\* Either statement fails: complete and set_error turn an exception into FALSE,
\* and both the SELECT's and the UPDATE's error are answered with 500.
ResultFails(m) ==
  /\ Fault
  /\ results' = results \ {m}
  /\ Answer(m, FALSE)
  /\ UNCHANGED <<serverVars, poll, clientVars, deliveries, outcome, unmarked>>

\* The attempt fails on the client's side: the request is lost on its way, or
\* only its answer is lost or late.
LoseResult(t) ==
  /\ t.at = "await"
  /\ Fault
  /\ Replace(t, TryAgain(t))
  /\ \/ results' = {m \in results : ~(AwaitedBy(t, m) /\ m.at = "sent")}
     \/ UNCHANGED results
  /\ UNCHANGED <<serverVars, poll, clientVars, deliveries, outcome, unmarked>>

-----------------------------------------------------------------------------
AdminNext ==
  \/ \E a \in Admin :
       \/ \E p \in PC, prio \in Priority, t \in CommandType : SendCommand(a, p, prio, t)
       \/ \E ps \in SUBSET PC, t \in CommandType : BulkCommand(a, ps, t)
       \/ \E ps \in SUBSET PC : ClearCommands(a, ps)
       \/ \E p \in PC : InsertCommand(a, p)
       \/ \E p \in PC : DeletePending(a, p)
       \/ \E p \in PC : StatementFails(a, p)
       \/ Respond(a)
  \/ \E p \in PC : DeletePC(p)

HandlerStep(h) ==
  \/ LookUpPC(h)
  \/ TurnAway(h)
  \/ PickCommand(h)
  \/ StartExecution(h)
  \/ PollExpires(h)
  \/ DropAnswer(h)

HandlerFails(h) == MarkFails(h) \/ LookUpFails(h)

PollNext == \E h \in Handler : HandlerStep(h) \/ HandlerFails(h)

ClientNext ==
  \E p \in PC :
    \/ \E h \in Handler : StartPoll(p, h)
    \/ \E h \in Handler : Receive(p, h)
    \/ ReadTimeout(p)
    \/ ConnectionError(p)
    \/ LocalShutdown(p)
    \/ Stop(p)
    \/ Start(p)
    \/ GraceEnds(p)

ThreadNext ==
  \E t \in threads :
    \/ Skip(t)
    \/ Execute(t)
    \/ Raise(t)
    \/ PostResult(t)
    \/ LoseResult(t)

ResultNext ==
  \E m \in results : FindCommand(m) \/ RecordResult(m) \/ ResultFails(m)

Next == AdminNext \/ PollNext \/ ClientNext \/ ThreadNext \/ ResultNext

Spec == Init /\ [][Next]_vars

-----------------------------------------------------------------------------
(* Fairness.  Threads of server and client are scheduled by the operating  *)
(* system and their loops have deadlines, so each of their steps is weakly *)
(* fair; faults, administrators, users and the power switch are not.  A    *)
(* PC that goes on polling is not turned away for ever, which is what      *)
(* AliveIsOnline of module Presence says.                                  *)

Fairness ==
  /\ \A h \in Handler : WF_vars(HandlerStep(h))
  /\ \A h \in Handler, p \in PC : WF_vars(Receive(p, h))
  /\ \A p \in PC :
       /\ WF_vars(\E h \in Handler : StartPoll(p, h))
       /\ SF_vars(\E h \in Handler : poll[h].pc = p /\ LookUpPC(h))
       /\ WF_vars(p \in halting /\ Stop(p))
       /\ WF_vars(GraceEnds(p))
  /\ \A a \in Admin :
       WF_vars(Respond(a) \/ \E p \in PC : InsertCommand(a, p) \/ DeletePending(a, p))
  /\ \A p \in PC, c \in Command :
       WF_vars(\E t \in threads : /\ t.pc = p /\ t.cmd = c
                                  /\ \/ Skip(t)
                                     \/ Execute(t)
                                     \/ PostResult(t))
  /\ \A c \in Command :
       WF_vars(\E m \in results : m.cmd = c /\ (FindCommand(m) \/ RecordResult(m)))

FairSpec == Spec /\ Fairness

-----------------------------------------------------------------------------
(* What the clients hold, and where a command is on its way *)

InHand(h, c) == poll[h].at \in {"picked", "answered"} /\ poll[h].cmd = c

Held(c) == \E h \in Handler : InHand(h, c)

Received(c) == \E p \in PC : deliveries[c][p] # 0

\* Thread t runs its command or reports it; if it waits for the server, the server
\* has its result.
Working(t) == t.at # "await" \/ \E m \in results : AwaitedBy(t, m)

\* A client waits for the answer with c, or a thread of it works on c.
Answered(c) == \E h \in Handler : poll[h].at = "answered" /\ poll[h].cmd = c /\ poll[h].live

InWork(c) == Answered(c) \/ \E t \in threads : t.cmd = c /\ Working(t)

-----------------------------------------------------------------------------
(* Safety *)

\* Only the client of the PC a command was queued for is handed it, and handed it
\* once: neither zombie handlers, retried polls and concurrent SELECTs of the same
\* pending row nor lost answers make the unguarded poll_commands deliver it again.
\* What does is the one error poll_commands ignores: each answer given out although
\* the UPDATE to executing failed allows one reception more.
RepeatsAreUnmarked ==
  \A c \in Command, p \in PC :
    deliveries[c][p] <= (IF p = commands[c].pc THEN 1 + unmarked[c] ELSE 0)

\* Whatever a client received has left the queue, so that neither a poll nor a clear
\* request can touch its row: a row is pending after a reception only if every one
\* of the command's answers so far went out with the UPDATE to executing failing.
ReceivedLeftQueue ==
  \A c \in Command :
    commands[c].status = "pending" => \A p \in PC : deliveries[c][p] <= unmarked[c]

\* A command never overtakes an earlier one of the same PC that is at least as
\* urgent, in spite of the gap between SELECT and UPDATE in poll_commands.
NoOvertaking ==
  \A c, d \in Command :
    /\ d < c /\ Existed(c)
    /\ commands[d].pc = commands[c].pc
    /\ commands[d].priority <= commands[c].priority
    /\ commands[d].status = "pending"
    => commands[c].status = "pending" /\ ~Held(c)

\* The status shown to the administrator is one the client came to: a repeated,
\* late or reordered result, or the result of another command, never shows an end
\* that no run of this command had.
TruthfulStatus ==
  \A c \in Command :
    /\ commands[c].status = "completed" => outcome[c] \cap {"completed", "skipped"} # {}
    /\ commands[c].status = "error" => "error" \in outcome[c]

\* The SELECT and the UPDATE of submit_command_result see the same row: nothing
\* deletes it in between, so that 500 UPDATE_FAILED means a statement that failed.
\* Only a command that was given out without being marked can be cleared away then.
FoundRowStays ==
  \A m \in results :
    m.at = "found" /\ unmarked[m.cmd] = 0 => commands[m.cmd].status # "absent"

\* Nothing went wrong, and no command switched PC p off.
Undisturbed(p) ==
  /\ faults = 0
  /\ \A c \in Command : commands[c].pc = p /\ TurnsOff(commands[c].type)
                          => "completed" \notin outcome[c]

\* A command that shows as executing is in somebody's hands, unless a connection
\* broke, something timed out or the PC was switched off: it is in an answer its
\* client waits for, or in an executor thread, and a thread that waits for the
\* server has its result with the server.  No path through handlers and threads
\* loses it, not even in the gap between the UPDATE and the answer.
ExecutingIsInHand ==
  \A c \in Command :
    commands[c].status = "executing" /\ Undisturbed(commands[c].pc) => InWork(c)

\* A clear request that went through a PC left none of the commands that were
\* there when it started in the queue.
ClearedStayCleared ==
  \A a \in Admin : request[a].op = "clear" =>
    \A c \in Command :
      /\ c <= request[a].upto
      /\ commands[c].pc \in request[a].scope \ request[a].todo
      => commands[c].status # "pending"

\* Deleting a pending command stops it, except in a handler that had picked it
\* before: once no handler holds a deleted command, no client ever gets it.
Dead(c) == Existed(c) /\ commands[c].status = "absent" /\ ~Held(c)
DeadStayDead ==
  [][\A c \in Command : Dead(c) => Dead(c)' /\ deliveries'[c] = deliveries[c]]_vars

-----------------------------------------------------------------------------
(* Liveness *)

\* A command does not stay in the queue for ever: a handler takes it or a
\* clear request removes it, unless the PC is switched off or unregistered.
PendingIsTaken ==
  \A c \in Command :
    commands[c].status = "pending"
      ~> \/ commands[c].status # "pending"
         \/ mode[commands[c].pc] = "down"
         \/ commands[c].pc \notin registered

-----------------------------------------------------------------------------
(* What the documentation says and the code does not keep *)

\* "prevents power commands right after boot" (client/config.py).
NoPowerCommandAfterBoot ==
  [][\A t \in threads : Execute(t) /\ TurnsOff(commands[t.cmd].type) => t.pc \notin fresh]_vars

-----------------------------------------------------------------------------
(* The promise of CommandDelivery *)

\* The PC a command was queued for, in a set of one.
Owner == [c \in Command |-> IF Existed(c) THEN {commands[c].pc} ELSE {}]

\* What the status column says of a command that has ended.
Recorded == [c \in Command |-> IF commands[c].status \in {"completed", "error"}
                              THEN commands[c].status ELSE "none"]

Delivery == INSTANCE CommandDelivery WITH
  owner <- Owner, receipts <- deliveries, recorded <- Recorded, slips <- unmarked

\* Each step of the dispatch is a step of CommandDelivery or leaves it alone:
\* whatever polls, handlers and retries do, one client gets the command, once for
\* good and once more for each UPDATE to executing that failed, and the table
\* reports no end but one that client came to.
DeliverySpec == Delivery!CDSpec
=============================================================================
