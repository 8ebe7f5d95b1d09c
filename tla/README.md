# WCMS in TLA+

WCMS controls the PCs of computer rooms. A client runs on each PC as a Windows
service; a Flask server with an SQLite database queues commands for the clients
and shows which PCs are on. Clients never accept connections: they poll.

This directory holds models of the parts in which several actors work on the
same rows at the same time, small instances of them that TLC checks, and proofs
that TLAPS checks for instances of any size.

## 1. The system

| Component | State | Operations | Talks to |
|---|---|---|---|
| Command queue and dispatch (`server/models/command.py`, `server/api/client.py`, `server/api/admin.py`) | table `commands` | insert for one or many PCs, list, clear, long-poll, store result | admin requests, client polls |
| Command execution (`client/main.py`, `client/utils.py`, `client/executor.py`) | poll loop, executor threads, `BOOT_TIME` | poll, start a thread per command, run or skip, post the result with retries | dispatch, Windows |
| Presence and outages, server (`server/api/client.py`, `server/services/pc_service.py`, `server/models/pc.py`) | `pc_info.is_online`, `last_seen`, table `network_events` | comeback on a poll, heartbeat, offline and shutdown signal, sweep | client requests, checker thread, page views |
| Presence, client (`client/main.py`, `client/service.py`) | poll loop or reconnect loop | poll, heartbeat, signals, start and stop | presence server |
| Registration, server (`server/api/client.py`, `server/models/registration.py`, `server/models/pc.py`) | `pc_registration_tokens`, `pc_info`, `pc_specs` | create, expire and delete PINs, register, delete a PC | admin requests, clients |
| Registration, client (`client/main.py`, `client/utils.py`) | `registered.flag`, configured PIN | two rounds of `register_client`, `safe_request` | registration server |
| Rooms and seats (`server/api/admin.py`, `server/templates/layout_editor.html`) | `seat_layout`, `seat_map`, `pc_info.room_name`, `seat_number` | create, rename, delete a room, read and save its map | admin requests, pages |
| Client update and installation (`client/updater.py`, `client/main.py`, `server/api/client.py`, `server/api/admin.py`, `server/api/install.py`) | `client_versions`, the installed executable, the downloads in the temporary folder, the Windows service | register and delete a release, check at each start, download, exchange by a batch script, install | releases, Windows, a person at the PC |
| Account commands of the executor (`client/executor.py`) | accounts, passwords, profile folders, language packs of the PC | create with a display language, delete, change the password | executor threads, child processes |
| Administrator login (`server/utils/auth.py`) | session cookie, `admins` | login, logout, `require_admin` | all admin requests |
| Collector, other commands of the executor, web pages, validators, manage.py | none that is shared | | |
| API rewrite in TypeScript (`api/`) | same tables | same handlers, in progress | |

On the server, components meet in the database only. `get_db` opens one connection per request
with `isolation_level=None`, so **each SQL statement is a transaction and the
handlers interleave between statements**. That is the atomicity of all modules
here: one action is at most one statement on shared rows with the code around
it. Flask's threaded server gives each request a thread; a thread does not
notice that its client has given up, and goes on to change rows for nobody
(called a *zombie* below). On a PC they meet in Windows: in the service, the files
and the accounts.

What is hard, and what makes each component correct:

* **Dispatch.** A long-poll SELECTs a pending command and marks it as executing
  in a second, unconditional UPDATE. Two long-polls of one PC (one a zombie) may
  hold the same command; requests may insert, clear or delete in between; the
  answer may be lost, a statement may fail. Correct means: no command runs twice, on a
  wrong PC, or ahead of a more urgent one; clearing a queue works; the status shown is what
  happened; a pending command is taken in the end.
* **Presence.** Four kinds of threads write the status of a PC and its outages,
  each in two or more statements. Correct means: the status follows what the
  client does; an outage is recorded, and once.
* **Registration.** One machine's registration is repeated at three levels, the
  first attempt may still be running, the server may restart between the
  INSERTs. Correct means: no half-registered PC counts as verified; the client's
  flag file tells the truth; a machine with a good PIN gets in; a single-use PIN
  is used once.
* **Rooms.** Three tables say where a PC is; a rename or a new seat map is
  several statements that no transaction holds together and that a UNIQUE
  constraint can stop half-way. Correct means: a request that answers success did
  all of it, whatever failed requests and deleted rooms have left; a room
  with PCs is not deleted.
* **Client update.** A client cannot overwrite its own file: it starts a script,
  ends, and the script stops, copies and starts by waiting a few seconds each. A
  service that is started meanwhile, an installer or a reboot gets in between.
  Correct means: the file is never left torn; the client runs again afterwards,
  also when copying failed; updates come to an end.
* **Account commands.** Each is a chain of child processes of up to half an hour in a
  thread of its own; commands for one user overlap, and the processes outlive a
  client that ends. Correct means: a language that is reported is set, in the
  profile the account uses, and its pack is there.

## 2. The modules

| Module | What it is |
|---|---|
| `CommandDispatch` | commands from the administrator's request to the recorded result, server and clients composed |
| `CommandDelivery` | what the dispatch promises, without polls, handlers, threads or retries |
| `Presence` | status and outages, server threads, time and clients composed |
| `Registration` | PINs, registrations, server and clients composed |
| `Admission` | what registration promises an administrator, without rows, statements, attempts or restarts |
| `Layout` | rooms, their seat maps and the places of the PCs |
| `SeatPlan` | what the room editor promises, each request one step |
| `ClientUpdate` | releases, the client's update, the update scripts, the installers and the service on one PC |
| `AccountSetup` | the account commands on one PC, their threads and child processes |
| `MC*` | symmetry sets and constants for TLC |
| `CommandDispatchProofs`, `CommandDeliveryProofs`, `CommandLossProofs`, `PresenceProofs`, `RegistrationProofs`, `LayoutProofs`, `ClientUpdateProofs`, `AccountSetupProofs` | theorems |

### CommandDispatch

| Variable | Code |
|---|---|
| `registered` | the rows of `pc_info`, by id |
| `commands`, `lastId` | table `commands` (pc, priority, type, status) and its AUTOINCREMENT counter; a row that is "absent" was never inserted or was deleted |
| `request` | an admin request under way: `_queue_command`, `send_command`, `bulk_command`, `clear_pc_commands`, `clear_all_commands` and the PCs of its loop still to do |
| `poll` | a thread in `poll_commands`: its place, its PC, the command it selected, and whether the client still waits (`live`) |
| `mode` | `poll_command` of the client: main loop, reconnect loop, or no process |
| `fresh`, `halting` | PCs within the grace period after `BOOT_TIME`; PCs whose Windows shuts down |
| `threads` | threads of `execute_command_async`, from start to the end of the last try |
| `results` | requests to `submit_command_result`, on the wire or past its SELECT |
| `deliveries`, `unmarked`, `outcome`, `faults` | history: how often a client received a command, how often one was given out without being marked, the ends its runs came to |

The poll handler is `LookUpPC`/`TurnAway`, `PickCommand` (SELECT),
`StartExecution` (UPDATE) or `PollExpires`, then `Receive` at the client or
`DropAnswer`. `MarkFails` is the UPDATE that fails: `start_execution` returns False,
`poll_commands` does not look at it and answers with the command, whose row stays pending
and is handed out again. A client then has several threads for one command; `nth`
tells them apart. `LookUpFails`, `StatementFails` and `ResultFails` are the other
statements that fail: the handler answers 500, or as if there were no command. A server
that stops is, for what can be seen of it, a handler that never takes another step, a
poll that breaks off and a result that is lost, all of which are there. The reconnect loop of the client drops the body of the answer it
gets, and the command with it (`Receive` in mode "offline"). `FindCommand` and
`RecordResult` are the two statements of the result handler. `Raise` is the one
way a command is reported as failed: `execute_command` returns the text of an
exception as its result, so `Execute` ends in "completed" whatever happened.

`TurnAway` also answers without a command for a PC that is shown as offline and
whose shutdown was recorded less than five seconds ago, by its own signal or by a sweep
that knows of a power command of the last hour. When exactly is the business of
`Presence`; here it may happen to any poll.

`CommandDelivery` has one variable per promise: who owns a command, how often
that client received it, how it ended there, what is recorded. `DeliverySpec`
maps the dispatch to it: the owner is the row's PC, the record is the row's
status if final. Two weaknesses are part of the promise, because the code keeps no better
one. A command is handed over once, and once more for each time the server
failed to mark it (`Slip`, `slips <- unmarked`). And a record may be withdrawn (`Reopen`),
although `docs/ARCHITECTURE.md` draws completed and error as final: a zombie poll
that selected the command before the live one marked it executes its UPDATE after the
result was recorded.

### Presence

| Variable | Code |
|---|---|
| `online`, `stale` | `is_online`; `last_seen` older than the 40 seconds of the sweep |
| `event`, `recent` | open rows of `network_events` with reason and order; those younger than 5 seconds |
| `thread` | a server thread at work: poll, heartbeat, signal or sweep; place, PC, the event a poll is about to close, the PCs a sweep has left |
| `client`, `halting` | poll loop, reconnect loop (`broken`: about to send the offline signal), no process; Windows shuts down |
| `bye`, `outlived`, `faults` | history: the shutdown signal of the PC was answered just now; open events of an outage from which a heartbeat brought the PC back |

Time is abstract: `GrowStale`, `EventAges` and `ByeAges` are the moments at
which a comparison with the clock changes its outcome. A client that polls is
seen every 35 seconds at most, so growing stale takes a silent client or a fault.
`ORDER BY offline_at DESC LIMIT 1` compares whole seconds, so `Latest` may
choose any of several recent events.

`Fail` is a statement that fails: a request answers 500, a sweep's `except` ends it
silently. `Restart` is the end of the server and its next start: all threads are gone,
whatever statement they were at.

### Registration

| Variable | Code |
|---|---|
| `token` | rows of `pc_registration_tokens`: valid, expired or absent, single or multi, `used_count` |
| `row`, `lastId`, `verified`, `specs` | rows of `pc_info` by `machine_id`, AUTOINCREMENT, `is_verified`, rows of `pc_specs` |
| `handler` | a thread in `register`: `validate`, the statements of `update_or_create` and `PCModel.register`, the verification, `mark_used` |
| `client` | `run_client` up to the poll loop: round, attempts of `safe_request`, waiting, running |
| `flag` | `registered.flag` |
| `deleted`, `admitted`, `uncounted`, `faults` | history: the PCs an administrator deleted; how many registrations verified a machine with a PIN, and how many of those were never counted |

`MarkUsed` counts the use of a PIN. `MarkFails` is its UPDATE failing: `mark_used` rolls
back and returns False, `register` does not look at it and answers 200, so the machine is
told and the PIN is as good as before. A `Restart` between `Verify` and `MarkUsed` leaves
the use uncounted as well. `StatementFails` is any other statement that fails.

`Duplicate` is the IntegrityError of two attempts that insert the same machine or
the same specs; the handler answers 500 and the client tries again. `SafeRequest`
models what `raise_for_status` makes of an error status.

`AdmissionSpec` maps this to `Admission`: a clerk is a server thread, its ticket is
"accepted" from `Validate` on, "admitted" from the statement that verifies the machine
(`Verify`) and "counted" from `MarkUsed`; a member is a machine with a row that is
verified and has its specs; the told machines are those with `registered.flag`; the
removed ones are in `deleted`; `mishaps` is mapped to `faults`. A registration is counted
before the machine is told, or else a mishap took the count (`Miss`). Everything else (rows without specs,
attempts, zombies, restarts between two INSERTs) is a stutter or a dropped ticket.

### Layout

| Variable | Code |
|---|---|
| `layout` | rows of `seat_layout`: the id of each room's row |
| `map` | rows of `seat_map`: the PC on each seat of each room name, also of names without a room |
| `pcs`, `place` | rows of `pc_info`, their `room_name` and `seat_number` |
| `request` | a thread in `create_room`, `get_layout_map`, `update_room`, `delete_room` or `save_layout_map`: its next statement, the room id and names it works with, the PCs still to seat; `alone`: no other request met it |
| `clean` | history: so far no two requests met and none broke off |

Each of the five handlers is a chain of actions, one per statement. `SeatsCollide`,
`NameCollides` and `SeatTaken` are the IntegrityErrors: the request ends and what it
did stays, because `db.rollback()` in `update_room` has no transaction to undo and
`save_layout_map` catches nothing. `StatementFails` breaks a request off at any of its
statements, for another reason than a constraint or because the server stops. No foreign key is enforced, so `DeletePC` and
`RemoveRoom` leave the seats. `NewId` gives the least unused id instead of the
next one, so that few ids suffice; `Fresh` keeps it from being one that a request
still holds, which is what AUTOINCREMENT is for.

`SeatPlan` is the editor as an administrator imagines it: rooms, a place for each
PC, five requests of one step each. `SeatPlanSpec` maps the tables to it. A request
counts as done

| Request | at | until the tables say the same |
|---|---|---|
| create a room | its INSERT | |
| rename a room | `MovePCs`, the first UPDATE | the plan has the new name instead of the old one (`Renaming`) |
| delete a room | its DELETE | |
| save a map | `ClearPlaces` | the plan has the room and the seats asked for (`Placing`) |
| delete a PC | its DELETE | |

`PlannedRooms` and `PlannedPlaces` are the tables with what the renames and saves
under way are still going to do. The promise ends for good (`Disturbed`) when
two requests meet or one breaks off (`clean`), or when a save begins that asks for one
seat twice and therefore will break off (`Doomed`).

### ClientUpdate

| Variable | Code |
|---|---|
| `releases` | rows of `client_versions`, ordered by `released_at`; a row names a version and, by its URL, the executable it yields |
| `exe` | `C:\Program Files\WCMS\WCMS-Client.exe`: the version compiled into it, none, or torn |
| `service` | the entry of the service manager; "doomed" is marked by `sc delete` and goes when the service stops |
| `client` | `run_client` up to the poll loop: `check_for_updates`, `download_file`, `perform_update`, and the release it updates to |
| `temp` | `%TEMP%\WCMS-Client-<version>.exe` |
| `script` | scripts of `create_update_script` at work, by the line they are at |
| `installer`, `installs` | `install.cmd` or `install.ps1` at work; how many have run |
| `mishap`, `faults` | history: what went wrong around an exchange (a power cut in it, a client started while a script waits, a step of an installer refused, a client that ended) |

Each line of the script that does something is an action: `ScriptStops` ("net
stop"), `BeginCopy`/`EndCopy` or `CopyFails` (twice), `ScriptStarts`, `CleanUp`
("del"). Windows refuses to write a file that runs or that another copy writes;
that is `InUse`. `perform_update` leaves by `SystemExit`, which neither `except Exception`
catches, so `LaunchScript` ends the client. The two installers share their actions
and differ where one stops at an error that the other passes over.

`Outdated` is `!=`: an older release at the server is installed as well.
`RegisterVersion` takes any pair of version and URL, because nothing compares
them. `FinishDownload` makes the only assumption on timing: the script deletes its
file right after "net start", and no download ends sooner.

### AccountSetup

| Variable | Code |
|---|---|
| `account`, `password` | Windows accounts by name, named by the command that made them and the one that set the password |
| `folder`, `language` | `C:\Users\<name>`: whose profile it is, and the language in its `NTUSER.DAT` |
| `cmdlet`, `packs` | whether `Install-Language` exists; the packs installed |
| `thread` | the thread of a command in `manage_account`, or the child process that is left of it |
| `met` | history: commands that overlapped with another one for their user |
| `misled` | history: commands whose script overlooked something: a folder left by an earlier account of the name, or a `reg load` that failed |
| `faults` | history |

`manage_account` is a chain of child processes, one action each:
`InstallLanguagePack`/`PackFails`, `AddUser`/`NameTaken`/`Refused`, `MakeProfile`,
`WriteLanguage`/`LoadFails`/`SetupFails`. `ClientEnds` ends the threads, which are
daemons, and leaves the processes ("orphan"), except those not started yet.
Nobody logs on to an account while a command works on it.

## 3. What is checked

Every variable a bound limits is limited in a guard; the bounds are constants.
`faults` counts lost connections, timeouts, failing statements, crashes, power cuts and
restarts.

| Run | Instance | Shows |
|---|---|---|
| `DispatchCore` | 1 PC, 2 poll threads, 1 admin thread, 2 commands, priorities 1 and 5, 1 fault, 1 try; 3.4 M states | `RepeatsAreUnmarked`, `ReceivedLeftQueue`, `NoOvertaking`, `ClearedStayCleared`, `DeadStayDead`, types |
| `DispatchResults` | 2 PCs, 2 poll threads, 1 command, types reboot and execute, 1 fault, 2 tries; 4.9 M states | `TruthfulStatus`, `FoundRowStays`, `ExecutingIsInHand`, refinement of `CommandDelivery` |
| `DispatchLive` | 1 PC, 1 poll thread, 2 commands, 1 priority, type restart, 1 fault; 0.4 M states | `PendingIsTaken` |
| `PresenceCore` | 1 PC, 1 request thread and the checker, 4 events, 3 faults; 0.2 M states | `DuplicatesBounded`, `LostOutagesExplained`, `GoneIsOffline`, `AliveIsOnline`, types |
| `RegistrationLive` | 1 machine, 1 PIN, 2 threads, 3 rows, 2 faults, 3 tries; 0.8 M states | `VerifiedIsComplete`, `FlagIsHonest`, `UsesBounded`, `MultiPinRegisters`, `RegistrationEnds`, refinement of `Admission`, types |
| `LayoutCore` | 2 rooms, 2 PCs, 1 seat per room, 2 threads, 4 ids; 1.1 M states | `PlacesHaveSeats`, `ConflictsExplained`, `SaveReplacesMap`, `RenameMovesAll`, `OnlyEmptyRoomsGo`, refinement of `SeatPlan`, types |
| `UpdateCore` | 2 versions, 1 release at a time, 2 scripts, 1 installation, 1 fault; 1.0 M states | `WholeExe`, `ServiceReturns`, `ComesUp`, types |
| `AccountCore` | 3 commands, 1 user, 2 languages, 2 faults; 0.5 M states | `LanguageNeedsPack`, `LanguageKept`, `CreateSucceeds`, types |

Why these bounds are enough to be interesting:

* Every race of the dispatch is between two polls of one PC, of which one is a
  zombie, and a third actor. One fault makes a zombie; two poll threads run both;
  two commands are what overtaking takes. A repeated delivery takes one UPDATE that
  fails. The second PC of `DispatchResults` is
  what a delivery to the wrong client takes, its second try what a result that
  overtakes its own repetition takes.
* A duplicate event takes two threads that both looked; a lost outage takes a
  poll that closes while another thread takes the PC offline, an event that a heartbeat
  left open, or one failure. A request thread and the checker give all of them; the counterexample of `PresenceBye`
  comes from an instance with two request threads, and the theorems are
  about any number. The events are never used up (`InsertEvent` needs a free id).
  Several PCs share nothing but the sweep, whose snapshot matters for each PC
  alone.
* `RegistrationLive` has the three attempts of `safe_request`. Each fault can
  cost up to three attempts (a lost answer, then two collisions with the zombie),
  and the client has six in two rounds. `MultiPinRegisters` is therefore about a
  registration that at most one more fault meets; with two the six attempts can
  simply be spent.
* With one machine the bound of `UsesBounded` is reached: an abandoned attempt and its
  repetition both validate the PIN. The second fault is what it takes to leave a use
  uncounted and to lose the answer besides, so that the machine comes again. More machines with one PIN add more of the same,
  which the theorem `SinglePinBounded` covers.
* Two rooms are what a rename takes, two PCs what a collision on a seat takes,
  and with one seat per room every two PCs of a room collide. Four ids are two
  rooms and what two threads may hold besides.
* Two releases that differ are all a client can tell apart. A second script takes
  a client that was started while the first one waits, which is the one fault; an
  installation can fall anywhere into that. Rows can be deleted and
  registered again, so one at a time still gives every sequence of releases.
* Two account commands overlap, the third is the one that comes after them, for
  example the creation of an account that was deleted. Users share nothing but
  the language packs. Of the two faults one ends the client, so that an orphan
  meets later commands, and one fails a child process.
* Two of the variables are unbounded in the code and grow with use only:
  `commands` and `network_events`. The first is bounded by `MaxCommands`; ids of
  closed events are reused once no thread refers to them.

What is larger than TLC's instances is covered by the proofs of section 5.

Each property is also run against a mutated definition (`PROJECT.json`,
"mutants"): a dropped guard, a swapped order, an id used again. The mutants are
defined next to what they change, so that a reader sees what each property
guards against.

### What the code does not do

Four runs are expected to end in a counterexample. Each checks one sentence of
the documentation or of a comment.

1. `DispatchGrace`: *no power commands right after boot* (`client/config.py`). The pages
   queue the type `restart`; the client's list of power commands has `shutdown`
   and `reboot`. A restart that waited while the PC was off is carried out at boot.
2. `PresenceBye`: *a poll within five seconds of the shutdown signal is no
   reconnection* (`server/api/client.py`). The signal inserts no event if an older one of another
   reason is open, and the poll looks for an event with reason shutdown.
3. `RegistrationLost`: *enter the PIN and the PC is registered and the service starts*
   (`docs/GETTING_STARTED.md`). The answer is lost after `mark_used`; the repetition is refused; the
   client process ends although the server holds the PC as verified. This run
   has one server thread, so no race is needed.
4. `RegistrationDeleted`: *not registered at the server, trying to register again*
   (`client/main.py`). The branch for 404 cannot be reached behind `safe_request`.

### What holds less than one might hope

These are facts of the code; the properties state the most that is true.

* A command whose UPDATE to executing fails is given to the client all the same and stays
  pending. Until the next UPDATE succeeds it is handed out and carried out again, once per
  failure (`RepeatsAreUnmarked`, `ReceivedLeftQueue`); a clear request may delete it
  while it runs, and its result then ends in 500 (`FoundRowStays`, `DeadStayDead`).
* A command whose answer is lost stays executing; nothing enforces
  `timeout_seconds`. `PendingIsTaken` promises only that it leaves the queue, and
  `ExecutingIsInHand` that it takes a broken connection, a timeout, a failing statement
  or a PC that is switched off to lose it. In its reconnect loop the client itself drops the
  command of the answer that ends the loop.
* A command that has ended may be shown as executing again, for ever
  (`CommandDelivery.Reopen`): `start_execution` has no condition on the old status.
  `docs/ARCHITECTURE.md` draws *pending → executing → completed/error*.
* An event may stay open although the PC is back: a heartbeat that comes before the poll
  sets `is_online` and closes nothing, and the poll then has nothing to bring back.
  `docs/API.md` says that `online_at` is recorded on reconnection.
* A sweep takes PCs offline from a list read earlier, so it may take one offline
  that has just polled. `AliveIsOnline` says that it comes back.
* One outage may be recorded several times, but at most as often as there are
  threads (`DuplicatesBounded`). An outage may be missing for three reasons
  (`LostOutagesExplained`): a poll closed its event together with the one it meant; an
  event of an earlier outage was still open, so that no other was inserted; a statement
  failed or the server stopped between the UPDATE of `is_online` and the INSERT, after which
  sweeps pass over a PC that is offline already.
* A single-use PIN is not used once, as `docs/API.md` and `schema.sql` have it. It
  registers as many times as there are threads that validate it before the first use is
  counted, and once more for each use that is never counted (`UsesBounded`). A machine may be told
  that it is registered although its use was not counted (`Admission.Miss`).
* A clear request stops what is pending; a command that a handler has selected
  is still delivered, with its row gone (`DeadStayDead` says when it is not).
* Requests about rooms that meet may leave anything: a PC placed in a room that
  is being deleted, two maps mixed. The properties of `Layout` are about requests
  that met no other one (`alone`); `docs/API.md` says without a condition that a room with
  PCs is not deleted.
* A rename that finds seats of an earlier room in its way, and a save with two PCs on
  one seat (the editor lets a PC be dropped on an occupied seat), break off and are
  not undone. Without another request in between no constraint stops one for any
  other reason (`ConflictsExplained`). After such a rename the PCs are in a room that does not exist.
  `PlacesHaveSeats` holds as long as none broke off (`clean`).
* A torn executable is possible, by a power cut during a copy or a
  client that someone starts while a script waits: it runs the old version, updates
  again and rewrites the file the script copies (`WholeExe` names both).
* Updates end only if the newest release names the version its executable reports
  (`ComesUp`); otherwise the client exchanges its file at every start.
* Both installers copy before they stop the service. On a PC whose client runs the
  copy is refused: `install.cmd` ends there; for `install.ps1` the error of `Copy-Item` does
  not terminate, so `catch` never sees it: it prints that the files were copied
  and registers the old executable again.
* An account that is deleted and created again gets another folder than
  `C:\Users\<name>`, which is left from the first one. The language is then written to
  the old profile and reported all the same, as it is when `reg load` fails
  (`LanguageKept` leaves out what is `misled`).
* `send_command_result` reports "completed" for an account command that failed; the text
  says so.
* Saving a map gives the room another id and the default description, and reading
  a map creates the room.

## 4. Fairness

Threads of server and client are scheduled by their operating systems, all their
waits have deadlines, and the loops of the clients do not end: their steps are
weakly fair. Nothing is assumed of administrators, users, faults, restarts or
power switches, and nothing of lost messages beyond their number.

* `PendingIsTaken` takes it that finitely many commands are inserted
  (`MaxCommands`): a command may wait for ever behind a stream of more urgent
  ones, as `ORDER BY priority` is meant to work.
* The look-up of a PC by its polls is strongly fair in `CommandDispatch`: a client whose
  poll was turned away polls again at once, and a PC that goes on polling is shown as
  online again and again, which `Presence` checks (`AliveIsOnline`).
* `Presence` has strong fairness for the start of a poll. The server has as many
  threads as requests; with the few threads of an instance, heartbeats could take
  them all at every moment a poll tries. Aging (`EventAges`, `GrowStale` of a PC
  without a client) is weakly fair because time passes; the checker thread's sweep
  because it loops.
* `Registration`: threads, the attempts of a client and its heartbeats.
* `ClientUpdate`: what a client does unless something fails, each script and the
  installer. All of it is waiting with a deadline, copying and starting. The starts by hand
  or by the service manager are faults, and nothing is assumed of those. `ComesUp` asks
  of the administrators that the newest release settles on an honest one.
* `AccountSetup`: the steps of each command. Its PowerShell children have timeouts; "net
  user" has none and is taken to return.

## 5. What is proved

All theorems are about `Spec` without fairness, for all values of the constants
that the named assumption of the module admits (`DispatchAssumption`,
`PresenceAssumption`, `RegistrationAssumption`, `LayoutAssumption`, `UpdateAssumption`,
`AccountAssumption`: nonempty or finite sets, natural
bounds). `IsFiniteSet(Handler)` is needed where threads are counted.

**CommandDispatchProofs.** `TypeCorrect`, `RepeatsAreCounted` (`RepeatsAreUnmarked`),
`OutOfTheQueue` (`ReceivedLeftQueue`), `InOrder` (`NoOvertaking`), `ResultsAreTrue` (`TruthfulStatus`),
`RowsStay` (`FoundRowStays`), `ClearsForGood`, `ClearedInTime` (`DeadStayDead`). `RepeatsAreUnmarked` is not
inductive: whether a client may get a command again depends on who holds it. `Ind`
adds

* `PollInv`: what a handler holds was queued and is of its PC;
* `OneLivePoll`: a client waits for one answer at a time. This is the argument:
  SELECT and UPDATE are not guarded, but of the handlers that hold one command at
  most one can deliver it;
* `ReceiptInv`: while a command is pending or a live handler holds it, each reception of it
  is paid for by an answer that left it unmarked (`Paid`), and if such an answer is on its way,
  by one more than were received. A successful UPDATE ends this, and a handler selects
  only pending commands, so nothing starts it again;
* `OrderInv`: while a command is pending, nothing it should precede was received;
* `UnusedInv`: ids not given out appear nowhere (what AUTOINCREMENT is for);
* `ThreadInv`, `ResultInv`: one executor thread per reception; what a thread or a result
  reports is an end the command came to, and a command that was always marked came to none
  before its thread did;
* `RequestInv`: a clear request looks back only.

`Frame` says which variables each part reads, so that the lemma of an action
deals with the parts it can disturb.

**CommandDeliveryProofs.** `DispatchImplementsDelivery`: `Spec => DeliverySpec`, from `Ind`;
one lemma per group of actions shows which step of the promise it is.

**CommandLossProofs.** `NoneLost` (`ExecutingIsInHand`). An executing command is lost when
its handler's client is gone, when a client drops the answer, or when a thread ends
without a result. None of these happens while `faults` is 0 and no command switched the
PC off; `CalmInv` says what that means for a PC: it is not halting, its client is in its
main loop, and the client waits for every one of its polls. No statement fails either. Thus the UPDATE passes
the command to a poll that is live, its answer starts a thread, and the thread goes on until
the server has recorded its result.

**PresenceProofs.** `Ind` says which kinds of work are at which place and that only a
poll about to close holds an event, one of its PC. From it `FewDuplicates`
(`DuplicatesBounded`) and the action property `OutagesKept`
(`LostOutagesExplained`) follow. The second goes through the steps after which an outage can be without
an event: a thread that takes the PC offline has yet to look for one (`Recording`), one that
looks finds an event of this outage or goes on to insert (`OutageStepRecorded`), and one that
ends early did so by failing (`FailureRecorded`); whatever else touches events and status
sees the PC online (`SeenRecorded`). The first counts: a thread goes to "insert"
only while no event is open, when the threads about to insert are all there is to
count, and an insertion moves one from the threads to the events.

**RegistrationProofs.** `Reached` says what a registration under way relies on: the row it
found or made is the machine's unless an administrator deleted it, from "verify" on
its specs are there, from "mark" on the PC is verified. `TablesGrow` says that no
one undoes this: specs and verifications stay, a row goes only by a deletion.
`NeverHalfVerified` and `FlagsTellTheTruth` are parts of the invariant;
`SinglePinBounded` (`UsesBounded`) has two halves. `Bounded` counts like `FewDuplicates`: a
PIN is validated only while its count is 0, and `mark_used` moves one from the threads to the
count. `Accounted` says that each registration admitted with a PIN is counted, about to be,
or uncounted; a failing UPDATE and a restart move it from the second to the third.
`RegistrationImplementsAdmission`: `Spec => AdmissionSpec`, where a ticket passes from
admitted to told by a count or by a mishap. A member is a machine with a
verified PC, because a verified PC has its specs (`Ind`). That `Verify` admits
the machine needs `Reached` (its row is there unless it was deleted). That it admits no
other one, and that no other statement admits any, needs `IdInv`: an id belongs to one
machine, and an id that was not given out is not verified.

**LayoutProofs.** `Progress` says what a request that met no other one (`alone`) has
reached: its row still has its id, the PCs and then the seats have left a room that is
renamed, what a save has inserted is what was asked for. `Unnoticed` is what another
request has to leave alone for that; each action of a request that it does not meet
does. From this `SavesReplace`, `RenamesMove` and `DeletesEmptyRooms` follow.
`PlacesAgree` (`PlacesHaveSeats`) needs `PlaceInv`: between two statements a PC may be
without its room or seat, but then the request that supplies it is under way.

`LayoutImplementsSeatPlan`: `Spec => SeatPlanSpec`. While the history is clean, requests
under way have names and PCs of their own (`Apart`), so what a rename or a save adds to the
tables in the plan is not contested, and each action either changes the plan at
its one moment or only brings the tables closer to it; one lemma per action says which
(`MovePCsPlanned`, `SetNameUnseen` and so on). Two steps need more than `Ind`: the
rename needs the new name to be still free after its check (`NewNamesFree`, an invariant
of its own), and `CalmBefore` shows that a disturbed plan never becomes calm again, for
which a save that asks for one seat twice must not succeed (`DoomedFails`).

`ConflictsAreOwn` (`ConflictsExplained`) says what the UNIQUE constraints can meet. `FreeInv`
carries the check of a new name to its use: who would take the name in between
has met the rename (`NoRowForOthers`), and only requests of its own names give rows an id. With the
name free, seats in the way are of an earlier room; and a save finds on a seat
only what it put there itself, because it cleared the room (`Progress`).

**ClientUpdateProofs.** `NeverTorn` (`WholeExe`) and `AlwaysReturns` (`ServiceReturns`).
`OneCopier`: at most one party copies at a time, and a client runs only from a whole
file. `Carried`: a client launches a script only with a whole download, which rests on
the return value of `download_file`. `Alone`: without a rival no client runs while a
script waits, so nobody truncates the file it is going to copy. `Present`: the file a
script copies is still there. For the second theorem `Responsible` names,
for every state in which the service or its process is missing, the script or
installer that is still to bring it back.

**AccountSetupProofs.** `PacksFirst` (`LanguageNeedsPack`) and `LanguageStays`
(`LanguageKept`). `PackReady`: a thread that is past the pack's installation with a good
result has its pack, and packs are never removed. `Finds` is what a command that
met no other one for its user relies on: the account still has the password it
set and no folder while the profile is made, then the folder is the account's,
then the language is the one reported. Others break it only while they work for the same
user, and then `Apart` says both have met; an orphan that still writes after the
account was made again is `Late`, and has met the command that made it.

Only model-checked: the liveness properties (`PendingIsTaken`, `GoneIsOffline`,
`AliveIsOnline`, `MultiPinRegisters`, `RegistrationEnds`, `ComesUp`, `CreateSucceeds`), since liveness under fairness and
ENABLED are outside what the prover's backends handle. Findings are
counterexamples of TLC.

## 6. Not modelled, and why

* Administrator sessions: a login is one SELECT and a comparison of hashes; the session
  is a cookie that `require_admin` looks at. Nothing on the server changes between
  two requests, and the operations of `AdminModel` that would change accounts are
  reached from no handler.
* Collector, validators, pages, `manage.py`: one actor, no shared state, or browser
  behaviour. What reaches the rest (a sweep per page view, the requests, the first
  release of `init_db`) is in the models.
* The other commands of the executor (Chocolatey, downloads, messages, shell
  commands, processes): one child process or request each. Their outcome is in
  `CommandDispatch`.
* Of the installers: the prompt for the PIN, directories, logs, the legacy service
  `WCMSClient`. Of the update: rows with equal `released_at`, and a client that does not run
  as an executable, which updates nothing.
* `full_name` of an account (`wmic`) and its comment, which changes nothing.
* Whether the client could write `registered.flag`: `register_client` ignores a failure
  to do so, and the client registers again at the next start.
* `set_timeout`, `get_by_status`, `cleanup_old` of the command model: no handler calls them.
* Durations, timestamps shown to users, time zones. `get_active_tokens` compares a UTC time
  with a local one; that list is only displayed, `validate` does not use it.
* How fast loops turn: a client whose PC was turned away polls again without a pause
  until the shutdown event is old.
* The TypeScript API: it is not deployed. The archived version is not in use.

## 7. Order of the modules, and what could follow

`CommandDispatch` (the purpose of the system), `CommandDelivery`, `Presence`,
`Registration`, `Layout`, `ClientUpdate`, `AccountSetup` were written in this order, each
with its proofs, and then `Admission` and `SeatPlan` as the promises of the third and the
fourth. What could follow:

1. `CommandDispatch` and `Presence` with the same polls: the strong fairness assumed of the
   look-up would then follow from the events of `Presence`.
2. `NoComebackAfterBye` for PCs without an older event, as a theorem.
3. The TypeScript API as a second implementation of `CommandDelivery`, when it is
   complete.
