------------------------------- MODULE Presence -------------------------------
EXTENDS Integers, FiniteSets

(***************************************************************************)
(* Whether a PC is shown as online (pc_info.is_online) and the history of  *)
(* its outages (network_events).  Four kinds of server threads write both, *)
(* statement by statement and without transactions: long-polls bring a PC  *)
(* back online, heartbeats keep it there, a shutdown or offline signal     *)
(* takes it offline at once and a sweep does so for every PC that was not  *)
(* seen for 40 seconds.  A statement may fail and the server may restart   *)
(* between any two statements; nothing is rolled back then.                *)
(*                                                                         *)
(* Time is abstract.  A PC is stale when its last_seen is more than 40     *)
(* seconds old and an event is recent until it is 5 seconds old; time may  *)
(* pass between any two steps.                                             *)
(*                                                                         *)
(* A closed event matters only as long as a thread holds its id; after     *)
(* that the model uses the id again, which the database never does.        *)
(***************************************************************************)
CONSTANTS
  PC,          \* registered PCs
  Handler,     \* server threads that serve requests
  Checker,     \* the background thread of PCService
  MaxEvents,   \* bound: open events, and closed ones a thread still refers to
  MaxFaults    \* bound: lost connections, hung clients, shutdowns, crashes,
               \* failing statements and restarts of the server

ASSUME PresenceAssumption ==
  /\ PC # {}
  /\ IsFiniteSet(Handler)
  /\ Checker \notin Handler
  /\ MaxEvents \in Nat
  /\ MaxFaults \in Nat

VARIABLES
  online,     \* PCs with is_online = 1
  stale,      \* PCs last seen more than 40 seconds ago
  event,      \* event[e]: the open row e of network_events, or NoRow
  recent,     \* events that began less than 5 seconds ago
  thread,     \* thread[t]: what server thread t is doing
  client,     \* client[p]: where the poll loop of p's client is
  halting,    \* PCs whose operating system is shutting down
  outlived,   \* history: open events whose PC was online at or after their start
  bye,        \* history: PCs whose shutdown signal was answered just now
  faults      \* history: faults so far

tables == <<online, stale, event, recent, outlived>>
clients == <<client, halting>>
vars == <<online, stale, event, recent, outlived, thread, client, halting, bye, faults>>

-----------------------------------------------------------------------------
(* Data *)

Thread == Handler \cup {Checker}
Event == 1..MaxEvents
NoEvent == 0

\* reboot and restart, which a sweep may also record, have no rule of their
\* own and count as timeout.
Reason == {"shutdown", "network_error", "timeout"}

\* The kinds of work; a signal's kind is the reason it records.
Signal == {"shutdown", "network_error"}
Kind == Signal \cup {"poll", "heartbeat", "sweep"}

SomePC == CHOOSE p \in PC : TRUE

NoRow == [pc |-> SomePC, reason |-> "timeout", open |-> FALSE, after |-> {}]

Idle == [at |-> "idle", kind |-> "poll", pc |-> SomePC, live |-> FALSE,
         event |-> NoEvent, todo |-> {}]

\* after: the open events that began before this one.
Row == [pc : PC, reason : Reason, open : BOOLEAN, after : SUBSET Event]
Work == [at : {"idle", "arrived", "judge", "restore", "find", "close", "refresh",
               "waiting", "again", "next", "look", "insert"},
         kind : Kind, pc : PC, live : BOOLEAN, event : Event \cup {NoEvent},
         todo : SUBSET PC]

TypeOK ==
  /\ online \subseteq PC
  /\ stale \subseteq PC
  /\ event \in [Event -> Row]
  /\ recent \subseteq Event
  /\ outlived \subseteq Event
  /\ thread \in [Thread -> Work]
  /\ client \in [PC -> {"down", "polling", "broken", "offline"}]
  /\ halting \subseteq PC
  /\ bye \subseteq PC
  /\ faults \in 0..MaxFaults

\* The server starts.  The tables are those of its last run, and some of the
\* PCs they show as online were switched off in the meantime.
Init ==
  /\ online = PC
  /\ stale \in SUBSET PC
  /\ event = [e \in Event |-> NoRow]
  /\ recent = {}
  /\ outlived = {}
  /\ thread = [t \in Thread |-> Idle]
  /\ client = [p \in PC |-> IF p \in stale THEN "down" ELSE "polling"]
  /\ halting = {}
  /\ bye = {}
  /\ faults = 0

Fault == faults < MaxFaults /\ faults' = faults + 1

Open(p) == {e \in Event : event[e].pc = p /\ event[e].open}

-----------------------------------------------------------------------------
(* Steps of a server thread *)

At(t, place) == thread[t].at = place

Goto(t, place) == thread' = [thread EXCEPT ![t].at = place]

\* A sweep goes on with its next PC, a request is answered.
Finished(t) ==
  IF thread[t].kind = "sweep" /\ thread[t].todo # {}
  THEN [thread EXCEPT ![t].at = "next"]
  ELSE [thread EXCEPT ![t] = Idle]

Finish(t) == thread' = Finished(t)

\* The client learns that the server is there again.
Reached(t) ==
  client' = IF thread[t].live
            THEN [client EXCEPT ![thread[t].pc] = "polling"]
            ELSE client

Polling(p) == \E t \in Thread : thread[t].live /\ thread[t].pc = p

\* UPDATE pc_info SET is_online=1, last_seen=CURRENT_TIMESTAMP
Seen(p) ==
  /\ online' = online \cup {p}
  /\ stale' = stale \ {p}
  /\ outlived' = outlived \cup Open(p)

\* UPDATE pc_info SET is_online=0, which only the shutdown signal combines
\* with a new last_seen.
TakenOffline(p, kind) ==
  /\ online' = online \ {p}
  /\ stale' = IF kind = "shutdown" THEN stale \ {p} ELSE stale
  /\ UNCHANGED outlived

-----------------------------------------------------------------------------
(* poll_commands *)

\* The row of the PC is read once, before all else.
ReadPC(t) ==
  /\ At(t, "arrived") /\ thread[t].kind = "poll"
  /\ Goto(t, IF thread[t].pc \in online THEN "refresh" ELSE "judge")
  /\ UNCHANGED <<tables, clients, bye, faults>>

NeverShutdown(p) == \A e \in Open(p) : event[e].reason # "shutdown"

\* No open shutdown event began within the last 5 seconds.
Comeback(p) == \A e \in Open(p) \cap recent : event[e].reason # "shutdown"

\* A poll right after a shutdown signal is no comeback.
Ignore(t) ==
  /\ At(t, "judge") /\ ~Comeback(thread[t].pc)
  /\ Finish(t)
  /\ Reached(t)
  /\ UNCHANGED <<tables, halting, bye, faults>>

Judge(t) ==
  /\ At(t, "judge") /\ Comeback(thread[t].pc)
  /\ Goto(t, "restore")
  /\ UNCHANGED <<tables, clients, bye, faults>>

Restore(t) ==
  /\ At(t, "restore")
  /\ Seen(thread[t].pc)
  /\ Goto(t, "find")
  /\ UNCHANGED <<event, recent, clients, bye, faults>>

\* ORDER BY offline_at DESC: offline_at counts seconds, so of two recent events
\* either may come first.
Latest(e, S) == e \in S /\ \A d \in S : e \in event[d].after => {d, e} \subseteq recent

FindOpen(t) ==
  LET S == Open(thread[t].pc) IN
  /\ At(t, "find")
  /\ \/ S = {} /\ Goto(t, "waiting")
     \/ \E e \in S : /\ Latest(e, S)
                     /\ thread' = [thread EXCEPT ![t].at = "close", ![t].event = e]
  /\ UNCHANGED <<tables, clients, bye, faults>>

\* UPDATE network_events SET online_at=... WHERE id=?: an event that another
\* poll has closed meanwhile gets a new online_at, which changes nothing here.
Close(t) ==
  LET closed == thread[t].event IN
  /\ At(t, "close")
  /\ event' = [e \in Event |-> IF e = closed THEN NoRow
                                            ELSE [event[e] EXCEPT !.after = @ \ {closed}]]
  /\ recent' = recent \ {closed}
  /\ outlived' = outlived \ {closed}
  /\ thread' = [thread EXCEPT ![t].at = "waiting", ![t].event = NoEvent]
  /\ UNCHANGED <<online, stale, clients, bye, faults>>

Refresh(t) ==
  /\ At(t, "refresh")
  /\ Seen(thread[t].pc)
  /\ Goto(t, "waiting")
  /\ UNCHANGED <<event, recent, clients, bye, faults>>

\* A command or the end of the waiting time; see CommandDispatch.
Answer(t) ==
  /\ At(t, "waiting")
  /\ Finish(t)
  /\ Reached(t)
  /\ UNCHANGED <<tables, halting, bye, faults>>

-----------------------------------------------------------------------------
(* heartbeat: update_heartbeat writes pc_info, then pc_dynamic_info, whose   *)
(* triggers write pc_info once more.  update_light_heartbeat and register do *)
(* the same.                                                                 *)

Beat(t) ==
  /\ At(t, "arrived") /\ thread[t].kind = "heartbeat"
  /\ Seen(thread[t].pc)
  /\ Goto(t, "again")
  /\ UNCHANGED <<event, recent, clients, bye, faults>>

DynamicInfoTrigger(t) ==
  /\ At(t, "again")
  /\ Seen(thread[t].pc)
  /\ Finish(t)
  /\ UNCHANGED <<event, recent, clients, bye, faults>>

-----------------------------------------------------------------------------
(* shutdown_signal, report_offline and update_offline_status *)

MarkOffline(t) ==
  /\ At(t, "arrived") /\ thread[t].kind \in Signal
  /\ TakenOffline(thread[t].pc, thread[t].kind)
  /\ Goto(t, "look")
  /\ UNCHANGED <<event, recent, clients, bye, faults>>

ExpiredOfOffline == stale \ online

Expired == online \cap stale

\* The PCs to take offline are read once, when the sweep starts.
StartSweep(t) ==
  /\ At(t, "idle") /\ Expired # {}
  /\ thread' = [thread EXCEPT ![t] = [Idle EXCEPT !.at = "next", !.kind = "sweep",
                                                  !.todo = Expired]]
  /\ UNCHANGED <<tables, clients, bye, faults>>

SweepPC(t, p) ==
  /\ At(t, "next") /\ p \in thread[t].todo
  /\ TakenOffline(p, "sweep")
  /\ thread' = [thread EXCEPT ![t].at = "look", ![t].pc = p, ![t].todo = @ \ {p}]
  /\ UNCHANGED <<event, recent, clients, bye, faults>>

\* The shutdown signal is answered.
SayBye(t) ==
  bye' = IF thread[t].kind = "shutdown" THEN bye \cup {thread[t].pc} ELSE bye

NeverOpen(t) == FALSE

\* Leave the record to the next sweep.
OnlySweepsInsert(t) == Open(thread[t].pc) # {} \/ thread[t].kind \in Signal

AlreadyOpen(t) == Open(thread[t].pc) # {}

\* SELECT id ... WHERE online_at IS NULL: one open event is enough.
LookForOpen(t) ==
  /\ At(t, "look")
  /\ IF AlreadyOpen(t)
     THEN Finish(t) /\ SayBye(t)
     ELSE Goto(t, "insert") /\ UNCHANGED bye
  /\ UNCHANGED <<tables, clients, faults>>

ReasonsOfKind(kind) == {kind}

\* A sweep records a power command of the last hour as the reason.
ReasonsOf(kind) == IF kind = "sweep" THEN {"timeout", "shutdown"} ELSE {kind}

\* An id no open event has and no thread refers to.
Unused(e) == ~event[e].open /\ \A t \in Thread : thread[t].event # e

InsertEvent(t) ==
  LET p == thread[t].pc IN
  /\ At(t, "insert")
  /\ \E e \in Event, r \in ReasonsOf(thread[t].kind) :
       /\ Unused(e) /\ \A d \in 1..(e - 1) : ~Unused(d)
       /\ event' = [event EXCEPT ![e] = [pc |-> p, reason |-> r, open |-> TRUE,
                                         after |-> Open(p)]]
       /\ recent' = recent \cup {e}
       /\ outlived' = IF p \in online THEN outlived \cup {e} ELSE outlived \ {e}
  /\ Finish(t)
  /\ SayBye(t)
  /\ UNCHANGED <<online, stale, clients, faults>>

-----------------------------------------------------------------------------
(* Failures of the server *)

\* A statement fails.  A request is answered with 500, which ends a poll like any
\* other answer; a sweep ends at once, whatever is left of its list.
Fail(t) ==
  /\ ~At(t, "idle")
  /\ Fault
  /\ thread' = [thread EXCEPT ![t] = Idle]
  /\ Reached(t)
  /\ UNCHANGED <<tables, halting, bye>>

\* The server stops and starts again: to whoever polls the connection breaks.
Restart ==
  /\ Fault
  /\ thread' = [t \in Thread |-> Idle]
  /\ client' = [p \in PC |-> IF client[p] = "polling" /\ Polling(p) THEN "broken"
                                                                   ELSE client[p]]
  /\ UNCHANGED <<tables, halting, bye>>

-----------------------------------------------------------------------------
(* Time *)

\* A client that polls is seen at least every 35 seconds; only a fault keeps
\* it from that.
Silent(p) == client[p] # "polling" /\ ~Polling(p)

GrowStale(p) ==
  /\ p \notin stale
  /\ (Silent(p) /\ UNCHANGED faults) \/ (~Silent(p) /\ Fault)
  /\ stale' = stale \cup {p}
  /\ UNCHANGED <<online, event, recent, outlived, thread, clients, bye>>

\* The shutdown signal was answered no earlier than its event was inserted, so
\* it is past as soon as an event of the PC is.
EventAges(e) ==
  /\ e \in recent
  /\ recent' = recent \ {e}
  /\ bye' = bye \ {event[e].pc}
  /\ UNCHANGED <<online, stale, event, outlived, thread, clients, faults>>

ByeAges(p) ==
  /\ p \in bye
  /\ bye' = bye \ {p}
  /\ UNCHANGED <<tables, thread, clients, faults>>

-----------------------------------------------------------------------------
(* The client *)

Request(t, p, kind) ==
  /\ t \in Handler
  /\ At(t, "idle")
  /\ thread' = [thread EXCEPT ![t] = [Idle EXCEPT !.at = "arrived", !.kind = kind,
                                                  !.pc = p, !.live = (kind = "poll")]]

StartPoll(p, t) ==
  /\ client[p] \in {"polling", "offline"} /\ ~Polling(p)
  /\ Request(t, p, "poll")
  /\ UNCHANGED <<tables, clients, bye, faults>>

SendHeartbeat(p, t) ==
  /\ client[p] # "down"
  /\ Request(t, p, "heartbeat")
  /\ UNCHANGED <<tables, clients, bye, faults>>

Abandoned(p) ==
  [t \in Thread |-> IF thread[t].pc = p THEN [thread[t] EXCEPT !.live = FALSE]
                                        ELSE thread[t]]

\* The answer does not come: poll_command polls again after a timeout and
\* reports a broken connection, except from its reconnect loop.
LosePoll(p) ==
  /\ client[p] # "down" /\ Polling(p)
  /\ Fault
  /\ thread' = Abandoned(p)
  /\ client' \in {client, [client EXCEPT ![p] = IF @ = "polling" THEN "broken" ELSE @]}
  /\ UNCHANGED <<tables, halting, bye>>

\* send_offline_signal: one attempt, whose answer the client does not wait for
\* longer than 3 of the 30 seconds until its next poll.
SendOffline(p, t) ==
  /\ client[p] = "broken"
  /\ Request(t, p, "network_error")
  /\ client' = [client EXCEPT ![p] = "offline"]
  /\ UNCHANGED <<tables, halting, bye, faults>>

LoseOffline(p) ==
  /\ client[p] = "broken"
  /\ client' = [client EXCEPT ![p] = "offline"]
  /\ UNCHANGED <<tables, thread, halting, bye, faults>>

\* PRESHUTDOWN: SvcOtherEx sends the shutdown signal, while the poll loop runs
\* on until the process ends.
SendShutdown(p, t) ==
  /\ client[p] # "down" /\ p \notin halting
  /\ Fault
  /\ Request(t, p, "shutdown")
  /\ halting' = halting \cup {p}
  /\ UNCHANGED <<tables, client, bye>>

\* The process ends, announced or not.
Stop(p) ==
  /\ client[p] # "down"
  /\ (p \in halting /\ UNCHANGED faults) \/ (p \notin halting /\ Fault)
  /\ client' = [client EXCEPT ![p] = "down"]
  /\ halting' = halting \ {p}
  /\ thread' = Abandoned(p)
  /\ UNCHANGED <<tables, bye>>

Start(p) ==
  /\ client[p] = "down"
  /\ client' = [client EXCEPT ![p] = "polling"]
  /\ UNCHANGED <<tables, thread, halting, bye, faults>>

-----------------------------------------------------------------------------
PollStep(t) ==
  \/ ReadPC(t)
  \/ Ignore(t)
  \/ Judge(t)
  \/ Restore(t)
  \/ FindOpen(t)
  \/ Close(t)
  \/ Refresh(t)
  \/ Answer(t)

HeartbeatStep(t) == Beat(t) \/ DynamicInfoTrigger(t)

OutageStep(t) ==
  \/ MarkOffline(t)
  \/ \E p \in PC : SweepPC(t, p)
  \/ LookForOpen(t)
  \/ InsertEvent(t)

ThreadStep(t) == PollStep(t) \/ HeartbeatStep(t) \/ OutageStep(t)

ServerNext ==
  \/ \E t \in Thread : ThreadStep(t) \/ StartSweep(t) \/ Fail(t)
  \/ Restart

TimeNext ==
  \/ \E p \in PC : GrowStale(p) \/ ByeAges(p)
  \/ \E e \in Event : EventAges(e)

ClientNext ==
  \E p \in PC :
    \/ \E t \in Handler :
         StartPoll(p, t) \/ SendHeartbeat(p, t) \/ SendOffline(p, t) \/ SendShutdown(p, t)
    \/ LosePoll(p)
    \/ LoseOffline(p)
    \/ Stop(p)
    \/ Start(p)

Next == ServerNext \/ TimeNext \/ ClientNext

Spec == Init /\ [][Next]_vars

-----------------------------------------------------------------------------
(* Fairness.  Threads run and time passes.  Strong fairness for the polls:   *)
(* the server gives each request a thread of its own, so heartbeats and page *)
(* views do not keep a poll waiting for ever.  Nothing is assumed of         *)
(* heartbeats, faults, users and the power switch.                           *)

Fairness ==
  /\ \A t \in Thread : WF_vars(ThreadStep(t))
  /\ WF_vars(StartSweep(Checker))
  /\ \A p \in PC : SF_vars(\E t \in Handler : StartPoll(p, t))
  /\ \A p \in PC : WF_vars(client[p] = "down" /\ GrowStale(p))
  /\ \A p \in PC : WF_vars(LoseOffline(p) \/ \E t \in Handler : SendOffline(p, t))
  /\ \A e \in Event : WF_vars(EventAges(e))

FairSpec == Spec /\ Fairness

-----------------------------------------------------------------------------
(* Properties *)

\* A thread that took p offline and is about to see to the record of it.
Recording(t, p) == thread[t].pc = p /\ thread[t].at \in {"look", "insert"}

\* p is offline and this outage has no event: each open event began earlier, and
\* no thread is about to insert one.
Unrecorded(p) ==
  /\ p \notin online
  /\ Open(p) \subseteq outlived
  /\ \A t \in Thread : ~Recording(t, p)

\* A poll closes an event of p without another look at is_online.
ClosedAway(p) == \E t \in Thread : thread[t].pc = p /\ Close(t)

\* A signal or sweep makes do with an event of an earlier outage, which the PC came
\* back from by a heartbeat, that no poll closed.
TakenForAnother(p) ==
  \E t \in Thread :
    thread[t].pc = p /\ LookForOpen(t) /\ Open(p) # {} /\ Open(p) \subseteq outlived

\* The server fails after it took p offline.
BrokenOff(p) == Restart \/ \E t \in Thread : Recording(t, p) /\ Fail(t)

\* The history misses an outage in three ways: a poll that was bringing the PC back
\* closes the event after someone else took the PC offline again; an event left open
\* since an earlier outage passes for the record of this one; or a statement fails or
\* the server restarts between the UPDATE of is_online and the INSERT of the event.
\* No other interleaving of signals, sweeps, polls and heartbeats loses one.
LostOutagesExplained ==
  [][\A p \in PC :
       Unrecorded(p)' =>
         Unrecorded(p) \/ ClosedAway(p) \/ TakenForAnother(p) \/ BrokenOff(p)]_vars

\* Several threads may each find no open event and insert one, but there are
\* never more open events of a PC than threads that can be at it at once.
Inserting(p) == {t \in Thread : thread[t].pc = p /\ thread[t].at = "insert"}
DuplicatesBounded ==
  \A p \in PC : Cardinality(Open(p)) + Cardinality(Inserting(p)) <= Cardinality(Thread)

\* A PC whose client is gone for good is shown as offline, though requests of
\* it that are still being served may bring it back for a while.
GoneIsOffline ==
  \A p \in PC : <>[](client[p] = "down") => <>[](p \notin online)

\* A PC whose client keeps polling is shown as online again and again: neither
\* a stale sweep nor an old shutdown event hides it for good.
AliveIsOnline ==
  \A p \in PC : <>[](client[p] # "down") => []<>(p \in online)

-----------------------------------------------------------------------------
(* What the documentation says and the code does not keep *)

\* "a poll within 5 seconds of the shutdown signal is not treated as a real
\* reconnection" (client.py): a poll that arrives then at a PC that is offline
\* meets the event that keeps it from bringing the PC back.
NoComebackAfterBye ==
  [][\A t \in Thread :
       ReadPC(t) /\ thread[t].pc \in bye \ online => ~Comeback(thread[t].pc)]_vars
=============================================================================
