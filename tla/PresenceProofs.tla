---------------------------- MODULE PresenceProofs ----------------------------
(***************************************************************************)
(* The safety of Presence for every set of PCs and server threads and      *)
(* every bound.                                                            *)
(***************************************************************************)
EXTENDS Presence, FiniteSetTheorems, TLAPS

(***************************************************************************)
(* The inductive invariant                                                 *)
(***************************************************************************)

\* A sweep takes PCs from its list, signals and sweeps record outages.
KindFits(w) ==
  /\ w.at = "next" => w.kind = "sweep"
  /\ w.at \in {"look", "insert"} => w.kind \in Signal \cup {"sweep"}

\* Only a poll about to close an event holds one, and its id still stands for
\* an event of the poll's PC, if for an open one at all.
ThreadInv ==
  \A t \in Thread :
    /\ KindFits(thread[t])
    /\ thread[t].event # NoEvent =>
         /\ thread[t].at = "close"
         /\ event[thread[t].event].open => event[thread[t].event].pc = thread[t].pc

Ind == TypeOK /\ ThreadInv

-----------------------------------------------------------------------------
(* Constants and the work of threads *)

\* The arbitrary PC in unused rows and of idle threads is a legal one.
LEMMA SomeConstants == SomePC \in PC /\ Idle \in Work /\ NoRow \in Row /\ Checker \in Thread
  BY PresenceAssumption DEF SomePC, Idle, Work, NoRow, Row, NoEvent, Thread, Kind, Signal, Reason

\* The initial state satisfies the inductive invariant.
LEMMA InitInd == Init => Ind
  BY PresenceAssumption, SomeConstants
  DEF Init, Ind, TypeOK, ThreadInv, KindFits, Idle

\* A thread that goes on keeps everything but its place.
LEMMA GotoEffect ==
  ASSUME TypeOK, NEW t \in Thread, NEW place \in {"judge", "restore", "find", "refresh", "waiting", "again",
                        "look", "insert"}, Goto(t, place)
  PROVE  /\ thread' \in [Thread -> Work]
         /\ \A u \in Thread \ {t} : thread'[u] = thread[u]
         /\ thread'[t].event = thread[t].event
         /\ thread'[t].kind = thread[t].kind
         /\ thread'[t].pc = thread[t].pc
         /\ thread'[t].at = place
  BY DEF TypeOK, Goto, Work

\* A thread that finished is idle or, with more PCs to sweep, takes the next.
LEMMA FinishEffect ==
  ASSUME TypeOK, NEW t \in Thread, Finish(t)
  PROVE  /\ thread' \in [Thread -> Work]
         /\ \A u \in Thread \ {t} : thread'[u] = thread[u]
         /\ thread'[t].at \in {"idle", "next"}
         /\ thread'[t].event \in {NoEvent, thread[t].event}
         /\ KindFits(thread'[t])
  BY SomeConstants DEF TypeOK, Finish, Finished, Work, Idle, KindFits

\* A lost connection changes only which answers are still waited for.
LEMMA AbandonedEffect ==
  ASSUME TypeOK, NEW p \in PC, thread' = Abandoned(p)
  PROVE  /\ thread' \in [Thread -> Work]
         /\ \A u \in Thread : /\ thread'[u].at = thread[u].at
                              /\ thread'[u].kind = thread[u].kind
                              /\ thread'[u].pc = thread[u].pc
                              /\ thread'[u].event = thread[u].event
  <1>1. ASSUME NEW u \in Thread
        PROVE  /\ thread'[u] \in Work
               /\ thread'[u].at = thread[u].at
               /\ thread'[u].kind = thread[u].kind
               /\ thread'[u].pc = thread[u].pc
               /\ thread'[u].event = thread[u].event
    <2>1. thread[u] \in Work
      BY DEF TypeOK
    <2>2. thread'[u] = IF thread[u].pc = p THEN [thread[u] EXCEPT !.live = FALSE]
                                          ELSE thread[u]
      BY DEF Abandoned
    <2>3. QED
      BY <2>1, <2>2 DEF Work
  <1>2. thread' \in [Thread -> Work]
    BY <1>1 DEF Abandoned
  <1>3. QED
    BY <1>1, <1>2

\* A new request occupies an idle thread.
LEMMA RequestEffect ==
  ASSUME TypeOK, NEW t \in Thread, NEW p \in PC, NEW kind \in Kind, Request(t, p, kind)
  PROVE  /\ thread' \in [Thread -> Work]
         /\ \A u \in Thread \ {t} : thread'[u] = thread[u]
         /\ thread[t].at = "idle"
         /\ thread'[t].at = "arrived"
         /\ thread'[t].event = NoEvent
  BY SomeConstants DEF TypeOK, Request, At, Work, Idle, Kind, Signal

-----------------------------------------------------------------------------
(* Every step preserves the invariant *)

\* The invariant of the threads holds on when no event changes and each thread
\* lets go of its event or stays where it is.
LEMMA ThreadFrame ==
  ASSUME Ind, UNCHANGED event,
         \A u \in Thread :
           \/ thread'[u].event = NoEvent /\ KindFits(thread'[u])
           \/ /\ thread'[u].at = thread[u].at
              /\ thread'[u].kind = thread[u].kind
              /\ thread'[u].pc = thread[u].pc
              /\ thread'[u].event = thread[u].event
  PROVE  ThreadInv'
  BY DEF Ind, ThreadInv, KindFits

\* The steps of a poll.
LEMMA PollStepInd ==
  ASSUME Ind, NEW t \in Thread, PollStep(t)
  PROVE  Ind'
  <1>0. TypeOK
    BY DEF Ind
  <1> USE DEF tables, clients
  <1>1. CASE ReadPC(t) \/ Judge(t) \/ Restore(t) \/ Refresh(t)
    <2>1. thread[t].event = NoEvent
      BY <1>1 DEF ReadPC, Judge, Restore, Refresh, At, Ind, ThreadInv
    <2>2. /\ thread' \in [Thread -> Work]
          /\ \A u \in Thread \ {t} : thread'[u] = thread[u]
          /\ thread'[t].event = thread[t].event
          /\ KindFits(thread'[t])
      <3>1. \E place \in {"judge", "restore", "find", "refresh", "waiting"} : Goto(t, place)
        BY <1>1 DEF ReadPC, Judge, Restore, Refresh
      <3>2. QED
        BY <1>0, <3>1, GotoEffect DEF KindFits
    <2>3. UNCHANGED event
      BY <1>1 DEF ReadPC, Judge, Restore, Refresh
    <2>4. TypeOK'
      BY <1>0, <1>1, <2>2 DEF TypeOK, ReadPC, Judge, Restore, Refresh, Seen, Open, Work
    <2>5. ThreadInv'
      BY <2>1, <2>2, <2>3, ThreadFrame
    <2>6. QED
      BY <2>4, <2>5 DEF Ind
  <1>2. CASE Ignore(t) \/ Answer(t)
    <2>1. thread[t].event = NoEvent
      BY <1>2 DEF Ignore, Answer, At, Ind, ThreadInv
    <2>2. /\ thread' \in [Thread -> Work]
          /\ \A u \in Thread \ {t} : thread'[u] = thread[u]
          /\ thread'[t].event = NoEvent
          /\ KindFits(thread'[t])
      BY <1>0, <1>2, <2>1, FinishEffect DEF Ignore, Answer
    <2>3. UNCHANGED event
      BY <1>2 DEF Ignore, Answer
    <2>4. TypeOK'
      BY <1>0, <1>2, <2>2 DEF TypeOK, Ignore, Answer, Reached
    <2>5. ThreadInv'
      BY <2>2, <2>3, ThreadFrame
    <2>6. QED
      BY <2>4, <2>5 DEF Ind
  <1>3. CASE FindOpen(t)
    <2>1. CASE Goto(t, "waiting") /\ Open(thread[t].pc) = {}
      <3>1. thread[t].event = NoEvent
        BY <1>3 DEF FindOpen, At, Ind, ThreadInv
      <3>2. /\ thread' \in [Thread -> Work]
            /\ \A u \in Thread \ {t} : thread'[u] = thread[u]
            /\ thread'[t].event = thread[t].event
            /\ KindFits(thread'[t])
        BY <1>0, <2>1, GotoEffect DEF KindFits
      <3>3. TypeOK'
        BY <1>0, <1>3, <3>2 DEF TypeOK, FindOpen
      <3>4. ThreadInv'
        BY <1>3, <3>1, <3>2, ThreadFrame DEF FindOpen
      <3>5. QED
        BY <3>3, <3>4 DEF Ind
    <2>2. CASE \E e \in Open(thread[t].pc) :
                 thread' = [thread EXCEPT ![t].at = "close", ![t].event = e]
      <3>1. PICK e \in Open(thread[t].pc) :
              thread' = [thread EXCEPT ![t].at = "close", ![t].event = e]
        BY <2>2
      <3>2. e \in Event /\ event[e].pc = thread[t].pc
        BY <3>1 DEF Open
      <3>3. /\ thread' \in [Thread -> Work]
            /\ \A u \in Thread \ {t} : thread'[u] = thread[u]
            /\ thread'[t].event = e
            /\ thread'[t].at = "close"
            /\ thread'[t].pc = thread[t].pc
        BY SMT, ZenonT(40), <1>0, <3>1, <3>2 DEF TypeOK, Work
      <3>4. TypeOK'
        BY <1>0, <1>3, <3>3 DEF TypeOK, FindOpen
      <3>5. ThreadInv'
        BY <1>3, <3>2, <3>3 DEF FindOpen, Ind, ThreadInv, KindFits
      <3>6. QED
        BY <3>4, <3>5 DEF Ind
    <2>3. QED
      BY <1>3, <2>1, <2>2 DEF FindOpen
  <1>4. CASE Close(t)
    <2> DEFINE c == thread[t].event
    <2>1. /\ thread' \in [Thread -> Work]
          /\ \A u \in Thread \ {t} : thread'[u] = thread[u]
          /\ thread'[t].event = NoEvent
          /\ KindFits(thread'[t])
      BY SMT, ZenonT(40), <1>0, <1>4 DEF TypeOK, Close, Work, KindFits
    <2>2. \A e \in Event : /\ event'[e] \in Row
                           /\ event'[e].open => event'[e].pc = event[e].pc /\ event[e].open
      <3>1. SUFFICES ASSUME NEW e \in Event
                     PROVE  /\ event'[e] \in Row
                            /\ event'[e].open => event'[e].pc = event[e].pc /\ event[e].open
        OBVIOUS
      <3>2. event'[e] = IF e = c THEN NoRow ELSE [event[e] EXCEPT !.after = @ \ {c}]
        BY <1>4 DEF Close
      <3>3. event[e] \in Row
        BY <1>0 DEF TypeOK
      <3>4. CASE e = c
        BY <3>2, <3>4, SomeConstants DEF NoRow
      <3>5. CASE e # c
        BY <3>2, <3>3, <3>5 DEF Row
      <3>6. QED
        BY <3>4, <3>5
    <2>3. event' \in [Event -> Row]
      BY <1>4, <2>2 DEF Close
    <2>4. TypeOK'
      BY <1>0, <1>4, <2>1, <2>3 DEF TypeOK, Close
    <2>5. ThreadInv'
      BY <1>0, <2>1, <2>2 DEF Ind, ThreadInv, TypeOK, Work
    <2>6. QED
      BY <2>4, <2>5 DEF Ind
  <1>5. QED
    BY <1>1, <1>2, <1>3, <1>4 DEF PollStep

\* The steps of a heartbeat.
LEMMA HeartbeatStepInd ==
  ASSUME Ind, NEW t \in Thread, HeartbeatStep(t)
  PROVE  Ind'
  <1>0. TypeOK
    BY DEF Ind
  <1> USE DEF clients
  <1>1. thread[t].event = NoEvent
    BY DEF HeartbeatStep, Beat, DynamicInfoTrigger, At, Ind, ThreadInv
  <1>2. /\ thread' \in [Thread -> Work]
        /\ \A u \in Thread \ {t} : thread'[u] = thread[u]
        /\ thread'[t].event = NoEvent
        /\ KindFits(thread'[t])
    BY <1>0, <1>1, GotoEffect, FinishEffect
    DEF HeartbeatStep, Beat, DynamicInfoTrigger, KindFits
  <1>3. TypeOK'
    BY <1>0, <1>2 DEF TypeOK, HeartbeatStep, Beat, DynamicInfoTrigger, Seen, Open, Work
  <1>4. ThreadInv'
    BY <1>2, ThreadFrame DEF HeartbeatStep, Beat, DynamicInfoTrigger
  <1>5. QED
    BY <1>3, <1>4 DEF Ind

\* An event is inserted into a slot no thread refers to.
LEMMA InsertEventInd ==
  ASSUME Ind, NEW t \in Thread, InsertEvent(t)
  PROVE  Ind'
  <1>0. TypeOK
    BY DEF Ind
  <1> DEFINE p == thread[t].pc
  <1>1. PICK e \in Event, r \in ReasonsOf(thread[t].kind) :
          /\ Unused(e)
          /\ event' = [event EXCEPT ![e] = [pc |-> p, reason |-> r, open |-> TRUE,
                                            after |-> Open(p)]]
          /\ recent' = recent \cup {e}
    BY DEF InsertEvent
  <1>2. thread[t].event = NoEvent
    BY DEF InsertEvent, At, Ind, ThreadInv
  <1>3. /\ thread' \in [Thread -> Work]
        /\ \A u \in Thread \ {t} : thread'[u] = thread[u]
        /\ thread'[t].event = NoEvent
        /\ KindFits(thread'[t])
    BY <1>0, <1>2, FinishEffect DEF InsertEvent
  <1>4. event' \in [Event -> Row]
    <2>1. thread[t] \in Work
      BY <1>0 DEF TypeOK
    <2>2. r \in Reason
      BY DEF ReasonsOf, Reason, Signal, InsertEvent, At, Ind, ThreadInv, KindFits
    <2>3. QED
      BY <1>0, <1>1, <2>1, <2>2 DEF TypeOK, Row, Work, Open
  <1>5. TypeOK'
    BY <1>0, <1>1, <1>3, <1>4 DEF TypeOK, InsertEvent, SayBye, clients, Work
  <1>6. ThreadInv'
    BY <1>0, <1>1, <1>3 DEF TypeOK, Ind, ThreadInv, Unused, Work
  <1>7. QED
    BY <1>5, <1>6 DEF Ind

\* The steps that take a PC offline and record it.
LEMMA OutageStepInd ==
  ASSUME Ind, NEW t \in Thread, OutageStep(t)
  PROVE  Ind'
  <1>0. TypeOK
    BY DEF Ind
  <1> USE DEF tables, clients
  <1>1. CASE MarkOffline(t)
    <2>1. thread[t].event = NoEvent
      BY <1>1 DEF MarkOffline, At, Ind, ThreadInv
    <2>2. /\ thread' \in [Thread -> Work]
          /\ \A u \in Thread \ {t} : thread'[u] = thread[u]
          /\ thread'[t].event = NoEvent
          /\ KindFits(thread'[t])
      BY <1>0, <1>1, <2>1, GotoEffect DEF MarkOffline, At, KindFits
    <2>3. TypeOK'
      BY <1>0, <1>1, <2>2 DEF TypeOK, MarkOffline, TakenOffline
    <2>4. QED
      BY <1>1, <2>2, <2>3, ThreadFrame DEF Ind, MarkOffline
  <1>2. CASE \E p \in PC : SweepPC(t, p)
    <2>1. PICK p \in PC : SweepPC(t, p)
      BY <1>2
    <2>2. thread[t].event = NoEvent
      BY <2>1 DEF SweepPC, At, Ind, ThreadInv
    <2>3. /\ thread' \in [Thread -> Work]
          /\ \A u \in Thread \ {t} : thread'[u] = thread[u]
          /\ thread'[t].event = NoEvent
          /\ KindFits(thread'[t])
      BY <1>0, <2>1, <2>2 DEF TypeOK, SweepPC, Work, At, Ind, ThreadInv, KindFits
    <2>4. TypeOK'
      BY <1>0, <2>1, <2>3 DEF TypeOK, SweepPC, TakenOffline
    <2>5. QED
      BY <2>1, <2>3, <2>4, ThreadFrame DEF Ind, SweepPC
  <1>3. CASE LookForOpen(t)
    <2>1. thread[t].event = NoEvent
      BY <1>3 DEF LookForOpen, At, Ind, ThreadInv
    <2>2. /\ thread' \in [Thread -> Work]
          /\ \A u \in Thread \ {t} : thread'[u] = thread[u]
          /\ thread'[t].event = NoEvent
          /\ KindFits(thread'[t])
      BY <1>0, <1>3, <2>1, GotoEffect, FinishEffect
      DEF LookForOpen, At, Ind, ThreadInv, KindFits
    <2>3. TypeOK'
      BY <1>0, <1>3, <2>2 DEF TypeOK, LookForOpen, SayBye, Work
    <2>4. QED
      BY <1>3, <2>2, <2>3, ThreadFrame DEF Ind, LookForOpen
  <1>4. QED
    BY <1>1, <1>2, <1>3, InsertEventInd DEF OutageStep

\* A sweep starts in an idle thread.
LEMMA StartSweepInd ==
  ASSUME Ind, NEW t \in Thread, StartSweep(t)
  PROVE  Ind'
  <1>0. TypeOK
    BY DEF Ind
  <1> USE DEF tables, clients
  <1>1. /\ thread' \in [Thread -> Work]
        /\ \A u \in Thread \ {t} : thread'[u] = thread[u]
        /\ thread'[t].event = NoEvent
        /\ KindFits(thread'[t])
    BY <1>0, SomeConstants DEF TypeOK, StartSweep, Work, Idle, Expired, Kind, KindFits
  <1>2. TypeOK'
    BY <1>0, <1>1 DEF TypeOK, StartSweep
  <1>3. ThreadInv'
    BY <1>1, ThreadFrame DEF StartSweep
  <1>4. QED
    BY <1>2, <1>3 DEF Ind

\* A thread that failed is idle.
LEMMA FailInd ==
  ASSUME Ind, NEW t \in Thread, Fail(t)
  PROVE  Ind'
  <1>0. TypeOK
    BY DEF Ind
  <1> USE DEF tables
  <1>1. /\ thread' \in [Thread -> Work]
        /\ \A u \in Thread \ {t} : thread'[u] = thread[u]
        /\ thread'[t] = Idle
    BY <1>0, SomeConstants DEF TypeOK, Fail
  <1>2. TypeOK'
    <2>1. client' \in [PC -> {"down", "polling", "broken", "offline"}]
      BY <1>0 DEF TypeOK, Fail, Reached
    <2>2. faults' \in 0..MaxFaults
      BY <1>0, PresenceAssumption DEF TypeOK, Fail, Fault
    <2>3. QED
      BY <1>0, <1>1, <2>1, <2>2 DEF TypeOK, Fail
  <1>3. ThreadInv'
    BY <1>1, ThreadFrame DEF Fail, Idle, KindFits
  <1>4. QED
    BY <1>2, <1>3 DEF Ind

\* After a restart all threads are idle.
LEMMA RestartInd ==
  ASSUME Ind, Restart
  PROVE  Ind'
  <1>0. TypeOK
    BY DEF Ind
  <1> USE DEF tables
  <1>1. TypeOK'
    <2>1. client' \in [PC -> {"down", "polling", "broken", "offline"}]
      BY <1>0 DEF TypeOK, Restart
    <2>2. faults' \in 0..MaxFaults
      BY <1>0, PresenceAssumption DEF TypeOK, Restart, Fault
    <2>3. thread' \in [Thread -> Work]
      BY SomeConstants DEF Restart
    <2>4. QED
      BY <1>0, <2>1, <2>2, <2>3 DEF TypeOK, Restart
  <1>2. ThreadInv'
    BY ThreadFrame DEF Restart, Idle, KindFits
  <1>3. QED
    BY <1>1, <1>2 DEF Ind

\* The passing of time leaves threads and events alone.
LEMMA TimeInd ==
  ASSUME Ind, TimeNext
  PROVE  Ind'
  <1>0. TypeOK
    BY DEF Ind
  <1>1. TypeOK'
    BY <1>0, PresenceAssumption
    DEF TypeOK, TimeNext, GrowStale, ByeAges, EventAges, Fault, tables, clients
  <1>2. ThreadInv'
    BY ThreadFrame DEF TimeNext, GrowStale, ByeAges, EventAges, tables
  <1>3. QED
    BY <1>1, <1>2 DEF Ind

\* What the clients do.
LEMMA ClientInd ==
  ASSUME Ind, ClientNext
  PROVE  Ind'
  <1>0. TypeOK
    BY DEF Ind
  <1> USE PresenceAssumption DEF tables, clients
  <1>1. CASE \E p \in PC, t \in Handler :
               \/ StartPoll(p, t) \/ SendHeartbeat(p, t)
               \/ SendOffline(p, t) \/ SendShutdown(p, t)
    <2>1. PICK p \in PC, t \in Handler :
            \/ StartPoll(p, t) \/ SendHeartbeat(p, t)
            \/ SendOffline(p, t) \/ SendShutdown(p, t)
      BY <1>1
    <2>2. t \in Thread
      BY DEF Thread
    <2>3. \E kind \in Kind : Request(t, p, kind)
      BY <2>1 DEF StartPoll, SendHeartbeat, SendOffline, SendShutdown, Kind, Signal
    <2>4. /\ thread' \in [Thread -> Work]
          /\ \A u \in Thread \ {t} : thread'[u] = thread[u]
          /\ thread'[t].event = NoEvent
          /\ KindFits(thread'[t])
      BY <1>0, <2>2, <2>3, RequestEffect DEF KindFits
    <2>5. TypeOK'
      BY <1>0, <2>1, <2>4
      DEF TypeOK, StartPoll, SendHeartbeat, SendOffline, SendShutdown, Fault
    <2>6. UNCHANGED event
      BY <2>1 DEF StartPoll, SendHeartbeat, SendOffline, SendShutdown
    <2>7. QED
      BY <2>2, <2>4, <2>5, <2>6, ThreadFrame DEF Ind
  <1>2. CASE \E p \in PC : LosePoll(p) \/ Stop(p)
    <2>1. PICK p \in PC : LosePoll(p) \/ Stop(p)
      BY <1>2
    <2>2. /\ thread' \in [Thread -> Work]
          /\ \A u \in Thread : /\ thread'[u].at = thread[u].at
                               /\ thread'[u].kind = thread[u].kind
                               /\ thread'[u].pc = thread[u].pc
                               /\ thread'[u].event = thread[u].event
      BY <1>0, <2>1, AbandonedEffect DEF LosePoll, Stop
    <2>3. TypeOK'
      BY <1>0, <2>1, <2>2 DEF TypeOK, LosePoll, Stop, Fault
    <2>4. UNCHANGED event
      BY <2>1 DEF LosePoll, Stop
    <2>5. QED
      BY <2>2, <2>3, <2>4, ThreadFrame DEF Ind
  <1>3. CASE \E p \in PC : LoseOffline(p) \/ Start(p)
    <2>1. TypeOK'
      BY <1>0, <1>3 DEF TypeOK, LoseOffline, Start
    <2>2. ThreadInv'
      BY <1>3, ThreadFrame DEF LoseOffline, Start
    <2>3. QED
      BY <2>1, <2>2 DEF Ind
  <1>4. QED
    BY <1>1, <1>2, <1>3 DEF ClientNext

\* Ind is an invariant: no step of a thread, of a client or of time breaks the
\* bookkeeping of who is about to close which event.
THEOREM Invariant == Spec => []Ind
  <1>1. Ind /\ [Next]_vars => Ind'
    <2> SUFFICES ASSUME Ind, [Next]_vars PROVE Ind'
      OBVIOUS
    <2>1. CASE ServerNext
      BY <2>1, PollStepInd, HeartbeatStepInd, OutageStepInd, StartSweepInd, FailInd, RestartInd
      DEF ServerNext, ThreadStep
    <2>2. CASE UNCHANGED vars
      BY <2>2 DEF vars, Ind, TypeOK, ThreadInv
    <2>3. QED
      BY <2>1, <2>2, TimeInd, ClientInd DEF Next
  <1>2. QED
    BY <1>1, InitInd, PTL DEF Spec

\* The tables and the threads hold what their types say.
THEOREM TypeCorrect == Spec => []TypeOK
  <1>1. Ind => TypeOK
    BY DEF Ind
  <1>2. QED
    BY <1>1, Invariant, PTL

-----------------------------------------------------------------------------
(* Which outages the history misses *)

\* An outage stays recorded while the PC does not go offline, its events stay
\* open and are not outlived, and whoever is about to record it goes on.
LEMMA RecordedFrame ==
  ASSUME NEW p \in PC, ~Unrecorded(p),
         p \in online => p \in online',
         \A e \in Open(p) : e \in Open(p)' /\ (e \in outlived' => e \in outlived),
         \A t \in Thread : Recording(t, p) => Recording(t, p)'
  PROVE  ~Unrecorded(p)'
  BY DEF Unrecorded

\* Steps that take no PC offline, touch no event and leave alone who records.
LEMMA QuietStep ==
  ASSUME NEW p \in PC, ~Unrecorded(p), UNCHANGED <<online, event, outlived>>,
         \A t \in Thread : \/ ~Recording(t, p)
                           \/ thread'[t].at = thread[t].at /\ thread'[t].pc = thread[t].pc
  PROVE  ~Unrecorded(p)'
  BY RecordedFrame DEF Open, Recording

\* A PC that is seen is online then; the events of the others keep their standing.
LEMMA SeenRecorded ==
  ASSUME Ind, NEW p \in PC, ~Unrecorded(p), NEW q \in PC, Seen(q), UNCHANGED event,
         NEW t \in Thread, ~Recording(t, p), \A u \in Thread \ {t} : thread'[u] = thread[u]
  PROVE  ~Unrecorded(p)'
  <1>1. CASE p = q
    BY <1>1 DEF Seen, Unrecorded
  <1>2. CASE p # q
    BY <1>2, RecordedFrame DEF Seen, Open, Recording
  <1>3. QED
    BY <1>1, <1>2

\* The steps of a poll, but for the one that closes an event of the PC.
LEMMA PollStepRecorded ==
  ASSUME Ind, NEW t \in Thread, PollStep(t), NEW p \in PC, ~Unrecorded(p), ~ClosedAway(p)
  PROVE  ~Unrecorded(p)'
  <1>0. TypeOK
    BY DEF Ind
  <1> USE DEF tables
  <1>1. \A u \in Thread \ {t} : thread'[u] = thread[u]
    BY <1>0 DEF TypeOK, PollStep, ReadPC, Ignore, Judge, Restore, FindOpen, Close, Refresh,
                Answer, Goto, Finish, Finished
  <1>2. ~Recording(t, p)
    BY DEF Recording, PollStep, ReadPC, Ignore, Judge, Restore, FindOpen, Close, Refresh,
           Answer, At
  <1>3. CASE Close(t)
    <2>0. thread[t].pc # p
      BY <1>3 DEF ClosedAway
    <2>1. thread[t].event # NoEvent => \A e \in Open(p) : e # thread[t].event
      BY <1>3, <2>0 DEF Ind, ThreadInv, Open
    <2>2. \A e \in Open(p) : e # thread[t].event
      BY <2>1 DEF Open, Event, NoEvent
    <2>3. \A e \in Open(p) : e \in Open(p)' /\ (e \in outlived' => e \in outlived)
      BY <1>0, <1>3, <2>2 DEF Close, Open, TypeOK, Row
    <2>4. QED
      BY <1>1, <1>2, <1>3, <2>3, RecordedFrame DEF Close, Recording
  <1>4. CASE Restore(t) \/ Refresh(t)
    <2>1. thread[t].pc \in PC
      BY <1>0 DEF TypeOK, Work
    <2>2. Seen(thread[t].pc) /\ UNCHANGED event
      BY <1>4 DEF Restore, Refresh
    <2>3. QED
      BY <1>1, <1>2, <2>1, <2>2, SeenRecorded
  <1>5. CASE ReadPC(t) \/ Ignore(t) \/ Judge(t) \/ FindOpen(t) \/ Answer(t)
    <2>1. UNCHANGED <<online, event, outlived>>
      BY <1>5 DEF ReadPC, Ignore, Judge, FindOpen, Answer
    <2>2. QED
      BY <1>1, <1>2, <2>1, QuietStep
  <1>6. QED
    BY <1>3, <1>4, <1>5 DEF PollStep

\* A thread that takes a PC offline goes on until there is an event of this outage,
\* or one of another that passes for it.
LEMMA OutageStepRecorded ==
  ASSUME Ind, NEW t \in Thread, OutageStep(t), NEW p \in PC, ~Unrecorded(p),
         ~TakenForAnother(p)
  PROVE  ~Unrecorded(p)'
  <1>0. TypeOK
    BY DEF Ind
  <1> USE DEF tables
  <1>1. CASE MarkOffline(t)
    <2>1. /\ \A u \in Thread \ {t} : thread'[u] = thread[u]
          /\ thread'[t].pc = thread[t].pc
          /\ thread'[t].at = "look"
      BY <1>0, <1>1, GotoEffect DEF MarkOffline
    <2>2. CASE thread[t].pc = p
      BY <2>1, <2>2 DEF Unrecorded, Recording
    <2>3. CASE thread[t].pc # p
      BY <1>1, <2>1, <2>3, RecordedFrame DEF MarkOffline, TakenOffline, Open, Recording
    <2>4. QED
      BY <2>2, <2>3
  <1>2. CASE \E q \in PC : SweepPC(t, q)
    <2>1. PICK q \in PC : SweepPC(t, q)
      BY <1>2
    <2>2. /\ \A u \in Thread \ {t} : thread'[u] = thread[u]
          /\ thread'[t].pc = q
          /\ thread'[t].at = "look"
          /\ thread[t].at = "next"
      BY <1>0, <2>1 DEF SweepPC, At, TypeOK, Work
    <2>3. CASE q = p
      BY <2>2, <2>3 DEF Unrecorded, Recording
    <2>4. CASE q # p
      BY <2>1, <2>2, <2>4, RecordedFrame DEF SweepPC, TakenOffline, Open, Recording
    <2>5. QED
      BY <2>3, <2>4
  <1>3. CASE LookForOpen(t)
    <2>1. CASE AlreadyOpen(t) /\ thread[t].pc = p
      <3>1. ~(Open(p) \subseteq outlived)
        BY <1>3, <2>1 DEF TakenForAnother, AlreadyOpen
      <3>2. UNCHANGED <<event, outlived>>
        BY <1>3 DEF LookForOpen
      <3>3. QED
        BY <3>1, <3>2 DEF Unrecorded, Open
    <2>2. CASE AlreadyOpen(t) /\ thread[t].pc # p
      BY <1>0, <1>3, <2>2, FinishEffect, QuietStep DEF LookForOpen, Recording
    <2>3. CASE ~AlreadyOpen(t)
      BY <1>0, <1>3, <2>3, GotoEffect, RecordedFrame DEF LookForOpen, Recording, Open
    <2>4. QED
      BY <2>1, <2>2, <2>3
  <1>4. CASE InsertEvent(t)
    <2>1. PICK e \in Event, r \in ReasonsOf(thread[t].kind) :
            /\ Unused(e)
            /\ event' = [event EXCEPT ![e] = [pc |-> thread[t].pc, reason |-> r, open |-> TRUE,
                                              after |-> Open(thread[t].pc)]]
            /\ outlived' = IF thread[t].pc \in online THEN outlived \cup {e}
                                                      ELSE outlived \ {e}
      BY <1>4 DEF InsertEvent
    <2>2. \A d \in Open(p) : d \in Open(p)' /\ (d \in outlived' => d \in outlived)
      BY <1>0, <2>1 DEF Unused, Open, TypeOK
    <2>3. CASE thread[t].pc = p
      <3>1. e \in Open(p)'
        BY <1>0, <2>1, <2>3 DEF Open, TypeOK
      <3>2. UNCHANGED online
        BY <1>4 DEF InsertEvent
      <3>3. QED
        BY <2>1, <2>3, <3>1, <3>2 DEF Unrecorded
    <2>4. CASE thread[t].pc # p
      BY <1>0, <1>4, <2>2, <2>4, FinishEffect, RecordedFrame DEF InsertEvent, Recording
    <2>5. QED
      BY <2>3, <2>4
  <1>5. QED
    BY <1>1, <1>2, <1>3, <1>4 DEF OutageStep

\* A failure matters only to the PCs that were just taken offline.
LEMMA FailureRecorded ==
  ASSUME Ind, NEW p \in PC, ~Unrecorded(p), ~BrokenOff(p), NEW t \in Thread, Fail(t)
  PROVE  ~Unrecorded(p)'
  <1>1. ~Recording(t, p)
    BY DEF BrokenOff
  <1>2. \A u \in Thread \ {t} : thread'[u] = thread[u]
    BY DEF Ind, TypeOK, Fail
  <1>3. UNCHANGED <<online, event, outlived>>
    BY DEF Fail, tables
  <1>4. QED
    BY <1>1, <1>2, <1>3, QuietStep

\* Heartbeats, the start of a sweep, time and clients take no PC offline.
LEMMA OtherRecorded ==
  ASSUME Ind, NEW p \in PC, ~Unrecorded(p),
         \/ \E t \in Thread : HeartbeatStep(t) \/ StartSweep(t)
         \/ TimeNext \/ ClientNext \/ UNCHANGED vars
  PROVE  ~Unrecorded(p)'
  <1>0. TypeOK
    BY DEF Ind
  <1> USE DEF tables, clients
  <1>1. CASE \E t \in Thread : HeartbeatStep(t) \/ StartSweep(t)
    <2>1. PICK t \in Thread : HeartbeatStep(t) \/ StartSweep(t)
      BY <1>1
    <2>2. \A u \in Thread \ {t} : thread'[u] = thread[u]
      BY <1>0, <2>1 DEF HeartbeatStep, Beat, DynamicInfoTrigger, StartSweep, Goto, Finish,
                        Finished, TypeOK
    <2>3. ~Recording(t, p)
      BY <2>1 DEF HeartbeatStep, Beat, DynamicInfoTrigger, StartSweep, At, Recording
    <2>4. CASE HeartbeatStep(t)
      <3>1. thread[t].pc \in PC
        BY <1>0 DEF TypeOK, Work
      <3>2. Seen(thread[t].pc) /\ UNCHANGED event
        BY <2>4 DEF HeartbeatStep, Beat, DynamicInfoTrigger
      <3>3. QED
        BY <2>2, <2>3, <3>1, <3>2, SeenRecorded
    <2>5. CASE StartSweep(t)
      <3>1. UNCHANGED <<online, event, outlived>>
        BY <2>5 DEF StartSweep
      <3>2. QED
        BY <2>2, <2>3, <3>1, QuietStep
    <2>6. QED
      BY <2>1, <2>4, <2>5
  <1>2. CASE \E q \in PC, t \in Handler :
               \/ StartPoll(q, t) \/ SendHeartbeat(q, t)
               \/ SendOffline(q, t) \/ SendShutdown(q, t)
    <2>1. PICK q \in PC, t \in Handler :
            \/ StartPoll(q, t) \/ SendHeartbeat(q, t)
            \/ SendOffline(q, t) \/ SendShutdown(q, t)
      BY <1>2
    <2>2. \E kind \in Kind : Request(t, q, kind)
      BY <2>1 DEF StartPoll, SendHeartbeat, SendOffline, SendShutdown, Kind, Signal
    <2>3. /\ \A u \in Thread \ {t} : thread'[u] = thread[u]
          /\ thread[t].at = "idle"
      BY <1>0, <2>2, RequestEffect DEF Thread
    <2>4. UNCHANGED <<online, event, outlived>>
      BY <2>1 DEF StartPoll, SendHeartbeat, SendOffline, SendShutdown
    <2>5. QED
      BY <2>3, <2>4, QuietStep DEF Recording
  <1>3. CASE \E q \in PC : LosePoll(q) \/ Stop(q)
    <2>1. PICK q \in PC : LosePoll(q) \/ Stop(q)
      BY <1>3
    <2>2. \A u \in Thread : thread'[u].at = thread[u].at /\ thread'[u].pc = thread[u].pc
      BY <1>0, <2>1, AbandonedEffect DEF LosePoll, Stop
    <2>3. UNCHANGED <<online, event, outlived>>
      BY <2>1 DEF LosePoll, Stop
    <2>4. QED
      BY <2>2, <2>3, QuietStep
  <1>4. CASE UNCHANGED <<online, event, outlived, thread>>
    BY <1>4, QuietStep
  <1>5. QED
    BY <1>1, <1>2, <1>3, <1>4
    DEF TimeNext, GrowStale, ByeAges, EventAges, ClientNext, LoseOffline, Start, vars

\* Every outage the history misses was lost in one of the three ways: to a poll that
\* closes the event of a PC taken offline again, to an event left open since an
\* earlier outage, or to a failure between the two statements of a signal or sweep.
THEOREM OutagesKept == Spec => LostOutagesExplained
  <1>1. ASSUME Ind, [Next]_vars
        PROVE  \A p \in PC :
                 Unrecorded(p)' =>
                   Unrecorded(p) \/ ClosedAway(p) \/ TakenForAnother(p) \/ BrokenOff(p)
    <2> SUFFICES ASSUME NEW p \in PC, ~Unrecorded(p), ~ClosedAway(p), ~TakenForAnother(p),
                        ~BrokenOff(p)
                 PROVE  ~Unrecorded(p)'
      OBVIOUS
    <2>1. CASE \E t \in Thread : PollStep(t)
      BY <1>1, <2>1, PollStepRecorded
    <2>2. CASE \E t \in Thread : OutageStep(t)
      BY <1>1, <2>2, OutageStepRecorded
    <2>3. CASE \E t \in Thread : Fail(t)
      BY <1>1, <2>3, FailureRecorded
    <2>4. ~Restart
      BY DEF BrokenOff
    <2>5. QED
      BY <1>1, <2>1, <2>2, <2>3, <2>4, OtherRecorded DEF Next, ServerNext, ThreadStep
  <1>2. QED
    BY <1>1, Invariant, PTL DEF Spec, LostOutagesExplained

-----------------------------------------------------------------------------
(* How many events of a PC can be open *)

\* Threads and events are finitely many.
LEMMA Finite ==
  ASSUME NEW p \in PC
  PROVE  /\ IsFiniteSet(Thread)
         /\ IsFiniteSet(Open(p)) /\ IsFiniteSet(Open(p)')
         /\ IsFiniteSet(Inserting(p)) /\ IsFiniteSet(Inserting(p)')
  <1>1. IsFiniteSet(Thread)
    BY PresenceAssumption, FS_AddElement DEF Thread
  <1>2. IsFiniteSet(Event)
    BY PresenceAssumption, FS_Interval DEF Event
  <1>3. Open(p) \in SUBSET Event /\ Open(p)' \in SUBSET Event
    BY DEF Open
  <1>4. Inserting(p) \in SUBSET Thread /\ Inserting(p)' \in SUBSET Thread
    BY DEF Inserting
  <1>5. QED
    BY <1>1, <1>2, <1>3, <1>4, FS_Subset

Bounded(p) == Cardinality(Open(p)) + Cardinality(Inserting(p)) <= Cardinality(Thread)

\* Steps that open no event and send no thread to insert one.
LEMMA BoundedFrame ==
  ASSUME NEW p \in PC, Bounded(p),
         Open(p)' \subseteq Open(p), Inserting(p)' \subseteq Inserting(p)
  PROVE  Bounded(p)'
  <1>1. /\ Cardinality(Open(p)') <= Cardinality(Open(p))
        /\ Cardinality(Inserting(p)') <= Cardinality(Inserting(p))
    BY Finite, FS_Subset
  <1>2. /\ Cardinality(Open(p)) \in Nat /\ Cardinality(Open(p)') \in Nat
        /\ Cardinality(Inserting(p)) \in Nat /\ Cardinality(Inserting(p)') \in Nat
        /\ Cardinality(Thread) \in Nat
    BY Finite, FS_CardinalityType
  <1>3. QED
    BY <1>1, <1>2 DEF Bounded, Thread

\* A thread goes to insert only when there is no open event, so that those on
\* their way are at most all threads.
LEMMA LookForOpenBounded ==
  ASSUME Ind, NEW t \in Thread, LookForOpen(t), NEW p \in PC, Bounded(p)
  PROVE  Bounded(p)'
  <1>0. TypeOK
    BY DEF Ind
  <1>1. Open(p)' = Open(p)
    BY DEF LookForOpen, Open, tables
  <1>2. CASE AlreadyOpen(t) \/ thread[t].pc # p
    <2>1. \A u \in Thread : u \in Inserting(p)' => u \in Inserting(p)
      BY <1>0, <1>2, GotoEffect, FinishEffect DEF LookForOpen, Inserting
    <2>2. Inserting(p)' \subseteq Inserting(p)
      BY <2>1 DEF Inserting
    <2>3. QED
      BY <1>1, <2>2, BoundedFrame
  <1>3. CASE ~AlreadyOpen(t) /\ thread[t].pc = p
    <2>1. Cardinality(Open(p)') = 0
      BY <1>1, <1>3, FS_EmptySet DEF AlreadyOpen
    <2>2. Inserting(p)' \in SUBSET Thread
      BY DEF Inserting
    <2>3. Cardinality(Inserting(p)') <= Cardinality(Thread)
      BY <2>2, Finite, FS_Subset
    <2>4. Cardinality(Inserting(p)') \in Nat /\ Cardinality(Thread) \in Nat
      BY Finite, FS_CardinalityType
    <2>5. QED
      BY <2>1, <2>3, <2>4 DEF Bounded, Thread
  <1>4. QED
    BY <1>2, <1>3

\* Each event inserted is one thread fewer on its way.
LEMMA InsertEventBounded ==
  ASSUME Ind, NEW t \in Thread, InsertEvent(t), NEW p \in PC, Bounded(p)
  PROVE  Bounded(p)'
  <1>0. TypeOK
    BY DEF Ind
  <1>1. PICK e \in Event, r \in ReasonsOf(thread[t].kind) :
          /\ Unused(e)
          /\ event' = [event EXCEPT ![e] = [pc |-> thread[t].pc, reason |-> r, open |-> TRUE,
                                            after |-> Open(thread[t].pc)]]
    BY DEF InsertEvent
  <1>2. /\ \A u \in Thread \ {t} : thread'[u] = thread[u]
        /\ thread'[t].at \in {"idle", "next"}
        /\ thread[t].at = "insert"
    BY <1>0, FinishEffect DEF InsertEvent, At
  <1>3. CASE thread[t].pc = p
    <2>1. Open(p)' = Open(p) \cup {e} /\ e \notin Open(p)
      BY <1>0, <1>1, <1>3 DEF Open, TypeOK, Unused
    <2>2. Inserting(p)' = Inserting(p) \ {t} /\ t \in Inserting(p)
      BY <1>2, <1>3 DEF Inserting
    <2>3. /\ Cardinality(Open(p)') = Cardinality(Open(p)) + 1
          /\ Cardinality(Inserting(p)') = Cardinality(Inserting(p)) - 1
      BY SMT, ZenonT(40), <2>1, <2>2, Finite, FS_AddElement, FS_RemoveElement
    <2>4. /\ Cardinality(Open(p)) \in Nat /\ Cardinality(Inserting(p)) \in Nat
          /\ Cardinality(Thread) \in Nat
      BY Finite, FS_CardinalityType
    <2>5. QED
      BY <2>3, <2>4 DEF Bounded, Thread
  <1>4. CASE thread[t].pc # p
    <2>1. Open(p)' \subseteq Open(p)
      BY <1>0, <1>1, <1>4 DEF Open, TypeOK
    <2>2. Inserting(p)' \subseteq Inserting(p)
      BY <1>2 DEF Inserting
    <2>3. QED
      BY <2>1, <2>2, BoundedFrame
  <1>5. QED
    BY <1>3, <1>4

\* All other steps.
LEMMA OtherBounded ==
  ASSUME Ind, [Next]_vars, NEW p \in PC, Bounded(p),
         ~\E t \in Thread : LookForOpen(t) \/ InsertEvent(t)
  PROVE  Bounded(p)'
  <1>0. TypeOK
    BY DEF Ind
  <1> USE DEF tables, clients
  <1>1. Open(p)' \subseteq Open(p)
    <2>1. CASE \E t \in Thread : Close(t)
      <3>1. PICK t \in Thread : Close(t)
        BY <2>1
      <3>2. \A e \in Event : event'[e].open => event[e].open /\ event'[e].pc = event[e].pc
        BY <1>0, <3>1 DEF Close, TypeOK, Row, NoRow
      <3>3. QED
        BY <3>2 DEF Open
    <2>2. CASE UNCHANGED event
      BY <2>2 DEF Open
    <2>3. QED
      BY <2>1, <2>2
      DEF Next, ServerNext, TimeNext, ClientNext, ThreadStep, PollStep, ReadPC, Ignore, Judge,
          Restore, FindOpen, Refresh, Answer, HeartbeatStep, Beat, DynamicInfoTrigger,
          OutageStep, MarkOffline, SweepPC, StartSweep, Fail, Restart, GrowStale, ByeAges,
          EventAges, StartPoll, SendHeartbeat, SendOffline, SendShutdown, LosePoll, LoseOffline, Stop,
          Start, vars
  <1>2. \A u \in Thread : u \in Inserting(p)' => u \in Inserting(p)
    <2>1. CASE \E t \in Thread : ThreadStep(t) \/ StartSweep(t)
      <3>1. PICK t \in Thread : ThreadStep(t) \/ StartSweep(t)
        BY <2>1
      <3>2. /\ \A u \in Thread \ {t} : thread'[u] = thread[u]
            /\ thread'[t].at # "insert"
        <4>1. CASE PollStep(t)
          BY <1>0, <4>1, SomeConstants
          DEF TypeOK, PollStep, ReadPC, Ignore, Judge, Restore, FindOpen, Close, Refresh,
              Answer, Goto, Finish, Finished, Idle, Work
        <4>2. CASE HeartbeatStep(t)
          BY <1>0, <4>2, GotoEffect, FinishEffect DEF HeartbeatStep, Beat, DynamicInfoTrigger
        <4>3. CASE MarkOffline(t)
          BY <1>0, <4>3, GotoEffect DEF MarkOffline
        <4>4. CASE \E q \in PC : SweepPC(t, q)
          BY <1>0, <4>4 DEF SweepPC, TypeOK, Work
        <4>5. CASE StartSweep(t)
          BY <1>0, <4>5 DEF StartSweep, TypeOK, Idle
        <4>6. ~LookForOpen(t) /\ ~InsertEvent(t)
          OBVIOUS
        <4>7. QED
          BY <3>1, <4>1, <4>2, <4>3, <4>4, <4>5, <4>6 DEF ThreadStep, OutageStep
      <3>3. QED
        BY <3>2 DEF Inserting
    <2>2. CASE \E q \in PC, t \in Handler :
                 \/ StartPoll(q, t) \/ SendHeartbeat(q, t)
                 \/ SendOffline(q, t) \/ SendShutdown(q, t)
      <3>1. PICK q \in PC, t \in Handler : \E kind \in Kind : Request(t, q, kind)
        BY <2>2 DEF StartPoll, SendHeartbeat, SendOffline, SendShutdown, Kind, Signal
      <3>2. /\ \A u \in Thread \ {t} : thread'[u] = thread[u]
            /\ thread'[t].at = "arrived"
        BY <1>0, <3>1, RequestEffect DEF Thread
      <3>3. QED
        BY <3>2 DEF Inserting
    <2>3. CASE \E q \in PC : LosePoll(q) \/ Stop(q)
      <3>1. \A u \in Thread : thread'[u].at = thread[u].at /\ thread'[u].pc = thread[u].pc
        BY <1>0, <2>3, AbandonedEffect DEF LosePoll, Stop
      <3>2. QED
        BY <3>1 DEF Inserting
    <2>4. CASE UNCHANGED thread
      BY <2>4 DEF Inserting
    <2>5. CASE Restart \/ \E t \in Thread : Fail(t)
      BY <1>0, <2>5 DEF Restart, Fail, TypeOK, Idle, Inserting
    <2>6. QED
      BY <2>1, <2>2, <2>3, <2>4, <2>5
      DEF Next, ServerNext, TimeNext, GrowStale, ByeAges, EventAges, ClientNext, LoseOffline,
          Start, vars
  <1>3. Inserting(p)' \subseteq Inserting(p)
    BY <1>2 DEF Inserting
  <1>4. QED
    BY <1>1, <1>3, BoundedFrame

\* There are never more open events of a PC than server threads.
THEOREM FewDuplicates == Spec => []DuplicatesBounded
  <1>1. Init => \A p \in PC : Bounded(p)
    <2> SUFFICES ASSUME Init, NEW p \in PC PROVE Bounded(p)
      OBVIOUS
    <2>1. Open(p) = {} /\ Inserting(p) = {}
      BY SomeConstants DEF Init, Open, NoRow, Inserting, Idle
    <2>2. Cardinality(Thread) \in Nat
      BY Finite, FS_CardinalityType
    <2>3. QED
      BY <2>1, <2>2, FS_EmptySet DEF Bounded
  <1>2. Ind /\ [Next]_vars /\ (\A p \in PC : Bounded(p)) => (\A p \in PC : Bounded(p))'
    <2> SUFFICES ASSUME Ind, [Next]_vars, NEW p \in PC, Bounded(p) PROVE Bounded(p)'
      BY DEF Bounded
    <2>1. QED
      BY LookForOpenBounded, InsertEventBounded, OtherBounded
  <1>3. DuplicatesBounded <=> \A p \in PC : Bounded(p)
    BY DEF DuplicatesBounded, Bounded
  <1>4. QED
    BY <1>1, <1>2, <1>3, Invariant, PTL DEF Spec
=============================================================================
