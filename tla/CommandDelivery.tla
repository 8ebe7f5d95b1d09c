--------------------------- MODULE CommandDelivery ---------------------------
EXTENDS Naturals

(***************************************************************************)
(* What the command path of WCMS promises an administrator, without        *)
(* polls, handlers, threads or retries: a command is issued to one PC, is  *)
(* handed to that PC's client and nobody else's, is worked off there, and  *)
(* the status column only ever shows an outcome it came to there.          *)
(*                                                                         *)
(* Two weaknesses of the code are part of the promise, because the code    *)
(* keeps no better one.  A command is handed over once, and once more for  *)
(* each time the server failed to mark it (Slip): then its row is pending  *)
(* still.  And a status that was shown may be withdrawn (Reopen): nothing  *)
(* guards the UPDATE that marks a command as executing, see                *)
(* CommandDispatch.StartExecution, although docs/ARCHITECTURE.md draws     *)
(* completed and error as final.                                           *)
(***************************************************************************)
CONSTANTS
  Command,    \* command ids
  PC          \* ids of the PCs commands are issued to

VARIABLES
  owner,      \* owner[c]: the PC command c was issued to, in a set of one
  receipts,   \* receipts[c][p]: how often the client of PC p was handed c
  slips,      \* slips[c]: how often the server failed to mark c
  outcome,    \* outcome[c]: the ways in which the client worked c off
  recorded    \* recorded[c]: what the status column reports of c

cdVars == <<owner, receipts, slips, outcome, recorded>>

Outcome == {"completed", "skipped", "error"}
Verdict == {"completed", "error"}

\* A command the client skipped is reported like one it carried out.
VerdictOf(o) == IF o = "error" THEN "error" ELSE "completed"

CDTypeOK ==
  /\ owner \in [Command -> SUBSET PC]
  /\ receipts \in [Command -> [PC -> Nat]]
  /\ slips \in [Command -> Nat]
  /\ outcome \in [Command -> SUBSET Outcome]
  /\ recorded \in [Command -> Verdict \cup {"none"}]

CDInit ==
  /\ owner = [c \in Command |-> {}]
  /\ receipts = [c \in Command |-> [p \in PC |-> 0]]
  /\ slips = [c \in Command |-> 0]
  /\ outcome = [c \in Command |-> {}]
  /\ recorded = [c \in Command |-> "none"]

Issue(c, p) ==
  /\ owner[c] = {}
  /\ owner' = [owner EXCEPT ![c] = {p}]
  /\ UNCHANGED <<receipts, slips, outcome, recorded>>

Slip(c) ==
  /\ owner[c] # {}
  /\ slips' = [slips EXCEPT ![c] = @ + 1]
  /\ UNCHANGED <<owner, receipts, outcome, recorded>>

HandedOver(c) == \E p \in PC : receipts[c][p] # 0

\* Only the PC the command was issued to receives it, once and once per slip.
HandOver(c, p) ==
  /\ p \in owner[c]
  /\ receipts[c][p] <= slips[c]
  /\ receipts' = [receipts EXCEPT ![c][p] = @ + 1]
  /\ UNCHANGED <<owner, slips, outcome, recorded>>

\* A command that was always marked is worked off once.
WorkOff(c, o) ==
  /\ HandedOver(c)
  /\ outcome[c] # {} => slips[c] > 0
  /\ outcome' = [outcome EXCEPT ![c] = @ \cup {o}]
  /\ UNCHANGED <<owner, receipts, slips, recorded>>

Record(c, o) ==
  /\ o \in outcome[c]
  /\ recorded' = [recorded EXCEPT ![c] = VerdictOf(o)]
  /\ UNCHANGED <<owner, receipts, slips, outcome>>

Reopen(c) ==
  /\ recorded' = [recorded EXCEPT ![c] = "none"]
  /\ UNCHANGED <<owner, receipts, slips, outcome>>

CDNext ==
  \E c \in Command :
    \/ \E p \in PC : Issue(c, p) \/ HandOver(c, p)
    \/ \E o \in Outcome : WorkOff(c, o) \/ Record(c, o)
    \/ Slip(c)
    \/ Reopen(c)

CDSpec == CDInit /\ [][CDNext]_cdVars
=============================================================================
