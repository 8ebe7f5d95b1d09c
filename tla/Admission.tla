------------------------------- MODULE Admission -------------------------------
EXTENDS Naturals

(***************************************************************************)
(* What registration with a PIN promises an administrator, without rows,   *)
(* statements, attempts or restarts: a machine that presents a PIN which   *)
(* is good for it is let in by one step, that step is counted against the  *)
(* PIN, and only then is the machine told.  A machine that was told does   *)
(* not forget it, also when an administrator removes it.                   *)
(*                                                                         *)
(* The promise is weaker than the documentation's.  The check of the PIN   *)
(* and the count of its use are separate steps here as they are in the     *)
(* code, so a single-use PIN may admit several machines, and each mishap   *)
(* may keep an admission from being counted, whether or not the machine is *)
(* told; see Registration.UsesBounded for how many there can be.           *)
(***************************************************************************)
CONSTANTS
  Machine,    \* machines
  Pin,        \* PINs
  Clerk       \* whoever handles one registration at a time

VARIABLES
  pin,        \* pin[k]: what PIN k is good for
  ticket,     \* ticket[c]: the registration clerk c handles
  member,     \* machines that are registered, with everything that belongs to it
  told,       \* machines that were told so
  removed,    \* machines an administrator removed at least once
  mishaps     \* how many mishaps there were

adVars == <<pin, ticket, member, told, removed, mishaps>>

NoPin == [status |-> "absent", usage |-> "single", used |-> 0]
NoTicket == [at |-> "none"]
Ticket == [at : {"accepted", "admitted", "counted"}, machine : Machine, pin : Pin]

AdTypeOK ==
  /\ pin \in [Pin -> [status : {"absent", "valid", "expired"},
                      usage : {"single", "multi"}, used : Nat]]
  /\ ticket \in [Clerk -> Ticket \cup {NoTicket}]
  /\ member \subseteq Machine
  /\ told \subseteq Machine
  /\ removed \subseteq Machine
  /\ mishaps \in Nat

AdInit ==
  /\ pin = [k \in Pin |-> NoPin]
  /\ ticket = [c \in Clerk |-> NoTicket]
  /\ member = {} /\ told = {} /\ removed = {}
  /\ mishaps = 0

-----------------------------------------------------------------------------
(* The administrator *)

Issue(k, usage) ==
  /\ pin[k].status = "absent"
  /\ pin' = [pin EXCEPT ![k] = [NoPin EXCEPT !.status = "valid", !.usage = usage]]
  /\ UNCHANGED <<ticket, member, told, removed, mishaps>>

Lapse(k) ==
  /\ pin' = [pin EXCEPT ![k].status = "expired"]
  /\ UNCHANGED <<ticket, member, told, removed, mishaps>>

Withdraw(k) ==
  /\ pin' = [pin EXCEPT ![k] = NoPin]
  /\ UNCHANGED <<ticket, member, told, removed, mishaps>>

Remove(m) ==
  /\ member' = member \ {m}
  /\ removed' = removed \cup {m}
  /\ UNCHANGED <<pin, ticket, told, mishaps>>

-----------------------------------------------------------------------------
(* A registration *)

GoodFor(k) ==
  /\ pin[k].status = "valid"
  /\ pin[k].usage = "single" => pin[k].used = 0

Advance(c, from, to) ==
  /\ ticket[c].at = from
  /\ ticket' = [ticket EXCEPT ![c].at = to]

Accept(c, m, k) ==
  /\ ticket[c] = NoTicket
  /\ GoodFor(k)
  /\ ticket' = [ticket EXCEPT ![c] = [at |-> "accepted", machine |-> m, pin |-> k]]
  /\ UNCHANGED <<pin, member, told, removed, mishaps>>

\* A machine that was removed in the middle of its registration may stay out.
Admit(c) ==
  /\ Advance(c, "accepted", "admitted")
  /\ \/ member' = member \cup {ticket[c].machine}
     \/ ticket[c].machine \in removed /\ UNCHANGED member
  /\ UNCHANGED <<pin, told, removed, mishaps>>

\* The use of a PIN that was withdrawn meanwhile is counted nowhere.
Count(c) ==
  LET k == ticket[c].pin IN
  /\ Advance(c, "admitted", "counted")
  /\ IF pin[k].status = "absent" THEN UNCHANGED pin
                                 ELSE pin' = [pin EXCEPT ![k].used = @ + 1]
  /\ UNCHANGED <<member, told, removed, mishaps>>

\* A mishap: the use is not counted, and the machine may be told all the same.
Miss(c) ==
  /\ Advance(c, "admitted", "counted")
  /\ mishaps' = mishaps + 1
  /\ UNCHANGED <<pin, member, told, removed>>

Tell(c) ==
  /\ ticket[c].at = "counted"
  /\ ticket' = [ticket EXCEPT ![c] = NoTicket]
  /\ told' = told \cup {ticket[c].machine}
  /\ UNCHANGED <<pin, member, removed, mishaps>>

\* Registrations come to nothing, or end without the machine knowing; one that was
\* admitted and is not yet counted only by a mishap.  A mishap may also concern none.
Drop(S) ==
  /\ ticket' = [c \in Clerk |-> IF c \in S THEN NoTicket ELSE ticket[c]]
  /\ mishaps' \in {mishaps, mishaps + 1}
  /\ (\E c \in S : ticket[c].at = "admitted") => mishaps' # mishaps
  /\ UNCHANGED <<pin, member, told, removed>>

AdNext ==
  \/ \E k \in Pin : \/ \E usage \in {"single", "multi"} : Issue(k, usage)
                    \/ Lapse(k)
                    \/ Withdraw(k)
  \/ \E m \in Machine : Remove(m)
  \/ \E c \in Clerk :
       \/ \E m \in Machine, k \in Pin : Accept(c, m, k)
       \/ Admit(c)
       \/ Count(c)
       \/ Miss(c)
       \/ Tell(c)
  \/ \E S \in SUBSET Clerk : Drop(S)

AdSpec == AdInit /\ [][AdNext]_adVars
=============================================================================
