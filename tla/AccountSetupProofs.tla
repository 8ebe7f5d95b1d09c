-------------------------- MODULE AccountSetupProofs --------------------------
(***************************************************************************)
(* Proofs about AccountSetup: no profile gets a display language whose     *)
(* pack is missing, and a language that was set stays, whatever overlaps,  *)
(* fails or outlives the client.                                           *)
(***************************************************************************)
EXTENDS AccountSetup, TLAPS

-----------------------------------------------------------------------------
(* The inductive invariant *)

Packing == {"pack", "orphan pack"}
Profiling == {"profile", "orphan profile"}
Writing == {"write", "orphan write"}

\* Two commands at work for one user have met.
Apart ==
  \A c, d \in Command :
    c # d /\ thread[c].at \in Active /\ thread[d].at \in Active
      /\ thread[c].user = thread[d].user => c \in met

\* A pack is installed before it counts, and only then is a language set up.
Ready(c) ==
  LET t == thread[c] IN
  /\ t.at \in Packing => t.lang # None
  /\ t.at \in Profiling \cup Writing => t.lang # None /\ t.pack = "ok"
  /\ t.at \in {"add"} \cup Profiling \cup Writing /\ t.lang # None /\ t.pack = "ok"
       => t.lang \in packs \/ ~cmdlet

PackReady == \A c \in Command : Ready(c)

\* An account is made by a command for its user.
MadeFor(u) ==
  account[u] # None =>
    /\ thread[account[u]].at \notin {"new", "add"} \cup Packing
    /\ thread[account[u]].user = u

\* A command at work has reported nothing.
Silent(c) == thread[c].at \in {"new"} \cup Active => thread[c].outcome = "none"

Made ==
  /\ \A u \in User : MadeFor(u)
  /\ \A c \in Command : Silent(c)

\* A command that sets up a profile while the account is another one's has met it.
LateFor(c, u) ==
  thread[c].at \in Profiling \cup Writing /\ account[u] # None /\ account[u] # c
    => account[u] \in met

Late == \A c \in Command : LateFor(c, thread[c].user)

\* What a command finds that nobody disturbs.
Finds(c, u) ==
  account[u] = c =>
    /\ thread[c].at \in Profiling => folder[u] = None /\ password[u] = c
    /\ thread[c].at \in Writing => folder[u] = c
    /\ thread[c].outcome = "language" => folder[u] = c /\ language[u] = thread[c].lang

Owned == \A c \in Command : c \in met \cup misled \/ Finds(c, thread[c].user)

Ind ==
  /\ TypeOK
  /\ Apart
  /\ PackReady
  /\ Made
  /\ Late
  /\ Owned
  /\ LanguageNeedsPack

-----------------------------------------------------------------------------
(* The steps *)

\* A fault is counted below its bound.
LEMMA FaultCounted == ASSUME TypeOK, Fault PROVE faults' \in 0..MaxFaults
  BY AccountAssumption DEF TypeOK, Fault

\* What becomes of the work of a client that ends.
LEMMA Orphans ==
  \A place \in {"new", "done", "lost"} \cup Active :
    /\ Orphaned(place) \in Orphan \cup {"lost"}
    /\ Orphaned(place) \in Packing => place \in Packing
    /\ Orphaned(place) \in Profiling => place \in Profiling
    /\ Orphaned(place) \in Writing => place \in Writing
    /\ Orphaned(place) \notin {"new", "add"}
  BY DEF Orphaned, Active, Child, Orphan, Packing, Profiling, Writing

\* The initial state satisfies the inductive invariant.
LEMMA InitInd == Init => Ind
  <1> SUFFICES ASSUME Init PROVE Ind
    OBVIOUS
  <1> USE DEF Active, Child, Orphan, Packing, Profiling, Writing
  <1>1. SomeUser \in User
    BY AccountAssumption DEF SomeUser
  <1>2. TypeOK
    BY <1>1, AccountAssumption DEF Init, TypeOK, Thread
  <1>3. QED
    BY <1>2, AccountAssumption
    DEF Ind, Init, Apart, PackReady, Ready, Made, MadeFor, Silent, Late, LateFor, Owned, Finds,
        LanguageNeedsPack

\* Begin keeps the invariant.
LEMMA BeginInd ==
  ASSUME Ind, NEW c \in Command, NEW place \in {"add", "pack", "delete", "password"}, NEW u \in User,
         NEW l \in Language \cup {None}, place = "pack" <=> l # None, Begin(c, place, u, l)
  PROVE  Ind'
  <1> USE AccountAssumption DEF Ind, windows
  <1>e. /\ account \in [User -> Command \cup {None}] /\ password \in [User -> Command \cup {None}]
        /\ folder \in [User -> Command \cup {None}] /\ language \in [User -> Language \cup {None}]
        /\ \A d \in Command :
             thread[d].user \in User /\ thread[d].lang \in Language \cup {None}
    BY DEF TypeOK, Thread
  <1>b. thread \in [Command -> Thread]
    BY DEF TypeOK
  <1>a. /\ \A d \in Command \ {c} : thread'[d] = thread[d]
        /\ thread'[c].at = place
        /\ thread'[c].user = u
        /\ thread'[c].lang = l
        /\ thread'[c].pack = thread[c].pack
        /\ thread'[c].outcome = thread[c].outcome
    BY <1>b DEF Begin, Thread
  <1>f. thread' \in [Command -> Thread]
    <2>1. thread' = [thread EXCEPT ![c].at = place, ![c].user = u, ![c].lang = l]
      BY DEF Begin
    <2>2. place \in Active
      BY DEF Active, Child
    <2>3. [thread[c] EXCEPT !.at = place, !.user = u, !.lang = l] \in Thread
      BY <1>b, <2>2 DEF Thread
    <2>4. QED
      BY <1>b, <2>1, <2>3
  <1>c. faults' \in 0..MaxFaults
    BY DEF Begin, TypeOK
  <1>d. /\ UNCHANGED <<account, password, folder, language, cmdlet, packs, misled>>
        /\ thread[c].at = "new" /\ place \in {"add", "pack", "delete", "password"}
        /\ met \subseteq met' /\ met' \subseteq Command
        /\ \A d \in Command : thread[d].at \in Active /\ thread[d].user = u => d \in met' /\ c \in met'
    BY DEF Begin, Rivals, TypeOK
  <1>1. TypeOK'
    BY <1>b, <1>c, <1>d, <1>e, <1>f DEF TypeOK
  <1>2. Apart'
    BY <1>a, <1>d, <1>e DEF Apart
  <1>3. PackReady'
    <2> SUFFICES ASSUME NEW d \in Command PROVE Ready(d)'
      BY DEF PackReady
    <2>1. CASE d = c
      BY <1>a, <1>d, <1>e, <2>1
         DEF PackReady, Ready, Active, Child, Orphan, Packing, Profiling, Writing
    <2>2. CASE d # c
      BY <1>a, <1>d, <1>e, <2>2 DEF PackReady, Ready
    <2>3. QED
      BY <2>1, <2>2
  <1>4. Made'
    <2>1. ASSUME NEW v \in User PROVE MadeFor(v)'
      <3>1. CASE account'[v] = c
        BY <1>a, <1>d, <1>e, <3>1
           DEF Made, MadeFor, Active, Child, Orphan, Packing, Profiling, Writing
      <3>2. CASE account'[v] # c
        BY <1>a, <1>d, <1>e, <3>2 DEF Made, MadeFor
      <3>3. QED
        BY <3>1, <3>2
    <2>2. ASSUME NEW d \in Command PROVE Silent(d)'
      <3>1. CASE d = c
        BY <1>a, <1>d, <1>e, <3>1
           DEF Made, Silent, Active, Child, Orphan, Packing, Profiling, Writing
      <3>2. CASE d # c
        BY <1>a, <1>d, <1>e, <3>2 DEF Made, Silent
      <3>3. QED
        BY <3>1, <3>2
    <2>3. QED
      BY <2>1, <2>2 DEF Made
  <1>5. Late'
    <2> SUFFICES ASSUME NEW d \in Command PROVE LateFor(d, thread[d].user)'
      BY DEF Late
    <2>1. CASE d = c
      BY <1>a, <1>d, <1>e, <2>1
         DEF Late, LateFor, Active, Child, Orphan, Packing, Profiling, Writing
    <2>2. CASE d # c
      BY <1>a, <1>d, <1>e, <2>2 DEF Late, LateFor
    <2>3. QED
      BY <2>1, <2>2
  <1>6. Owned'
    <2> SUFFICES ASSUME NEW d \in Command, d \notin met', d \notin misled'
                 PROVE  Finds(d, thread[d].user)'
      BY DEF Owned
    <2>0. d \notin met /\ d \notin misled /\ Finds(d, thread[d].user)
      BY <1>d DEF Owned
    <2>1. CASE d = c
      BY <1>a, <1>d, <1>e, <2>0, <2>1
         DEF Finds, Made, Silent, MadeFor, Late, LateFor, Active, Child, Orphan, Packing,
             Profiling, Writing
    <2>2. CASE d # c
      BY <1>a, <1>d, <1>e, <2>0, <2>2 DEF Finds
    <2>3. QED
      BY <2>1, <2>2
  <1>7. LanguageNeedsPack'
    BY <1>a, <1>d, <1>e DEF PackReady, Ready, LanguageNeedsPack
  <1>8. QED
    BY <1>1, <1>2, <1>3, <1>4, <1>5, <1>6, <1>7

\* InstallLanguagePack keeps the invariant.
LEMMA InstallLanguagePackInd ==
  ASSUME Ind, NEW c \in Command, InstallLanguagePack(c)
  PROVE  Ind'
  <1> USE AccountAssumption DEF Ind, windows
  <1>e. /\ account \in [User -> Command \cup {None}] /\ password \in [User -> Command \cup {None}]
        /\ folder \in [User -> Command \cup {None}] /\ language \in [User -> Language \cup {None}]
        /\ \A d \in Command :
             thread[d].user \in User /\ thread[d].lang \in Language \cup {None}
    BY DEF TypeOK, Thread
  <1>b. thread \in [Command -> Thread]
    BY DEF TypeOK
  <1>a. /\ \A d \in Command \ {c} : thread'[d] = thread[d]
        /\ thread'[c].at = After(c, "add")
        /\ thread'[c].user = thread[c].user
        /\ thread'[c].lang = thread[c].lang
        /\ thread'[c].pack = "ok"
        /\ thread'[c].outcome = thread[c].outcome
    BY <1>b DEF InstallLanguagePack, After, Thread
  <1>f. thread' \in [Command -> Thread]
    <2>1. thread' = [thread EXCEPT ![c].at = After(c, "add"), ![c].pack = "ok"]
      BY DEF InstallLanguagePack
    <2>2. After(c, "add") \in {"lost"} \cup Active
      BY DEF After, Active
    <2>3. QED
      BY SMT, ZenonT(40), <1>b, <2>1, <2>2 DEF Thread
  <1>c. faults' \in 0..MaxFaults
    BY DEF InstallLanguagePack, TypeOK
  <1>d. /\ UNCHANGED <<account, password, folder, language, cmdlet, met, misled>>
        /\ thread[c].at \in Packing
        /\ packs' = IF cmdlet THEN packs \cup {thread[c].lang} ELSE packs
    BY DEF InstallLanguagePack, Packing, Profiling, Writing, TypeOK
  <1>1. TypeOK'
    BY <1>b, <1>c, <1>d, <1>e, <1>f DEF TypeOK, PackReady, Ready
  <1>h. thread[c].at \in Active /\ thread[c].user \in User
    BY <1>d, <1>e DEF Active, Child, Orphan, Packing, Profiling, Writing
  <1>2. Apart'
    BY <1>a, <1>d, <1>e, <1>h DEF Apart
  <1>3. PackReady'
    <2> SUFFICES ASSUME NEW d \in Command PROVE Ready(d)'
      BY DEF PackReady
    <2>1. CASE d = c
      BY <1>a, <1>d, <1>e, <2>1
         DEF PackReady, Ready, After, Active, Child, Orphan, Packing, Profiling, Writing
    <2>2. CASE d # c
      BY <1>a, <1>d, <1>e, <2>2 DEF PackReady, Ready
    <2>3. QED
      BY <2>1, <2>2
  <1>4. Made'
    <2>1. ASSUME NEW v \in User PROVE MadeFor(v)'
      <3>1. CASE account'[v] = c
        BY <1>a, <1>d, <1>e, <3>1
           DEF Made, MadeFor, After, Active, Child, Orphan, Packing, Profiling, Writing
      <3>2. CASE account'[v] # c
        BY <1>a, <1>d, <1>e, <3>2 DEF Made, MadeFor
      <3>3. QED
        BY <3>1, <3>2
    <2>2. ASSUME NEW d \in Command PROVE Silent(d)'
      <3>1. CASE d = c
        BY <1>a, <1>d, <1>e, <3>1
           DEF Made, Silent, After, Active, Child, Orphan, Packing, Profiling, Writing
      <3>2. CASE d # c
        BY <1>a, <1>d, <1>e, <3>2 DEF Made, Silent
      <3>3. QED
        BY <3>1, <3>2
    <2>3. QED
      BY <2>1, <2>2 DEF Made
  <1>5. Late'
    <2> SUFFICES ASSUME NEW d \in Command PROVE LateFor(d, thread[d].user)'
      BY DEF Late
    <2>1. CASE d = c
      BY <1>a, <1>d, <1>e, <2>1
         DEF Late, LateFor, After, Active, Child, Orphan, Packing, Profiling, Writing
    <2>2. CASE d # c
      BY <1>a, <1>d, <1>e, <2>2 DEF Late, LateFor
    <2>3. QED
      BY <2>1, <2>2
  <1>6. Owned'
    <2> SUFFICES ASSUME NEW d \in Command, d \notin met', d \notin misled'
                 PROVE  Finds(d, thread[d].user)'
      BY DEF Owned
    <2>0. d \notin met /\ d \notin misled /\ Finds(d, thread[d].user)
      BY <1>d DEF Owned
    <2>1. CASE d = c
      BY <1>a, <1>d, <1>e, <2>0, <2>1
         DEF Finds, Made, Silent, MadeFor, After, Active, Child, Orphan, Packing, Profiling,
             Writing
    <2>2. CASE d # c
      BY <1>a, <1>d, <1>e, <2>0, <2>2 DEF Finds
    <2>3. QED
      BY <2>1, <2>2
  <1>7. LanguageNeedsPack'
    BY <1>a, <1>d, <1>e DEF PackReady, Ready, LanguageNeedsPack
  <1>8. QED
    BY <1>1, <1>2, <1>3, <1>4, <1>5, <1>6, <1>7

\* PackFails keeps the invariant.
LEMMA PackFailsInd ==
  ASSUME Ind, NEW c \in Command, PackFails(c)
  PROVE  Ind'
  <1> USE AccountAssumption DEF Ind, windows
  <1>e. /\ account \in [User -> Command \cup {None}] /\ password \in [User -> Command \cup {None}]
        /\ folder \in [User -> Command \cup {None}] /\ language \in [User -> Language \cup {None}]
        /\ \A d \in Command :
             thread[d].user \in User /\ thread[d].lang \in Language \cup {None}
    BY DEF TypeOK, Thread
  <1>b. thread \in [Command -> Thread]
    BY DEF TypeOK
  <1>a. /\ \A d \in Command \ {c} : thread'[d] = thread[d]
        /\ thread'[c].at = After(c, "add")
        /\ thread'[c].user = thread[c].user
        /\ thread'[c].lang = thread[c].lang
        /\ thread'[c].pack = "missing"
        /\ thread'[c].outcome = thread[c].outcome
    BY SMT, ZenonT(40), <1>b DEF PackFails, After, Thread
  <1>f. thread' \in [Command -> Thread]
    <2>1. thread' = [thread EXCEPT ![c].at = After(c, "add"), ![c].pack = "missing"]
      BY DEF PackFails
    <2>2. After(c, "add") \in {"lost"} \cup Active
      BY DEF After, Active
    <2>3. QED
      BY SMT, ZenonT(40), <1>b, <2>1, <2>2 DEF Thread
  <1>c. faults' \in 0..MaxFaults
    BY FaultCounted DEF PackFails, TypeOK
  <1>d. /\ UNCHANGED <<account, password, folder, language, cmdlet, met, misled>>
        /\ thread[c].at \in Packing
        /\ packs' = packs \/ packs' = packs \cup {thread[c].lang}
    BY DEF PackFails, Packing, Profiling, Writing, TypeOK
  <1>1. TypeOK'
    BY <1>b, <1>c, <1>d, <1>e, <1>f DEF TypeOK, PackReady, Ready
  <1>h. thread[c].at \in Active /\ thread[c].user \in User
    BY <1>d, <1>e DEF Active, Child, Orphan, Packing, Profiling, Writing
  <1>2. Apart'
    BY <1>a, <1>d, <1>e, <1>h DEF Apart
  <1>3. PackReady'
    <2> SUFFICES ASSUME NEW d \in Command PROVE Ready(d)'
      BY DEF PackReady
    <2>1. CASE d = c
      BY <1>a, <1>d, <1>e, <2>1
         DEF PackReady, Ready, After, Active, Child, Orphan, Packing, Profiling, Writing
    <2>2. CASE d # c
      BY <1>a, <1>d, <1>e, <2>2 DEF PackReady, Ready
    <2>3. QED
      BY <2>1, <2>2
  <1>4. Made'
    <2>1. ASSUME NEW v \in User PROVE MadeFor(v)'
      <3>1. CASE account'[v] = c
        BY <1>a, <1>d, <1>e, <3>1
           DEF Made, MadeFor, After, Active, Child, Orphan, Packing, Profiling, Writing
      <3>2. CASE account'[v] # c
        BY <1>a, <1>d, <1>e, <3>2 DEF Made, MadeFor
      <3>3. QED
        BY <3>1, <3>2
    <2>2. ASSUME NEW d \in Command PROVE Silent(d)'
      <3>1. CASE d = c
        BY <1>a, <1>d, <1>e, <3>1
           DEF Made, Silent, After, Active, Child, Orphan, Packing, Profiling, Writing
      <3>2. CASE d # c
        BY <1>a, <1>d, <1>e, <3>2 DEF Made, Silent
      <3>3. QED
        BY <3>1, <3>2
    <2>3. QED
      BY <2>1, <2>2 DEF Made
  <1>5. Late'
    <2> SUFFICES ASSUME NEW d \in Command PROVE LateFor(d, thread[d].user)'
      BY DEF Late
    <2>1. CASE d = c
      BY <1>a, <1>d, <1>e, <2>1
         DEF Late, LateFor, After, Active, Child, Orphan, Packing, Profiling, Writing
    <2>2. CASE d # c
      BY <1>a, <1>d, <1>e, <2>2 DEF Late, LateFor
    <2>3. QED
      BY <2>1, <2>2
  <1>6. Owned'
    <2> SUFFICES ASSUME NEW d \in Command, d \notin met', d \notin misled'
                 PROVE  Finds(d, thread[d].user)'
      BY DEF Owned
    <2>0. d \notin met /\ d \notin misled /\ Finds(d, thread[d].user)
      BY <1>d DEF Owned
    <2>1. CASE d = c
      BY <1>a, <1>d, <1>e, <2>0, <2>1
         DEF Finds, Made, Silent, MadeFor, After, Active, Child, Orphan, Packing, Profiling,
             Writing
    <2>2. CASE d # c
      BY <1>a, <1>d, <1>e, <2>0, <2>2 DEF Finds
    <2>3. QED
      BY <2>1, <2>2
  <1>7. LanguageNeedsPack'
    BY <1>a, <1>d, <1>e DEF PackReady, Ready, LanguageNeedsPack
  <1>8. QED
    BY <1>1, <1>2, <1>3, <1>4, <1>5, <1>6, <1>7

\* AddUser keeps the invariant.
LEMMA AddUserInd ==
  ASSUME Ind, NEW c \in Command, AddUser(c)
  PROVE  Ind'
  <1> USE AccountAssumption DEF Ind, windows
  <1>e. /\ account \in [User -> Command \cup {None}] /\ password \in [User -> Command \cup {None}]
        /\ folder \in [User -> Command \cup {None}] /\ language \in [User -> Language \cup {None}]
        /\ \A d \in Command :
             thread[d].user \in User /\ thread[d].lang \in Language \cup {None}
    BY DEF TypeOK, Thread
  <1>b. thread \in [Command -> Thread]
    BY DEF TypeOK
  <1>a. /\ \A d \in Command \ {c} : thread'[d] = thread[d]
        /\ thread'[c].at \in {"profile", "done"}
        /\ thread'[c].at = "profile" => SetsLanguage(thread[c])
        /\ thread'[c].user = thread[c].user
        /\ thread'[c].lang = thread[c].lang
        /\ thread'[c].pack = thread[c].pack
        /\ thread'[c].outcome \in {thread[c].outcome, "made", "no pack"}
        /\ thread'[c].at = "profile" => thread'[c].outcome = thread[c].outcome
    <2>1. CASE SetsLanguage(thread[c])
      BY SMT, ZenonT(40), <1>b, <2>1 DEF AddUser, Ends, Thread
    <2>2. CASE ~(SetsLanguage(thread[c]))
      <3>1. thread' = [thread EXCEPT ![c].at = "done",
            ![c].outcome = IF thread[c].lang = None THEN "made" ELSE "no pack"]
        BY <2>2 DEF AddUser, Ends
      <3>2. QED
        BY <1>b, <3>1 DEF Thread
    <2>3. QED
      BY <2>1, <2>2
  <1>f. thread' \in [Command -> Thread]
    <2>1. CASE SetsLanguage(thread[c])
      <3>1. thread' = [thread EXCEPT ![c].at = "profile"]
        BY <2>1 DEF AddUser
      <3>2. "profile" \in Active
        BY DEF Active, Child
      <3>3. QED
        BY <1>b, <3>1, <3>2 DEF Thread
    <2>2. CASE ~SetsLanguage(thread[c])
      <3>1. thread' = [thread EXCEPT ![c].at = "done",
            ![c].outcome = IF thread[c].lang = None THEN "made" ELSE "no pack"]
        BY <2>2 DEF AddUser, Ends
      <3>2. QED
        BY SMT, ZenonT(40), <1>b, <3>1 DEF Thread
    <2>3. QED
      BY <2>1, <2>2
  <1>c. faults' \in 0..MaxFaults
    BY DEF AddUser, TypeOK
  <1>d. /\ UNCHANGED <<folder, language, cmdlet, packs, met>>
        /\ thread[c].at = "add" /\ account[thread[c].user] = None
        /\ account' = [account EXCEPT ![thread[c].user] = c]
        /\ password' = [password EXCEPT ![thread[c].user] = c]
        /\ misled' = IF folder[thread[c].user] = None THEN misled ELSE misled \cup {c}
    BY DEF AddUser, TypeOK
  <1>1. TypeOK'
    BY <1>b, <1>c, <1>d, <1>e, <1>f DEF TypeOK
  <1>h. thread[c].at \in Active /\ thread[c].user \in User
    BY <1>d, <1>e DEF Active, Child, Orphan, Packing, Profiling, Writing
  <1>2. Apart'
    <2>1. \A d \in Command :
            thread'[d].user = thread[d].user /\ (thread'[d].at \in Active => thread[d].at \in Active)
      BY <1>a, <1>h
    <2>2. QED
      BY <1>d, <2>1 DEF Apart
  <1>3. PackReady'
    <2> SUFFICES ASSUME NEW d \in Command PROVE Ready(d)'
      BY DEF PackReady
    <2>1. CASE d = c
      BY <1>a, <1>d, <1>e, <2>1
         DEF PackReady, Ready, SetsLanguage, Active, Child, Orphan, Packing, Profiling, Writing
    <2>2. CASE d # c
      BY <1>a, <1>d, <1>e, <2>2 DEF PackReady, Ready
    <2>3. QED
      BY <2>1, <2>2
  <1>4. Made'
    <2>1. ASSUME NEW v \in User PROVE MadeFor(v)'
      <3>1. CASE account'[v] = c
        BY <1>a, <1>d, <1>e, <3>1
           DEF Made, MadeFor, SetsLanguage, Active, Child, Orphan, Packing, Profiling, Writing
      <3>2. CASE account'[v] # c
        BY SMT, ZenonT(40), <1>a, <1>d, <1>e, <3>2 DEF Made, MadeFor
      <3>3. QED
        BY <3>1, <3>2
    <2>2. ASSUME NEW d \in Command PROVE Silent(d)'
      <3>1. CASE d = c
        BY <1>a, <1>d, <1>e, <3>1
           DEF Made, Silent, SetsLanguage, Active, Child, Orphan, Packing, Profiling, Writing
      <3>2. CASE d # c
        BY <1>a, <1>d, <1>e, <3>2 DEF Made, Silent
      <3>3. QED
        BY <3>1, <3>2
    <2>3. QED
      BY <2>1, <2>2 DEF Made
  <1>5. Late'
    <2> SUFFICES ASSUME NEW d \in Command PROVE LateFor(d, thread[d].user)'
      BY DEF Late
    <2>1. CASE d = c
      BY <1>a, <1>d, <1>e, <1>h, <2>1
         DEF Late, LateFor, SetsLanguage, Active, Child, Orphan, Packing, Profiling, Writing
    <2>2. CASE d # c
      BY SMT, ZenonT(40), <1>a, <1>d, <1>e, <1>h, <2>2
         DEF Late, LateFor, Apart, Active, Child, Orphan, Packing, Profiling, Writing
    <2>3. QED
      BY <2>1, <2>2
  <1>6. Owned'
    <2> SUFFICES ASSUME NEW d \in Command, d \notin met', d \notin misled'
                 PROVE  Finds(d, thread[d].user)'
      BY DEF Owned
    <2>0. d \notin met /\ d \notin misled /\ Finds(d, thread[d].user)
      BY <1>d DEF Owned
    <2>1. CASE d = c
      BY <1>a, <1>d, <1>e, <2>0, <2>1
         DEF Finds, Made, Silent, MadeFor, SetsLanguage, Active, Child, Orphan, Packing,
             Profiling, Writing
    <2>2. CASE d # c
      BY <1>a, <1>d, <1>e, <2>0, <2>2 DEF Finds, Made, MadeFor
    <2>3. QED
      BY <2>1, <2>2
  <1>7. LanguageNeedsPack'
    BY <1>a, <1>d, <1>e DEF PackReady, Ready, LanguageNeedsPack
  <1>8. QED
    BY <1>1, <1>2, <1>3, <1>4, <1>5, <1>6, <1>7

\* NameTaken keeps the invariant.
LEMMA NameTakenInd ==
  ASSUME Ind, NEW c \in Command, NameTaken(c)
  PROVE  Ind'
  <1> USE AccountAssumption DEF Ind, windows
  <1>e. /\ account \in [User -> Command \cup {None}] /\ password \in [User -> Command \cup {None}]
        /\ folder \in [User -> Command \cup {None}] /\ language \in [User -> Language \cup {None}]
        /\ \A d \in Command :
             thread[d].user \in User /\ thread[d].lang \in Language \cup {None}
    BY DEF TypeOK, Thread
  <1>b. thread \in [Command -> Thread]
    BY DEF TypeOK
  <1>a. /\ \A d \in Command \ {c} : thread'[d] = thread[d]
        /\ thread'[c].at = "done"
        /\ thread'[c].user = thread[c].user
        /\ thread'[c].lang = thread[c].lang
        /\ thread'[c].pack = thread[c].pack
        /\ thread'[c].outcome = "failed"
    BY <1>b DEF NameTaken, Ends, Thread
  <1>f. thread' \in [Command -> Thread]
    <2>1. thread' = [thread EXCEPT ![c].at = "done", ![c].outcome = "failed"]
      BY DEF NameTaken, Ends
    <2>2. QED
      BY SMT, ZenonT(40), <1>b, <2>1 DEF Thread
  <1>c. faults' \in 0..MaxFaults
    BY DEF NameTaken, TypeOK
  <1>d. /\ UNCHANGED <<account, password, folder, language, cmdlet, packs, met, misled>>
        /\ thread[c].at = "add"
    BY DEF NameTaken, TypeOK
  <1>1. TypeOK'
    BY <1>b, <1>c, <1>d, <1>e, <1>f DEF TypeOK
  <1>h. thread[c].at \in Active /\ thread[c].user \in User
    BY <1>d, <1>e DEF Active, Child, Orphan, Packing, Profiling, Writing
  <1>2. Apart'
    BY <1>a, <1>d, <1>e, <1>h DEF Apart
  <1>3. PackReady'
    <2> SUFFICES ASSUME NEW d \in Command PROVE Ready(d)'
      BY DEF PackReady
    <2>1. CASE d = c
      BY <1>a, <1>d, <1>e, <2>1
         DEF PackReady, Ready, Active, Child, Orphan, Packing, Profiling, Writing
    <2>2. CASE d # c
      BY <1>a, <1>d, <1>e, <2>2 DEF PackReady, Ready
    <2>3. QED
      BY <2>1, <2>2
  <1>4. Made'
    <2>1. ASSUME NEW v \in User PROVE MadeFor(v)'
      <3>1. CASE account'[v] = c
        BY <1>a, <1>d, <1>e, <3>1
           DEF Made, MadeFor, Active, Child, Orphan, Packing, Profiling, Writing
      <3>2. CASE account'[v] # c
        BY <1>a, <1>d, <1>e, <3>2 DEF Made, MadeFor
      <3>3. QED
        BY <3>1, <3>2
    <2>2. ASSUME NEW d \in Command PROVE Silent(d)'
      <3>1. CASE d = c
        BY <1>a, <1>d, <1>e, <3>1
           DEF Made, Silent, Active, Child, Orphan, Packing, Profiling, Writing
      <3>2. CASE d # c
        BY <1>a, <1>d, <1>e, <3>2 DEF Made, Silent
      <3>3. QED
        BY <3>1, <3>2
    <2>3. QED
      BY <2>1, <2>2 DEF Made
  <1>5. Late'
    <2> SUFFICES ASSUME NEW d \in Command PROVE LateFor(d, thread[d].user)'
      BY DEF Late
    <2>1. CASE d = c
      BY <1>a, <1>d, <1>e, <2>1
         DEF Late, LateFor, Active, Child, Orphan, Packing, Profiling, Writing
    <2>2. CASE d # c
      BY <1>a, <1>d, <1>e, <2>2 DEF Late, LateFor
    <2>3. QED
      BY <2>1, <2>2
  <1>6. Owned'
    <2> SUFFICES ASSUME NEW d \in Command, d \notin met', d \notin misled'
                 PROVE  Finds(d, thread[d].user)'
      BY DEF Owned
    <2>0. d \notin met /\ d \notin misled /\ Finds(d, thread[d].user)
      BY <1>d DEF Owned
    <2>1. CASE d = c
      BY <1>a, <1>d, <1>e, <2>0, <2>1
         DEF Finds, Made, Silent, MadeFor, Active, Child, Orphan, Packing, Profiling, Writing
    <2>2. CASE d # c
      BY <1>a, <1>d, <1>e, <2>0, <2>2 DEF Finds
    <2>3. QED
      BY <2>1, <2>2
  <1>7. LanguageNeedsPack'
    BY <1>a, <1>d, <1>e DEF PackReady, Ready, LanguageNeedsPack
  <1>8. QED
    BY <1>1, <1>2, <1>3, <1>4, <1>5, <1>6, <1>7

\* Refused keeps the invariant.
LEMMA RefusedInd ==
  ASSUME Ind, NEW c \in Command, Refused(c)
  PROVE  Ind'
  <1> USE AccountAssumption DEF Ind, windows
  <1>e. /\ account \in [User -> Command \cup {None}] /\ password \in [User -> Command \cup {None}]
        /\ folder \in [User -> Command \cup {None}] /\ language \in [User -> Language \cup {None}]
        /\ \A d \in Command :
             thread[d].user \in User /\ thread[d].lang \in Language \cup {None}
    BY DEF TypeOK, Thread
  <1>b. thread \in [Command -> Thread]
    BY DEF TypeOK
  <1>a. /\ \A d \in Command \ {c} : thread'[d] = thread[d]
        /\ thread'[c].at = "done"
        /\ thread'[c].user = thread[c].user
        /\ thread'[c].lang = thread[c].lang
        /\ thread'[c].pack = thread[c].pack
        /\ thread'[c].outcome = "failed"
    BY <1>b DEF Refused, Ends, Thread
  <1>f. thread' \in [Command -> Thread]
    <2>1. thread' = [thread EXCEPT ![c].at = "done", ![c].outcome = "failed"]
      BY DEF Refused, Ends
    <2>2. QED
      BY SMT, ZenonT(40), <1>b, <2>1 DEF Thread
  <1>c. faults' \in 0..MaxFaults
    BY FaultCounted DEF Refused, TypeOK
  <1>d. /\ UNCHANGED <<account, password, folder, language, cmdlet, packs, met, misled>>
        /\ thread[c].at \in {"add", "delete", "password"}
    BY DEF Refused, TypeOK
  <1>1. TypeOK'
    BY <1>b, <1>c, <1>d, <1>e, <1>f DEF TypeOK
  <1>h. thread[c].at \in Active /\ thread[c].user \in User
    BY <1>d, <1>e DEF Active, Child, Orphan, Packing, Profiling, Writing
  <1>2. Apart'
    BY <1>a, <1>d, <1>e, <1>h DEF Apart
  <1>3. PackReady'
    <2> SUFFICES ASSUME NEW d \in Command PROVE Ready(d)'
      BY DEF PackReady
    <2>1. CASE d = c
      BY <1>a, <1>d, <1>e, <2>1
         DEF PackReady, Ready, Active, Child, Orphan, Packing, Profiling, Writing
    <2>2. CASE d # c
      BY <1>a, <1>d, <1>e, <2>2 DEF PackReady, Ready
    <2>3. QED
      BY <2>1, <2>2
  <1>4. Made'
    <2>1. ASSUME NEW v \in User PROVE MadeFor(v)'
      <3>1. CASE account'[v] = c
        BY <1>a, <1>d, <1>e, <3>1
           DEF Made, MadeFor, Active, Child, Orphan, Packing, Profiling, Writing
      <3>2. CASE account'[v] # c
        BY <1>a, <1>d, <1>e, <3>2 DEF Made, MadeFor
      <3>3. QED
        BY <3>1, <3>2
    <2>2. ASSUME NEW d \in Command PROVE Silent(d)'
      <3>1. CASE d = c
        BY <1>a, <1>d, <1>e, <3>1
           DEF Made, Silent, Active, Child, Orphan, Packing, Profiling, Writing
      <3>2. CASE d # c
        BY <1>a, <1>d, <1>e, <3>2 DEF Made, Silent
      <3>3. QED
        BY <3>1, <3>2
    <2>3. QED
      BY <2>1, <2>2 DEF Made
  <1>5. Late'
    <2> SUFFICES ASSUME NEW d \in Command PROVE LateFor(d, thread[d].user)'
      BY DEF Late
    <2>1. CASE d = c
      BY <1>a, <1>d, <1>e, <2>1
         DEF Late, LateFor, Active, Child, Orphan, Packing, Profiling, Writing
    <2>2. CASE d # c
      BY <1>a, <1>d, <1>e, <2>2 DEF Late, LateFor
    <2>3. QED
      BY <2>1, <2>2
  <1>6. Owned'
    <2> SUFFICES ASSUME NEW d \in Command, d \notin met', d \notin misled'
                 PROVE  Finds(d, thread[d].user)'
      BY DEF Owned
    <2>0. d \notin met /\ d \notin misled /\ Finds(d, thread[d].user)
      BY <1>d DEF Owned
    <2>1. CASE d = c
      BY <1>a, <1>d, <1>e, <2>0, <2>1
         DEF Finds, Made, Silent, MadeFor, Active, Child, Orphan, Packing, Profiling, Writing
    <2>2. CASE d # c
      BY <1>a, <1>d, <1>e, <2>0, <2>2 DEF Finds
    <2>3. QED
      BY <2>1, <2>2
  <1>7. LanguageNeedsPack'
    BY <1>a, <1>d, <1>e DEF PackReady, Ready, LanguageNeedsPack
  <1>8. QED
    BY <1>1, <1>2, <1>3, <1>4, <1>5, <1>6, <1>7

\* DeleteUser keeps the invariant.
LEMMA DeleteUserInd ==
  ASSUME Ind, NEW c \in Command, DeleteUser(c)
  PROVE  Ind'
  <1> USE AccountAssumption DEF Ind, windows
  <1>e. /\ account \in [User -> Command \cup {None}] /\ password \in [User -> Command \cup {None}]
        /\ folder \in [User -> Command \cup {None}] /\ language \in [User -> Language \cup {None}]
        /\ \A d \in Command :
             thread[d].user \in User /\ thread[d].lang \in Language \cup {None}
    BY DEF TypeOK, Thread
  <1>b. thread \in [Command -> Thread]
    BY DEF TypeOK
  <1>a. /\ \A d \in Command \ {c} : thread'[d] = thread[d]
        /\ thread'[c].at = "done"
        /\ thread'[c].user = thread[c].user
        /\ thread'[c].lang = thread[c].lang
        /\ thread'[c].pack = thread[c].pack
        /\ thread'[c].outcome \in {"failed", "deleted"}
    <2>1. CASE account[thread[c].user] = None
      BY <1>b, <2>1 DEF DeleteUser, Ends, Thread
    <2>2. CASE ~(account[thread[c].user] = None)
      BY <1>b, <2>2 DEF DeleteUser, Ends, Thread
    <2>3. QED
      BY <2>1, <2>2
  <1>f. thread' \in [Command -> Thread]
    <2>1. PICK outcome \in {"failed", "deleted"} :
            thread' = [thread EXCEPT ![c].at = "done", ![c].outcome = outcome]
      BY DEF DeleteUser, Ends
    <2>2. QED
      BY SMT, ZenonT(40), <1>b, <2>1 DEF Thread
  <1>c. faults' \in 0..MaxFaults
    BY DEF DeleteUser, TypeOK
  <1>d. /\ UNCHANGED <<folder, language, cmdlet, packs, met, misled>>
        /\ thread[c].at = "delete"
        /\ account' = [account EXCEPT ![thread[c].user] = None]
        /\ password' = [password EXCEPT ![thread[c].user] = None]
    BY DEF DeleteUser, TypeOK
  <1>1. TypeOK'
    BY <1>b, <1>c, <1>d, <1>e, <1>f DEF TypeOK
  <1>h. thread[c].at \in Active /\ thread[c].user \in User
    BY <1>d, <1>e DEF Active, Child, Orphan, Packing, Profiling, Writing
  <1>2. Apart'
    BY <1>a, <1>d, <1>e, <1>h DEF Apart
  <1>3. PackReady'
    <2> SUFFICES ASSUME NEW d \in Command PROVE Ready(d)'
      BY DEF PackReady
    <2>1. CASE d = c
      BY <1>a, <1>d, <1>e, <2>1
         DEF PackReady, Ready, Active, Child, Orphan, Packing, Profiling, Writing
    <2>2. CASE d # c
      BY <1>a, <1>d, <1>e, <2>2 DEF PackReady, Ready
    <2>3. QED
      BY <2>1, <2>2
  <1>4. Made'
    <2>1. ASSUME NEW v \in User PROVE MadeFor(v)'
      <3>1. CASE account'[v] = c
        BY <1>a, <1>d, <1>e, <3>1
           DEF Made, MadeFor, Active, Child, Orphan, Packing, Profiling, Writing
      <3>2. CASE account'[v] # c
        BY <1>a, <1>d, <1>e, <3>2 DEF Made, MadeFor
      <3>3. QED
        BY <3>1, <3>2
    <2>2. ASSUME NEW d \in Command PROVE Silent(d)'
      <3>1. CASE d = c
        BY <1>a, <1>d, <1>e, <3>1
           DEF Made, Silent, Active, Child, Orphan, Packing, Profiling, Writing
      <3>2. CASE d # c
        BY <1>a, <1>d, <1>e, <3>2 DEF Made, Silent
      <3>3. QED
        BY <3>1, <3>2
    <2>3. QED
      BY <2>1, <2>2 DEF Made
  <1>5. Late'
    <2> SUFFICES ASSUME NEW d \in Command PROVE LateFor(d, thread[d].user)'
      BY DEF Late
    <2>1. CASE d = c
      BY <1>a, <1>d, <1>e, <2>1
         DEF Late, LateFor, Active, Child, Orphan, Packing, Profiling, Writing
    <2>2. CASE d # c
      BY <1>a, <1>d, <1>e, <2>2 DEF Late, LateFor
    <2>3. QED
      BY <2>1, <2>2
  <1>6. Owned'
    <2> SUFFICES ASSUME NEW d \in Command, d \notin met', d \notin misled'
                 PROVE  Finds(d, thread[d].user)'
      BY DEF Owned
    <2>0. d \notin met /\ d \notin misled /\ Finds(d, thread[d].user)
      BY <1>d DEF Owned
    <2>1. CASE d = c
      BY <1>a, <1>d, <1>e, <2>0, <2>1
         DEF Finds, Made, Silent, MadeFor, Active, Child, Orphan, Packing, Profiling, Writing
    <2>2. CASE d # c
      BY <1>a, <1>d, <1>e, <2>0, <2>2 DEF Finds
    <2>3. QED
      BY <2>1, <2>2
  <1>7. LanguageNeedsPack'
    BY <1>a, <1>d, <1>e DEF PackReady, Ready, LanguageNeedsPack
  <1>8. QED
    BY <1>1, <1>2, <1>3, <1>4, <1>5, <1>6, <1>7

\* ChangePassword keeps the invariant.
LEMMA ChangePasswordInd ==
  ASSUME Ind, NEW c \in Command, ChangePassword(c)
  PROVE  Ind'
  <1> USE AccountAssumption DEF Ind, windows
  <1>e. /\ account \in [User -> Command \cup {None}] /\ password \in [User -> Command \cup {None}]
        /\ folder \in [User -> Command \cup {None}] /\ language \in [User -> Language \cup {None}]
        /\ \A d \in Command :
             thread[d].user \in User /\ thread[d].lang \in Language \cup {None}
    BY DEF TypeOK, Thread
  <1>b. thread \in [Command -> Thread]
    BY DEF TypeOK
  <1>a. /\ \A d \in Command \ {c} : thread'[d] = thread[d]
        /\ thread'[c].at = "done"
        /\ thread'[c].user = thread[c].user
        /\ thread'[c].lang = thread[c].lang
        /\ thread'[c].pack = thread[c].pack
        /\ thread'[c].outcome \in {"failed", "changed"}
    <2>1. CASE account[thread[c].user] = None
      BY <1>b, <2>1 DEF ChangePassword, Ends, Thread
    <2>2. CASE ~(account[thread[c].user] = None)
      BY <1>b, <2>2 DEF ChangePassword, Ends, Thread
    <2>3. QED
      BY <2>1, <2>2
  <1>f. thread' \in [Command -> Thread]
    <2>1. PICK outcome \in {"failed", "changed"} :
            thread' = [thread EXCEPT ![c].at = "done", ![c].outcome = outcome]
      BY DEF ChangePassword, Ends
    <2>2. QED
      BY SMT, ZenonT(40), <1>b, <2>1 DEF Thread
  <1>c. faults' \in 0..MaxFaults
    BY DEF ChangePassword, TypeOK
  <1>d. /\ UNCHANGED <<account, folder, language, cmdlet, packs, met, misled>>
        /\ thread[c].at = "password"
        /\ password' = IF account[thread[c].user] = None THEN password
                       ELSE [password EXCEPT ![thread[c].user] = c]
    BY DEF ChangePassword, TypeOK
  <1>1. TypeOK'
    BY <1>b, <1>c, <1>d, <1>e, <1>f DEF TypeOK
  <1>h. thread[c].at \in Active /\ thread[c].user \in User
    BY <1>d, <1>e DEF Active, Child, Orphan, Packing, Profiling, Writing
  <1>2. Apart'
    BY <1>a, <1>d, <1>e, <1>h DEF Apart
  <1>3. PackReady'
    <2> SUFFICES ASSUME NEW d \in Command PROVE Ready(d)'
      BY DEF PackReady
    <2>1. CASE d = c
      BY <1>a, <1>d, <1>e, <2>1
         DEF PackReady, Ready, Active, Child, Orphan, Packing, Profiling, Writing
    <2>2. CASE d # c
      BY <1>a, <1>d, <1>e, <2>2 DEF PackReady, Ready
    <2>3. QED
      BY <2>1, <2>2
  <1>4. Made'
    <2>1. ASSUME NEW v \in User PROVE MadeFor(v)'
      <3>1. CASE account'[v] = c
        BY <1>a, <1>d, <1>e, <3>1
           DEF Made, MadeFor, Active, Child, Orphan, Packing, Profiling, Writing
      <3>2. CASE account'[v] # c
        BY <1>a, <1>d, <1>e, <3>2 DEF Made, MadeFor
      <3>3. QED
        BY <3>1, <3>2
    <2>2. ASSUME NEW d \in Command PROVE Silent(d)'
      <3>1. CASE d = c
        BY <1>a, <1>d, <1>e, <3>1
           DEF Made, Silent, Active, Child, Orphan, Packing, Profiling, Writing
      <3>2. CASE d # c
        BY <1>a, <1>d, <1>e, <3>2 DEF Made, Silent
      <3>3. QED
        BY <3>1, <3>2
    <2>3. QED
      BY <2>1, <2>2 DEF Made
  <1>5. Late'
    <2> SUFFICES ASSUME NEW d \in Command PROVE LateFor(d, thread[d].user)'
      BY DEF Late
    <2>1. CASE d = c
      BY <1>a, <1>d, <1>e, <2>1
         DEF Late, LateFor, Active, Child, Orphan, Packing, Profiling, Writing
    <2>2. CASE d # c
      BY <1>a, <1>d, <1>e, <2>2 DEF Late, LateFor
    <2>3. QED
      BY <2>1, <2>2
  <1>6. Owned'
    <2> SUFFICES ASSUME NEW d \in Command, d \notin met', d \notin misled'
                 PROVE  Finds(d, thread[d].user)'
      BY DEF Owned
    <2>0. d \notin met /\ d \notin misled /\ Finds(d, thread[d].user)
      BY <1>d DEF Owned
    <2>1. CASE d = c
      BY <1>a, <1>d, <1>e, <2>0, <1>h, <2>1
         DEF Finds, Made, Silent, MadeFor, Active, Child, Orphan, Packing, Profiling, Writing
    <2>2. CASE d # c
      BY SMT, ZenonT(40), <1>a, <1>d, <1>e, <2>0, <1>h, <2>2
         DEF Finds, Apart, Active, Child, Orphan, Packing, Profiling, Writing
    <2>3. QED
      BY <2>1, <2>2
  <1>7. LanguageNeedsPack'
    BY <1>a, <1>d, <1>e DEF PackReady, Ready, LanguageNeedsPack
  <1>8. QED
    BY <1>1, <1>2, <1>3, <1>4, <1>5, <1>6, <1>7

\* MakeProfile keeps the invariant.
LEMMA MakeProfileInd ==
  ASSUME Ind, NEW c \in Command, MakeProfile(c)
  PROVE  Ind'
  <1> USE AccountAssumption DEF Ind, windows
  <1>e. /\ account \in [User -> Command \cup {None}] /\ password \in [User -> Command \cup {None}]
        /\ folder \in [User -> Command \cup {None}] /\ language \in [User -> Language \cup {None}]
        /\ \A d \in Command :
             thread[d].user \in User /\ thread[d].lang \in Language \cup {None}
    BY DEF TypeOK, Thread
  <1>b. thread \in [Command -> Thread]
    BY DEF TypeOK
  <1>a. /\ \A d \in Command \ {c} : thread'[d] = thread[d]
        /\ thread'[c].at \in {After(c, "done"), "write", "orphan write"}
        /\ thread'[c].at \in {"write", "orphan write"} => folder'[thread[c].user] # None
        /\ thread'[c].user = thread[c].user
        /\ thread'[c].lang = thread[c].lang
        /\ thread'[c].pack = thread[c].pack
        /\ thread'[c].outcome \in {thread[c].outcome, "unset"}
        /\ thread'[c].at \in {"write", "orphan write"} => thread'[c].outcome = thread[c].outcome
    <2>1. CASE folder'[thread[c].user] = None
      <3>1. thread' = [thread EXCEPT ![c].at = After(c, "done"), ![c].outcome = "unset"]
        BY <2>1 DEF MakeProfile
      <3>2. After(c, "done") \in {"lost", "done"}
        BY DEF After
      <3>3. QED
        BY <1>b, <3>1, <3>2 DEF Thread
    <2>2. CASE ~(folder'[thread[c].user] = None)
      BY SMT, ZenonT(40), <1>b, <2>2 DEF MakeProfile, After, Thread
    <2>3. QED
      BY <2>1, <2>2
  <1>f. thread' \in [Command -> Thread]
    <2>1. After(c, "done") \in {"lost", "done"} /\ {"write", "orphan write"} \subseteq Active
      BY DEF After, Active, Child, Orphan
    <2>2. CASE folder'[thread[c].user] = None
      <3>1. thread' = [thread EXCEPT ![c].at = After(c, "done"), ![c].outcome = "unset"]
        BY <2>2 DEF MakeProfile
      <3>2. QED
        BY SMT, ZenonT(40), <1>b, <2>1, <3>1 DEF Thread
    <2>3. CASE folder'[thread[c].user] # None
      <3>1. thread' = [thread EXCEPT
              ![c].at = IF @ = "profile" THEN "write" ELSE "orphan write"]
        BY <2>3 DEF MakeProfile
      <3>2. QED
        BY SMT, ZenonT(40), <1>b, <2>1, <3>1 DEF Thread
    <2>4. QED
      BY <2>2, <2>3
  <1>c. faults' \in 0..MaxFaults
    BY DEF MakeProfile, TypeOK
  <1>d. /\ UNCHANGED <<account, password, language, cmdlet, packs, met, misled>>
        /\ thread[c].at \in Profiling
        /\ folder' = MadeFolder(c)
    BY DEF MakeProfile, Profiling, TypeOK
  <1>1. TypeOK'
    BY <1>b, <1>c, <1>d, <1>e, <1>f DEF TypeOK, MadeFolder
  <1>h. thread[c].at \in Active /\ thread[c].user \in User
    BY <1>d, <1>e DEF Active, Child, Orphan, Packing, Profiling, Writing
  <1>2. Apart'
    BY SMT, ZenonT(40), <1>a, <1>d, <1>e, <1>h DEF Apart
  <1>3. PackReady'
    <2> SUFFICES ASSUME NEW d \in Command PROVE Ready(d)'
      BY DEF PackReady
    <2>1. CASE d = c
      BY <1>a, <1>d, <1>e, <2>1
         DEF PackReady, Ready, After, MadeFolder, LogsOn, Active, Child, Orphan, Packing,
             Profiling, Writing
    <2>2. CASE d # c
      BY <1>a, <1>d, <1>e, <2>2 DEF PackReady, Ready
    <2>3. QED
      BY <2>1, <2>2
  <1>4. Made'
    <2>1. ASSUME NEW v \in User PROVE MadeFor(v)'
      <3>1. CASE account'[v] = c
        BY <1>a, <1>d, <1>e, <3>1
           DEF Made, MadeFor, After, MadeFolder, LogsOn, Active, Child, Orphan, Packing,
               Profiling, Writing
      <3>2. CASE account'[v] # c
        BY <1>a, <1>d, <1>e, <3>2 DEF Made, MadeFor
      <3>3. QED
        BY <3>1, <3>2
    <2>2. ASSUME NEW d \in Command PROVE Silent(d)'
      <3>1. CASE d = c
        BY <1>a, <1>d, <1>e, <3>1
           DEF Made, Silent, After, MadeFolder, LogsOn, Active, Child, Orphan, Packing,
               Profiling, Writing
      <3>2. CASE d # c
        BY <1>a, <1>d, <1>e, <3>2 DEF Made, Silent
      <3>3. QED
        BY <3>1, <3>2
    <2>3. QED
      BY <2>1, <2>2 DEF Made
  <1>5. Late'
    <2> SUFFICES ASSUME NEW d \in Command PROVE LateFor(d, thread[d].user)'
      BY DEF Late
    <2>1. CASE d = c
      BY <1>a, <1>d, <1>e, <2>1
         DEF Late, LateFor, After, MadeFolder, LogsOn, Active, Child, Orphan, Packing,
             Profiling, Writing
    <2>2. CASE d # c
      BY <1>a, <1>d, <1>e, <2>2 DEF Late, LateFor
    <2>3. QED
      BY <2>1, <2>2
  <1>6. Owned'
    <2> SUFFICES ASSUME NEW d \in Command, d \notin met', d \notin misled'
                 PROVE  Finds(d, thread[d].user)'
      BY DEF Owned
    <2>0. d \notin met /\ d \notin misled /\ Finds(d, thread[d].user)
      BY <1>d DEF Owned
    <2>1. CASE d = c
      BY <1>a, <1>d, <1>e, <2>0, <2>1
         DEF Finds, Made, Silent, MadeFor, After, MadeFolder, LogsOn, Active, Child, Orphan,
             Packing, Profiling, Writing
    <2>2. CASE d # c
      BY <1>a, <1>d, <1>e, <2>0, <2>2 DEF Finds, Late, LateFor, MadeFolder, LogsOn
    <2>3. QED
      BY <2>1, <2>2
  <1>7. LanguageNeedsPack'
    BY <1>a, <1>d, <1>e DEF PackReady, Ready, LanguageNeedsPack
  <1>8. QED
    BY <1>1, <1>2, <1>3, <1>4, <1>5, <1>6, <1>7

\* WriteLanguage keeps the invariant.
LEMMA WriteLanguageInd ==
  ASSUME Ind, NEW c \in Command, WriteLanguage(c)
  PROVE  Ind'
  <1> USE AccountAssumption DEF Ind, windows
  <1>e. /\ account \in [User -> Command \cup {None}] /\ password \in [User -> Command \cup {None}]
        /\ folder \in [User -> Command \cup {None}] /\ language \in [User -> Language \cup {None}]
        /\ \A d \in Command :
             thread[d].user \in User /\ thread[d].lang \in Language \cup {None}
    BY DEF TypeOK, Thread
  <1>b. thread \in [Command -> Thread]
    BY DEF TypeOK
  <1>a. /\ \A d \in Command \ {c} : thread'[d] = thread[d]
        /\ thread'[c].at = After(c, "done")
        /\ thread'[c].user = thread[c].user
        /\ thread'[c].lang = thread[c].lang
        /\ thread'[c].pack = thread[c].pack
        /\ thread'[c].outcome = "language"
    BY <1>b DEF WriteLanguage, After, Thread
  <1>f. thread' \in [Command -> Thread]
    <2>1. thread' = [thread EXCEPT ![c].at = After(c, "done"), ![c].outcome = "language"]
      BY DEF WriteLanguage
    <2>2. After(c, "done") \in {"lost", "done"}
      BY DEF After
    <2>3. QED
      BY <1>b, <2>1, <2>2 DEF Thread
  <1>c. faults' \in 0..MaxFaults
    BY DEF WriteLanguage, TypeOK
  <1>d. /\ UNCHANGED <<account, password, folder, cmdlet, packs, met, misled>>
        /\ thread[c].at \in Writing
        /\ language' = [language EXCEPT ![thread[c].user] = thread[c].lang]
    BY DEF WriteLanguage, Packing, Profiling, Writing, TypeOK
  <1>1. TypeOK'
    BY <1>b, <1>c, <1>d, <1>e, <1>f DEF TypeOK
  <1>h. thread[c].at \in Active /\ thread[c].user \in User
    BY <1>d, <1>e DEF Active, Child, Orphan, Packing, Profiling, Writing
  <1>2. Apart'
    BY <1>a, <1>d, <1>e, <1>h DEF Apart
  <1>3. PackReady'
    <2> SUFFICES ASSUME NEW d \in Command PROVE Ready(d)'
      BY DEF PackReady
    <2>1. CASE d = c
      BY <1>a, <1>d, <1>e, <2>1
         DEF PackReady, Ready, After, Active, Child, Orphan, Packing, Profiling, Writing
    <2>2. CASE d # c
      BY <1>a, <1>d, <1>e, <2>2 DEF PackReady, Ready
    <2>3. QED
      BY <2>1, <2>2
  <1>4. Made'
    <2>1. ASSUME NEW v \in User PROVE MadeFor(v)'
      <3>1. CASE account'[v] = c
        BY <1>a, <1>d, <1>e, <3>1
           DEF Made, MadeFor, After, Active, Child, Orphan, Packing, Profiling, Writing
      <3>2. CASE account'[v] # c
        BY <1>a, <1>d, <1>e, <3>2 DEF Made, MadeFor
      <3>3. QED
        BY <3>1, <3>2
    <2>2. ASSUME NEW d \in Command PROVE Silent(d)'
      <3>1. CASE d = c
        BY <1>a, <1>d, <1>e, <3>1
           DEF Made, Silent, After, Active, Child, Orphan, Packing, Profiling, Writing
      <3>2. CASE d # c
        BY <1>a, <1>d, <1>e, <3>2 DEF Made, Silent
      <3>3. QED
        BY <3>1, <3>2
    <2>3. QED
      BY <2>1, <2>2 DEF Made
  <1>5. Late'
    <2> SUFFICES ASSUME NEW d \in Command PROVE LateFor(d, thread[d].user)'
      BY DEF Late
    <2>1. CASE d = c
      BY <1>a, <1>d, <1>e, <2>1
         DEF Late, LateFor, After, Active, Child, Orphan, Packing, Profiling, Writing
    <2>2. CASE d # c
      BY <1>a, <1>d, <1>e, <2>2 DEF Late, LateFor
    <2>3. QED
      BY <2>1, <2>2
  <1>6. Owned'
    <2> SUFFICES ASSUME NEW d \in Command, d \notin met', d \notin misled'
                 PROVE  Finds(d, thread[d].user)'
      BY DEF Owned
    <2>0. d \notin met /\ d \notin misled /\ Finds(d, thread[d].user)
      BY <1>d DEF Owned
    <2>1. CASE d = c
      BY <1>a, <1>d, <1>e, <2>0, <2>1
         DEF Finds, Made, Silent, MadeFor, After, Active, Child, Orphan, Packing, Profiling,
             Writing
    <2>2. CASE d # c
      BY <1>a, <1>d, <1>e, <2>0, <2>2 DEF Finds, Late, LateFor
    <2>3. QED
      BY <2>1, <2>2
  <1>7. LanguageNeedsPack'
    BY <1>a, <1>d, <1>e DEF PackReady, Ready, LanguageNeedsPack
  <1>8. QED
    BY <1>1, <1>2, <1>3, <1>4, <1>5, <1>6, <1>7

\* LoadFails keeps the invariant.
LEMMA LoadFailsInd ==
  ASSUME Ind, NEW c \in Command, LoadFails(c)
  PROVE  Ind'
  <1> USE AccountAssumption DEF Ind, windows
  <1>e. /\ account \in [User -> Command \cup {None}] /\ password \in [User -> Command \cup {None}]
        /\ folder \in [User -> Command \cup {None}] /\ language \in [User -> Language \cup {None}]
        /\ \A d \in Command :
             thread[d].user \in User /\ thread[d].lang \in Language \cup {None}
    BY DEF TypeOK, Thread
  <1>b. thread \in [Command -> Thread]
    BY DEF TypeOK
  <1>a. /\ \A d \in Command \ {c} : thread'[d] = thread[d]
        /\ thread'[c].at = After(c, "done")
        /\ thread'[c].user = thread[c].user
        /\ thread'[c].lang = thread[c].lang
        /\ thread'[c].pack = thread[c].pack
        /\ thread'[c].outcome = "language"
    BY <1>b DEF LoadFails, After, Thread
  <1>f. thread' \in [Command -> Thread]
    <2>1. thread' = [thread EXCEPT ![c].at = After(c, "done"), ![c].outcome = "language"]
      BY DEF LoadFails
    <2>2. After(c, "done") \in {"lost", "done"}
      BY DEF After
    <2>3. QED
      BY <1>b, <2>1, <2>2 DEF Thread
  <1>c. faults' \in 0..MaxFaults
    BY FaultCounted DEF LoadFails, TypeOK
  <1>d. /\ UNCHANGED <<account, password, folder, language, cmdlet, packs, met>>
        /\ thread[c].at \in Writing
        /\ misled' = misled \cup {c}
    BY DEF LoadFails, Packing, Profiling, Writing, TypeOK
  <1>1. TypeOK'
    BY <1>b, <1>c, <1>d, <1>e, <1>f DEF TypeOK
  <1>h. thread[c].at \in Active /\ thread[c].user \in User
    BY <1>d, <1>e DEF Active, Child, Orphan, Packing, Profiling, Writing
  <1>2. Apart'
    BY <1>a, <1>d, <1>e, <1>h DEF Apart
  <1>3. PackReady'
    <2> SUFFICES ASSUME NEW d \in Command PROVE Ready(d)'
      BY DEF PackReady
    <2>1. CASE d = c
      BY <1>a, <1>d, <1>e, <2>1
         DEF PackReady, Ready, After, Active, Child, Orphan, Packing, Profiling, Writing
    <2>2. CASE d # c
      BY <1>a, <1>d, <1>e, <2>2 DEF PackReady, Ready
    <2>3. QED
      BY <2>1, <2>2
  <1>4. Made'
    <2>1. ASSUME NEW v \in User PROVE MadeFor(v)'
      <3>1. CASE account'[v] = c
        BY <1>a, <1>d, <1>e, <3>1
           DEF Made, MadeFor, After, Active, Child, Orphan, Packing, Profiling, Writing
      <3>2. CASE account'[v] # c
        BY <1>a, <1>d, <1>e, <3>2 DEF Made, MadeFor
      <3>3. QED
        BY <3>1, <3>2
    <2>2. ASSUME NEW d \in Command PROVE Silent(d)'
      <3>1. CASE d = c
        BY <1>a, <1>d, <1>e, <3>1
           DEF Made, Silent, After, Active, Child, Orphan, Packing, Profiling, Writing
      <3>2. CASE d # c
        BY <1>a, <1>d, <1>e, <3>2 DEF Made, Silent
      <3>3. QED
        BY <3>1, <3>2
    <2>3. QED
      BY <2>1, <2>2 DEF Made
  <1>5. Late'
    <2> SUFFICES ASSUME NEW d \in Command PROVE LateFor(d, thread[d].user)'
      BY DEF Late
    <2>1. CASE d = c
      BY <1>a, <1>d, <1>e, <2>1
         DEF Late, LateFor, After, Active, Child, Orphan, Packing, Profiling, Writing
    <2>2. CASE d # c
      BY <1>a, <1>d, <1>e, <2>2 DEF Late, LateFor
    <2>3. QED
      BY <2>1, <2>2
  <1>6. Owned'
    <2> SUFFICES ASSUME NEW d \in Command, d \notin met', d \notin misled'
                 PROVE  Finds(d, thread[d].user)'
      BY DEF Owned
    <2>0. d \notin met /\ d \notin misled /\ Finds(d, thread[d].user)
      BY <1>d DEF Owned
    <2>1. CASE d = c
      BY <1>a, <1>d, <1>e, <2>0, <2>1
         DEF Finds, Made, Silent, MadeFor, After, Active, Child, Orphan, Packing, Profiling,
             Writing
    <2>2. CASE d # c
      BY <1>a, <1>d, <1>e, <2>0, <2>2 DEF Finds
    <2>3. QED
      BY <2>1, <2>2
  <1>7. LanguageNeedsPack'
    BY <1>a, <1>d, <1>e DEF PackReady, Ready, LanguageNeedsPack
  <1>8. QED
    BY <1>1, <1>2, <1>3, <1>4, <1>5, <1>6, <1>7

\* SetupFails keeps the invariant.
LEMMA SetupFailsInd ==
  ASSUME Ind, NEW c \in Command, SetupFails(c)
  PROVE  Ind'
  <1> USE AccountAssumption DEF Ind, windows
  <1>e. /\ account \in [User -> Command \cup {None}] /\ password \in [User -> Command \cup {None}]
        /\ folder \in [User -> Command \cup {None}] /\ language \in [User -> Language \cup {None}]
        /\ \A d \in Command :
             thread[d].user \in User /\ thread[d].lang \in Language \cup {None}
    BY DEF TypeOK, Thread
  <1>b. thread \in [Command -> Thread]
    BY DEF TypeOK
  <1>a. /\ \A d \in Command \ {c} : thread'[d] = thread[d]
        /\ thread'[c].at = After(c, "done")
        /\ thread'[c].user = thread[c].user
        /\ thread'[c].lang = thread[c].lang
        /\ thread'[c].pack = thread[c].pack
        /\ thread'[c].outcome = "unset"
    BY <1>b DEF SetupFails, After, Thread
  <1>f. thread' \in [Command -> Thread]
    <2>1. thread' = [thread EXCEPT ![c].at = After(c, "done"), ![c].outcome = "unset"]
      BY DEF SetupFails
    <2>2. After(c, "done") \in {"lost", "done"}
      BY DEF After
    <2>3. QED
      BY <1>b, <2>1, <2>2 DEF Thread
  <1>c. faults' \in 0..MaxFaults
    BY FaultCounted DEF SetupFails, TypeOK
  <1>d. /\ UNCHANGED <<account, password, folder, cmdlet, packs, met, misled>>
        /\ thread[c].at \in Profiling \cup Writing
        /\ \/ UNCHANGED language
           \/ /\ thread[c].at \in Writing
              /\ language' = [language EXCEPT ![thread[c].user] = thread[c].lang]
    BY DEF SetupFails, Packing, Profiling, Writing, TypeOK
  <1>1. TypeOK'
    BY <1>b, <1>c, <1>d, <1>e, <1>f DEF TypeOK
  <1>h. thread[c].at \in Active /\ thread[c].user \in User
    BY <1>d, <1>e DEF Active, Child, Orphan, Packing, Profiling, Writing
  <1>2. Apart'
    BY <1>a, <1>d, <1>e, <1>h DEF Apart
  <1>3. PackReady'
    <2> SUFFICES ASSUME NEW d \in Command PROVE Ready(d)'
      BY DEF PackReady
    <2>1. CASE d = c
      BY <1>a, <1>d, <1>e, <2>1
         DEF PackReady, Ready, After, Active, Child, Orphan, Packing, Profiling, Writing
    <2>2. CASE d # c
      BY <1>a, <1>d, <1>e, <2>2 DEF PackReady, Ready
    <2>3. QED
      BY <2>1, <2>2
  <1>4. Made'
    <2>1. ASSUME NEW v \in User PROVE MadeFor(v)'
      <3>1. CASE account'[v] = c
        BY <1>a, <1>d, <1>e, <3>1
           DEF Made, MadeFor, After, Active, Child, Orphan, Packing, Profiling, Writing
      <3>2. CASE account'[v] # c
        BY <1>a, <1>d, <1>e, <3>2 DEF Made, MadeFor
      <3>3. QED
        BY <3>1, <3>2
    <2>2. ASSUME NEW d \in Command PROVE Silent(d)'
      <3>1. CASE d = c
        BY <1>a, <1>d, <1>e, <3>1
           DEF Made, Silent, After, Active, Child, Orphan, Packing, Profiling, Writing
      <3>2. CASE d # c
        BY <1>a, <1>d, <1>e, <3>2 DEF Made, Silent
      <3>3. QED
        BY <3>1, <3>2
    <2>3. QED
      BY <2>1, <2>2 DEF Made
  <1>5. Late'
    <2> SUFFICES ASSUME NEW d \in Command PROVE LateFor(d, thread[d].user)'
      BY DEF Late
    <2>1. CASE d = c
      BY <1>a, <1>d, <1>e, <2>1
         DEF Late, LateFor, After, Active, Child, Orphan, Packing, Profiling, Writing
    <2>2. CASE d # c
      BY <1>a, <1>d, <1>e, <2>2 DEF Late, LateFor
    <2>3. QED
      BY <2>1, <2>2
  <1>6. Owned'
    <2> SUFFICES ASSUME NEW d \in Command, d \notin met', d \notin misled'
                 PROVE  Finds(d, thread[d].user)'
      BY DEF Owned
    <2>0. d \notin met /\ d \notin misled /\ Finds(d, thread[d].user)
      BY <1>d DEF Owned
    <2>1. CASE d = c
      BY <1>a, <1>d, <1>e, <2>0, <2>1
         DEF Finds, Made, Silent, MadeFor, After, Active, Child, Orphan, Packing, Profiling,
             Writing
    <2>2. CASE d # c
      BY <1>a, <1>d, <1>e, <2>0, <2>2 DEF Finds, Late, LateFor
    <2>3. QED
      BY <2>1, <2>2
  <1>7. LanguageNeedsPack'
    BY <1>a, <1>d, <1>e DEF PackReady, Ready, LanguageNeedsPack
  <1>8. QED
    BY <1>1, <1>2, <1>3, <1>4, <1>5, <1>6, <1>7

\* ClientEnds keeps the invariant.
LEMMA ClientEndsInd ==
  ASSUME Ind, ClientEnds
  PROVE  Ind'
  <1> USE AccountAssumption DEF Ind, windows
  <1>e. /\ account \in [User -> Command \cup {None}] /\ password \in [User -> Command \cup {None}]
        /\ folder \in [User -> Command \cup {None}] /\ language \in [User -> Language \cup {None}]
        /\ \A d \in Command :
             thread[d].user \in User /\ thread[d].lang \in Language \cup {None}
    BY DEF TypeOK, Thread
  <1>b. thread \in [Command -> Thread]
    BY DEF TypeOK
  <1>a. \A c \in Command :
        /\ thread'[c].user = thread[c].user /\ thread'[c].lang = thread[c].lang
        /\ thread'[c].pack = thread[c].pack /\ thread'[c].outcome = thread[c].outcome
        /\ thread[c].at \notin Active => thread'[c].at = thread[c].at
        /\ thread[c].at \in Active => thread'[c].at \in {"lost", Orphaned(thread[c].at)}
    <2>1. PICK early \in SUBSET Command :
            thread' = [c \in Command |->
              IF thread[c].at \notin Active THEN thread[c]
              ELSE [thread[c] EXCEPT !.at = IF c \in early THEN "lost" ELSE Orphaned(@)]]
      BY DEF ClientEnds
    <2>2. QED
      BY <1>b, <2>1 DEF Thread
  <1>f. thread' \in [Command -> Thread]
    <2>1. \A d \in Command : Orphaned(thread[d].at) \in {"lost"} \cup Active \/ thread[d].at \notin Active
      BY Orphans DEF Active
    <2>2. PICK early \in SUBSET Command :
            thread' = [d \in Command |->
              IF thread[d].at \notin Active THEN thread[d]
              ELSE [thread[d] EXCEPT !.at = IF d \in early THEN "lost" ELSE Orphaned(@)]]
      BY DEF ClientEnds
    <2>3. QED
      BY SMT, ZenonT(40), <1>b, <2>1, <2>2 DEF Thread
  <1>g. \A d \in Command :
        /\ thread'[d].at \in Active => thread[d].at \in Active
        /\ thread'[d].at \in {"new"} \cup Active => thread[d].at \in {"new"} \cup Active
        /\ thread'[d].at \in Packing => thread[d].at \in Packing
        /\ thread'[d].at \in Profiling => thread[d].at \in Profiling
        /\ thread'[d].at \in Writing => thread[d].at \in Writing
        /\ thread'[d].at \in {"new", "add"} \cup Packing => thread[d].at \in {"new", "add"} \cup Packing
        /\ thread'[d].at \in {"add"} \cup Profiling \cup Writing
             => thread[d].at \in {"add"} \cup Profiling \cup Writing
    <2> TAKE d \in Command
    <2>1. "lost" \notin {"new", "add"} \cup Active \cup Packing \cup Profiling \cup Writing
      BY DEF Active, Child, Orphan, Packing, Profiling, Writing
    <2>2. CASE thread[d].at \notin Active
      BY <1>a, <2>2
    <2>3. CASE thread[d].at \in Active
      <3>1. CASE thread'[d].at = "lost"
        BY <2>1, <3>1
      <3>2. CASE thread'[d].at = Orphaned(thread[d].at)
        <4> DEFINE place == thread[d].at
        <4>1. /\ Orphaned(place) \notin {"new", "add"}
              /\ Orphaned(place) \in Packing => place \in Packing
              /\ Orphaned(place) \in Profiling => place \in Profiling
              /\ Orphaned(place) \in Writing => place \in Writing
          BY <2>3, Orphans
        <4>2. QED
          BY <2>3, <3>2, <4>1
      <3>3. QED
        BY <1>a, <2>3, <3>1, <3>2
    <2>4. QED
      BY <2>2, <2>3
  <1>c. faults' \in 0..MaxFaults
    BY FaultCounted DEF ClientEnds, TypeOK
  <1>d. UNCHANGED <<account, password, folder, language, cmdlet, packs, met, misled>>
    BY DEF ClientEnds, TypeOK
  <1>1. TypeOK'
    BY <1>b, <1>c, <1>d, <1>e, <1>f DEF TypeOK
  <1>2. Apart'
    BY <1>a, <1>d, <1>e, <1>g DEF Apart
  <1>3. PackReady'
    <2> SUFFICES ASSUME NEW d \in Command PROVE Ready(d)'
      BY DEF PackReady
    <2>1. QED
      BY <1>a, <1>d, <1>e, <1>g DEF PackReady, Ready
  <1>4. Made'
    <2>1. ASSUME NEW v \in User PROVE MadeFor(v)'
      BY <1>a, <1>d, <1>e, <1>g DEF Made, MadeFor
    <2>2. ASSUME NEW d \in Command PROVE Silent(d)'
      BY <1>a, <1>d, <1>e, <1>g DEF Made, Silent
    <2>3. QED
      BY <2>1, <2>2 DEF Made
  <1>5. Late'
    <2> SUFFICES ASSUME NEW d \in Command PROVE LateFor(d, thread[d].user)'
      BY DEF Late
    <2>1. QED
      BY <1>a, <1>d, <1>e, <1>g DEF Late, LateFor
  <1>6. Owned'
    <2> SUFFICES ASSUME NEW d \in Command, d \notin met', d \notin misled'
                 PROVE  Finds(d, thread[d].user)'
      BY DEF Owned
    <2>0. d \notin met /\ d \notin misled /\ Finds(d, thread[d].user)
      BY <1>d DEF Owned
    <2>1. QED
      BY <1>a, <1>d, <1>e, <1>g, <2>0 DEF Finds
  <1>7. LanguageNeedsPack'
    BY <1>a, <1>d, <1>e, <1>g DEF PackReady, Ready, LanguageNeedsPack
  <1>8. QED
    BY <1>1, <1>2, <1>3, <1>4, <1>5, <1>6, <1>7

\* PowerCut keeps the invariant.
LEMMA PowerCutInd ==
  ASSUME Ind, PowerCut
  PROVE  Ind'
  <1> USE AccountAssumption DEF Ind, windows
  <1>e. /\ account \in [User -> Command \cup {None}] /\ password \in [User -> Command \cup {None}]
        /\ folder \in [User -> Command \cup {None}] /\ language \in [User -> Language \cup {None}]
        /\ \A d \in Command :
             thread[d].user \in User /\ thread[d].lang \in Language \cup {None}
    BY DEF TypeOK, Thread
  <1>b. thread \in [Command -> Thread]
    BY DEF TypeOK
  <1>a. \A c \in Command :
        /\ thread'[c].user = thread[c].user /\ thread'[c].lang = thread[c].lang
        /\ thread'[c].pack = thread[c].pack /\ thread'[c].outcome = thread[c].outcome
        /\ thread[c].at \notin Active => thread'[c].at = thread[c].at
        /\ thread[c].at \in Active => thread'[c].at \in {"lost"}
    BY <1>b DEF PowerCut, Thread
  <1>f. thread' \in [Command -> Thread]
    BY SMT, ZenonT(40), <1>b DEF PowerCut, Thread, Active, Child, Orphan
  <1>g. \A c \in Command :
        /\ thread'[c].at \in Active => thread[c].at \in Active
        /\ thread'[c].at \in {"new"} \cup Active => thread[c].at \in {"new"} \cup Active
        /\ thread'[c].at \in Packing => thread[c].at \in Packing
        /\ thread'[c].at \in Profiling => thread[c].at \in Profiling
        /\ thread'[c].at \in Writing => thread[c].at \in Writing
        /\ thread'[c].at \in {"new", "add"} \cup Packing => thread[c].at \in {"new", "add"} \cup Packing
        /\ thread'[c].at \in {"add"} \cup Profiling \cup Writing
             => thread[c].at \in {"add"} \cup Profiling \cup Writing
    BY <1>a DEF Active, Child, Orphan, Packing, Profiling, Writing
  <1>c. faults' \in 0..MaxFaults
    BY FaultCounted DEF PowerCut, TypeOK
  <1>d. UNCHANGED <<account, password, folder, language, cmdlet, packs, met, misled>>
    BY DEF PowerCut, TypeOK
  <1>1. TypeOK'
    BY <1>b, <1>c, <1>d, <1>e, <1>f DEF TypeOK
  <1>2. Apart'
    BY <1>a, <1>d, <1>e, <1>g DEF Apart
  <1>3. PackReady'
    <2> SUFFICES ASSUME NEW d \in Command PROVE Ready(d)'
      BY DEF PackReady
    <2>1. QED
      BY <1>a, <1>d, <1>e, <1>g DEF PackReady, Ready
  <1>4. Made'
    <2>1. ASSUME NEW v \in User PROVE MadeFor(v)'
      BY <1>a, <1>d, <1>e, <1>g DEF Made, MadeFor
    <2>2. ASSUME NEW d \in Command PROVE Silent(d)'
      BY <1>a, <1>d, <1>e, <1>g DEF Made, Silent
    <2>3. QED
      BY <2>1, <2>2 DEF Made
  <1>5. Late'
    <2> SUFFICES ASSUME NEW d \in Command PROVE LateFor(d, thread[d].user)'
      BY DEF Late
    <2>1. QED
      BY <1>a, <1>d, <1>e, <1>g DEF Late, LateFor
  <1>6. Owned'
    <2> SUFFICES ASSUME NEW d \in Command, d \notin met', d \notin misled'
                 PROVE  Finds(d, thread[d].user)'
      BY DEF Owned
    <2>0. d \notin met /\ d \notin misled /\ Finds(d, thread[d].user)
      BY <1>d DEF Owned
    <2>1. QED
      BY <1>a, <1>d, <1>e, <1>g, <2>0 DEF Finds
  <1>7. LanguageNeedsPack'
    BY <1>a, <1>d, <1>e, <1>g DEF PackReady, Ready, LanguageNeedsPack
  <1>8. QED
    BY <1>1, <1>2, <1>3, <1>4, <1>5, <1>6, <1>7

-----------------------------------------------------------------------------
(* Theorems *)

\* Every step keeps the invariant.
LEMMA NextInd == ASSUME Ind, [Next]_vars PROVE Ind'
  <1>1. ASSUME NEW c \in Command, Start(c) PROVE Ind'
    BY <1>1, BeginInd DEF Start, BeginCreate, BeginDelete, BeginPassword
  <1>2. ASSUME NEW c \in Command, Step(c) PROVE Ind'
    BY <1>2, InstallLanguagePackInd, PackFailsInd, AddUserInd, NameTakenInd, RefusedInd,
       DeleteUserInd, ChangePasswordInd, MakeProfileInd, WriteLanguageInd, LoadFailsInd,
       SetupFailsInd
    DEF Step
  <1>3. CASE UNCHANGED vars
    BY <1>3
    DEF vars, windows, Ind, TypeOK, Apart, PackReady, Ready, Made, MadeFor, Silent, Late,
        LateFor, Owned, Finds, LanguageNeedsPack
  <1>4. QED
    BY <1>1, <1>2, <1>3, ClientEndsInd, PowerCutInd DEF Next

\* The inductive invariant holds in every state.
THEOREM Invariant == Spec => []Ind
  BY InitInd, NextInd, PTL DEF Spec

\* All variables keep their types.
THEOREM TypeCorrect == Spec => []TypeOK
  <1>1. Ind => TypeOK
    BY DEF Ind
  <1>2. QED
    BY <1>1, Invariant, PTL

\* The order of manage_account, pack before account before profile, and its test of
\* the result keep a profile from a language that Windows cannot show.
THEOREM PacksFirst == Spec => []LanguageNeedsPack
  <1>1. Ind => LanguageNeedsPack
    BY DEF Ind
  <1>2. QED
    BY <1>1, Invariant, PTL

\* A display language that was set in the folder of a new account stays: no command
\* for its user that comes later and no child process left over from before changes it.
THEOREM LanguageStays == Spec => []LanguageKept
  <1>1. Ind => LanguageKept
    BY DEF Ind, TypeOK, Thread, Owned, Finds, LanguageKept, ProfileLanguage
  <1>2. QED
    BY <1>1, Invariant, PTL
=============================================================================
