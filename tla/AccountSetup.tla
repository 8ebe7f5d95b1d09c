----------------------------- MODULE AccountSetup -----------------------------
EXTENDS Integers, FiniteSets

(***************************************************************************)
(* The account commands on one PC.  Every command runs in a thread of its  *)
(* own and works on Windows through child processes: creating an account   *)
(* with a display language installs the language pack, adds the user,      *)
(* makes Windows create the profile and writes the language into the file  *)
(* NTUSER.DAT of the folder C:\Users\<name>.  Commands for one user may    *)
(* overlap, accounts are deleted without their folder, and the client may  *)
(* end at any time: its threads end with it, the child processes go on.    *)
(* An account and its password are named by the command that made them.    *)
(* Nobody logs on to an account while a command works on it.               *)
(***************************************************************************)
CONSTANTS
  Command,      \* commands handed out to the client
  User,         \* user names
  Language,     \* display languages
  None,         \* no language, no account, no folder
  MaxFaults     \* bound: failed or timed out child processes, ends of the client

ASSUME AccountAssumption ==
  /\ None \notin Command /\ None \notin Language
  /\ User # {}
  /\ MaxFaults \in Nat

VARIABLES
  account,   \* account[u]: the account of the name u
  password,  \* password[u]: the command that set the password of u
  folder,    \* folder[u]: the account whose profile C:\Users\u is
  language,  \* language[u]: the language in C:\Users\u\NTUSER.DAT
  cmdlet,    \* whether Windows has Install-Language
  packs,     \* the language packs installed
  thread,    \* thread[c]: the thread of command c
  met,       \* history: commands that overlapped with another one for their user
  misled,    \* history: commands whose setup script overlooked something
  faults     \* history: faults so far

windows == <<account, password, folder, language, packs>>
vars == <<account, password, folder, language, cmdlet, packs, thread, met, misled, faults>>

-----------------------------------------------------------------------------
(* Data *)

SomeUser == CHOOSE u \in User : TRUE

\* Places of a thread while a child process of its works, of a child process whose
\* client is gone, and of a thread with more to do.
Child == {"pack", "profile", "write"}
Orphan == {"orphan pack", "orphan profile", "orphan write"}
Active == {"add", "delete", "password"} \cup Child \cup Orphan

Thread == [at : {"new", "done", "lost"} \cup Active,
           user : User, lang : Language \cup {None}, pack : {"ok", "missing"},
           outcome : {"none", "made", "language", "no pack", "unset",
                      "deleted", "changed", "failed"}]

TypeOK ==
  /\ account \in [User -> Command \cup {None}]
  /\ password \in [User -> Command \cup {None}]
  /\ folder \in [User -> Command \cup {None}]
  /\ language \in [User -> Language \cup {None}]
  /\ cmdlet \in BOOLEAN
  /\ packs \subseteq Language
  /\ thread \in [Command -> Thread]
  /\ met \subseteq Command
  /\ misled \subseteq Command
  /\ faults \in 0..MaxFaults

Init ==
  /\ account = [u \in User |-> None]
  /\ password = [u \in User |-> None]
  /\ folder = [u \in User |-> None]
  /\ language = [u \in User |-> None]
  /\ cmdlet \in BOOLEAN
  /\ packs = {}
  /\ thread = [c \in Command |-> [at |-> "new", user |-> SomeUser, lang |-> None,
                                  pack |-> "ok", outcome |-> "none"]]
  /\ met = {}
  /\ misled = {}
  /\ faults = 0

Fault == faults < MaxFaults /\ faults' = faults + 1

-----------------------------------------------------------------------------
(* The poll loop starts a thread for each command *)

Rivals(u) == {d \in Command : thread[d].at \in Active /\ thread[d].user = u}

Begin(c, place, u, l) ==
  /\ thread[c].at = "new"
  /\ thread' = [thread EXCEPT ![c].at = place, ![c].user = u, ![c].lang = l]
  /\ met' = IF Rivals(u) = {} THEN met ELSE met \cup Rivals(u) \cup {c}
  /\ UNCHANGED <<windows, cmdlet, misled, faults>>

\* Mutant: the pack is installed without looking whether a language was given.
BeginCreateAlways(c, u, l) == Begin(c, "pack", u, l)

\* The language pack comes first, so that it is there when the account is.
BeginCreate(c, u, l) == Begin(c, IF l = None THEN "add" ELSE "pack", u, l)

BeginDelete(c, u) == Begin(c, "delete", u, None)

BeginPassword(c, u) == Begin(c, "password", u, None)

-----------------------------------------------------------------------------
(* _install_language_pack *)

\* What becomes of a thread when a child process ends; of an orphan, nothing.
After(c, place) == IF thread[c].at \in Orphan THEN "lost" ELSE place

\* Mutant: SKIP does not count as success.
InstallUnskipped(c) ==
  /\ thread[c].at \in {"pack", "orphan pack"}
  /\ packs' = IF cmdlet THEN packs \cup {thread[c].lang} ELSE packs
  /\ thread' = [thread EXCEPT ![c].at = After(c, "add"),
                            ![c].pack = IF cmdlet THEN "ok" ELSE "missing"]
  /\ UNCHANGED <<account, password, folder, language, cmdlet, met, misled, faults>>

\* ALREADY, SKIP without the cmdlet, or OK after the installation.
InstallLanguagePack(c) ==
  /\ thread[c].at \in {"pack", "orphan pack"}
  /\ packs' = IF cmdlet THEN packs \cup {thread[c].lang} ELSE packs
  /\ thread' = [thread EXCEPT ![c].at = After(c, "add"), ![c].pack = "ok"]
  /\ UNCHANGED <<account, password, folder, language, cmdlet, met, misled, faults>>

\* FAIL or the timeout of 30 minutes; the job may finish behind its back.  The
\* creation goes on.
PackFails(c) ==
  /\ thread[c].at \in {"pack", "orphan pack"}
  /\ Fault
  /\ packs' \in {packs} \cup (IF cmdlet THEN {packs \cup {thread[c].lang}} ELSE {})
  /\ thread' = [thread EXCEPT ![c].at = After(c, "add"), ![c].pack = "missing"]
  /\ UNCHANGED <<account, password, folder, language, cmdlet, met, misled>>

-----------------------------------------------------------------------------
(* manage_account: each "net user" is one step *)

Ends(c, outcome) == thread' = [thread EXCEPT ![c].at = "done", ![c].outcome = outcome]

\* Mutant: the result of the pack's installation is ignored.
SetsLanguageAnyway(t) == t.lang # None

\* The language is set up only when its pack was found or installed.
SetsLanguage(t) == t.lang # None /\ t.pack = "ok"

AddUser(c) ==
  LET t == thread[c]
      u == t.user
  IN /\ t.at = "add"
     /\ account[u] = None
     /\ account' = [account EXCEPT ![u] = c]
     /\ password' = [password EXCEPT ![u] = c]
     /\ misled' = IF folder[u] = None THEN misled ELSE misled \cup {c}
     /\ IF SetsLanguage(t) THEN thread' = [thread EXCEPT ![c].at = "profile"]
                           ELSE Ends(c, IF t.lang = None THEN "made" ELSE "no pack")
     /\ UNCHANGED <<folder, language, cmdlet, packs, met, faults>>

NameTaken(c) ==
  /\ thread[c].at = "add"
  /\ account[thread[c].user] # None
  /\ Ends(c, "failed")
  /\ UNCHANGED <<windows, cmdlet, met, misled, faults>>

\* "net user" fails or cannot be started.
Refused(c) ==
  /\ thread[c].at \in {"add", "delete", "password"}
  /\ Fault
  /\ Ends(c, "failed")
  /\ UNCHANGED <<windows, cmdlet, met, misled>>

\* "net user /delete" leaves the folder of the profile.
DeleteUser(c) ==
  LET u == thread[c].user IN
  /\ thread[c].at = "delete"
  /\ account' = [account EXCEPT ![u] = None]
  /\ password' = [password EXCEPT ![u] = None]
  /\ Ends(c, IF account[u] = None THEN "failed" ELSE "deleted")
  /\ UNCHANGED <<folder, language, cmdlet, packs, met, misled, faults>>

ChangePassword(c) ==
  LET u == thread[c].user IN
  /\ thread[c].at = "password"
  /\ password' = IF account[u] = None THEN password ELSE [password EXCEPT ![u] = c]
  /\ Ends(c, IF account[u] = None THEN "failed" ELSE "changed")
  /\ UNCHANGED <<account, folder, language, cmdlet, packs, met, misled, faults>>

-----------------------------------------------------------------------------
(* _setup_user_language *)

\* LogonUser needs the password the command itself set.
LogsOn(c) == password[thread[c].user] = c

\* LoadUserProfile creates the folder of the name if there is none; the profile of
\* another account that is left there makes Windows use another folder.
MadeFolder(c) ==
  LET u == thread[c].user IN
  IF LogsOn(c) /\ folder[u] = None THEN [folder EXCEPT ![u] = account[u]] ELSE folder

\* The script only looks whether C:\Users\<name>\NTUSER.DAT exists.
MakeProfile(c) ==
  LET u == thread[c].user IN
  /\ thread[c].at \in {"profile", "orphan profile"}
  /\ folder' = MadeFolder(c)
  /\ IF folder'[u] = None
     THEN thread' = [thread EXCEPT ![c].at = After(c, "done"), ![c].outcome = "unset"]
     ELSE thread' = [thread EXCEPT ![c].at = IF @ = "profile" THEN "write" ELSE "orphan write"]
  /\ UNCHANGED <<account, password, language, cmdlet, packs, met, misled, faults>>

\* reg load, add and unload.
WriteLanguage(c) ==
  /\ thread[c].at \in {"write", "orphan write"}
  /\ language' = [language EXCEPT ![thread[c].user] = thread[c].lang]
  /\ thread' = [thread EXCEPT ![c].at = After(c, "done"), ![c].outcome = "language"]
  /\ UNCHANGED <<account, password, folder, cmdlet, packs, met, misled, faults>>

\* reg load fails; the script does not notice and ends with 0 as before.
LoadFails(c) ==
  /\ thread[c].at \in {"write", "orphan write"}
  /\ Fault
  /\ thread' = [thread EXCEPT ![c].at = After(c, "done"), ![c].outcome = "language"]
  /\ misled' = misled \cup {c}
  /\ UNCHANGED <<windows, cmdlet, met>>

\* Mutant: the exit code of the script is not looked at.
SetupUnchecked(c) ==
  /\ thread[c].at \in {"profile", "orphan profile", "write", "orphan write"}
  /\ Fault
  /\ thread' = [thread EXCEPT ![c].at = After(c, "done"), ![c].outcome = "language"]
  /\ UNCHANGED <<windows, cmdlet, met, misled>>

\* An error or the timeout of a minute, before or after the registry was written.
SetupFails(c) ==
  /\ thread[c].at \in {"profile", "orphan profile", "write", "orphan write"}
  /\ Fault
  /\ \/ UNCHANGED language
     \/ /\ thread[c].at \in {"write", "orphan write"}
        /\ language' = [language EXCEPT ![thread[c].user] = thread[c].lang]
  /\ thread' = [thread EXCEPT ![c].at = After(c, "done"), ![c].outcome = "unset"]
  /\ UNCHANGED <<account, password, folder, cmdlet, packs, met, misled>>

-----------------------------------------------------------------------------
(* The end of the client *)

Orphaned(place) ==
  CASE place = "pack" -> "orphan pack"
    [] place = "profile" -> "orphan profile"
    [] place = "write" -> "orphan write"
    [] place \in Orphan -> place
    [] OTHER -> "lost"

\* Daemon threads end with the process; its child processes do not.  Some threads
\* had not started theirs.
ClientEnds ==
  /\ Fault
  /\ \E early \in SUBSET {c \in Command : thread[c].at \in {"pack", "profile"}} :
       thread' = [c \in Command |->
         IF thread[c].at \notin Active THEN thread[c]
         ELSE [thread[c] EXCEPT !.at = IF c \in early THEN "lost" ELSE Orphaned(@)]]
  /\ UNCHANGED <<windows, cmdlet, met, misled>>

PowerCut ==
  /\ Fault
  /\ thread' = [c \in Command |->
       [thread[c] EXCEPT !.at = IF @ \in Active THEN "lost" ELSE @]]
  /\ UNCHANGED <<windows, cmdlet, met, misled>>

-----------------------------------------------------------------------------
(* Specification *)

Start(c) ==
  \E u \in User :
    \/ \E l \in Language \cup {None} : BeginCreate(c, u, l)
    \/ BeginDelete(c, u)
    \/ BeginPassword(c, u)

Step(c) ==
  \/ InstallLanguagePack(c)
  \/ PackFails(c)
  \/ AddUser(c)
  \/ NameTaken(c)
  \/ Refused(c)
  \/ DeleteUser(c)
  \/ ChangePassword(c)
  \/ MakeProfile(c)
  \/ WriteLanguage(c)
  \/ LoadFails(c)
  \/ SetupFails(c)

Next ==
  \/ \E c \in Command : Start(c) \/ Step(c)
  \/ ClientEnds
  \/ PowerCut

Spec == Init /\ [][Next]_vars

\* Threads and child processes do not stand still: the long ones have a timeout,
\* "net user" returns.
FairSpec == Spec /\ \A c \in Command : WF_vars(Step(c))

-----------------------------------------------------------------------------
(* Properties *)

\* No profile is set to a display language whose pack is not there, unless Windows
\* has no such packs.
LanguageNeedsPack ==
  \A u \in User : language[u] # None => language[u] \in packs \/ ~cmdlet

ProfileLanguage(u) == IF folder[u] = account[u] THEN language[u] ELSE None

\* A command that reports the display language of its account has set it in the
\* profile the account uses, if the name had no folder left and the registry file
\* could be loaded (_setup_user_language looks at neither): whatever other commands do
\* before and after, and whichever child processes outlive a client, nobody changes it.
LanguageKept ==
  \A c \in Command \ misled :
    LET t == thread[c] IN
    t.outcome = "language" /\ account[t.user] = c /\ c \notin met
      => ProfileLanguage(t.user) = t.lang

\* A command that is to create an account with a language, and meets no other one for
\* its user, ends with that report unless the name is taken or something fails.
CreateSucceeds ==
  \A c \in Command :
    thread[c].at = "pack" /\ account[thread[c].user] = None
      ~> thread[c].outcome = "language" \/ c \in met \/ faults > 0
=============================================================================
