----------------------------- MODULE ClientUpdate -----------------------------
EXTENDS Integers, Sequences, FiniteSets, SequencesExt

(***************************************************************************)
(* The executable of the client on one PC and the three parties that write *)
(* or run it: the client, which compares its version with the one          *)
(* registered at the server at every start and leaves the exchange of its  *)
(* own file to a batch script; the scripts; and the installers install.cmd *)
(* and install.ps1.  Nothing excludes one another: a script only waits,    *)
(* and a service that someone starts meanwhile runs the old client again.  *)
(* Windows refuses to overwrite a file that runs or that another copy      *)
(* writes, and to start one that is being written.                         *)
(***************************************************************************)
CONSTANTS
  Version,      \* version strings; an executable is named by its __version__
  Script,       \* update scripts that may be at work at the same time
  MaxReleases,  \* bound: rows of client_versions at a time
  MaxInstalls,  \* bound: runs of an installer
  MaxFaults     \* bound: failures, restarts of the PC, starts and stops by hand

Damage == {"cut", "rival", "refused", "ended"}

ASSUME UpdateAssumption ==
  /\ {"none", "torn", "partial", "null"} \cap Version = {}
  /\ MaxReleases \in Nat /\ MaxInstalls \in Nat /\ MaxFaults \in Nat
  /\ Version # {}

VARIABLES
  releases,   \* the rows of client_versions, the newest last
  exe,        \* the installed file: a version, "none", or "torn" if not whole
  service,    \* the service entry; "doomed" is deleted as soon as it stops
  client,     \* the client process and the release it updates to
  temp,       \* temp[v]: the file WCMS-Client-v.exe in the temporary folder
  script,     \* script[s]: the update script s and the release it installs
  installer,  \* the installer that runs
  installs,   \* runs of an installer so far
  mishap,     \* history: what went wrong around an exchange
  faults      \* history: faults so far

pc == <<exe, service, client, script, mishap>>
vars == <<releases, exe, service, client, temp, script, installer, installs, mishap, faults>>

-----------------------------------------------------------------------------
(* Data *)

SomeVersion == CHOOSE v \in Version : TRUE

\* A row names a version and a download_url: that of an executable, or one that
\* yields none ("null": NULL, or a file that was never published).
Release == [version : Version, url : Version \cup {"null"}]

\* get_version answers 1.0.0 without a URL when the table is empty.
NoRelease == [version |-> SomeVersion, url |-> "null"]

Off == [at |-> "off", release |-> NoRelease]
Checking == [at |-> "check", release |-> NoRelease]
Up == [at |-> "up", release |-> NoRelease]
NoScript == [at |-> "idle", version |-> SomeVersion]
NoInstaller == [at |-> "idle", kind |-> "cmd", url |-> "null"]

\* Script states in which the executable is not exchanged yet, and all in which the
\* service is still to be started.
Waiting == {"stop", "copy", "recopy"}
Working == Waiting \cup {"copying", "start"}

\* Installer states after the first change to the PC.
Changing == {"copying", "config", "remove", "create", "start"}

ClientRec == [at : {"off", "check", "get", "fetch", "launch", "up"}, release : Release]
ScriptRec == [at : Working \cup {"idle", "clean"}, version : Version]
InstallerRec == [at : {"idle", "query", "copy"} \cup Changing,
                 kind : {"cmd", "ps1"}, url : Version \cup {"null"}]

TypeOK ==
  /\ releases \in Seq(Release)
  /\ exe \in Version \cup {"none", "torn"}
  /\ service \in {"absent", "registered", "doomed"}
  /\ client \in ClientRec
  /\ temp \in [Version -> Version \cup {"none", "partial"}]
  /\ script \in [Script -> ScriptRec]
  /\ installer \in InstallerRec
  /\ installs \in 0..MaxInstalls
  /\ mishap \subseteq Damage
  /\ faults \in 0..MaxFaults

\* A server whose table is empty or holds what init_db of manage.py inserts, and a PC
\* without a client or with one installed earlier.
Init ==
  /\ releases \in {<<>>, <<[version |-> SomeVersion, url |-> SomeVersion]>>}
  /\ \/ exe = "none" /\ service = "absent" /\ client = Off
     \/ exe = SomeVersion /\ service = "registered" /\ client = Checking
  /\ temp = [v \in Version |-> "none"]
  /\ script = [s \in Script |-> NoScript]
  /\ installer = NoInstaller
  /\ installs = 0
  /\ mishap = {}
  /\ faults = 0

Fault == faults < MaxFaults /\ faults' = faults + 1

SomeScript(places) == \E s \in Script : script[s].at \in places

Copying == SomeScript({"copying"}) \/ installer.at = "copying"

\* A file that runs or is being copied to cannot be opened for writing.
InUse == client.at # "off" \/ Copying

-----------------------------------------------------------------------------
(* The server: client_versions *)

\* register_version for GitHub Actions and create_client_version for an administrator
\* insert what they are given; nothing compares the URL with the version.
RegisterVersion(r) ==
  /\ Len(releases) < MaxReleases
  /\ releases' = Append(releases, r)
  /\ UNCHANGED <<pc, temp, installer, installs, faults>>

DeleteClientVersion(i) ==
  /\ i \in DOMAIN releases
  /\ releases' = RemoveAt(releases, i)
  /\ UNCHANGED <<pc, temp, installer, installs, faults>>

\* get_version: the newest row.
Latest == IF releases = <<>> THEN NoRelease ELSE Last(releases)

-----------------------------------------------------------------------------
(* The service *)

CanStart == service = "registered" /\ client.at = "off" /\ exe \in Version

\* SvcDoRun calls run_client, which checks for updates first.  A client that starts
\* while a script waits to exchange its file is a rival of that script.
StartService ==
  IF CanStart
  THEN /\ client' = Checking
       /\ mishap' = IF SomeScript(Waiting) THEN mishap \cup {"rival"} ELSE mishap
  ELSE UNCHANGED <<client, mishap>>

\* SvcStop reports STOPPED at once, whatever run_client is doing.
StopService ==
  /\ client' = Off
  /\ service' = IF service = "doomed" THEN "absent" ELSE service

\* An administrator starts the service, or the service manager does a minute after
\* a crash.
StartAgain ==
  /\ CanStart
  /\ Fault
  /\ StartService
  /\ UNCHANGED <<releases, exe, service, temp, script, installer, installs>>

\* run_client returns (configuration, registration), crashes or is stopped by hand.
ClientEnds ==
  /\ client.at # "off"
  /\ Fault
  /\ StopService
  /\ mishap' = mishap \cup {"ended"}
  /\ UNCHANGED <<releases, exe, temp, script, installer, installs>>

\* The PC restarts: scripts and installers are gone, the service starts with the
\* system.
Reboot ==
  /\ Fault
  /\ script' = [s \in Script |-> NoScript]
  /\ installer' = NoInstaller
  /\ service' = IF service = "doomed" THEN "absent" ELSE service
  /\ client' = IF service = "registered" /\ exe \in Version THEN Checking ELSE Off
  /\ mishap' = IF Copying \/ service = "doomed" \/ installer.at \in Changing \ {"start"}
               THEN mishap \cup {"cut"} ELSE mishap
  /\ UNCHANGED <<releases, exe, temp, installs>>

-----------------------------------------------------------------------------
(* The client: check_for_updates, perform_update, download_file *)

\* Mutant: an update at every start.
AlwaysOutdated(r) == r \in Release

\* "!=", not "newer": the version at the server may also be an older one.
Outdated(r) == r.version # exe

ClientBecomes(c) ==
  /\ client' = c
  /\ UNCHANGED <<releases, exe, service, script, installer, installs, mishap>>

CheckForUpdates ==
  /\ client.at = "check"
  /\ ClientBecomes(IF Outdated(Latest) /\ Latest.url # "null"
                   THEN [at |-> "get", release |-> Latest] ELSE Up)
  /\ UNCHANGED <<temp, faults>>

\* No answer after the retries of safe_request: the exception is swallowed.
CheckFails ==
  /\ client.at = "check"
  /\ Fault
  /\ ClientBecomes(Up)
  /\ UNCHANGED temp

\* open truncates the file of an earlier attempt.
StartDownload ==
  /\ client.at = "get"
  /\ ClientBecomes([client EXCEPT !.at = "fetch"])
  /\ temp' = [temp EXCEPT ![client.release.version] = "partial"]
  /\ UNCHANGED faults

\* Timing: the "del" right after "net start" comes before the end of a download.
FinishDownload ==
  /\ client.at = "fetch"
  /\ \A s \in Script : script[s].at = "clean" => script[s].version # client.release.version
  /\ ClientBecomes([client EXCEPT !.at = "launch"])
  /\ temp' = [temp EXCEPT ![client.release.version] = client.release.url]
  /\ UNCHANGED faults

\* Mutant: the return value of download_file is ignored.
LaunchAnyway == [client EXCEPT !.at = "launch"]

\* download_file returns False and perform_update gives up; what was written stays.
AfterFailure == Up

DownloadFails ==
  /\ client.at \in {"get", "fetch"}
  /\ ClientBecomes(AfterFailure)
  /\ Fault
  /\ UNCHANGED temp

\* perform_update starts the script and leaves by SystemExit, which no handler of
\* check_for_updates or run_client catches.
LaunchScript(s) ==
  /\ client.at = "launch"
  /\ script[s].at = "idle"
  /\ script' = [script EXCEPT ![s] = [at |-> "stop", version |-> client.release.version]]
  /\ StopService
  /\ UNCHANGED <<releases, exe, temp, installer, installs, mishap, faults>>

LaunchFails ==
  /\ client.at = "launch"
  /\ Fault
  /\ ClientBecomes(Up)
  /\ UNCHANGED temp

-----------------------------------------------------------------------------
(* The update script *)

Goto(s, place) == script' = [script EXCEPT ![s].at = place]

Source(s) == temp[script[s].version]

\* Five seconds, "net stop", three seconds.
ScriptStops(s) ==
  /\ script[s].at = "stop"
  /\ Goto(s, "copy")
  /\ StopService
  /\ UNCHANGED <<releases, exe, temp, installer, installs, mishap, faults>>

BeginCopy(s) ==
  /\ script[s].at \in {"copy", "recopy"}
  /\ ~InUse
  /\ Source(s) # "none"
  /\ Goto(s, "copying")
  /\ exe' = "torn"
  /\ UNCHANGED <<releases, service, client, temp, installer, installs, mishap, faults>>

\* Mutant: a partial file is installed under its name.
CopiedAsNamed(file) == file

Copied(file) == IF file = "partial" THEN "torn" ELSE file

EndCopy(s) ==
  /\ script[s].at = "copying"
  /\ Goto(s, "start")
  /\ exe' = Copied(Source(s))
  /\ UNCHANGED <<releases, service, client, temp, installer, installs, mishap, faults>>

\* Mutant: the script ends after the second failure.
EndAfterRetry(place) == IF place = "copy" THEN "recopy" ELSE "clean"

\* One more attempt after five seconds; the script goes on after the second.
AfterFailedCopy(place) == IF place = "copy" THEN "recopy" ELSE "start"

CopyFails(s) ==
  /\ script[s].at \in {"copy", "recopy"}
  /\ IF InUse \/ Source(s) = "none" THEN UNCHANGED faults ELSE Fault
  /\ Goto(s, AfterFailedCopy(script[s].at))
  /\ UNCHANGED <<releases, exe, service, client, temp, installer, installs, mishap>>

ScriptStarts(s) ==
  /\ script[s].at = "start"
  /\ Goto(s, "clean")
  /\ StartService
  /\ UNCHANGED <<releases, exe, service, temp, installer, installs, faults>>

\* "del" cannot delete what a client writes or another script copies.
CleanUp(s) ==
  /\ script[s].at = "clean"
  /\ script' = [script EXCEPT ![s] = NoScript]
  /\ temp' = IF \/ client.at = "fetch" /\ client.release.version = script[s].version
                \/ \E o \in Script : /\ script[o].at = "copying"
                                    /\ script[o].version = script[s].version
             THEN temp
             ELSE [temp EXCEPT ![script[s].version] = "none"]
  /\ UNCHANGED <<releases, exe, service, client, installer, installs, mishap, faults>>

-----------------------------------------------------------------------------
(* The installers: install.cmd stops at an error that install.ps1 passes over *)

Install(place) == installer' = [installer EXCEPT !.at = place]

RunInstaller(kind) ==
  /\ installer.at = "idle"
  /\ installs < MaxInstalls
  /\ installs' = installs + 1
  /\ installer' = [NoInstaller EXCEPT !.at = "query", !.kind = kind]
  /\ UNCHANGED <<releases, pc, temp, faults>>

\* The installer asks for the newest release and downloads its executable.
InstallerDownloads ==
  /\ installer.at = "query"
  /\ Latest.url # "null"
  /\ installer' = [installer EXCEPT !.at = "copy", !.url = Latest.url]
  /\ UNCHANGED <<releases, pc, temp, installs, faults>>

\* Both end when the server or the file does not answer.
InstallerGivesUp ==
  /\ installer.at = "query"
  /\ IF Latest.url = "null" THEN UNCHANGED faults ELSE Fault
  /\ installer' = NoInstaller
  /\ UNCHANGED <<releases, pc, temp, installs>>

BeginInstall ==
  /\ installer.at = "copy"
  /\ ~InUse
  /\ Install("copying")
  /\ exe' = "torn"
  /\ UNCHANGED <<releases, service, client, temp, script, installs, mishap, faults>>

EndInstall ==
  /\ installer.at = "copying"
  /\ installer' = [installer EXCEPT !.at = "config", !.url = "null"]
  /\ exe' = installer.url
  /\ UNCHANGED <<releases, service, client, temp, script, installs, mishap, faults>>

\* The existing service is stopped only after the copy, so the copy fails on a PC
\* whose client runs.  install.cmd ends; Copy-Item reports a failure that catch does
\* not see, and install.ps1 goes on with the executable that was there.
InstallCopyFails ==
  /\ installer.at = "copy"
  /\ IF InUse THEN UNCHANGED faults ELSE Fault
  /\ installer' = IF installer.kind = "cmd" THEN NoInstaller
                                            ELSE [installer EXCEPT !.at = "config", !.url = "null"]
  /\ UNCHANGED <<releases, pc, temp, installs>>

\* config.json is written, an existing service is stopped.
StopOldService ==
  /\ installer.at = "config"
  /\ IF service = "absent"
     THEN Install("create") /\ UNCHANGED <<service, client>>
     ELSE Install("remove") /\ StopService
  /\ UNCHANGED <<releases, exe, temp, script, installs, mishap, faults>>

ConfigFails ==
  /\ installer.at = "config"
  /\ installer.kind = "cmd"
  /\ Fault
  /\ installer' = NoInstaller
  /\ mishap' = mishap \cup {"refused"}
  /\ UNCHANGED <<releases, exe, service, client, temp, script, installs>>

\* "sc delete" only marks a service that runs.
DeleteOldService ==
  /\ installer.at = "remove"
  /\ Install("create")
  /\ service' = IF service = "absent" \/ client.at = "off" THEN "absent" ELSE "doomed"
  /\ UNCHANGED <<releases, exe, client, temp, script, installs, mishap, faults>>

CreateService ==
  /\ installer.at = "create"
  /\ service = "absent"
  /\ Install("start")
  /\ service' = "registered"
  /\ UNCHANGED <<releases, exe, client, temp, script, installs, mishap, faults>>

\* The name is still taken, or the service manager refuses.
CreateFails ==
  /\ installer.at = "create"
  /\ IF service # "absent" THEN UNCHANGED faults ELSE Fault
  /\ installer' = IF installer.kind = "cmd" THEN NoInstaller
                                            ELSE [installer EXCEPT !.at = "start"]
  /\ mishap' = mishap \cup {"refused"}
  /\ UNCHANGED <<releases, exe, service, client, temp, script, installs>>

InstallerStarts ==
  /\ installer.at = "start"
  /\ installer' = NoInstaller
  /\ StartService
  /\ UNCHANGED <<releases, exe, service, temp, script, installs, faults>>

-----------------------------------------------------------------------------
(* Specification *)

Server ==
  \/ \E r \in Release : RegisterVersion(r)
  \/ \E i \in 1..MaxReleases : DeleteClientVersion(i)

Service == StartAgain \/ ClientEnds \/ Reboot

\* What the client does unless something fails.
ClientGoesOn ==
  \/ CheckForUpdates
  \/ StartDownload
  \/ FinishDownload
  \/ \E s \in Script : LaunchScript(s)

ClientStep == ClientGoesOn \/ CheckFails \/ DownloadFails \/ LaunchFails

ScriptStep(s) ==
  \/ ScriptStops(s)
  \/ BeginCopy(s)
  \/ EndCopy(s)
  \/ CopyFails(s)
  \/ ScriptStarts(s)
  \/ CleanUp(s)

InstallerStep ==
  \/ InstallerDownloads
  \/ InstallerGivesUp
  \/ BeginInstall
  \/ EndInstall
  \/ InstallCopyFails
  \/ StopOldService
  \/ ConfigFails
  \/ DeleteOldService
  \/ CreateService
  \/ CreateFails
  \/ InstallerStarts

Next ==
  \/ Server
  \/ Service
  \/ ClientStep
  \/ \E s \in Script : ScriptStep(s)
  \/ \E kind \in {"cmd", "ps1"} : RunInstaller(kind)
  \/ InstallerStep

Spec == Init /\ [][Next]_vars

\* The client, the scripts and an installer do not stand still.
FairSpec ==
  /\ Spec
  /\ WF_vars(ClientGoesOn)
  /\ \A s \in Script : WF_vars(ScriptStep(s))
  /\ WF_vars(InstallerStep)

-----------------------------------------------------------------------------
(* Properties *)

\* Only a power cut during a copy, or a client started while a script waits, can
\* leave a torn executable: a script never installs what a failed or interrupted
\* download left in the temporary folder, although nothing but the return value of
\* download_file tells it from a whole file.
WholeExe ==
  (mishap \cap {"cut", "rival"} = {} /\ ~Copying) => exe # "torn"

\* When scripts and installer are done, the client of a whole executable runs as a
\* service again: every way through them, the failed copies included, ends in a
\* start of the service.  The exceptions are those the PC or a person causes.
ServiceReturns ==
  (/\ mishap \cap {"cut", "refused", "ended"} = {}
   /\ exe \in Version
   /\ ~SomeScript(Working)
   /\ installer.at \notin Changing)
  => (service = "registered" /\ client.at # "off")

Honest(r) == r.url \in {r.version, "null"}

\* An installed client ends its updates and comes up, unless a mishap intervenes, if
\* the newest release settles on one that names the version its executable reports.
\* With another one check_for_updates finds a difference at every start and the
\* client exchanges its executable for ever.
ComesUp ==
  (\E r \in Release : Honest(r) /\ <>[](Latest = r)) =>
    [](CanStart \/ client.at # "off" => <>(client.at = "up" \/ mishap # {}))
=============================================================================
