-------------------------- MODULE ClientUpdateProofs --------------------------
(***************************************************************************)
(* The safety of ClientUpdate for every set of versions and scripts and    *)
(* every bound.                                                            *)
(***************************************************************************)
EXTENDS ClientUpdate, TLAPS

(***************************************************************************)
(* The inductive invariant                                                 *)
(***************************************************************************)

\* The file is torn while it is copied to, by one party at a time, and a client
\* only runs from a whole one.
OneCopier ==
  /\ Copying => exe = "torn"
  /\ \A s, t \in Script :
       script[s].at = "copying" /\ script[t].at = "copying" => s = t
  /\ \A s \in Script : script[s].at = "copying" => installer.at # "copying"
  /\ client.at # "off" => exe \in Version

\* What a client in the middle of an update and an installer carry can be installed.
Carried ==
  /\ client.at \in {"get", "fetch", "launch"} => client.release.url \in Version
  /\ client.at = "launch" => temp[client.release.version] # "partial"
  /\ installer.at \in {"copy", "copying"} => installer.url \in Version

\* Without a rival no client runs while a script waits, so that nobody writes the
\* file that a script is going to copy.
Alone ==
  "rival" \notin mishap =>
    /\ client.at # "off" => ~SomeScript(Waiting)
    /\ \A s \in Script : script[s].at \in Waiting \cup {"copying"} => Source(s) # "partial"

\* The executable never disappears, nor the file a script copies.
Present ==
  /\ exe = "none" => ~SomeScript(Working)
  /\ \A s \in Script : script[s].at = "copying" => Source(s) # "none"

Calm == "cut" \notin mishap /\ "refused" \notin mishap /\ "ended" \notin mishap

\* Somebody is about to create a service that is missing, and to start a client
\* that does not run.
Responsible ==
  Calm =>
    /\ service = "absent" /\ exe # "none" => installer.at \in Changing \ {"start"}
    /\ service = "doomed" => installer.at = "create"
    /\ client.at = "off" /\ exe \in Version =>
         SomeScript(Working) \/ installer.at \in Changing

Ind ==
  /\ TypeOK
  /\ OneCopier
  /\ Carried
  /\ Alone
  /\ Present
  /\ WholeExe
  /\ Responsible

-----------------------------------------------------------------------------
(* Constants *)

\* The records of the data section are legal ones.
LEMMA Records ==
  /\ SomeVersion \in Version
  /\ NoRelease \in Release /\ NoRelease.url = "null"
  /\ {Off, Checking, Up} \subseteq ClientRec
  /\ NoScript \in ScriptRec /\ NoInstaller \in InstallerRec
  /\ Off.at = "off" /\ Checking.at = "check" /\ Up.at = "up"
  /\ NoScript.at = "idle" /\ NoInstaller.at = "idle"
  <1>1. SomeVersion \in Version
    BY UpdateAssumption DEF SomeVersion
  <1>2. NoRelease \in Release /\ NoRelease.url = "null"
    BY <1>1 DEF NoRelease, Release
  <1>3. QED
    BY <1>1, <1>2 DEF Off, Checking, Up, NoScript, NoInstaller, ClientRec, ScriptRec, InstallerRec

\* The words for files that are not whole are no versions.
LEMMA Words ==
  \A v \in Version : v # "none" /\ v # "torn" /\ v # "partial" /\ v # "null"
  BY UpdateAssumption

\* The newest release is a row of the table or none.
LEMMA LatestIsRelease == ASSUME TypeOK PROVE Latest \in Release
  BY Records DEF TypeOK, Latest, Last

\* A fault is counted below its bound.
LEMMA FaultCounted == ASSUME TypeOK, Fault PROVE faults' \in 0..MaxFaults
  BY UpdateAssumption DEF TypeOK, Fault

\* The initial state satisfies the inductive invariant.
LEMMA InitInd == Init => Ind
  <1> SUFFICES ASSUME Init PROVE Ind
    OBVIOUS
  <1>1. ~SomeScript(Working) /\ ~SomeScript(Waiting) /\ ~Copying
    BY Records DEF Init, SomeScript, Working, Waiting, Copying
  <1>2. TypeOK
    <2>1. [version |-> SomeVersion, url |-> SomeVersion] \in Release
      BY Records DEF Release
    <2>2. releases \in Seq(Release)
      <3>1. CASE releases = <<>>
        BY <3>1
      <3>2. CASE releases = <<[version |-> SomeVersion, url |-> SomeVersion]>>
        BY <2>1, <3>2
      <3>3. QED
        BY <3>1, <3>2 DEF Init
    <2>3. QED
      BY <2>2, Records, UpdateAssumption DEF Init, TypeOK, Damage
  <1>3. QED
    BY <1>1, <1>2, Records, Words
    DEF Init, Ind, OneCopier, Carried, Alone, Present, WholeExe, Responsible, Calm, Waiting

\* RegisterVersion keeps the invariant.
LEMMA RegisterVersionInd ==
  ASSUME Ind, NEW r \in Release, RegisterVersion(r)
  PROVE  Ind'
  <1> USE Records, Words DEF Ind, RegisterVersion, pc
  <1>1. TypeOK'
    BY LatestIsRelease
       DEF TypeOK, ClientRec, ScriptRec, InstallerRec, Damage, Working, Changing, Waiting
  <1>2. OneCopier'
    BY DEF TypeOK, OneCopier, Copying, SomeScript
  <1>3. Carried'
    BY LatestIsRelease DEF TypeOK, Carried, ClientRec, InstallerRec, Release
  <1>4. Alone'
    BY DEF TypeOK, OneCopier, Carried, Alone, Copying, SomeScript, Waiting, Source
  <1>5. Present'
    BY DEF TypeOK, OneCopier, Present, SomeScript, Working, Waiting, Source
  <1>6. WholeExe'
    BY DEF TypeOK, WholeExe, Alone, Copying, SomeScript, Waiting, Source
  <1>7. Responsible'
    BY DEF TypeOK, Responsible, Calm, SomeScript, Working, Waiting, Changing, Copying
  <1>8. QED
    BY <1>1, <1>2, <1>3, <1>4, <1>5, <1>6, <1>7

\* DeleteClientVersion keeps the invariant.
LEMMA DeleteClientVersionInd ==
  ASSUME Ind, NEW i \in 1..MaxReleases, DeleteClientVersion(i)
  PROVE  Ind'
  <1> USE Records, Words DEF Ind, DeleteClientVersion, pc
  <1>1. TypeOK'
    <2>1. releases' \in Seq(Release)
      <3>1. /\ SubSeq(releases, 1, i - 1) \in Seq(Release)
            /\ SubSeq(releases, i + 1, Len(releases)) \in Seq(Release)
        BY DEF TypeOK
      <3>2. QED
        BY <3>1 DEF RemoveAt
    <2>2. QED
      BY <2>1 DEF TypeOK
  <1>2. OneCopier'
    BY DEF TypeOK, OneCopier, Copying, SomeScript
  <1>3. Carried'
    BY LatestIsRelease DEF TypeOK, Carried, ClientRec, InstallerRec, Release
  <1>4. Alone'
    BY DEF TypeOK, OneCopier, Carried, Alone, Copying, SomeScript, Waiting, Source
  <1>5. Present'
    BY DEF TypeOK, OneCopier, Present, SomeScript, Working, Waiting, Source
  <1>6. WholeExe'
    BY DEF TypeOK, WholeExe, Alone, Copying, SomeScript, Waiting, Source
  <1>7. Responsible'
    BY DEF TypeOK, Responsible, Calm, SomeScript, Working, Waiting, Changing, Copying
  <1>8. QED
    BY <1>1, <1>2, <1>3, <1>4, <1>5, <1>6, <1>7

\* StartAgain keeps the invariant.
LEMMA StartAgainInd ==
  ASSUME Ind, StartAgain
  PROVE  Ind'
  <1> USE Records, Words DEF Ind, StartAgain, StartService, CanStart
  <1>0. faults' \in 0..MaxFaults
    BY FaultCounted DEF TypeOK
  <1>1. TypeOK'
    BY <1>0 DEF TypeOK, ClientRec, ScriptRec, InstallerRec, Damage, Working, Changing, Waiting
  <1>2. OneCopier'
    BY DEF TypeOK, OneCopier, Copying, SomeScript
  <1>3. Carried'
    BY LatestIsRelease DEF TypeOK, Carried, ClientRec, InstallerRec, Release
  <1>4. Alone'
    BY DEF TypeOK, OneCopier, Carried, Alone, Copying, SomeScript, Waiting, Source
  <1>5. Present'
    BY DEF TypeOK, OneCopier, Present, SomeScript, Working, Waiting, Source
  <1>6. WholeExe'
    BY DEF TypeOK, WholeExe, Alone, Copying, SomeScript, Waiting, Source
  <1>7. Responsible'
    BY DEF TypeOK, Responsible, Calm, SomeScript, Working, Waiting, Changing, Copying
  <1>8. QED
    BY <1>1, <1>2, <1>3, <1>4, <1>5, <1>6, <1>7

\* ClientEnds keeps the invariant.
LEMMA ClientEndsInd ==
  ASSUME Ind, ClientEnds
  PROVE  Ind'
  <1> USE Records, Words DEF Ind, ClientEnds, StopService
  <1>0. faults' \in 0..MaxFaults
    BY FaultCounted DEF TypeOK
  <1>1. TypeOK'
    BY <1>0 DEF TypeOK, ClientRec, ScriptRec, InstallerRec, Damage, Working, Changing, Waiting
  <1>2. OneCopier'
    BY DEF TypeOK, OneCopier, Copying, SomeScript
  <1>3. Carried'
    BY LatestIsRelease DEF TypeOK, Carried, ClientRec, InstallerRec, Release
  <1>4. Alone'
    BY DEF TypeOK, OneCopier, Carried, Alone, Copying, SomeScript, Waiting, Source
  <1>5. Present'
    BY DEF TypeOK, OneCopier, Present, SomeScript, Working, Waiting, Source
  <1>6. WholeExe'
    BY DEF TypeOK, WholeExe, Alone, Copying, SomeScript, Waiting, Source
  <1>7. Responsible'
    BY DEF TypeOK, Responsible, Calm, SomeScript, Working, Waiting, Changing, Copying
  <1>8. QED
    BY <1>1, <1>2, <1>3, <1>4, <1>5, <1>6, <1>7

\* Reboot keeps the invariant.
LEMMA RebootInd ==
  ASSUME Ind, Reboot
  PROVE  Ind'
  <1> USE Records, Words DEF Ind, Reboot
  <1>0. faults' \in 0..MaxFaults
    BY FaultCounted DEF TypeOK
  <1>1. TypeOK'
    BY <1>0 DEF TypeOK, ClientRec, ScriptRec, InstallerRec, Damage, Working, Changing, Waiting
  <1>2. OneCopier'
    BY DEF TypeOK, OneCopier, Copying, SomeScript
  <1>3. Carried'
    BY LatestIsRelease DEF TypeOK, Carried, ClientRec, InstallerRec, Release
  <1>4. Alone'
    BY DEF TypeOK, OneCopier, Carried, Alone, Copying, SomeScript, Waiting, Source
  <1>5. Present'
    BY DEF TypeOK, OneCopier, Present, SomeScript, Working, Waiting, Source
  <1>6. WholeExe'
    BY DEF TypeOK, WholeExe, Alone, Copying, SomeScript, Waiting, Source
  <1>7. Responsible'
    BY DEF TypeOK, Responsible, Calm, SomeScript, Working, Waiting, Changing, Copying
  <1>8. QED
    BY <1>1, <1>2, <1>3, <1>4, <1>5, <1>6, <1>7

\* CheckForUpdates keeps the invariant.
LEMMA CheckForUpdatesInd ==
  ASSUME Ind, CheckForUpdates
  PROVE  Ind'
  <1> USE Records, Words DEF Ind, CheckForUpdates, ClientBecomes
  <1>1. TypeOK'
    BY LatestIsRelease
       DEF TypeOK, ClientRec, ScriptRec, InstallerRec, Damage, Working, Changing, Waiting
  <1>2. OneCopier'
    BY DEF TypeOK, OneCopier, Copying, SomeScript
  <1>3. Carried'
    BY LatestIsRelease DEF TypeOK, Carried, ClientRec, InstallerRec, Release
  <1>4. Alone'
    BY DEF TypeOK, OneCopier, Carried, Alone, Copying, SomeScript, Waiting, Source
  <1>5. Present'
    BY DEF TypeOK, OneCopier, Present, SomeScript, Working, Waiting, Source
  <1>6. WholeExe'
    BY DEF TypeOK, WholeExe, Alone, Copying, SomeScript, Waiting, Source
  <1>7. Responsible'
    BY DEF TypeOK, Responsible, Calm, SomeScript, Working, Waiting, Changing, Copying
  <1>8. QED
    BY <1>1, <1>2, <1>3, <1>4, <1>5, <1>6, <1>7

\* CheckFails keeps the invariant.
LEMMA CheckFailsInd ==
  ASSUME Ind, CheckFails
  PROVE  Ind'
  <1> USE Records, Words DEF Ind, CheckFails, ClientBecomes
  <1>0. faults' \in 0..MaxFaults
    BY FaultCounted DEF TypeOK
  <1>1. TypeOK'
    BY <1>0 DEF TypeOK, ClientRec, ScriptRec, InstallerRec, Damage, Working, Changing, Waiting
  <1>2. OneCopier'
    BY DEF TypeOK, OneCopier, Copying, SomeScript
  <1>3. Carried'
    BY LatestIsRelease DEF TypeOK, Carried, ClientRec, InstallerRec, Release
  <1>4. Alone'
    BY DEF TypeOK, OneCopier, Carried, Alone, Copying, SomeScript, Waiting, Source
  <1>5. Present'
    BY DEF TypeOK, OneCopier, Present, SomeScript, Working, Waiting, Source
  <1>6. WholeExe'
    BY DEF TypeOK, WholeExe, Alone, Copying, SomeScript, Waiting, Source
  <1>7. Responsible'
    BY DEF TypeOK, Responsible, Calm, SomeScript, Working, Waiting, Changing, Copying
  <1>8. QED
    BY <1>1, <1>2, <1>3, <1>4, <1>5, <1>6, <1>7

\* StartDownload keeps the invariant.
LEMMA StartDownloadInd ==
  ASSUME Ind, StartDownload
  PROVE  Ind'
  <1> USE Records, Words DEF Ind, StartDownload, ClientBecomes
  <1>1. TypeOK'
    BY LatestIsRelease
       DEF TypeOK, ClientRec, ScriptRec, InstallerRec, Damage, Working, Changing, Waiting
  <1>2. OneCopier'
    BY DEF TypeOK, OneCopier, Copying, SomeScript
  <1>3. Carried'
    BY LatestIsRelease DEF TypeOK, Carried, ClientRec, InstallerRec, Release
  <1>4. Alone'
    BY DEF TypeOK, OneCopier, Carried, Alone, Copying, SomeScript, Waiting, Source
  <1>5. Present'
    BY DEF TypeOK, OneCopier, Present, SomeScript, Working, Waiting, Source
  <1>6. WholeExe'
    BY DEF TypeOK, WholeExe, Alone, Copying, SomeScript, Waiting, Source
  <1>7. Responsible'
    BY DEF TypeOK, Responsible, Calm, SomeScript, Working, Waiting, Changing, Copying
  <1>8. QED
    BY <1>1, <1>2, <1>3, <1>4, <1>5, <1>6, <1>7

\* FinishDownload keeps the invariant.
LEMMA FinishDownloadInd ==
  ASSUME Ind, FinishDownload
  PROVE  Ind'
  <1> USE Records, Words DEF Ind, FinishDownload, ClientBecomes
  <1>1. TypeOK'
    <2>1. client.release.url \in Version /\ client.release.version \in Version
      BY DEF TypeOK, Carried, ClientRec, Release
    <2>2. client' \in ClientRec
      BY DEF TypeOK, ClientRec
    <2>3. QED
      BY <2>1, <2>2 DEF TypeOK
  <1>2. OneCopier'
    BY DEF TypeOK, OneCopier, Copying, SomeScript
  <1>3. Carried'
    BY LatestIsRelease DEF TypeOK, Carried, ClientRec, InstallerRec, Release
  <1>4. Alone'
    BY DEF TypeOK, OneCopier, Carried, Alone, Copying, SomeScript, Waiting, Source
  <1>5. Present'
    <2>1. \A v \in Version : temp'[v] # "none" \/ temp'[v] = temp[v]
      BY DEF TypeOK, Carried
    <2>2. \A s \in Script : script[s].version \in Version
      BY DEF TypeOK, ScriptRec
    <2>3. QED
      BY <2>1, <2>2 DEF Present, SomeScript, Source
  <1>6. WholeExe'
    BY DEF TypeOK, WholeExe, Alone, Copying, SomeScript, Waiting, Source
  <1>7. Responsible'
    BY DEF TypeOK, Responsible, Calm, SomeScript, Working, Waiting, Changing, Copying
  <1>8. QED
    BY <1>1, <1>2, <1>3, <1>4, <1>5, <1>6, <1>7

\* DownloadFails keeps the invariant.
LEMMA DownloadFailsInd ==
  ASSUME Ind, DownloadFails
  PROVE  Ind'
  <1> USE Records, Words DEF Ind, DownloadFails, ClientBecomes, AfterFailure
  <1>0. faults' \in 0..MaxFaults
    BY FaultCounted DEF TypeOK
  <1>1. TypeOK'
    BY <1>0 DEF TypeOK, ClientRec, ScriptRec, InstallerRec, Damage, Working, Changing, Waiting
  <1>2. OneCopier'
    BY DEF TypeOK, OneCopier, Copying, SomeScript
  <1>3. Carried'
    BY LatestIsRelease DEF TypeOK, Carried, ClientRec, InstallerRec, Release
  <1>4. Alone'
    BY DEF TypeOK, OneCopier, Carried, Alone, Copying, SomeScript, Waiting, Source
  <1>5. Present'
    BY DEF TypeOK, OneCopier, Present, SomeScript, Working, Waiting, Source
  <1>6. WholeExe'
    BY DEF TypeOK, WholeExe, Alone, Copying, SomeScript, Waiting, Source
  <1>7. Responsible'
    BY DEF TypeOK, Responsible, Calm, SomeScript, Working, Waiting, Changing, Copying
  <1>8. QED
    BY <1>1, <1>2, <1>3, <1>4, <1>5, <1>6, <1>7

\* LaunchScript keeps the invariant.
LEMMA LaunchScriptInd ==
  ASSUME Ind, NEW s \in Script, LaunchScript(s)
  PROVE  Ind'
  <1> USE Records, Words DEF Ind, LaunchScript, StopService
  <1>1. TypeOK'
    <2>1. client.release.version \in Version
      BY DEF TypeOK, ClientRec, Release
    <2>2. script' \in [Script -> ScriptRec]
      BY <2>1 DEF TypeOK, ScriptRec, Working, Waiting
    <2>3. QED
      BY <2>2 DEF TypeOK
  <1>2. OneCopier'
    BY DEF TypeOK, OneCopier, Copying, SomeScript
  <1>3. Carried'
    BY LatestIsRelease DEF TypeOK, Carried, ClientRec, InstallerRec, Release
  <1>4. Alone'
    BY DEF TypeOK, OneCopier, Carried, Alone, Copying, SomeScript, Waiting, Source
  <1>5. Present'
    BY DEF TypeOK, OneCopier, Present, SomeScript, Working, Waiting, Source
  <1>6. WholeExe'
    BY DEF TypeOK, WholeExe, Alone, Copying, SomeScript, Waiting, Source
  <1>7. Responsible'
    BY DEF TypeOK, Responsible, Calm, SomeScript, Working, Waiting, Changing, Copying
  <1>8. QED
    BY <1>1, <1>2, <1>3, <1>4, <1>5, <1>6, <1>7

\* LaunchFails keeps the invariant.
LEMMA LaunchFailsInd ==
  ASSUME Ind, LaunchFails
  PROVE  Ind'
  <1> USE Records, Words DEF Ind, LaunchFails, ClientBecomes
  <1>0. faults' \in 0..MaxFaults
    BY FaultCounted DEF TypeOK
  <1>1. TypeOK'
    BY <1>0 DEF TypeOK, ClientRec, ScriptRec, InstallerRec, Damage, Working, Changing, Waiting
  <1>2. OneCopier'
    BY DEF TypeOK, OneCopier, Copying, SomeScript
  <1>3. Carried'
    BY LatestIsRelease DEF TypeOK, Carried, ClientRec, InstallerRec, Release
  <1>4. Alone'
    BY DEF TypeOK, OneCopier, Carried, Alone, Copying, SomeScript, Waiting, Source
  <1>5. Present'
    BY DEF TypeOK, OneCopier, Present, SomeScript, Working, Waiting, Source
  <1>6. WholeExe'
    BY DEF TypeOK, WholeExe, Alone, Copying, SomeScript, Waiting, Source
  <1>7. Responsible'
    BY DEF TypeOK, Responsible, Calm, SomeScript, Working, Waiting, Changing, Copying
  <1>8. QED
    BY <1>1, <1>2, <1>3, <1>4, <1>5, <1>6, <1>7

\* ScriptStops keeps the invariant.
LEMMA ScriptStopsInd ==
  ASSUME Ind, NEW s \in Script, ScriptStops(s)
  PROVE  Ind'
  <1> USE Records, Words DEF Ind, ScriptStops, StopService, Goto
  <1>1. TypeOK'
    BY LatestIsRelease
       DEF TypeOK, ClientRec, ScriptRec, InstallerRec, Damage, Working, Changing, Waiting
  <1>2. OneCopier'
    BY DEF TypeOK, OneCopier, Copying, SomeScript
  <1>3. Carried'
    BY LatestIsRelease DEF TypeOK, Carried, ClientRec, InstallerRec, Release
  <1>4. Alone'
    BY DEF TypeOK, OneCopier, Carried, Alone, Copying, SomeScript, Waiting, Source
  <1>5. Present'
    BY DEF TypeOK, OneCopier, Present, SomeScript, Working, Waiting, Source
  <1>6. WholeExe'
    BY DEF TypeOK, WholeExe, Alone, Copying, SomeScript, Waiting, Source
  <1>7. Responsible'
    BY DEF TypeOK, Responsible, Calm, SomeScript, Working, Waiting, Changing, Copying
  <1>8. QED
    BY <1>1, <1>2, <1>3, <1>4, <1>5, <1>6, <1>7

\* BeginCopy keeps the invariant.
LEMMA BeginCopyInd ==
  ASSUME Ind, NEW s \in Script, BeginCopy(s)
  PROVE  Ind'
  <1> USE Records, Words DEF Ind, BeginCopy, Goto, InUse
  <1>1. TypeOK'
    BY LatestIsRelease
       DEF TypeOK, ClientRec, ScriptRec, InstallerRec, Damage, Working, Changing, Waiting
  <1>2. OneCopier'
    BY DEF TypeOK, OneCopier, Copying, SomeScript
  <1>3. Carried'
    BY LatestIsRelease DEF TypeOK, Carried, ClientRec, InstallerRec, Release
  <1>4. Alone'
    BY DEF TypeOK, OneCopier, Carried, Alone, Copying, SomeScript, Waiting, Source
  <1>5. Present'
    BY DEF TypeOK, OneCopier, Present, SomeScript, Working, Waiting, Source
  <1>6. WholeExe'
    BY DEF TypeOK, WholeExe, Alone, Copying, SomeScript, Waiting, Source
  <1>7. Responsible'
    <2>1. exe # "none"
      BY DEF Present, SomeScript, Working, Waiting
    <2>2. QED
      BY <2>1 DEF Responsible, Calm
  <1>8. QED
    BY <1>1, <1>2, <1>3, <1>4, <1>5, <1>6, <1>7

\* EndCopy keeps the invariant.
LEMMA EndCopyInd ==
  ASSUME Ind, NEW s \in Script, EndCopy(s)
  PROVE  Ind'
  <1> USE Records, Words DEF Ind, EndCopy, Goto
  <1>0. Source(s) \in Version \cup {"none", "partial"} /\ exe' \in Version \cup {"none", "torn"}
    BY DEF TypeOK, ScriptRec, Source, Copied
  <1>1. TypeOK'
    BY <1>0 DEF TypeOK, ClientRec, ScriptRec, InstallerRec, Damage, Working, Changing, Waiting
  <1>2. OneCopier'
    BY DEF TypeOK, OneCopier, Copying, SomeScript, Copied
  <1>3. Carried'
    BY LatestIsRelease DEF TypeOK, Carried, ClientRec, InstallerRec, Release
  <1>4. Alone'
    BY DEF TypeOK, OneCopier, Carried, Alone, Copying, SomeScript, Waiting, Source
  <1>5. Present'
    <2>1. exe' # "none"
      BY <1>0 DEF Present, Copied
    <2>2. QED
      BY <2>1 DEF TypeOK, OneCopier, Present, Source
  <1>6. WholeExe'
    <2>1. "rival" \notin mishap => exe' # "torn"
      BY <1>0 DEF Alone, Copied
    <2>2. QED
      BY <2>1 DEF WholeExe
  <1>7. Responsible'
    <2>1. SomeScript(Working)'
      BY DEF TypeOK, SomeScript, Working
    <2>2. exe = "torn"
      BY DEF OneCopier, Copying, SomeScript
    <2>3. QED
      BY <2>1, <2>2 DEF Responsible, Calm
  <1>8. QED
    BY <1>1, <1>2, <1>3, <1>4, <1>5, <1>6, <1>7

\* CopyFails keeps the invariant.
LEMMA CopyFailsInd ==
  ASSUME Ind, NEW s \in Script, CopyFails(s)
  PROVE  Ind'
  <1> USE Records, Words DEF Ind, CopyFails, Goto, AfterFailedCopy, InUse
  <1>0. faults' \in 0..MaxFaults
    BY FaultCounted DEF TypeOK
  <1>1. TypeOK'
    BY <1>0 DEF TypeOK, ClientRec, ScriptRec, InstallerRec, Damage, Working, Changing, Waiting
  <1>2. OneCopier'
    BY DEF TypeOK, OneCopier, Copying, SomeScript
  <1>3. Carried'
    BY LatestIsRelease DEF TypeOK, Carried, ClientRec, InstallerRec, Release
  <1>4. Alone'
    BY DEF TypeOK, OneCopier, Carried, Alone, Copying, SomeScript, Waiting, Source
  <1>5. Present'
    BY DEF TypeOK, OneCopier, Present, SomeScript, Working, Waiting, Source
  <1>6. WholeExe'
    BY DEF TypeOK, WholeExe, Alone, Copying, SomeScript, Waiting, Source
  <1>7. Responsible'
    BY DEF TypeOK, Responsible, Calm, SomeScript, Working, Waiting, Changing, Copying
  <1>8. QED
    BY <1>1, <1>2, <1>3, <1>4, <1>5, <1>6, <1>7

\* ScriptStarts keeps the invariant.
LEMMA ScriptStartsInd ==
  ASSUME Ind, NEW s \in Script, ScriptStarts(s)
  PROVE  Ind'
  <1> USE Records, Words DEF Ind, ScriptStarts, StartService, CanStart, Goto
  <1>1. TypeOK'
    BY LatestIsRelease
       DEF TypeOK, ClientRec, ScriptRec, InstallerRec, Damage, Working, Changing, Waiting
  <1>2. OneCopier'
    BY DEF TypeOK, OneCopier, Copying, SomeScript
  <1>3. Carried'
    BY LatestIsRelease DEF TypeOK, Carried, ClientRec, InstallerRec, Release
  <1>4. Alone'
    BY DEF TypeOK, OneCopier, Carried, Alone, Copying, SomeScript, Waiting, Source
  <1>5. Present'
    BY DEF TypeOK, OneCopier, Present, SomeScript, Working, Waiting, Source
  <1>6. WholeExe'
    BY DEF TypeOK, WholeExe, Alone, Copying, SomeScript, Waiting, Source
  <1>7. Responsible'
    BY DEF TypeOK, Responsible, Calm, SomeScript, Working, Waiting, Changing, Copying
  <1>8. QED
    BY <1>1, <1>2, <1>3, <1>4, <1>5, <1>6, <1>7

\* CleanUp keeps the invariant.
LEMMA CleanUpInd ==
  ASSUME Ind, NEW s \in Script, CleanUp(s)
  PROVE  Ind'
  <1> USE Records, Words DEF Ind, CleanUp
  <1>1. TypeOK'
    BY LatestIsRelease
       DEF TypeOK, ClientRec, ScriptRec, InstallerRec, Damage, Working, Changing, Waiting
  <1>2. OneCopier'
    BY DEF TypeOK, OneCopier, Copying, SomeScript
  <1>3. Carried'
    BY LatestIsRelease DEF TypeOK, Carried, ClientRec, InstallerRec, Release
  <1>4. Alone'
    BY DEF TypeOK, OneCopier, Carried, Alone, Copying, SomeScript, Waiting, Source
  <1>5. Present'
    BY DEF TypeOK, OneCopier, Present, SomeScript, Working, Waiting, Source
  <1>6. WholeExe'
    BY DEF TypeOK, WholeExe, Alone, Copying, SomeScript, Waiting, Source
  <1>7. Responsible'
    BY DEF TypeOK, Responsible, Calm, SomeScript, Working, Waiting, Changing, Copying
  <1>8. QED
    BY <1>1, <1>2, <1>3, <1>4, <1>5, <1>6, <1>7

\* RunInstaller keeps the invariant.
LEMMA RunInstallerInd ==
  ASSUME Ind, NEW kind \in {"cmd", "ps1"}, RunInstaller(kind)
  PROVE  Ind'
  <1> USE Records, Words DEF Ind, RunInstaller, pc
  <1>1. TypeOK'
    <2>1. installs' \in 0..MaxInstalls
      BY UpdateAssumption DEF TypeOK
    <2>2. installer' \in InstallerRec
      BY DEF InstallerRec
    <2>3. QED
      BY <2>1, <2>2 DEF TypeOK
  <1>2. OneCopier'
    BY DEF TypeOK, OneCopier, Copying, SomeScript
  <1>3. Carried'
    BY LatestIsRelease DEF TypeOK, Carried, ClientRec, InstallerRec, Release
  <1>4. Alone'
    BY DEF TypeOK, OneCopier, Carried, Alone, Copying, SomeScript, Waiting, Source
  <1>5. Present'
    BY DEF TypeOK, OneCopier, Present, SomeScript, Working, Waiting, Source
  <1>6. WholeExe'
    BY DEF TypeOK, WholeExe, Alone, Copying, SomeScript, Waiting, Source
  <1>7. Responsible'
    BY DEF TypeOK, Responsible, Calm, SomeScript, Working, Waiting, Changing, Copying
  <1>8. QED
    BY <1>1, <1>2, <1>3, <1>4, <1>5, <1>6, <1>7

\* InstallerDownloads keeps the invariant.
LEMMA InstallerDownloadsInd ==
  ASSUME Ind, InstallerDownloads
  PROVE  Ind'
  <1> USE Records, Words DEF Ind, InstallerDownloads, pc
  <1>1. TypeOK'
    <2>1. Latest.url \in Version \cup {"null"}
      BY LatestIsRelease DEF Release
    <2>2. installer' \in InstallerRec
      BY <2>1 DEF TypeOK, InstallerRec
    <2>3. QED
      BY <2>2 DEF TypeOK
  <1>2. OneCopier'
    BY DEF TypeOK, OneCopier, Copying, SomeScript
  <1>3. Carried'
    BY LatestIsRelease DEF TypeOK, Carried, ClientRec, InstallerRec, Release
  <1>4. Alone'
    BY DEF TypeOK, OneCopier, Carried, Alone, Copying, SomeScript, Waiting, Source
  <1>5. Present'
    BY DEF TypeOK, OneCopier, Present, SomeScript, Working, Waiting, Source
  <1>6. WholeExe'
    BY DEF TypeOK, WholeExe, Alone, Copying, SomeScript, Waiting, Source
  <1>7. Responsible'
    BY DEF TypeOK, Responsible, Calm, SomeScript, Working, Waiting, Changing, Copying
  <1>8. QED
    BY <1>1, <1>2, <1>3, <1>4, <1>5, <1>6, <1>7

\* InstallerGivesUp keeps the invariant.
LEMMA InstallerGivesUpInd ==
  ASSUME Ind, InstallerGivesUp
  PROVE  Ind'
  <1> USE Records, Words DEF Ind, InstallerGivesUp, pc
  <1>0. faults' \in 0..MaxFaults
    BY FaultCounted DEF TypeOK
  <1>1. TypeOK'
    BY <1>0 DEF TypeOK, ClientRec, ScriptRec, InstallerRec, Damage, Working, Changing, Waiting
  <1>2. OneCopier'
    BY DEF TypeOK, OneCopier, Copying, SomeScript
  <1>3. Carried'
    BY LatestIsRelease DEF TypeOK, Carried, ClientRec, InstallerRec, Release
  <1>4. Alone'
    BY DEF TypeOK, OneCopier, Carried, Alone, Copying, SomeScript, Waiting, Source
  <1>5. Present'
    BY DEF TypeOK, OneCopier, Present, SomeScript, Working, Waiting, Source
  <1>6. WholeExe'
    BY DEF TypeOK, WholeExe, Alone, Copying, SomeScript, Waiting, Source
  <1>7. Responsible'
    BY DEF TypeOK, Responsible, Calm, SomeScript, Working, Waiting, Changing, Copying
  <1>8. QED
    BY <1>1, <1>2, <1>3, <1>4, <1>5, <1>6, <1>7

\* BeginInstall keeps the invariant.
LEMMA BeginInstallInd ==
  ASSUME Ind, BeginInstall
  PROVE  Ind'
  <1> USE Records, Words DEF Ind, BeginInstall, Install, InUse
  <1>1. TypeOK'
    BY LatestIsRelease
       DEF TypeOK, ClientRec, ScriptRec, InstallerRec, Damage, Working, Changing, Waiting
  <1>2. OneCopier'
    BY DEF TypeOK, OneCopier, Copying, SomeScript
  <1>3. Carried'
    BY LatestIsRelease DEF TypeOK, Carried, ClientRec, InstallerRec, Release
  <1>4. Alone'
    BY DEF TypeOK, OneCopier, Carried, Alone, Copying, SomeScript, Waiting, Source
  <1>5. Present'
    BY DEF TypeOK, OneCopier, Present, SomeScript, Working, Waiting, Source
  <1>6. WholeExe'
    BY DEF TypeOK, WholeExe, Alone, Copying, SomeScript, Waiting, Source
  <1>7. Responsible'
    BY DEF TypeOK, Responsible, Calm, SomeScript, Working, Waiting, Changing, Copying
  <1>8. QED
    BY <1>1, <1>2, <1>3, <1>4, <1>5, <1>6, <1>7

\* EndInstall keeps the invariant.
LEMMA EndInstallInd ==
  ASSUME Ind, EndInstall
  PROVE  Ind'
  <1> USE Records, Words DEF Ind, EndInstall
  <1>0. exe' \in Version
    BY DEF Carried
  <1>1. TypeOK'
    <2>1. installer' \in InstallerRec
      BY DEF TypeOK, InstallerRec, Changing
    <2>2. QED
      BY <1>0, <2>1 DEF TypeOK
  <1>2. OneCopier'
    BY DEF TypeOK, OneCopier, Copying, SomeScript
  <1>3. Carried'
    BY LatestIsRelease DEF TypeOK, Carried, ClientRec, InstallerRec, Release
  <1>4. Alone'
    BY DEF TypeOK, OneCopier, Carried, Alone, Copying, SomeScript, Waiting, Source
  <1>5. Present'
    BY <1>0 DEF Present, Source
  <1>6. WholeExe'
    BY <1>0 DEF WholeExe
  <1>7. Responsible'
    BY DEF TypeOK, Responsible, Calm, SomeScript, Working, Waiting, Changing, Copying
  <1>8. QED
    BY <1>1, <1>2, <1>3, <1>4, <1>5, <1>6, <1>7

\* InstallCopyFails keeps the invariant.
LEMMA InstallCopyFailsInd ==
  ASSUME Ind, InstallCopyFails
  PROVE  Ind'
  <1> USE Records, Words DEF Ind, InstallCopyFails, pc, InUse
  <1>0. faults' \in 0..MaxFaults
    BY FaultCounted DEF TypeOK
  <1>1. TypeOK'
    BY <1>0 DEF TypeOK, ClientRec, ScriptRec, InstallerRec, Damage, Working, Changing, Waiting
  <1>2. OneCopier'
    BY DEF TypeOK, OneCopier, Copying, SomeScript
  <1>3. Carried'
    BY LatestIsRelease DEF TypeOK, Carried, ClientRec, InstallerRec, Release
  <1>4. Alone'
    BY DEF TypeOK, OneCopier, Carried, Alone, Copying, SomeScript, Waiting, Source
  <1>5. Present'
    BY DEF TypeOK, OneCopier, Present, SomeScript, Working, Waiting, Source
  <1>6. WholeExe'
    BY DEF TypeOK, WholeExe, Alone, Copying, SomeScript, Waiting, Source
  <1>7. Responsible'
    BY DEF TypeOK, Responsible, Calm, SomeScript, Working, Waiting, Changing, Copying
  <1>8. QED
    BY <1>1, <1>2, <1>3, <1>4, <1>5, <1>6, <1>7

\* StopOldService keeps the invariant.
LEMMA StopOldServiceInd ==
  ASSUME Ind, StopOldService
  PROVE  Ind'
  <1> USE Records, Words DEF Ind, StopOldService, StopService, Install
  <1>1. TypeOK'
    BY LatestIsRelease
       DEF TypeOK, ClientRec, ScriptRec, InstallerRec, Damage, Working, Changing, Waiting
  <1>2. OneCopier'
    <2>1. installer'.at \in {"create", "remove"} /\ client' \in {client, Off}
      BY DEF TypeOK, InstallerRec
    <2>2. ~(installer.at = "copying") /\ ~(installer'.at = "copying")
      BY <2>1
    <2>3. Copying' => Copying
      BY <2>2 DEF Copying, SomeScript
    <2>4. QED
      BY <2>1, <2>2, <2>3 DEF OneCopier
  <1>3. Carried'
    BY LatestIsRelease DEF TypeOK, Carried, ClientRec, InstallerRec, Release
  <1>4. Alone'
    BY DEF TypeOK, OneCopier, Carried, Alone, Copying, SomeScript, Waiting, Source
  <1>5. Present'
    BY DEF TypeOK, OneCopier, Present, SomeScript, Working, Waiting, Source
  <1>6. WholeExe'
    BY DEF TypeOK, WholeExe, Alone, Copying, SomeScript, Waiting, Source
  <1>7. Responsible'
    <2>1. CASE service = "absent"
      BY <2>1 DEF TypeOK, InstallerRec, Responsible, Calm, SomeScript, Changing
    <2>2. CASE service # "absent"
      <3>1. installer'.at = "remove" /\ service' # "doomed"
        BY <2>2 DEF TypeOK, InstallerRec
      <3>2. QED
        BY <3>1 DEF Changing, Responsible
    <2>3. QED
      BY <2>1, <2>2
  <1>8. QED
    BY <1>1, <1>2, <1>3, <1>4, <1>5, <1>6, <1>7

\* ConfigFails keeps the invariant.
LEMMA ConfigFailsInd ==
  ASSUME Ind, ConfigFails
  PROVE  Ind'
  <1> USE Records, Words DEF Ind, ConfigFails
  <1>0. faults' \in 0..MaxFaults
    BY FaultCounted DEF TypeOK
  <1>1. TypeOK'
    BY <1>0 DEF TypeOK, ClientRec, ScriptRec, InstallerRec, Damage, Working, Changing, Waiting
  <1>2. OneCopier'
    BY DEF TypeOK, OneCopier, Copying, SomeScript
  <1>3. Carried'
    BY LatestIsRelease DEF TypeOK, Carried, ClientRec, InstallerRec, Release
  <1>4. Alone'
    BY DEF TypeOK, OneCopier, Carried, Alone, Copying, SomeScript, Waiting, Source
  <1>5. Present'
    BY DEF TypeOK, OneCopier, Present, SomeScript, Working, Waiting, Source
  <1>6. WholeExe'
    BY DEF TypeOK, WholeExe, Alone, Copying, SomeScript, Waiting, Source
  <1>7. Responsible'
    BY DEF TypeOK, Responsible, Calm, SomeScript, Working, Waiting, Changing, Copying
  <1>8. QED
    BY <1>1, <1>2, <1>3, <1>4, <1>5, <1>6, <1>7

\* DeleteOldService keeps the invariant.
LEMMA DeleteOldServiceInd ==
  ASSUME Ind, DeleteOldService
  PROVE  Ind'
  <1> USE Records, Words DEF Ind, DeleteOldService, Install
  <1>1. TypeOK'
    BY LatestIsRelease
       DEF TypeOK, ClientRec, ScriptRec, InstallerRec, Damage, Working, Changing, Waiting
  <1>2. OneCopier'
    BY DEF TypeOK, OneCopier, Copying, SomeScript
  <1>3. Carried'
    BY LatestIsRelease DEF TypeOK, Carried, ClientRec, InstallerRec, Release
  <1>4. Alone'
    BY DEF TypeOK, OneCopier, Carried, Alone, Copying, SomeScript, Waiting, Source
  <1>5. Present'
    BY DEF TypeOK, OneCopier, Present, SomeScript, Working, Waiting, Source
  <1>6. WholeExe'
    BY DEF TypeOK, WholeExe, Alone, Copying, SomeScript, Waiting, Source
  <1>7. Responsible'
    BY DEF TypeOK, Responsible, Calm, SomeScript, Working, Waiting, Changing, Copying
  <1>8. QED
    BY <1>1, <1>2, <1>3, <1>4, <1>5, <1>6, <1>7

\* CreateService keeps the invariant.
LEMMA CreateServiceInd ==
  ASSUME Ind, CreateService
  PROVE  Ind'
  <1> USE Records, Words DEF Ind, CreateService, Install
  <1>1. TypeOK'
    BY LatestIsRelease
       DEF TypeOK, ClientRec, ScriptRec, InstallerRec, Damage, Working, Changing, Waiting
  <1>2. OneCopier'
    BY DEF TypeOK, OneCopier, Copying, SomeScript
  <1>3. Carried'
    BY LatestIsRelease DEF TypeOK, Carried, ClientRec, InstallerRec, Release
  <1>4. Alone'
    BY DEF TypeOK, OneCopier, Carried, Alone, Copying, SomeScript, Waiting, Source
  <1>5. Present'
    BY DEF TypeOK, OneCopier, Present, SomeScript, Working, Waiting, Source
  <1>6. WholeExe'
    BY DEF TypeOK, WholeExe, Alone, Copying, SomeScript, Waiting, Source
  <1>7. Responsible'
    BY DEF TypeOK, Responsible, Calm, SomeScript, Working, Waiting, Changing, Copying
  <1>8. QED
    BY <1>1, <1>2, <1>3, <1>4, <1>5, <1>6, <1>7

\* CreateFails keeps the invariant.
LEMMA CreateFailsInd ==
  ASSUME Ind, CreateFails
  PROVE  Ind'
  <1> USE Records, Words DEF Ind, CreateFails
  <1>0. faults' \in 0..MaxFaults
    BY FaultCounted DEF TypeOK
  <1>1. TypeOK'
    BY <1>0 DEF TypeOK, ClientRec, ScriptRec, InstallerRec, Damage, Working, Changing, Waiting
  <1>2. OneCopier'
    BY DEF TypeOK, OneCopier, Copying, SomeScript
  <1>3. Carried'
    BY LatestIsRelease DEF TypeOK, Carried, ClientRec, InstallerRec, Release
  <1>4. Alone'
    BY DEF TypeOK, OneCopier, Carried, Alone, Copying, SomeScript, Waiting, Source
  <1>5. Present'
    BY DEF TypeOK, OneCopier, Present, SomeScript, Working, Waiting, Source
  <1>6. WholeExe'
    BY DEF TypeOK, WholeExe, Alone, Copying, SomeScript, Waiting, Source
  <1>7. Responsible'
    BY DEF TypeOK, Responsible, Calm, SomeScript, Working, Waiting, Changing, Copying
  <1>8. QED
    BY <1>1, <1>2, <1>3, <1>4, <1>5, <1>6, <1>7

\* InstallerStarts keeps the invariant.
LEMMA InstallerStartsInd ==
  ASSUME Ind, InstallerStarts
  PROVE  Ind'
  <1> USE Records, Words DEF Ind, InstallerStarts, StartService, CanStart
  <1>1. TypeOK'
    BY LatestIsRelease
       DEF TypeOK, ClientRec, ScriptRec, InstallerRec, Damage, Working, Changing, Waiting
  <1>2. OneCopier'
    BY DEF TypeOK, OneCopier, Copying, SomeScript
  <1>3. Carried'
    BY LatestIsRelease DEF TypeOK, Carried, ClientRec, InstallerRec, Release
  <1>4. Alone'
    BY DEF TypeOK, OneCopier, Carried, Alone, Copying, SomeScript, Waiting, Source
  <1>5. Present'
    BY DEF TypeOK, OneCopier, Present, SomeScript, Working, Waiting, Source
  <1>6. WholeExe'
    BY DEF TypeOK, WholeExe, Alone, Copying, SomeScript, Waiting, Source
  <1>7. Responsible'
    BY DEF TypeOK, Responsible, Calm, SomeScript, Working, Waiting, Changing, Copying
  <1>8. QED
    BY <1>1, <1>2, <1>3, <1>4, <1>5, <1>6, <1>7

-----------------------------------------------------------------------------
(* Theorems *)

\* Every step keeps the invariant.
LEMMA NextInd == ASSUME Ind, [Next]_vars PROVE Ind'
  <1>1. CASE Server \/ Service
    BY <1>1, RegisterVersionInd, DeleteClientVersionInd, StartAgainInd, ClientEndsInd, RebootInd
    DEF Server, Service
  <1>2. CASE ClientStep
    BY <1>2, CheckForUpdatesInd, CheckFailsInd, StartDownloadInd, FinishDownloadInd,
       DownloadFailsInd, LaunchScriptInd, LaunchFailsInd
    DEF ClientStep, ClientGoesOn
  <1>3. CASE \E s \in Script : ScriptStep(s)
    BY <1>3, ScriptStopsInd, BeginCopyInd, EndCopyInd, CopyFailsInd, ScriptStartsInd, CleanUpInd
    DEF ScriptStep
  <1>4. CASE (\E kind \in {"cmd", "ps1"} : RunInstaller(kind)) \/ InstallerStep
    BY <1>4, RunInstallerInd, InstallerDownloadsInd, InstallerGivesUpInd, BeginInstallInd,
       EndInstallInd, InstallCopyFailsInd, StopOldServiceInd, ConfigFailsInd,
       DeleteOldServiceInd, CreateServiceInd, CreateFailsInd, InstallerStartsInd
    DEF InstallerStep
  <1>5. CASE UNCHANGED vars
    BY <1>5
    DEF vars, pc, Ind, TypeOK, OneCopier, Carried, Alone, Present, WholeExe, Responsible, Calm,
        SomeScript, Copying, Source
  <1>6. QED
    BY <1>1, <1>2, <1>3, <1>4, <1>5 DEF Next

\* The inductive invariant holds in every state.
THEOREM Invariant == Spec => []Ind
  BY InitInd, NextInd, PTL DEF Spec

\* All variables keep their types.
THEOREM TypeCorrect == Spec => []TypeOK
  <1>1. Ind => TypeOK
    BY DEF Ind
  <1>2. QED
    BY <1>1, Invariant, PTL

\* Without a power cut during a copy and without a client that starts while a script
\* waits, the installed file is whole whenever nobody writes it.
THEOREM NeverTorn == Spec => []WholeExe
  <1>1. Ind => WholeExe
    BY DEF Ind
  <1>2. QED
    BY <1>1, Invariant, PTL

\* Scripts and installers leave a running service behind.
THEOREM AlwaysReturns == Spec => []ServiceReturns
  <1>1. ASSUME Ind PROVE ServiceReturns
    <2> SUFFICES ASSUME mishap \cap {"cut", "refused", "ended"} = {}, exe \in Version,
                        ~SomeScript(Working), installer.at \notin Changing
                 PROVE  service = "registered" /\ client.at # "off"
      BY DEF ServiceReturns
    <2>1. Calm /\ exe # "none"
      BY Words DEF Calm
    <2>2. client.at # "off" /\ service # "absent"
      BY <1>1, <2>1 DEF Ind, Responsible
    <2>3. service # "doomed"
      BY <1>1, <2>1 DEF Ind, Responsible, Changing
    <2>4. QED
      BY <1>1, <2>2, <2>3 DEF Ind, TypeOK
  <1>2. QED
    BY <1>1, Invariant, PTL
=============================================================================
