-------------------------- MODULE ImageReplacement --------------------------
(***************************************************************************)
(* Replacing the installed AppImage: the files of updater/appimage.rs (the *)
(* image, the staged image, the replacement journal, the host's recovery   *)
(* marker), the client that exchanges them, the host that recovers them    *)
(* when it starts, and the old client that starts the new image or rolls   *)
(* it back.  One action is one change of the file system, so that a crash  *)
(* may fall between any two of them.                                       *)
(*                                                                         *)
(* Images are versions 1..MaxVersion; the update of version v is v + 1.    *)
(***************************************************************************)
EXTENDS Integers

CONSTANTS
  MaxVersion,   \* bound on the versions released
  MaxFaults     \* bound on crashes, failed file operations and failed execs

ASSUME ImageAssumption == MaxVersion \in Nat \ {0} /\ MaxFaults \in Nat

NoFile == 0
Torn == -1
Free == "free"
Client == "client"
Host == "host"

Versions == 1..MaxVersion
NoJournal == [old |-> NoFile, new |-> NoFile]
TornFile == [old |-> Torn, new |-> Torn]
Journals == {NoJournal, TornFile} \cup {[old |-> v, new |-> v + 1] : v \in 1..(MaxVersion - 1)}

\* Where the client stands: idle; staging (create, write, create, write); the
\* marker and the exchange; the abort of a prepared replacement; the restart.
ClientSteps == {"idle", "prepare", "stage", "journal", "record", "mark", "commit",
                "verify", "pending", "exec", "rollback", "abort_hashes", "abort_marker",
                "abort_journal", "abort_staged"}
HostSteps == {"down", "recover", "orphan", "abort_marker", "abort_journal", "abort_staged",
              "hello", "finalize", "clear_journal", "clear_staged", "clear_marker", "serving"}

VARIABLES
  image, staged, journal, marker,  \* the files
  lock,      \* holder of the installation's update lock
  profile,   \* holder of the profile lock
  cpc, cver, \* the client: step, version of its build
  hpc, hver, \* the host: step, version of its build
  finished,  \* versions whose host has finished their replacement
  faults     \* faults so far

files == <<image, staged, journal, marker>>
client == <<cpc, cver>>
host == <<hpc, hver>>
vars == <<files, lock, profile, client, host, finished, faults>>

ImageTypeOK ==
  /\ image \in Versions /\ staged \in Versions \cup {NoFile, Torn}
  /\ journal \in Journals /\ marker \in Versions \cup {NoFile}
  /\ lock \in {Free, Client, Host} /\ profile \in {Free, Client, Host}
  /\ cpc \in ClientSteps /\ cver \in Versions
  /\ hpc \in HostSteps /\ hver \in Versions
  /\ finished \subseteq Versions /\ faults \in 0..MaxFaults

Init ==
  /\ image = 1 /\ staged = NoFile /\ journal = NoJournal /\ marker = NoFile
  /\ lock = Free /\ profile = Free
  /\ cpc = "idle" /\ cver = 1 /\ hpc = "down" /\ hver = 1
  /\ finished = {1} /\ faults = 0

-----------------------------------------------------------------------------
(* What the code reads *)

\* hashes() against the journal: both files can be read and are the pair.
Prepared == journal # TornFile /\ image = journal.old /\ staged = journal.new
Committed == journal # TornFile /\ image = journal.new /\ staged = journal.old

\* running_image: the installed image is the one this process was built as.
RunningImage(v) == image = v

Fault == faults < MaxFaults /\ faults' = faults + 1
NoFault == UNCHANGED faults

\* renameat2 with RENAME_EXCHANGE.
Exchange == image' = staged /\ staged' = image

-----------------------------------------------------------------------------
(* The client: AppImageReplacement::prepare *)

ClientGoes(step) == cpc' = step /\ UNCHANGED cver

\* The call returns: the flock and the profile reservation are dropped.
ClientReturns(step) ==
  /\ ClientGoes(step)
  /\ lock' = IF lock = Client THEN Free ELSE lock
  /\ profile' = IF profile = Client THEN Free ELSE profile

\* wait_until has joined the old host and took the profile lock; a next
\* version is ready.
JoinHost ==
  /\ cpc = "idle" /\ profile = Free /\ cver < MaxVersion
  /\ profile' = Client /\ ClientGoes("prepare")
  /\ UNCHANGED <<files, lock, host, finished>> /\ NoFault

\* Refused: not the installed build, an unfinished handoff or replacement, a
\* staged file (O_EXCL), or the update lock is held.
PrepareRefused ==
  \/ ~RunningImage(cver) \/ lock # Free
  \/ marker # NoFile \/ journal # NoJournal \/ staged # NoFile

OpenReplacement ==
  /\ cpc = "prepare"
  /\ IF PrepareRefused
       THEN ClientReturns("idle") /\ UNCHANGED files
       ELSE /\ lock' = Client /\ staged' = Torn /\ ClientGoes("stage")
            /\ UNCHANGED <<image, journal, marker, profile>>
  /\ UNCHANGED <<host, finished>> /\ NoFault

WriteStaged ==
  /\ cpc = "stage"
  /\ staged' = cver + 1 /\ ClientGoes("journal")
  /\ UNCHANGED <<image, journal, marker, lock, profile, host, finished>> /\ NoFault

CreateJournal ==
  /\ cpc = "journal"
  /\ journal' = TornFile /\ ClientGoes("record")
  /\ UNCHANGED <<image, staged, marker, lock, profile, host, finished>> /\ NoFault

WriteJournal ==
  /\ cpc = "record"
  /\ journal' = [old |-> cver, new |-> cver + 1] /\ ClientGoes("mark")
  /\ UNCHANGED <<image, staged, marker, lock, profile, host, finished>> /\ NoFault

\* What a failed prepare leaves of its journal: ExclusiveFile::drop unlinks
\* it, or fails to and ignores that; what fails may be the sync after the write.
JournalAfterFailure ==
  {NoJournal, journal}
    \cup (IF cpc = "record" THEN {[old |-> cver, new |-> cver + 1]} ELSE {})

\* A failed write or sync: each file this call created is dropped on its own.
StagingFails ==
  /\ cpc \in {"stage", "journal", "record"} /\ Fault
  /\ staged' \in {NoFile, staged} /\ journal' \in JournalAfterFailure
  /\ ClientReturns("idle")
  /\ UNCHANGED <<image, marker, host, finished>>

-----------------------------------------------------------------------------
(* The client: launch_verified_installer_inner after the staging *)

\* persist_update_handoff_recovery_marker: written aside and renamed.
PersistMarker ==
  /\ cpc = "mark"
  /\ marker' = cver + 1 /\ ClientGoes("commit")
  /\ UNCHANGED <<image, staged, journal, lock, profile, host, finished>> /\ NoFault

\* commit(): the pair is checked and exchanged in one step.
CommitImage ==
  /\ cpc = "commit" /\ Prepared
  /\ Exchange /\ ClientGoes("verify")
  /\ UNCHANGED <<journal, marker, lock, profile, host, finished>> /\ NoFault

\* The marker is not written, or the exchange fails: the replacement is
\* dropped, which aborts it while it is still prepared.
InstallFails ==
  /\ cpc \in {"mark", "commit", "verify"} /\ Fault
  /\ ClientGoes("abort_hashes")
  /\ UNCHANGED <<files, lock, profile, host, finished>>

\* Mutant: the commit cleans up its backup.
MutArmRestart ==
  /\ cpc = "verify" /\ Committed
  /\ staged' = NoFile /\ ClientReturns("pending")
  /\ UNCHANGED <<image, journal, marker, host, finished>> /\ NoFault

\* The exchanged pair is read back, the restart is armed, and the call
\* returns: the locks are dropped before the old client has gone.
ArmRestart ==
  /\ cpc = "verify" /\ Committed
  /\ ClientReturns("pending")
  /\ UNCHANGED <<files, host, finished>> /\ NoFault

\* Mutant: the abort forgets the marker.
MutAbortHashes ==
  /\ cpc = "abort_hashes"
  /\ IF Prepared THEN ClientGoes("abort_journal") /\ UNCHANGED <<lock, profile>>
                 ELSE ClientReturns("idle")
  /\ UNCHANGED <<files, host, finished>> /\ NoFault

\* abort_prepared: only while the original image is installed.
AbortHashes ==
  /\ cpc = "abort_hashes"
  /\ IF Prepared THEN ClientGoes("abort_marker") /\ UNCHANGED <<lock, profile>>
                 ELSE ClientReturns("idle")
  /\ UNCHANGED <<files, host, finished>> /\ NoFault

AbortMarker ==
  /\ cpc = "abort_marker"
  /\ marker' = NoFile /\ ClientGoes("abort_journal")
  /\ UNCHANGED <<image, staged, journal, lock, profile, host, finished>> /\ NoFault

AbortJournal ==
  /\ cpc = "abort_journal"
  /\ journal' = NoJournal /\ ClientGoes("abort_staged")
  /\ UNCHANGED <<image, staged, marker, lock, profile, host, finished>> /\ NoFault

AbortStaged ==
  /\ cpc = "abort_staged"
  /\ staged' = NoFile /\ ClientReturns("idle")
  /\ UNCHANGED <<image, journal, marker, host, finished>> /\ NoFault

-----------------------------------------------------------------------------
(* The client: restart_after_native_shutdown *)

\* The old client has released its window; it needs the update lock, the
\* journal and the committed pair.  Otherwise it exits, and the desktop is
\* opened again from the installed image.
OpenRestart ==
  /\ cpc = "pending"
  /\ IF lock = Free /\ journal # NoJournal /\ Committed
       THEN lock' = Client /\ ClientGoes("exec")
       ELSE cpc' = "idle" /\ cver' = image /\ UNCHANGED lock
  /\ UNCHANGED <<files, profile, host, finished>> /\ NoFault

\* exec succeeds: the close-on-exec lock is released with the old program.
ExecImage ==
  /\ cpc = "exec"
  /\ cpc' = "idle" /\ cver' = image /\ lock' = Free
  /\ UNCHANGED <<files, profile, host, finished>> /\ NoFault

ExecFails ==
  /\ cpc = "exec" /\ Fault
  /\ ClientGoes("rollback")
  /\ UNCHANGED <<files, lock, profile, host, finished>>

\* rollback_committed: exchange back, then the marker-first abort.
RollbackCommitted ==
  /\ cpc = "rollback"
  /\ IF Committed THEN Exchange /\ ClientGoes("abort_hashes") /\ UNCHANGED lock
                  ELSE ClientReturns("idle") /\ UNCHANGED <<image, staged>>
  /\ UNCHANGED <<journal, marker, profile, host, finished>> /\ NoFault

\* An unlink of the abort fails; dropping the replacement ignores it.
AbortFails ==
  /\ cpc \in {"abort_marker", "abort_journal", "abort_staged"} /\ Fault
  /\ ClientReturns("idle")
  /\ UNCHANGED <<files, host, finished>>

\* The process dies; the desktop is opened again from the installed image.
ClientCrash ==
  /\ cpc # "idle" /\ Fault
  /\ cpc' = "idle" /\ cver' = image
  /\ lock' = IF lock = Client THEN Free ELSE lock
  /\ profile' = IF profile = Client THEN Free ELSE profile
  /\ UNCHANGED <<files, host, finished>>

\* An idle desktop is closed and opened again.
ReopenClient ==
  /\ cpc = "idle" /\ cver # image
  /\ cver' = image
  /\ UNCHANGED <<files, lock, profile, cpc, host, finished>> /\ NoFault

-----------------------------------------------------------------------------
(* The host *)

HostGoes(step) == hpc' = step /\ UNCHANGED hver

\* The start fails or the process dies.
HostStops ==
  /\ HostGoes("down")
  /\ lock' = IF lock = Host THEN Free ELSE lock
  /\ profile' = Free

StartHost ==
  /\ hpc = "down" /\ profile = Free
  /\ profile' = Host /\ hpc' = "recover" /\ hver' = image
  /\ UNCHANGED <<files, lock, client, finished>> /\ NoFault

\* recover_running_image: abort a prepared replacement, admit a committed one
\* with the marker of this build, and stop at anything else.
RecoverImage ==
  /\ hpc = "recover"
  /\ IF ~RunningImage(hver) \/ lock # Free \/ journal = TornFile THEN HostStops
     ELSE IF journal = NoJournal
       THEN lock' = Host /\ HostGoes("orphan") /\ UNCHANGED profile
     ELSE IF Prepared
       THEN lock' = Host /\ HostGoes("abort_marker") /\ UNCHANGED profile
     ELSE IF Committed /\ marker = hver
       THEN HostGoes("hello") /\ UNCHANGED <<lock, profile>>
     ELSE HostStops
  /\ UNCHANGED <<files, client, finished>> /\ NoFault

\* Mutant: a staged file without a journal is left alone.
MutRemoveOrphan ==
  /\ hpc = "orphan"
  /\ lock' = Free /\ HostGoes("hello")
  /\ UNCHANGED <<files, profile, client, finished>> /\ NoFault

\* Without a journal only the generated staged file is removed.
RemoveOrphan ==
  /\ hpc = "orphan"
  /\ staged' = NoFile /\ lock' = Free /\ HostGoes("hello")
  /\ UNCHANGED <<image, journal, marker, profile, client, finished>> /\ NoFault

HostAbortMarker ==
  /\ hpc = "abort_marker"
  /\ marker' = NoFile /\ HostGoes("abort_journal")
  /\ UNCHANGED <<image, staged, journal, lock, profile, client, finished>> /\ NoFault

HostAbortJournal ==
  /\ hpc = "abort_journal"
  /\ journal' = NoJournal /\ HostGoes("abort_staged")
  /\ UNCHANGED <<image, staged, marker, lock, profile, client, finished>> /\ NoFault

HostAbortStaged ==
  /\ hpc = "abort_staged"
  /\ staged' = NoFile /\ lock' = Free /\ HostGoes("hello")
  /\ UNCHANGED <<image, journal, marker, profile, client, finished>> /\ NoFault

\* Mutant: the host clears the marker and leaves the replacement.
MutHostHello ==
  /\ hpc = "hello"
  /\ IF marker = NoFile THEN HostGoes("serving") /\ UNCHANGED <<lock, profile>>
     ELSE IF marker = hver THEN HostGoes("clear_marker") /\ UNCHANGED <<lock, profile>>
     ELSE HostStops
  /\ UNCHANGED <<files, client, finished>> /\ NoFault

\* complete_update_handoff_recovery_if_present: without a marker the host
\* serves; a marker of another build stops it.
HostHello ==
  /\ hpc = "hello"
  /\ IF marker = NoFile THEN HostGoes("serving") /\ UNCHANGED <<lock, profile>>
     ELSE IF marker = hver THEN HostGoes("finalize") /\ UNCHANGED <<lock, profile>>
     ELSE HostStops
  /\ UNCHANGED <<files, client, finished>> /\ NoFault

\* finalize_running_image.
FinalizeImage ==
  /\ hpc = "finalize"
  /\ IF ~RunningImage(hver) \/ lock # Free \/ journal = TornFile THEN HostStops
     ELSE IF journal = NoJournal
       THEN HostGoes("clear_marker") /\ UNCHANGED <<lock, profile>>
     ELSE IF Committed
       THEN lock' = Host /\ HostGoes("clear_journal") /\ UNCHANGED profile
     ELSE HostStops
  /\ UNCHANGED <<files, client, finished>> /\ NoFault

\* clear_files removes the lineage before the backup.
ClearJournal ==
  /\ hpc = "clear_journal"
  /\ journal' = NoJournal /\ HostGoes("clear_staged")
  /\ finished' = finished \cup {hver}
  /\ UNCHANGED <<image, staged, marker, lock, profile, client>> /\ NoFault

ClearStaged ==
  /\ hpc = "clear_staged"
  /\ staged' = NoFile /\ lock' = Free /\ HostGoes("clear_marker")
  /\ UNCHANGED <<image, journal, marker, profile, client, finished>> /\ NoFault

ClearMarker ==
  /\ hpc = "clear_marker"
  /\ marker' = NoFile /\ HostGoes("serving")
  /\ UNCHANGED <<image, staged, journal, lock, profile, client, finished>> /\ NoFault

HostCrash ==
  /\ hpc \notin {"down", "serving"} /\ Fault
  /\ HostStops
  /\ UNCHANGED <<files, client, finished>>

\* A serving host retires for an update or is quit.
HostExits ==
  /\ hpc = "serving"
  /\ HostStops
  /\ UNCHANGED <<files, client, finished>> /\ NoFault

-----------------------------------------------------------------------------
ClientStep ==
  \/ OpenReplacement \/ WriteStaged \/ CreateJournal \/ WriteJournal \/ PersistMarker
  \/ CommitImage \/ ArmRestart \/ AbortHashes \/ AbortMarker \/ AbortJournal \/ AbortStaged
  \/ OpenRestart \/ ExecImage \/ RollbackCommitted

HostStep ==
  \/ RecoverImage \/ RemoveOrphan \/ HostAbortMarker \/ HostAbortJournal \/ HostAbortStaged
  \/ HostHello \/ FinalizeImage \/ ClearJournal \/ ClearStaged \/ ClearMarker

Next ==
  \/ JoinHost \/ ClientStep \/ StagingFails \/ InstallFails \/ ExecFails \/ AbortFails
  \/ ClientCrash \/ ReopenClient
  \/ StartHost \/ HostStep \/ HostCrash \/ HostExits

Spec == Init /\ [][Next]_vars

\* A running client and a starting host go on, and a missing host is started
\* again: the desktop does so whenever it finds none.
FairSpec == Spec /\ WF_vars(ClientStep) /\ WF_vars(HostStep) /\ SF_vars(StartHost)

-----------------------------------------------------------------------------
(* Properties *)

\* The journal of a replacement that nothing can finish or undo: it cannot be
\* read, or its staged image is gone.
Stranded == journal # NoJournal /\ ~Prepared /\ ~Committed

\* Whatever step a crash falls on, recover_running_image admits a host of the
\* installed image to the files left behind: a prepared pair is aborted, a
\* committed pair carries this build's marker, and without a journal no marker
\* of another build is left.  Where it must refuse (a staging that was cut
\* off), nothing has been replaced: the image is one that has served, and no
\* marker asks for another.
Recoverable ==
  /\ Committed => marker = image
  /\ journal = NoJournal => marker \in {NoFile, image}
  /\ Stranded => image \in finished /\ marker = NoFile

\* Stronger, and not so: every file left behind can be finished or undone.  The
\* journal is created and then written in place.
AlwaysRecoverable == Stranded => cpc = "record"

\* The old image is retained after the cutover until a host of the new one
\* has said Hello and finished the replacement.
BackupUntilHello ==
  image \notin finished => staged = image - 1 /\ journal # NoJournal

\* The image is never rolled back under the host that serves it, although the
\* old client that may roll it back holds no profile lock.
ServedImageStays == [][image' < image => ~(hpc = "serving" /\ hver = image)]_vars

\* A replacement that was begun is finished or undone after one fault: the files
\* it left are removed, unless the fault cut off the staging and stranded them.
\* After a second one they may stay until the host is started once more.
Settles ==
  (staged # NoFile \/ journal # NoJournal \/ marker # NoFile)
    ~> \/ staged = NoFile /\ journal = NoJournal /\ marker = NoFile
       \/ Stranded /\ cpc # "record"
       \/ faults > 1

=============================================================================
