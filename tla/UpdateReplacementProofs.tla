---------------------- MODULE UpdateReplacementProofs ----------------------
(***************************************************************************)
(* Crash safety of both kinds of replacement, for any number of versions  *)
(* and faults.                                                             *)
(*                                                                         *)
(* The AppImage.  Recoverable is not inductive: why a file cannot change   *)
(* under a step follows from who holds the two locks (LocksOK) and from    *)
(* what each process has read since it took them (ClientOK, HostOK).  The  *)
(* old client and a starting host hold different locks, so a rollback may  *)
(* happen under a host that has read the committed pair; HostVersionOK     *)
(* says such a host is of the version that is gone.                        *)
(*                                                                         *)
(* The pair.  A crash in the rollback may leave a new host beside an old   *)
(* client, which then starts and finishes; PairExeOK says that is the only *)
(* way in which a serving host differs from the client, so that the next   *)
(* install has one version to return to (OldHost).                         *)
(***************************************************************************)
EXTENDS UpdateReplacement, TLAPS

\* A journal that was written whole names a version and the one after it.
Whole == journal \notin {NoJournal, TornFile}

\* Steps of the client under both locks, of the restart it decides under the
\* update lock alone, of its abort; and of the host under the update lock.
StagingSteps == {"stage", "journal", "record", "mark", "commit", "verify"}
RestartSteps == {"exec", "rollback"}
AbortSteps == {"abort_hashes", "abort_marker", "abort_journal", "abort_staged"}
LockedHostSteps == {"orphan", "abort_marker", "abort_journal", "abort_staged",
                    "clear_journal", "clear_staged"}

\* Who holds the update lock and the profile lock.
LocksOK ==
  /\ cpc \in {"idle", "pending"} => lock # Client /\ profile # Client
  /\ cpc = "prepare" => lock # Client /\ profile = Client
  /\ cpc \in StagingSteps => lock = Client /\ profile = Client
  /\ cpc \in RestartSteps => lock = Client /\ profile # Client
  /\ cpc \in AbortSteps => lock = Client
  /\ profile = Host <=> hpc # "down"
  /\ lock = Host <=> hpc \in LockedHostSteps

\* What the client knows of the files at each of its steps.
ClientOK ==
  /\ cpc \in {"prepare", "stage", "journal", "record", "mark", "commit"} => cver < MaxVersion
  /\ cpc \in {"stage", "journal", "record", "mark", "commit"} => image = cver
  /\ cpc \in {"stage", "journal", "record", "mark"} => marker = NoFile
  /\ cpc \in {"stage", "journal"} => journal = NoJournal
  /\ cpc \in {"journal", "record"} => staged = cver + 1
  /\ cpc = "record" => journal = TornFile
  /\ cpc \in {"mark", "commit"} => Prepared
  /\ cpc = "commit" => marker = image + 1
  /\ cpc \in {"verify", "exec", "rollback"} => Committed
  /\ cpc = "abort_hashes" => Whole
  /\ cpc \in {"abort_marker", "abort_journal"} => Prepared
  /\ cpc \in {"abort_journal", "abort_staged"} => marker = NoFile
  /\ cpc = "abort_staged" => journal = NoJournal

\* What the host knows of the files at each of its steps.
HostOK ==
  /\ hpc \in {"orphan", "abort_staged", "clear_staged", "clear_marker"} => journal = NoJournal
  /\ hpc \in {"abort_marker", "abort_journal"} => Prepared
  /\ hpc = "abort_journal" => marker = NoFile
  /\ hpc = "clear_journal" => Committed

\* The version of a host that runs: a committed image is its own, and an
\* image that was rolled back under a starting host is not.
HostVersionOK ==
  /\ hpc # "down" /\ Committed => hver = image
  /\ hpc \in {"hello", "finalize", "serving"} /\ Prepared => hver # image
  /\ hpc = "serving" => ~Committed

\* The files alone: what Recoverable says, and the old image is a finished one.
FilesOK ==
  /\ journal = TornFile => marker = NoFile
  /\ Whole => \/ Prepared
              \/ Committed /\ marker = image
              \/ image = journal.old /\ staged = NoFile /\ marker = NoFile
  /\ Whole => journal.old \in finished
  /\ ~Whole => image \in finished
  /\ journal = NoJournal => marker \in {NoFile, image}

ImageInv == ImageTypeOK /\ LocksOK /\ ClientOK /\ HostOK /\ HostVersionOK /\ FilesOK

-----------------------------------------------------------------------------
\* What a journal can hold.
LEMMA JournalShape ==
  ASSUME ImageTypeOK
  PROVE  \/ journal = NoJournal \/ journal = TornFile
         \/ /\ journal.old \in 1..(MaxVersion - 1) /\ journal.new = journal.old + 1
            /\ journal \notin {NoJournal, TornFile}
BY ImageAssumption DEF ImageTypeOK, Journals, NoJournal, TornFile, NoFile, Torn

\* Every step of the AppImage's update keeps its invariant.
LEMMA InvStep == ASSUME ImageInv, [Next]_vars PROVE ImageInv'
<1> USE ImageAssumption
    DEF ImageInv, ImageTypeOK, LocksOK, ClientOK, HostOK, HostVersionOK, FilesOK, Whole, Prepared,
        Committed, StagingSteps, RestartSteps, AbortSteps, LockedHostSteps, Versions, Journals,
        NoJournal, TornFile, NoFile, Torn, Free, Client, Host, ClientSteps, HostSteps
<1>1. CASE JoinHost
  BY <1>1 DEF JoinHost, ClientGoes, NoFault, files, host
<1>2. CASE OpenReplacement
  <2>1. CASE PrepareRefused
    BY <1>2, <2>1 DEF OpenReplacement, ClientReturns, ClientGoes, NoFault, files, host
  <2>2. CASE ~PrepareRefused
    <3>1. image = cver /\ lock = Free /\ marker = NoFile /\ journal = NoJournal
      BY <2>2 DEF PrepareRefused, RunningImage
    <3>2. profile = Client /\ cver < MaxVersion /\ hpc = "down"
      BY <1>2 DEF OpenReplacement
    <3> QED
      BY <1>2, <2>2, <3>1, <3>2 DEF OpenReplacement, ClientGoes, NoFault, host
  <2> QED
    BY <2>1, <2>2
<1>3. CASE WriteStaged
  BY <1>3 DEF WriteStaged, ClientGoes, NoFault, host
<1>4. CASE CreateJournal
  BY <1>4 DEF CreateJournal, ClientGoes, NoFault, host
<1>5. CASE WriteJournal
  BY <1>5 DEF WriteJournal, ClientGoes, NoFault, host
<1>6. CASE StagingFails
  BY <1>6 DEF StagingFails, JournalAfterFailure, ClientReturns, Fault, ClientGoes, host
<1>7. CASE PersistMarker
  BY <1>7 DEF PersistMarker, ClientGoes, NoFault, host
<1>8. CASE CommitImage
  BY <1>8 DEF CommitImage, ClientGoes, Exchange, NoFault, host
<1>9. CASE InstallFails
  BY <1>9 DEF InstallFails, ClientGoes, Fault, files, host
<1>10. CASE ArmRestart
  BY <1>10 DEF ArmRestart, ClientReturns, NoFault, ClientGoes, files, host
<1>11. CASE AbortHashes
  BY <1>11 DEF AbortHashes, ClientGoes, ClientReturns, NoFault, files, host
<1>12. CASE AbortMarker
  BY <1>12 DEF AbortMarker, ClientGoes, NoFault, host
<1>13. CASE AbortJournal
  BY <1>13 DEF AbortJournal, ClientGoes, NoFault, host
<1>14. CASE AbortStaged
  BY <1>14 DEF AbortStaged, ClientReturns, NoFault, ClientGoes, host
<1>15. CASE OpenRestart
  BY <1>15 DEF OpenRestart, ClientGoes, NoFault, files, host
<1>16. CASE ExecImage
  BY <1>16 DEF ExecImage, NoFault, files, host
<1>17. CASE ExecFails
  BY <1>17 DEF ExecFails, ClientGoes, Fault, files, host
<1>18. CASE RollbackCommitted
  BY <1>18 DEF RollbackCommitted, ClientGoes, ClientReturns, Exchange, NoFault, host
<1>19. CASE AbortFails
  BY <1>19 DEF AbortFails, ClientReturns, Fault, ClientGoes, files, host
<1>20. CASE ClientCrash
  BY <1>20 DEF ClientCrash, Fault, files, host
<1>21. CASE ReopenClient
  BY <1>21 DEF ReopenClient, NoFault, files, host
<1>22. CASE StartHost
  BY <1>22 DEF StartHost, NoFault, files, client
<1>23. CASE RecoverImage
  BY <1>23 DEF RecoverImage, HostGoes, HostStops, RunningImage, NoFault, files, client
<1>24. CASE RemoveOrphan
  BY <1>24 DEF RemoveOrphan, HostGoes, NoFault, client
<1>25. CASE HostAbortMarker
  BY <1>25 DEF HostAbortMarker, HostGoes, NoFault, client
<1>26. CASE HostAbortJournal
  BY <1>26 DEF HostAbortJournal, HostGoes, NoFault, client
<1>27. CASE HostAbortStaged
  BY <1>27 DEF HostAbortStaged, HostGoes, NoFault, client
<1>28. CASE HostHello
  BY <1>28 DEF HostHello, HostGoes, HostStops, NoFault, files, client
<1>29. CASE FinalizeImage
  BY <1>29 DEF FinalizeImage, HostGoes, HostStops, RunningImage, NoFault, files, client
<1>30. CASE ClearJournal
  BY <1>30 DEF ClearJournal, HostGoes, NoFault, client
<1>31. CASE ClearStaged
  BY <1>31 DEF ClearStaged, HostGoes, NoFault, client
<1>32. CASE ClearMarker
  BY <1>32 DEF ClearMarker, HostGoes, NoFault, client
<1>33. CASE HostCrash
  BY <1>33 DEF HostCrash, HostStops, Fault, HostGoes, files, client
<1>34. CASE HostExits
  BY <1>34 DEF HostExits, HostStops, NoFault, HostGoes, files, client
<1>35. CASE UNCHANGED vars
  BY <1>35 DEF vars, files, client, host
<1> QED
  BY <1>1, <1>2, <1>3, <1>4, <1>5, <1>6, <1>7, <1>8, <1>9, <1>10, <1>11, <1>12, <1>13, <1>14,
     <1>15, <1>16, <1>17, <1>18, <1>19, <1>20, <1>21, <1>22, <1>23, <1>24, <1>25, <1>26, <1>27,
     <1>28, <1>29, <1>30, <1>31, <1>32, <1>33, <1>34, <1>35
     DEF Next, ClientStep, HostStep

\* The first start of the product.
LEMMA InvInit == Init => ImageInv
BY ImageAssumption
   DEF Init, ImageInv, ImageTypeOK, LocksOK, ClientOK, HostOK, HostVersionOK, FilesOK, Whole,
       Prepared, Committed, StagingSteps, RestartSteps, AbortSteps, LockedHostSteps, Versions,
       Journals, NoJournal, TornFile, NoFile, Torn, Free, Client, Host, ClientSteps, HostSteps

\* A step of either kind of update is a step of the AppImage's, or none.
LEMMA ReplacementIsImage ==
  /\ ReplacementInit => Init
  /\ [ReplacementNext]_allVars => [Next]_vars
BY DEF ReplacementInit, ReplacementNext, OfImage, OfPair, allVars

\* The inductive invariant, of the two kinds of update together.
THEOREM ReplacementInvariant == ReplacementSpec => []ImageInv
<1>1. ImageInv /\ [Next]_vars => ImageInv'
  BY InvStep
<1> QED
  BY <1>1, InvInit, ReplacementIsImage, PTL DEF ReplacementSpec

-----------------------------------------------------------------------------
(* What follows *)

\* Whatever step a crash falls on, the write of the created journal included, a
\* host of the installed image can recover (recover_running_image), or nothing
\* has been replaced.
THEOREM ImageIsRecoverable == ReplacementSpec => []Recoverable
<1>1. ImageInv => Recoverable
  <2> SUFFICES ASSUME ImageInv PROVE Recoverable
    OBVIOUS
  <2> USE JournalShape, ImageAssumption
      DEF ImageInv, ImageTypeOK, FilesOK, Whole, Prepared, Committed, Versions, NoJournal, TornFile,
          NoFile, Torn
  <2>1. CASE journal = NoJournal
    BY <2>1 DEF Recoverable, Stranded
  <2>2. CASE journal = TornFile
    BY <2>2 DEF Recoverable, Stranded
  <2>3. CASE Whole
    BY <2>3 DEF Recoverable, Stranded
  <2> QED
    BY <2>1, <2>2, <2>3
<1> QED
  BY <1>1, ReplacementInvariant, PTL

\* The old image stays until a host of the new one has finished the
\* replacement (clear_files after complete_update_handoff_recovery_if_present).
THEOREM BackupIsKept == ReplacementSpec => []BackupUntilHello
<1>1. ImageInv => BackupUntilHello
  <2> SUFFICES ASSUME ImageInv, image \notin finished
               PROVE  staged = image - 1 /\ journal # NoJournal
    BY DEF BackupUntilHello
  <2>1. Whole /\ Committed
    BY DEF ImageInv, FilesOK, Whole, Prepared
  <2>2. journal.old \in 1..(MaxVersion - 1) /\ journal.new = journal.old + 1
    BY <2>1, JournalShape DEF ImageInv, Whole
  <2> QED
    BY <2>1, <2>2, ImageAssumption DEF Whole, Committed
<1> QED
  BY <1>1, ReplacementInvariant, PTL

\* rollback_committed never takes the image from a host that serves it.
THEOREM ServedImageIsKept == ReplacementSpec => ServedImageStays
<1>1. ImageInv /\ [Next]_vars => [image' < image => ~(hpc = "serving" /\ hver = image)]_vars
  <2> SUFFICES ASSUME ImageInv, Next, image' < image, hpc = "serving"
               PROVE  FALSE
    BY DEF vars
  <2>1. ~Committed /\ profile # Client
    BY DEF ImageInv, HostVersionOK, LocksOK, Client, Host
  <2>2. cpc # "commit"
    BY <2>1 DEF ImageInv, LocksOK, StagingSteps
  <2>3. image' = image
    BY <2>1, <2>2
       DEF Next, ClientStep, HostStep,
           JoinHost, OpenReplacement, WriteStaged, CreateJournal, WriteJournal, StagingFails,
           PersistMarker, CommitImage, InstallFails, ArmRestart, AbortHashes, AbortMarker,
           AbortJournal, AbortStaged, OpenRestart, ExecImage, ExecFails, RollbackCommitted,
           AbortFails, ClientCrash, ReopenClient, StartHost, RecoverImage, RemoveOrphan,
           HostAbortMarker, HostAbortJournal, HostAbortStaged, HostHello, FinalizeImage,
           ClearJournal, ClearStaged, ClearMarker, HostCrash, HostExits, files
  <2> QED
    BY <2>3, ImageAssumption DEF ImageInv, ImageTypeOK, Versions
<1> QED
  BY <1>1, ReplacementInvariant, ReplacementIsImage, PTL DEF ReplacementSpec, ServedImageStays

-----------------------------------------------------------------------------
(* The pair of binaries *)

\* The binary pair.  Before the commit, while the backups are made; then until
\* both are replaced; and while a backup is still to be moved back.
BackupSteps == {"validate", "backup_client", "backup_host", "backed_up"}
CommitSteps == {"client", "client_replaced", "host", "host_replaced", "clean"}
Revertible == {"mark", "client", "client_replaced", "host", "host_replaced", "drop",
               "restore_client"}

\* The version to return to: the base, unless the target was already served.
OldHost(file) == file \in pairFinished /\ (Pair!Target \notin pairFinished => file = base)

\* The recovery marker.
PairMarkerOK ==
  /\ pairMarker \in {Pair!NoFile, Pair!Target}
  /\ hostUp \/ pc \in BackupSteps \cup {"mark"} => pairMarker = Pair!NoFile
  /\ pc \in CommitSteps => pairMarker = Pair!Target

\* The installed binaries.
PairExeOK ==
  /\ pc # "idle" => ~hostUp
  /\ ~hostUp => base < MaxVersion
  /\ hostUp => hostExe \in pairFinished
  /\ hostUp => clientExe \in {hostExe, Pair!Torn} \/ clientExe + 1 \in pairFinished
  /\ ~hostUp => clientExe \in {base, Pair!Target, Pair!Torn}
  /\ ~hostUp /\ pairMarker = Pair!NoFile => clientExe \in {base, Pair!Torn}
  /\ ~hostUp => OldHost(hostExe) \/ hostExe \in {Pair!Target, Pair!Torn}
  /\ hostExe \in Pair!Versions \ pairFinished => pairMarker = hostExe

\* What the installing client knows of the binaries and their backups.
InstallerOK ==
  /\ pc \in BackupSteps \cup {"mark", "client"} => clientExe = base
  /\ pc \in BackupSteps \cup {"mark", "client", "client_replaced", "host"} => OldHost(hostExe)
  /\ pc \in {"client_replaced", "host", "host_replaced", "clean"} => clientExe = Pair!Target
  /\ pc \in {"host_replaced", "clean"} => hostExe = Pair!Target
  /\ pc \in Revertible \cup {"backup_host", "backed_up", "clean"} => clientBak = base
  /\ pc \in Revertible \cup {"backed_up", "restore_host", "clean"} => OldHost(hostBak)

PairInv == Pair!BinaryTypeOK /\ PairMarkerOK /\ PairExeOK /\ InstallerOK /\ OldPairIsKept

\* Every step of the pair's update keeps its invariant, for any faults.
LEMMA PairStep == ASSUME PairInv, Pair!Next \/ UNCHANGED pairVars PROVE PairInv'
<1> USE ImageAssumption
    DEF PairInv, PairMarkerOK, PairExeOK, InstallerOK, OldHost, OldPairIsKept, Pair!OldPairIsKept,
        BackupSteps, CommitSteps, Revertible, Pair!BinaryTypeOK, Pair!Target, Pair!NoFile,
        Pair!Torn, Pair!Versions, Pair!Binaries, Pair!Files, Pair!StageMarkers, Pair!Steps
<1>1. CASE Pair!JoinHost
  <2>1. /\ pc' = "validate" /\ hostUp' = FALSE /\ base' = clientExe
        /\ base' \in 1..MaxVersion /\ base' < MaxVersion /\ pairMarker = Pair!NoFile
        /\ UNCHANGED <<clientExe, hostExe, clientBak, hostBak, stage, pairMarker, pairFinished,
                       pairFaults>>
    BY <1>1 DEF Pair!JoinHost, Pair!files
  <2>2. OldHost(hostExe)'
    BY <1>1, <2>1 DEF Pair!JoinHost
  <2>3. Pair!BinaryTypeOK'
    BY <2>1
  <2>4. PairMarkerOK' /\ InstallerOK'
    BY <2>1, <2>2
  <2>5. PairExeOK'
    BY <2>1, <2>2
  <2>6. OldPairIsKept'
    BY <2>1, <2>2
  <2> QED
    BY <2>3, <2>4, <2>5, <2>6
<1>2. CASE Pair!StageValidated
  BY <1>2 DEF Pair!StageValidated
<1>3. CASE Pair!BackupClient
  BY <1>3 DEF Pair!BackupClient
<1>4. CASE Pair!BackupHost
  BY <1>4 DEF Pair!BackupHost
<1>5. CASE Pair!StageBackedUp
  BY <1>5 DEF Pair!StageBackedUp
<1>6. CASE Pair!PrepareFails
  BY <1>6 DEF Pair!PrepareFails, Pair!Fault, Pair!AfterFailedWrite, Pair!AfterFailedCopy
<1>7. CASE Pair!PersistMarker
  BY <1>7 DEF Pair!PersistMarker
<1>8. CASE Pair!ReplaceClient
  BY <1>8 DEF Pair!ReplaceClient
<1>9. CASE Pair!StageClientReplaced
  BY <1>9 DEF Pair!StageClientReplaced
<1>10. CASE Pair!ReplaceHost
  BY <1>10 DEF Pair!ReplaceHost
<1>11. CASE Pair!StageHostReplaced
  BY <1>11 DEF Pair!StageHostReplaced
<1>12. CASE Pair!CleanUp
  BY <1>12 DEF Pair!CleanUp
<1>13. CASE Pair!ReplaceFails
  BY <1>13 DEF Pair!ReplaceFails, Pair!Fault, Pair!AfterFailedCopy
<1>14. CASE Pair!MarkerFails
  BY <1>14 DEF Pair!MarkerFails, Pair!Fault, Pair!AfterFailedWrite
<1>15. CASE Pair!RecoverInterrupted
  BY <1>15 DEF Pair!RecoverInterrupted, Pair!files
<1>16. CASE Pair!RestoreClient
  BY <1>16 DEF Pair!RestoreClient, Pair!Fault, Pair!AfterFailedCopy
<1>17. CASE Pair!RestoreHost
  BY <1>17 DEF Pair!RestoreHost, Pair!Fault, Pair!AfterFailedCopy
<1>18. CASE Pair!Unstage
  BY <1>18 DEF Pair!Unstage
<1>19. CASE Pair!Crash
  BY <1>19 DEF Pair!Crash, Pair!Fault, Pair!files
<1>20. CASE Pair!StartHost
  BY <1>20 DEF Pair!StartHost
<1>21. CASE UNCHANGED pairVars
  BY <1>21 DEF pairVars
<1> QED
  BY <1>1, <1>2, <1>3, <1>4, <1>5, <1>6, <1>7, <1>8, <1>9, <1>10, <1>11, <1>12, <1>13, <1>14,
     <1>15, <1>16, <1>17, <1>18, <1>19, <1>20, <1>21
     DEF Pair!Next

\* The first start of the product.
LEMMA PairInit == Pair!Init => PairInv
BY ImageAssumption
   DEF Pair!Init, PairInv, PairMarkerOK, PairExeOK, InstallerOK, OldHost, OldPairIsKept,
       Pair!OldPairIsKept, BackupSteps, CommitSteps, Revertible, Pair!BinaryTypeOK, Pair!Target,
       Pair!NoFile, Pair!Torn, Pair!Versions, Pair!Binaries, Pair!Files, Pair!StageMarkers,
       Pair!Steps

\* The inductive invariant of the pair.
THEOREM PairInvariant == ReplacementSpec => []PairInv
<1>1. ReplacementInit => PairInv
  BY PairInit DEF ReplacementInit
<1>2. PairInv /\ [ReplacementNext]_allVars => PairInv'
  BY PairStep DEF ReplacementNext, OfImage, OfPair, allVars
<1> QED
  BY <1>1, <1>2, PTL DEF ReplacementSpec

\* Both old binaries stay on disk until the commit or the rollback is complete,
\* wherever the client dies (prepare_durable_backups, rollback_from_backups).
THEOREM OldPairStays == ReplacementSpec => []OldPairIsKept
BY PairInvariant, PTL DEF PairInv

\* No host binary that has not served is installed without its marker
\* (launch_verified_installer_inner).
THEOREM NewHostIsMarked == ReplacementSpec => []NewHostCarriesMarker
<1>1. PairInv => NewHostCarriesMarker
  BY DEF PairInv, PairExeOK, NewHostCarriesMarker, Pair!NewHostCarriesMarker
<1> QED
  BY <1>1, PairInvariant, PTL

=============================================================================
