------------------------- MODULE BinaryReplacement -------------------------
(***************************************************************************)
(* Replacing the installed pair of binaries, client and host, as           *)
(* updater/replace.rs does where the product is not an AppImage: backups,  *)
(* the stage marker, the two replacements and their rollback, and the host *)
(* that checks the recovery marker when it starts.  One action is one      *)
(* change of the file system.  Binaries move by rename, with a copy where  *)
(* the rename fails, so a failed move may leave the destination torn.      *)
(***************************************************************************)
EXTENDS Integers

CONSTANTS
  MaxVersion,  \* bound on the versions released
  MaxFaults,   \* bound on failed file operations and crashes
  Crashes,     \* whether the client process may die during an install
  TornMarkers  \* whether a failed write may truncate the stage marker

NoFile == 0
Torn == MaxVersion + 1  \* bytes that are no binary
Versions == 1..MaxVersion
Binaries == Versions \cup {Torn}
Files == Binaries \cup {NoFile}

StageMarkers == {"none", "torn", "validated", "backed_up", "client_replaced", "host_replaced"}
Steps == {"idle", "validate", "backup_client", "backup_host", "backed_up", "mark",
          "client", "client_replaced", "host", "host_replaced", "clean", "drop",
          "restore_client", "restore_host", "unstage"}

VARIABLES
  clientExe, hostExe,  \* the installed binaries
  clientBak, hostBak,  \* their backups
  stage,     \* the stage marker
  marker,    \* the handoff recovery marker: the version it claims
  pc, base,  \* the installing client: its step, the version it updates
  hostUp,    \* a host serves
  finished,  \* versions whose host has cleared its marker, or that were there
  faults

files == <<clientExe, hostExe, clientBak, hostBak, stage, marker>>
vars == <<files, pc, base, hostUp, finished, faults>>

BinaryTypeOK ==
  /\ clientExe \in Binaries /\ hostExe \in Binaries
  /\ clientBak \in Files /\ hostBak \in Files
  /\ stage \in StageMarkers /\ marker \in Versions \cup {NoFile}
  /\ pc \in Steps /\ base \in Versions /\ hostUp \in BOOLEAN
  /\ finished \subseteq Versions /\ faults \in 0..MaxFaults

Init ==
  /\ clientExe = 1 /\ hostExe = 1 /\ clientBak = NoFile /\ hostBak = NoFile
  /\ stage = "none" /\ marker = NoFile
  /\ pc = "idle" /\ base = 1 /\ hostUp = TRUE /\ finished = {1} /\ faults = 0

Fault == faults < MaxFaults /\ faults' = faults + 1
Target == base + 1

\* What a failed write leaves of the stage marker, a failed copy of a file.
AfterFailedWrite == {stage} \cup IF TornMarkers THEN {"torn"} ELSE {}
AfterFailedCopy(file) == {file, Torn}

-----------------------------------------------------------------------------
(* prepare_durable_backups *)

\* The serving host has retired and was joined.
JoinHost ==
  /\ pc = "idle" /\ hostUp /\ clientExe \in Versions \ {MaxVersion}
  /\ pc' = "validate" /\ base' = clientExe /\ hostUp' = FALSE
  /\ UNCHANGED <<files, finished, faults>>

StageValidated ==
  /\ pc = "validate"
  /\ stage' = "validated" /\ pc' = "backup_client"
  /\ UNCHANGED <<clientExe, hostExe, clientBak, hostBak, marker, base, hostUp, finished, faults>>

BackupClient ==
  /\ pc = "backup_client"
  /\ clientBak' = clientExe /\ pc' = "backup_host"
  /\ UNCHANGED <<clientExe, hostExe, hostBak, stage, marker, base, hostUp, finished, faults>>

\* Mutant: the second backup of an existing pair is skipped.
MutBackupHost ==
  /\ pc = "backup_host" /\ pc' = "backed_up"
  /\ UNCHANGED <<files, base, hostUp, finished, faults>>

BackupHost ==
  /\ pc = "backup_host"
  /\ hostBak' = hostExe /\ pc' = "backed_up"
  /\ UNCHANGED <<clientExe, hostExe, clientBak, stage, marker, base, hostUp, finished, faults>>

StageBackedUp ==
  /\ pc = "backed_up"
  /\ stage' = "backed_up" /\ pc' = "mark"
  /\ UNCHANGED <<clientExe, hostExe, clientBak, hostBak, marker, base, hostUp, finished, faults>>

\* Before the replacement exists a failure returns at once, and what it wrote
\* so far stays.
PrepareFails ==
  /\ Fault /\ pc' = "idle"
  /\ \/ /\ pc \in {"validate", "backed_up"} /\ stage' \in AfterFailedWrite
        /\ UNCHANGED <<clientBak, hostBak>>
     \/ /\ pc = "backup_client" /\ clientBak' \in AfterFailedCopy(clientBak)
        /\ UNCHANGED <<stage, hostBak>>
     \/ /\ pc = "backup_host" /\ hostBak' \in AfterFailedCopy(hostBak)
        /\ UNCHANGED <<stage, clientBak>>
  /\ UNCHANGED <<clientExe, hostExe, marker, base, hostUp, finished>>

-----------------------------------------------------------------------------
(* launch_verified_installer_inner and commit_after_durable_backups *)

\* Mutant: the recovery marker is left to a later step.
MutPersistMarker ==
  /\ pc = "mark" /\ pc' = "client"
  /\ UNCHANGED <<files, base, hostUp, finished, faults>>

PersistMarker ==
  /\ pc = "mark"
  /\ marker' = Target /\ pc' = "client"
  /\ UNCHANGED <<clientExe, hostExe, clientBak, hostBak, stage, base, hostUp, finished, faults>>

ReplaceClient ==
  /\ pc = "client"
  /\ clientExe' = Target /\ pc' = "client_replaced"
  /\ UNCHANGED <<hostExe, clientBak, hostBak, stage, marker, base, hostUp, finished, faults>>

StageClientReplaced ==
  /\ pc = "client_replaced"
  /\ stage' = "client_replaced" /\ pc' = "host"
  /\ UNCHANGED <<clientExe, hostExe, clientBak, hostBak, marker, base, hostUp, finished, faults>>

ReplaceHost ==
  /\ pc = "host"
  /\ hostExe' = Target /\ pc' = "host_replaced"
  /\ UNCHANGED <<clientExe, clientBak, hostBak, stage, marker, base, hostUp, finished, faults>>

StageHostReplaced ==
  /\ pc = "host_replaced"
  /\ stage' = "host_replaced" /\ pc' = "clean"
  /\ UNCHANGED <<clientExe, hostExe, clientBak, hostBak, marker, base, hostUp, finished, faults>>

\* The stage marker and the backups are removed as far as possible, and the
\* client leaves; the desktop is opened again from the installed binary.
CleanUp ==
  /\ pc = "clean" /\ pc' = "idle"
  /\ stage' \in {stage, "none"}
  /\ clientBak' \in {clientBak, NoFile} /\ hostBak' \in {hostBak, NoFile}
  /\ UNCHANGED <<clientExe, hostExe, marker, base, hostUp, finished, faults>>

\* A binary that cannot be replaced is rolled back at once.
ReplaceFails ==
  /\ Fault /\ pc' = "restore_client"
  /\ \/ pc = "client" /\ clientExe' \in AfterFailedCopy(clientExe) /\ UNCHANGED hostExe
     \/ pc = "host" /\ hostExe' \in AfterFailedCopy(hostExe) /\ UNCHANGED clientExe
  /\ UNCHANGED <<clientBak, hostBak, stage, marker, base, hostUp, finished>>

\* A marker that cannot be written leaves the rollback to the Drop.
MarkerFails ==
  /\ Fault /\ pc' = "drop"
  /\ \/ pc = "mark" /\ UNCHANGED stage
     \/ pc \in {"client_replaced", "host_replaced"} /\ stage' \in AfterFailedWrite
  /\ UNCHANGED <<clientExe, hostExe, clientBak, hostBak, marker, base, hostUp, finished>>

\* PreparedReplacement::drop, recover_interrupted: a phase it does not know is
\* an error, and the Drop ignores it.
RecoverInterrupted ==
  /\ pc = "drop"
  /\ pc' = IF stage \in {"backed_up", "client_replaced", "host_replaced"}
             THEN "restore_client" ELSE "idle"
  /\ UNCHANGED <<files, base, hostUp, finished, faults>>

\* rollback_from_backups moves each backup that is there over its binary; one
\* that fails does not stop the other.
RestoreClient ==
  /\ pc = "restore_client" /\ pc' = "restore_host"
  /\ \/ clientBak = NoFile /\ UNCHANGED <<clientExe, clientBak, faults>>
     \/ clientBak # NoFile /\ clientExe' = clientBak /\ clientBak' = NoFile /\ UNCHANGED faults
     \/ clientBak # NoFile /\ Fault /\ clientExe' \in AfterFailedCopy(clientExe) /\ UNCHANGED clientBak
  /\ UNCHANGED <<hostExe, hostBak, stage, marker, base, hostUp, finished>>

RestoreHost ==
  /\ pc = "restore_host" /\ pc' = "unstage"
  /\ \/ hostBak = NoFile /\ UNCHANGED <<hostExe, hostBak, faults>>
     \/ hostBak # NoFile /\ hostExe' = hostBak /\ hostBak' = NoFile /\ UNCHANGED faults
     \/ hostBak # NoFile /\ Fault /\ hostExe' \in AfterFailedCopy(hostExe) /\ UNCHANGED hostBak
  /\ UNCHANGED <<clientExe, clientBak, stage, marker, base, hostUp, finished>>

\* The stage marker goes and the failed install returns.  The recovery marker
\* stays where it is.
Unstage ==
  /\ pc = "unstage"
  /\ stage' = "none" /\ pc' = "idle"
  /\ UNCHANGED <<clientExe, hostExe, clientBak, hostBak, marker, base, hostUp, finished, faults>>

\* The client process dies.  Nothing looks for a stage marker when the
\* desktop or the host is started again.
Crash ==
  /\ Crashes /\ pc # "idle" /\ Fault
  /\ pc' = "idle"
  /\ UNCHANGED <<files, base, hostUp, finished>>

-----------------------------------------------------------------------------
(* complete_update_handoff_recovery_if_present *)

\* A host starts without a marker, or with the one of its own build, which it
\* completes and clears; any other marker stops it.
StartHost ==
  /\ pc = "idle" /\ ~hostUp /\ hostExe \in Versions /\ marker \in {NoFile, hostExe}
  /\ hostUp' = TRUE /\ marker' = NoFile /\ finished' = finished \cup {hostExe}
  /\ UNCHANGED <<clientExe, hostExe, clientBak, hostBak, stage, pc, base, faults>>

Next ==
  \/ JoinHost \/ StageValidated \/ BackupClient \/ BackupHost \/ StageBackedUp \/ PrepareFails
  \/ PersistMarker \/ ReplaceClient \/ StageClientReplaced \/ ReplaceHost \/ StageHostReplaced
  \/ CleanUp \/ ReplaceFails \/ MarkerFails \/ RecoverInterrupted \/ RestoreClient \/ RestoreHost \/ Unstage
  \/ Crash \/ StartHost

Spec == Init /\ [][Next]_vars

-----------------------------------------------------------------------------
(* Properties *)

\* prepare_durable_backups before the commit: from the first replacement until
\* the commit or the rollback is complete, both old binaries are on disk whole,
\* installed or backed up, however many file operations fail or wherever the
\* client dies.
OldPairIsKept ==
  Target \notin finished /\ ~(pc = "idle" /\ {clientExe, hostExe} = {Target})
    => base \in {clientExe, clientBak} /\ base \in {hostExe, hostBak}

\* launch_verified_installer_inner, "Persist recoverable handoff marker before
\* irreversible binary commit": a host binary that has not yet served is never
\* installed without the marker that makes its first start finish the handoff.
NewHostCarriesMarker == hostExe \in Versions \ finished => marker = hostExe

\* Replaces the two binaries "as one atomic pair": outside an install the two
\* are one version.  A client that dies between the two replacements breaks it.
AtomicPair == pc = "idle" => clientExe = hostExe

\* A failed install "aborts to a retryable Ready admission": the recovery marker
\* it leaves does not stop the host that is left installed from starting.
HostCanStart == pc = "idle" => marker \in {NoFile, hostExe}

=============================================================================
