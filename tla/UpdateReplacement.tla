------------------------- MODULE UpdateReplacement -------------------------
(***************************************************************************)
(* PreparedReplacement of updater/mod.rs: what an update replaces is either *)
(* the AppImage or the pair of binaries, fixed by the package that is      *)
(* installed.  The two have files of their own and share nothing but the   *)
(* steps of the installing client, so a behaviour is one of either kind.   *)
(***************************************************************************)
EXTENDS ImageReplacement

CONSTANTS
  Crashes,     \* whether the client may die while it replaces the pair
  TornMarkers  \* whether a failed write may truncate the stage marker

ASSUME ReplacementAssumption == {Crashes, TornMarkers} \subseteq BOOLEAN

VARIABLES
  kind,  \* ReplacementKind
  clientExe, hostExe, clientBak, hostBak, stage, pairMarker,
  pc, base, hostUp, pairFinished, pairFaults

Pair == INSTANCE BinaryReplacement
          WITH marker <- pairMarker, finished <- pairFinished, faults <- pairFaults

pairVars == <<clientExe, hostExe, clientBak, hostBak, stage, pairMarker,
              pc, base, hostUp, pairFinished, pairFaults>>

ReplacementKind == {"AppImage", "Binaries"}

ReplacementInit == kind \in ReplacementKind /\ Init /\ Pair!Init

\* A step of the AppImage's update, of its client and host.
OfImage(step) == kind = "AppImage" /\ step /\ UNCHANGED <<kind, pairVars>>

OfPair(step) == kind = "Binaries" /\ step /\ UNCHANGED <<kind, vars>>

ReplacementNext == OfImage(Next) \/ OfPair(Pair!Next)

allVars == <<kind, vars, pairVars>>

\* The fairness of ImageReplacement; nothing is assumed of the pair's install.
ReplacementSpec ==
  /\ ReplacementInit /\ [][ReplacementNext]_allVars
  /\ WF_allVars(OfImage(ClientStep)) /\ WF_allVars(OfImage(HostStep))
  /\ SF_allVars(OfImage(StartHost))

-----------------------------------------------------------------------------
(* The properties of the pair, as stated in BinaryReplacement *)

\* prepare_durable_backups before the commit: both old binaries are on disk
\* whole, installed or backed up, until the commit or the rollback is complete.
OldPairIsKept == Pair!OldPairIsKept

\* launch_verified_installer_inner: a host binary that has not yet served is
\* never installed without the recovery marker of its build.
NewHostCarriesMarker == Pair!NewHostCarriesMarker

=============================================================================
