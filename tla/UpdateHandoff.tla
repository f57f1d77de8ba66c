--------------------------- MODULE UpdateHandoff ---------------------------
(***************************************************************************)
(* The update handoff between the desktop clients and the durable host:    *)
(* the gate of updater/handoff.rs that the host's executor drives, and the *)
(* install attempt of ui/native_shell.rs that a client runs against it     *)
(* (inspect, prepare, confirm the drain, arm, join the old host, install). *)
(*                                                                         *)
(* One request is one step: the executor serves it and the reply reaches   *)
(* the client, or is lost with the attempt (Lost).  What the installer     *)
(* does to the files is ImageReplacement's and BinaryReplacement's subject *)
(* and is one step here, which succeeds or fails.                          *)
(***************************************************************************)
EXTENDS Integers, FiniteSets

CONSTANTS
  Clients,      \* desktop client processes of one profile
  MaxTokens,    \* bound on the handoff tokens the hosts issue
  MaxBoots,     \* bound on host starts
  MaxSessions,  \* bound on open agent sessions and active resources
  Ungated,      \* whether the cockpit queries open shells and browsers
  Faults        \* whether attempts are cancelled, replies lost, hosts stopped

NoToken == 0
Nobody == "nobody"
HostOwner == "host"

ASSUME HandoffAssumption ==
  /\ IsFiniteSet(Clients) /\ {Nobody, HostOwner} \cap Clients = {}
  /\ MaxTokens \in Nat /\ MaxBoots \in Nat \ {0} /\ MaxSessions \in Nat
  /\ Ungated \in BOOLEAN /\ Faults \in BOOLEAN

\* UpdateHandoffPhase: Inspecting, Draining and AbortedPreInstall are passed
\* through inside one request; Blocked needs a build mismatch the client's
\* own package identity rules out.
Phases == {"Ready", "AwaitingConfirm", "ReadyToInstall", "Installing", "Completed"}

\* Where an install attempt stands, between two awaits of the client.
Stages == {"idle", "captured", "prepared", "accepted", "drained", "armed", "joined"}

VARIABLES
  up,        \* the host process runs
  boot,      \* its boot identity
  phase,     \* the gate's phase
  token,     \* the token the phase carries
  retiring,  \* the executor closed its intake for the update
  issued,    \* tokens issued so far, by any host
  expired,   \* tokens past expires_at
  sessions,  \* durable agent sessions and resources that block retirement
  profile,   \* holder of the profile lock
  marked,    \* a sealed recovery marker waits for the next host
  stage,     \* per client: the attempt's stage
  held,      \* per client: the token of the running attempt
  slot,      \* per client: UpdaterInner.prepared_token
  joins      \* per client: the host boot HostExitWait captured

hostVars == <<up, boot, phase, token, retiring>>
clientVars == <<stage, held, slot, joins>>
vars == <<hostVars, clientVars, issued, expired, sessions, profile, marked>>

Tokens == 0..MaxTokens

UpdateTypeOK ==
  /\ up \in BOOLEAN /\ boot \in 0..MaxBoots
  /\ phase \in Phases /\ token \in Tokens /\ retiring \in BOOLEAN
  /\ issued \in Tokens /\ expired \subseteq Tokens
  /\ sessions \in 0..MaxSessions
  /\ profile \in Clients \cup {Nobody, HostOwner} /\ marked \in BOOLEAN
  /\ stage \in [Clients -> Stages] /\ held \in [Clients -> Tokens]
  /\ slot \in [Clients -> Tokens] /\ joins \in [Clients -> 0..MaxBoots]

Init ==
  /\ up = TRUE /\ boot = 1 /\ phase = "Ready" /\ token = NoToken /\ retiring = FALSE
  /\ issued = 0 /\ expired = {} /\ sessions = 0 /\ profile = HostOwner /\ marked = FALSE
  /\ stage = [c \in Clients |-> "idle"]
  /\ held = [c \in Clients |-> NoToken]
  /\ slot = [c \in Clients |-> NoToken]
  /\ joins = [c \in Clients |-> 0]

-----------------------------------------------------------------------------
(* The gate *)

\* stops_new_launches: DrainingForUpdate or InstallingUpdate admission.
StopsNewLaunches == phase \in {"AwaitingConfirm", "ReadyToInstall", "Installing"}

\* The executor still takes requests.
Serving == up /\ ~retiring

\* validate_token: the phase's own token, before its expiry.
TokenValid(t) == token = t /\ t \notin expired

\* Mutant: the arm trusts the launches the gate refuses.
MutIdleForRetirement == TRUE

\* verify_idle_update_retirement, read in one snapshot with the arm.
IdleForRetirement == sessions = 0

-----------------------------------------------------------------------------
(* The install attempt *)

\* The client is connected to the host whose exit it captured.
Connected(c) == Serving /\ boot = joins[c]

\* The attempt returns an error, or its future is dropped: only the profile
\* reservation is released.  The remembered token and the host keep their
\* state; no path of the attempt sends AbortUpdateHandoff.
Leave(c) ==
  /\ stage' = [stage EXCEPT ![c] = "idle"]
  /\ profile' = IF profile = c THEN Nobody ELSE profile

\* The reply arrives, or is lost with the attempt.
Replied(c, next) ==
  \/ stage' = [stage EXCEPT ![c] = next]
  \/ Faults /\ stage' = [stage EXCEPT ![c] = "idle"]

\* InspectHostQuit without blockers, then capture_host_exit of this boot.
BeginInstall(c) ==
  /\ stage[c] = "idle" /\ Serving /\ sessions = 0
  /\ stage' = [stage EXCEPT ![c] = "captured"]
  /\ joins' = [joins EXCEPT ![c] = boot]
  /\ UNCHANGED <<hostVars, held, slot, issued, expired, sessions, profile, marked>>

\* PrepareUpdate: begin_inspect takes only a gate at rest.  Every attempt
\* mints its command ids, so the branch that answers a repeated id from
\* prepared_update_replies, or aborts its expired token, is never taken.
PrepareUpdate(c) ==
  /\ stage[c] = "captured" /\ Connected(c)
  /\ phase = "Ready" /\ issued < MaxTokens
  /\ issued' = issued + 1
  /\ phase' = "AwaitingConfirm" /\ token' = issued'
  /\ held' = [held EXCEPT ![c] = issued']
  /\ Replied(c, "prepared")
  /\ UNCHANGED <<up, boot, retiring, slot, joins, expired, sessions, profile, marked>>

\* Mutant: the first remembered token is kept.
MutAcceptToken(c) ==
  /\ stage[c] = "prepared"
  /\ held[c] \notin expired
  /\ slot' = [slot EXCEPT ![c] = IF slot[c] = NoToken THEN held[c] ELSE slot[c]]
  /\ stage' = [stage EXCEPT ![c] = "accepted"]
  /\ UNCHANGED <<hostVars, held, joins, issued, expired, sessions, profile, marked>>

\* accept_authenticated_handoff_token and remember_prepared_token: refused
\* when expired or when another token is still remembered.
AcceptToken(c) ==
  /\ stage[c] = "prepared"
  /\ held[c] \notin expired /\ slot[c] \in {NoToken, held[c]}
  /\ slot' = [slot EXCEPT ![c] = held[c]]
  /\ stage' = [stage EXCEPT ![c] = "accepted"]
  /\ UNCHANGED <<hostVars, held, joins, issued, expired, sessions, profile, marked>>

\* ConfirmUpdateDrain: confirm_drain and mark_drained.
ConfirmUpdateDrain(c) ==
  /\ stage[c] = "accepted" /\ Connected(c)
  /\ phase = "AwaitingConfirm" /\ TokenValid(held[c])
  /\ phase' = "ReadyToInstall"
  /\ Replied(c, "drained")
  /\ UNCHANGED <<up, boot, token, retiring, held, slot, joins, issued, expired,
                 sessions, profile, marked>>

\* ArmUpdateInstall with stop_host_after_ack: the idle check, the arm and the
\* tracked acknowledgement are one job of the executor lane, after which it
\* closes its intake.
ArmUpdateInstall(c) ==
  /\ stage[c] = "drained" /\ Connected(c)
  /\ IdleForRetirement
  /\ phase = "ReadyToInstall" /\ TokenValid(held[c])
  /\ phase' = "Installing" /\ retiring' = TRUE
  /\ Replied(c, "armed")
  /\ UNCHANGED <<up, boot, token, held, slot, joins, issued, expired,
                 sessions, profile, marked>>

\* The acknowledgement cannot be queued: the arm is taken back.
ArmAckRefused(c) ==
  /\ Faults /\ stage[c] = "drained" /\ Connected(c)
  /\ IdleForRetirement
  /\ phase = "ReadyToInstall" /\ TokenValid(held[c])
  /\ phase' = "Ready" /\ token' = NoToken
  /\ Leave(c)
  /\ UNCHANGED <<up, boot, retiring, held, slot, joins, issued, expired, sessions, marked>>

\* The host answers a request of the attempt with an error.
HostRefuses(c) ==
  /\ stage[c] \in {"captured", "accepted", "drained"} /\ Connected(c)
  /\ \/ stage[c] = "captured" /\ phase # "Ready"
     \/ stage[c] = "accepted" /\ ~(phase = "AwaitingConfirm" /\ TokenValid(held[c]))
     \/ stage[c] = "drained"
          /\ ~(phase = "ReadyToInstall" /\ TokenValid(held[c]) /\ IdleForRetirement)
  /\ Leave(c)
  /\ UNCHANGED <<hostVars, held, slot, joins, issued, expired, sessions, marked>>

\* The connection's host is gone before the arm was acknowledged.
ConnectionLost(c) ==
  /\ stage[c] \in {"captured", "accepted", "drained"} /\ ~Connected(c)
  /\ Leave(c)
  /\ UNCHANGED <<hostVars, held, slot, joins, issued, expired, sessions, marked>>

\* The token is refused by the client itself.
RejectToken(c) ==
  /\ stage[c] = "prepared"
  /\ held[c] \in expired \/ slot[c] \notin {NoToken, held[c]}
  /\ Leave(c)
  /\ UNCHANGED <<hostVars, held, slot, joins, issued, expired, sessions, marked>>

\* HostExitWait::wait_until: the captured generation exited; the profile lock
\* is taken at once or the attempt fails.
Exited(b) == ~up \/ boot # b

\* Mutant: the exit alone is taken for the reservation.
MutJoinHost(c) ==
  /\ stage[c] = "armed" /\ Exited(joins[c])
  /\ stage' = [stage EXCEPT ![c] = "joined"]
  /\ UNCHANGED <<hostVars, held, slot, joins, issued, expired, sessions, profile, marked>>

JoinHost(c) ==
  /\ stage[c] = "armed" /\ Exited(joins[c])
  /\ IF profile = Nobody
       THEN profile' = c /\ stage' = [stage EXCEPT ![c] = "joined"]
       ELSE Leave(c)
  /\ UNCHANGED <<hostVars, held, slot, joins, issued, expired, sessions, marked>>

\* launch_verified_installer_after_host_join consumes the remembered token.
\* On success the marker of ImageReplacement is left for the next host and
\* the client process is replaced.
Install(c) ==
  /\ stage[c] = "joined" /\ slot[c] = held[c]
  /\ slot' = [slot EXCEPT ![c] = NoToken]
  /\ Leave(c)
  /\ marked' \in IF Faults THEN {marked, TRUE} ELSE {TRUE}
  /\ UNCHANGED <<hostVars, held, joins, issued, expired, sessions>>

\* The attempt's future is dropped, its wait for the exit times out, or the
\* client process is restarted and forgets the remembered token.
Cancel(c) ==
  /\ Faults /\ stage[c] # "idle"
  /\ Leave(c)
  /\ slot' \in {slot, [slot EXCEPT ![c] = NoToken]}
  /\ UNCHANGED <<hostVars, held, joins, issued, expired, sessions, marked>>

-----------------------------------------------------------------------------
(* The host process and its work *)

\* retire_idle_host_for_update ends and the process leaves.
Retire ==
  /\ up /\ retiring
  /\ up' = FALSE /\ profile' = Nobody
  /\ UNCHANGED <<boot, phase, token, retiring, clientVars, issued, expired, sessions, marked>>

\* Full quit or crash.
StopHost ==
  /\ Faults /\ Serving
  /\ up' = FALSE /\ profile' = Nobody
  /\ UNCHANGED <<boot, phase, token, retiring, clientVars, issued, expired, sessions, marked>>

\* A new host takes the profile lock; with a marker it restores the sealed
\* install and runs it to Completed before it serves.
StartHost ==
  /\ ~up /\ profile = Nobody /\ boot < MaxBoots
  /\ up' = TRUE /\ boot' = boot + 1 /\ retiring' = FALSE /\ profile' = HostOwner
  /\ phase' = IF marked THEN "Completed" ELSE "Ready"
  /\ token' = NoToken /\ marked' = FALSE
  /\ UNCHANGED <<clientVars, issued, expired, sessions>>

\* CreateTask, RegisterResource, StartProviderSession and the other commands
\* of command_starts_new_launch.
Launch ==
  /\ Serving /\ ~StopsNewLaunches /\ sessions < MaxSessions
  /\ sessions' = sessions + 1
  /\ UNCHANGED <<hostVars, clientVars, issued, expired, profile, marked>>

\* The cockpit queries that open a shell terminal or a task browser register
\* their resource without asking the gate.
OpenFromCockpit ==
  /\ Ungated /\ Serving /\ sessions < MaxSessions
  /\ sessions' = sessions + 1
  /\ UNCHANGED <<hostVars, clientVars, issued, expired, profile, marked>>

CloseSession ==
  /\ Serving /\ sessions > 0
  /\ sessions' = sessions - 1
  /\ UNCHANGED <<hostVars, clientVars, issued, expired, profile, marked>>

\* The token's time to live runs out.
Expire ==
  /\ \E t \in 1..issued : t \notin expired /\ expired' = expired \cup {t}
  /\ UNCHANGED <<hostVars, clientVars, issued, sessions, profile, marked>>

-----------------------------------------------------------------------------
AttemptStep(c) ==
  \/ PrepareUpdate(c) \/ AcceptToken(c) \/ ConfirmUpdateDrain(c) \/ ArmUpdateInstall(c)
  \/ HostRefuses(c) \/ ConnectionLost(c) \/ RejectToken(c) \/ JoinHost(c) \/ Install(c)

Next ==
  \/ \E c \in Clients : BeginInstall(c) \/ AttemptStep(c) \/ ArmAckRefused(c) \/ Cancel(c)
  \/ Retire \/ StopHost \/ StartHost
  \/ Launch \/ OpenFromCockpit \/ CloseSession \/ Expire

Spec == Init /\ [][Next]_vars

\* A running attempt goes on, the user asks again, sessions are closed, a
\* retiring host leaves and a missing one is started.
FairSpec ==
  /\ Spec
  /\ \A c \in Clients : WF_vars(AttemptStep(c)) /\ WF_vars(BeginInstall(c))
  /\ WF_vars(Retire) /\ WF_vars(StartHost) /\ WF_vars(CloseSession)

-----------------------------------------------------------------------------
(* Properties *)

\* While a client installs, no host process runs and no other client installs:
\* the profile reservation it took after the exit keeps both out of the old
\* image.  At most one client holds the arm of a running host.
InstallIsExclusive ==
  /\ \A c \in Clients : stage[c] = "joined" => ~up
  /\ Cardinality({c \in Clients : stage[c] = "joined"}) <= 1
  /\ up => Cardinality({c \in Clients : stage[c] = "armed" /\ joins[c] = boot}) <= 1

\* A host that retires for an update leaves no open session or active
\* resource behind, although launches are only refused by some commands and
\* the idle check was made before the acknowledgement was written.
RetiresIdle == up /\ retiring => sessions = 0

\* An installer that reaches the image still owns the token it was armed
\* with, so taking the remembered token cannot fail after the host has gone.
InstallerOwnsToken ==
  \A c \in Clients : stage[c] \in {"accepted", "drained", "armed", "joined"}
                       => held[c] # NoToken /\ slot[c] = held[c]

\* A host that waits for an update that never completes takes launches again.
LaunchesResume == (up /\ StopsNewLaunches) ~> ~(up /\ StopsNewLaunches)

\* While the gate drains or installs, no new session or resource appears.
LaunchesAreRefused == [][up /\ StopsNewLaunches => sessions' <= sessions]_vars

=============================================================================
