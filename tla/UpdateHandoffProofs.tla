------------------------ MODULE UpdateHandoffProofs ------------------------
(***************************************************************************)
(* Safety of the update handoff for any clients, tokens, boots and sessions. *)
(*                                                                         *)
(* The profile lock tells who may run: a host that is up owns it, and so   *)
(* does a client that has joined the exit of the old host (LockOK).  An    *)
(* armed client of the running boot means a host that takes no more        *)
(* requests, so nobody else can be armed by it (ArmOK).  A token is held    *)
(* from the reply on and remembered from its acceptance on (TokenOK).      *)
(***************************************************************************)
EXTENDS UpdateHandoff, FiniteSetTheorems, TLAPS

\* Who holds the profile lock.
LockOK ==
  /\ up => profile = HostOwner
  /\ \A c \in Clients : stage[c] = "joined" => profile = c

ArmedNow(c) == stage[c] = "armed" /\ joins[c] = boot

\* What an arm of the running boot excludes.
ArmOK ==
  /\ \A c \in Clients : joins[c] <= boot
  /\ up => \A c \in Clients : ArmedNow(c) => retiring
  /\ up => \A c, d \in Clients : ArmedNow(c) /\ ArmedNow(d) => c = d

\* The tokens of an attempt.
TokenOK ==
  \A c \in Clients :
    /\ stage[c] = "prepared" => held[c] # NoToken
    /\ stage[c] \in {"accepted", "drained", "armed", "joined"}
         => held[c] # NoToken /\ slot[c] = held[c]

HandoffInv == UpdateTypeOK /\ LockOK /\ ArmOK /\ TokenOK /\ RetiresIdle

-----------------------------------------------------------------------------
(* Type correctness and the locks, by action *)

\* The initial state: one host, no attempt.
LEMMA InitHolds == Init => HandoffInv
<1> SUFFICES ASSUME Init PROVE HandoffInv
  OBVIOUS
<1>1. UpdateTypeOK
  <2>1. up \in BOOLEAN /\ retiring \in BOOLEAN /\ marked \in BOOLEAN
    BY Zenon DEF Init
  <2>2. /\ boot \in 0..MaxBoots /\ token \in Tokens /\ issued \in Tokens
        /\ expired \subseteq Tokens /\ sessions \in 0..MaxSessions
    BY HandoffAssumption DEF Init, Tokens, NoToken
  <2>3. phase \in Phases /\ profile \in Clients \cup {Nobody, HostOwner}
    BY DEF Init, Phases
  <2>4. 0 \in Tokens /\ 0 \in 0..MaxBoots /\ "idle" \in Stages
    BY HandoffAssumption DEF Tokens, Stages
  <2>5. /\ stage \in [Clients -> Stages] /\ held \in [Clients -> Tokens]
        /\ slot \in [Clients -> Tokens] /\ joins \in [Clients -> 0..MaxBoots]
    BY <2>4 DEF Init, NoToken
  <2> QED
    BY <2>1, <2>2, <2>3, <2>5, Zenon DEF UpdateTypeOK
<1>2. LockOK /\ ArmOK /\ TokenOK /\ RetiresIdle
  BY HandoffAssumption DEF Init, LockOK, ArmOK, ArmedNow, TokenOK, RetiresIdle
<1> QED
  BY <1>1, <1>2 DEF HandoffInv

\* Every step keeps the declared shape.
LEMMA TypeStep == UpdateTypeOK /\ [Next]_vars => UpdateTypeOK'
<1> SUFFICES ASSUME UpdateTypeOK, [Next]_vars PROVE UpdateTypeOK'
  OBVIOUS
<1> USE HandoffAssumption DEF UpdateTypeOK, Phases, Stages, Tokens, NoToken
<1>1. ASSUME NEW c \in Clients, BeginInstall(c) PROVE UpdateTypeOK'
  BY <1>1 DEF BeginInstall, hostVars, Serving
<1>2. ASSUME NEW c \in Clients, PrepareUpdate(c) PROVE UpdateTypeOK'
  BY <1>2 DEF PrepareUpdate, Replied
<1>3. ASSUME NEW c \in Clients, AcceptToken(c) PROVE UpdateTypeOK'
  BY <1>3 DEF AcceptToken, hostVars
<1>4. ASSUME NEW c \in Clients, ConfirmUpdateDrain(c) PROVE UpdateTypeOK'
  BY <1>4 DEF ConfirmUpdateDrain, Replied
<1>5. ASSUME NEW c \in Clients, ArmUpdateInstall(c) PROVE UpdateTypeOK'
  BY <1>5 DEF ArmUpdateInstall, Replied
<1>6. ASSUME NEW c \in Clients, ArmAckRefused(c) PROVE UpdateTypeOK'
  BY <1>6 DEF ArmAckRefused, Leave
<1>7. ASSUME NEW c \in Clients, HostRefuses(c) \/ ConnectionLost(c) \/ RejectToken(c)
      PROVE UpdateTypeOK'
  BY <1>7 DEF HostRefuses, ConnectionLost, RejectToken, Leave, hostVars
<1>8. ASSUME NEW c \in Clients, JoinHost(c) PROVE UpdateTypeOK'
  BY <1>8 DEF JoinHost, Leave, hostVars
<1>9. ASSUME NEW c \in Clients, Install(c) PROVE UpdateTypeOK'
  <2>1. marked' \in BOOLEAN
    BY <1>9, Zenon DEF Install
  <2>2. /\ slot' \in [Clients -> Tokens] /\ stage' \in [Clients -> Stages]
        /\ profile' \in Clients \cup {Nobody, HostOwner}
    BY <1>9 DEF Install, Leave
  <2>3. UNCHANGED <<up, boot, phase, token, retiring, held, joins, issued, expired, sessions>>
    BY <1>9 DEF Install, hostVars
  <2> QED
    BY <2>1, <2>2, <2>3
<1>10. ASSUME NEW c \in Clients, Cancel(c) PROVE UpdateTypeOK'
  <2>1. slot' \in [Clients -> Tokens]
    <3>1. [slot EXCEPT ![c] = NoToken] \in [Clients -> Tokens]
      OBVIOUS
    <3>2. slot' = slot \/ slot' = [slot EXCEPT ![c] = NoToken]
      BY <1>10 DEF Cancel
    <3> QED
      BY <3>1, <3>2
  <2>2. stage' \in [Clients -> Stages] /\ profile' \in Clients \cup {Nobody, HostOwner}
    BY <1>10 DEF Cancel, Leave
  <2>3. UNCHANGED <<up, boot, phase, token, retiring, held, joins, issued, expired, sessions,
                    marked>>
    BY <1>10 DEF Cancel, hostVars
  <2> QED
    BY <2>1, <2>2, <2>3
<1>11. CASE Retire \/ StopHost \/ StartHost
  <2>1. CASE Retire \/ StopHost
    BY <2>1 DEF Retire, StopHost, clientVars
  <2>2. CASE StartHost
    <3>1. boot' \in 0..MaxBoots /\ joins' \in [Clients -> 0..MaxBoots]
      BY <2>2 DEF StartHost, clientVars
    <3>2. up' \in BOOLEAN /\ retiring' \in BOOLEAN /\ marked' \in BOOLEAN
      BY <2>2, Zenon DEF StartHost
    <3>3. /\ phase' \in Phases /\ token' \in Tokens
          /\ profile' \in Clients \cup {Nobody, HostOwner}
      BY <2>2 DEF StartHost
    <3>4. UNCHANGED <<stage, held, slot, issued, expired, sessions>>
      BY <2>2 DEF StartHost, clientVars
    <3> QED
      BY <3>1, <3>2, <3>3, <3>4
  <2> QED
    BY <1>11, <2>1, <2>2
<1>12. CASE Launch \/ OpenFromCockpit \/ CloseSession
  <2>1. sessions' \in 0..MaxSessions
    BY <1>12 DEF Launch, OpenFromCockpit, CloseSession
  <2> QED
    BY <1>12, <2>1 DEF Launch, OpenFromCockpit, CloseSession, hostVars, clientVars
<1>13. CASE Expire
  BY <1>13 DEF Expire, hostVars, clientVars
<1>14. CASE UNCHANGED vars
  BY <1>14 DEF vars, hostVars, clientVars
<1> QED
  BY <1>1, <1>2, <1>3, <1>4, <1>5, <1>6, <1>7, <1>8, <1>9, <1>10, <1>11, <1>12, <1>13, <1>14
     DEF Next, AttemptStep

\* Locks, arms, tokens and the idle retirement are kept together.
LEMMA SafetyStep == HandoffInv /\ [Next]_vars => (LockOK /\ ArmOK /\ TokenOK /\ RetiresIdle)'
<1> SUFFICES ASSUME HandoffInv, [Next]_vars PROVE (LockOK /\ ArmOK /\ TokenOK /\ RetiresIdle)'
  OBVIOUS
<1> USE HandoffAssumption
    DEF HandoffInv, UpdateTypeOK, LockOK, ArmOK, ArmedNow, TokenOK, RetiresIdle,
        Stages, Tokens, NoToken, Nobody, HostOwner
<1>1. ASSUME NEW c \in Clients, BeginInstall(c)
      PROVE (LockOK /\ ArmOK /\ TokenOK /\ RetiresIdle)'
  BY <1>1 DEF BeginInstall, hostVars
<1>2. ASSUME NEW c \in Clients, PrepareUpdate(c)
      PROVE (LockOK /\ ArmOK /\ TokenOK /\ RetiresIdle)'
  BY <1>2 DEF PrepareUpdate, Replied
<1>3. ASSUME NEW c \in Clients, AcceptToken(c)
      PROVE (LockOK /\ ArmOK /\ TokenOK /\ RetiresIdle)'
  BY <1>3 DEF AcceptToken, hostVars
<1>4. ASSUME NEW c \in Clients, ConfirmUpdateDrain(c)
      PROVE (LockOK /\ ArmOK /\ TokenOK /\ RetiresIdle)'
  BY <1>4 DEF ConfirmUpdateDrain, Replied
<1>5. ASSUME NEW c \in Clients, ArmUpdateInstall(c)
      PROVE (LockOK /\ ArmOK /\ TokenOK /\ RetiresIdle)'
  BY <1>5 DEF ArmUpdateInstall, Replied, Connected, Serving, IdleForRetirement
<1>6. ASSUME NEW c \in Clients, ArmAckRefused(c)
      PROVE (LockOK /\ ArmOK /\ TokenOK /\ RetiresIdle)'
  BY <1>6 DEF ArmAckRefused, Leave
<1>7. ASSUME NEW c \in Clients, HostRefuses(c) \/ ConnectionLost(c) \/ RejectToken(c)
      PROVE (LockOK /\ ArmOK /\ TokenOK /\ RetiresIdle)'
  BY <1>7 DEF HostRefuses, ConnectionLost, RejectToken, Leave, hostVars
<1>8. ASSUME NEW c \in Clients, JoinHost(c)
      PROVE (LockOK /\ ArmOK /\ TokenOK /\ RetiresIdle)'
  BY <1>8 DEF JoinHost, Leave, hostVars
<1>9. ASSUME NEW c \in Clients, Install(c)
      PROVE (LockOK /\ ArmOK /\ TokenOK /\ RetiresIdle)'
  BY <1>9 DEF Install, Leave, hostVars
<1>10. ASSUME NEW c \in Clients, Cancel(c)
       PROVE (LockOK /\ ArmOK /\ TokenOK /\ RetiresIdle)'
  BY <1>10 DEF Cancel, Leave, hostVars
<1>11. CASE Retire \/ StopHost
  BY <1>11 DEF Retire, StopHost, clientVars, Serving
<1>12. CASE StartHost
  BY <1>12 DEF StartHost, clientVars
<1>13. CASE Launch \/ OpenFromCockpit \/ CloseSession
  BY <1>13 DEF Launch, OpenFromCockpit, CloseSession, Serving, hostVars, clientVars
<1>14. CASE Expire
  BY <1>14 DEF Expire, hostVars, clientVars
<1>15. CASE UNCHANGED vars
  BY <1>15 DEF vars, hostVars, clientVars
<1> QED
  BY <1>1, <1>2, <1>3, <1>4, <1>5, <1>6, <1>7, <1>8, <1>9, <1>10, <1>11, <1>12, <1>13,
     <1>14, <1>15
     DEF Next, AttemptStep

\* The inductive invariant of the handoff.
THEOREM HandoffInvariant == Spec => []HandoffInv
<1>1. HandoffInv /\ [Next]_vars => HandoffInv'
  BY TypeStep, SafetyStep DEF HandoffInv
<1> QED
  BY <1>1, InitHolds, PTL DEF Spec

-----------------------------------------------------------------------------
(* What follows *)

\* A finite set of which any two elements are equal has at most one.
LEMMA AtMostOne ==
  ASSUME NEW S, IsFiniteSet(S), \A x, y \in S : x = y
  PROVE  Cardinality(S) <= 1
<1>1. CASE S = {}
  BY <1>1, FS_EmptySet
<1>2. CASE S # {}
  <2> PICK x \in S : TRUE
    BY <1>2
  <2>1. S = {x}
    OBVIOUS
  <2> QED
    BY <2>1, FS_Singleton
<1> QED
  BY <1>1, <1>2

\* An install is exclusive: it runs without a host and without another
\* installer, and a running host has armed at most one client (JoinHost with
\* the profile reservation, ArmUpdateInstall closing the executor's intake).
THEOREM InstallExclusive == Spec => []InstallIsExclusive
<1>1. HandoffInv => InstallIsExclusive
  <2> SUFFICES ASSUME HandoffInv PROVE InstallIsExclusive
    OBVIOUS
  <2>1. \A c \in Clients : stage[c] = "joined" => ~up
    BY HandoffAssumption DEF HandoffInv, LockOK, HostOwner
  <2>2. Cardinality({c \in Clients : stage[c] = "joined"}) <= 1
    <3>1. IsFiniteSet({c \in Clients : stage[c] = "joined"})
      BY HandoffAssumption, FS_Subset
    <3> QED
      BY <3>1, AtMostOne DEF HandoffInv, LockOK
  <2>3. up => Cardinality({c \in Clients : stage[c] = "armed" /\ joins[c] = boot}) <= 1
    <3>1. IsFiniteSet({c \in Clients : stage[c] = "armed" /\ joins[c] = boot})
      BY HandoffAssumption, FS_Subset
    <3> QED
      BY <3>1, AtMostOne DEF HandoffInv, ArmOK, ArmedNow
  <2> QED
    BY <2>1, <2>2, <2>3 DEF InstallIsExclusive
<1> QED
  BY <1>1, HandoffInvariant, PTL

\* A host that retires for an update is idle, although only some launches ask
\* the gate (verify_idle_update_retirement in the job that arms).
THEOREM RetirementIsIdle == Spec => []RetiresIdle
BY HandoffInvariant, PTL DEF HandoffInv

\* An installer still owns the token it was armed with (remember_prepared_token,
\* which keeps one token at a time).
THEOREM InstallerKeepsToken == Spec => []InstallerOwnsToken
<1>1. HandoffInv => InstallerOwnsToken
  BY DEF HandoffInv, TokenOK, InstallerOwnsToken
<1> QED
  BY <1>1, HandoffInvariant, PTL

=============================================================================
