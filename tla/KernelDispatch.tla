--------------------------- MODULE KernelDispatch ---------------------------
(***************************************************************************)
(* The durable dispatch machinery of the DevManager kernel.                *)
(*                                                                         *)
(* An effectful command commits an operation together with one outbox row. *)
(* Workers claim the row under a lease, begin an attempt (the last durable *)
(* write before the outside world may be touched), and record what came of *)
(* it.  A worker may die at any point, be slower than its lease, or come   *)
(* back with an old claim, permit or lookup.  Each action below is one     *)
(* IMMEDIATE SQLite transaction of src/src/kernel/store.rs or              *)
(* src/src/kernel/command_bus.rs and so is atomic; the only clock is the   *)
(* wall clock, which may also step back.                                   *)
(*                                                                         *)
(* A crashed worker is one that takes no further step: what it held stays  *)
(* in claims, permits and lookups.  Calls that the code answers without a  *)
(* write (stale, expired or replayed ones) are stuttering steps.           *)
(***************************************************************************)
EXTENDS Integers, FiniteSets

CONSTANTS
    Tasks,            \* durable tasks
    Resources,        \* task-owned runtime resources, registered at most once
    Sessions,         \* provider identities an agent session can be bound to
    Specialists,      \* tasks whose agent session has the specialist role
    Kinds,            \* the effect kinds accepted in this instance
    Durations,        \* lease lengths and retry delays
    MaxOps,           \* bound: operations accepted
    MaxTime,          \* bound: the wall clock stays in 0..MaxTime
    ClockMayStepBack  \* whether the wall clock is ever set back

EffectKinds == {"teardown", "release", "provider", "hold"}

ASSUME KindsAssumption == Kinds \subseteq EffectKinds
ASSUME DurationsAssumption == Durations \subseteq Nat \ {0}
ASSUME BoundsAssumption == MaxOps \in Nat /\ MaxTime \in Nat
ASSUME SpecialistsAssumption == Specialists \subseteq Tasks
ASSUME TasksAssumption == Tasks # {}
ASSUME ClosedIsNoSession == "closed" \notin Sessions
ASSUME ClockAssumption == ClockMayStepBack \in BOOLEAN

VARIABLES
    now,      \* SystemTime::now() in milliseconds
    task,     \* tasks.lifecycle and tasks.action_epoch
    res,      \* resources.task_id and resources.lifecycle
    session,  \* the provider identity of the task's agent session, or "closed"
    op,       \* the operations projection
    row,      \* the outbox; row[o] belongs to operation o
    claims,   \* DispatchClaims handed out: <<operation, lease generation>>
    permits,  \* DispatchPermits handed out: <<operation, generation, attempt>>
    lookups,  \* ReconciliationClaims handed out: <<operation, generation, attempt>>
    crossed,  \* permits whose first physical write was taken whole by the provider's terminal
    torn,     \* permits whose first physical write failed with part of its bytes written
    absences  \* <<operation, attempt>> a lookup proved to have had no effect

vars == <<now, task, res, session, op, row, claims, permits, lookups, crossed, torn, absences>>
domainVars == <<task, res, session>>
workerVars == <<claims, permits, lookups, crossed, torn, absences>>

NoTime == -1
NoTarget == "none"

\* Operations are numbered in the order of their event_sequence.
Ops == 1 .. MaxOps

TaskStates == {"open", "settled", "closing", "archived", "deleted"}
ResStates == {"unregistered", "active", "releasing", "released"}
OutboxStates == {"pending", "claimed", "dispatching", "reconcile_required", "reconciling",
                 "settled", "failed", "cancelled", "uncertain"}
ErrorClasses == {"none", "ambiguous_dispatch", "side_effect_failed", "stale_fence", "superseded"}
Outcomes == {"settled", "failed", "cancelled"}

\* The outbox columns a dispatch decision reads: proof is the attempt the stored
\* absence receipt speaks for (0: no receipt) and provedAt its proved_at_ms.
OutboxRow == [state: OutboxStates, gen: Nat, attempts: Nat, avail: Int, lease: Int,
              started: Int, proof: Nat, provedAt: Int, err: ErrorClasses]

Operation == [kind: EffectKinds, task: Tasks, epoch: Nat,
              target: Resources \cup Sessions \cup {NoTarget},
              state: {"none", "accepted", "uncertain"} \cup Outcomes,
              acceptedAt: Int, outcomeAt: Int, reconciled: BOOLEAN]

MaxOf(a, b) == IF a >= b THEN a ELSE b

\* Definitions marked "mutant" change the one that follows them the way a
\* plausible defect would; each must break a property.  Nothing uses them.

Init ==
    /\ now = 0
    /\ task = [t \in Tasks |-> [life |-> "open", epoch |-> 0]]
    /\ res \in [Resources -> [owner: Tasks, life: {"unregistered"}]]
    /\ session \in [Tasks -> Sessions]
    /\ op = [o \in Ops |-> [kind |-> "hold", task |-> CHOOSE t \in Tasks : TRUE, epoch |-> 0,
                            target |-> NoTarget, state |-> "none",
                            acceptedAt |-> NoTime, outcomeAt |-> NoTime, reconciled |-> FALSE]]
    /\ row = [o \in Ops |-> [state |-> "pending", gen |-> 0, attempts |-> 0, avail |-> NoTime,
                             lease |-> NoTime, started |-> NoTime, proof |-> 0,
                             provedAt |-> NoTime, err |-> "none"]]
    /\ claims = {} /\ permits = {} /\ lookups = {} /\ crossed = {} /\ torn = {} /\ absences = {}

-----------------------------------------------------------------------------
(* Time.  now_ms reads SystemTime, which the operating system may set back. *)

Tick == now < MaxTime /\ now' = now + 1 /\ UNCHANGED <<domainVars, op, row, workerVars>>

ClockStepsBack ==
    /\ ClockMayStepBack
    /\ \E earlier \in 0 .. now - 1 : now' = earlier
    /\ UNCHANGED <<domainVars, op, row, workerVars>>

-----------------------------------------------------------------------------
(* Commands.  A command is decided against the task's snapshot and committed *)
(* with its operation and outbox row, or refused without a durable effect.   *)

RuntimeCapable(t) == task[t].life \in {"open", "settled"}

\* persist_side_effect_acceptance: the operation and its untouched outbox row.
Accept(kind, t, epoch, target) ==
    \E o \in Ops :
        /\ op[o].state = "none"
        /\ \A p \in Ops : p < o => op[p].state # "none"
        /\ op' = [op EXCEPT ![o] = [kind |-> kind, task |-> t, epoch |-> epoch, target |-> target,
                                    state |-> "accepted", acceptedAt |-> now,
                                    outcomeAt |-> NoTime, reconciled |-> FALSE]]
        /\ row' = [row EXCEPT ![o].avail = now]

BeginCloseTask(t) ==
    /\ "teardown" \in Kinds
    /\ RuntimeCapable(t)
    /\ task' = [task EXCEPT ![t] = [life |-> "closing", epoch |-> @.epoch + 1]]
    /\ Accept("teardown", t, task[t].epoch + 1, NoTarget)
    /\ UNCHANGED <<now, res, session, workerVars>>

\* mutant: a repeated release plans a second effect
ReleaseResource_Again(r) ==
    /\ "release" \in Kinds
    /\ res[r].life \in {"active", "releasing"}
    /\ task[res[r].owner].life \in {"open", "settled", "closing"}
    /\ res' = [res EXCEPT ![r].life = "releasing"]
    /\ Accept("release", res[r].owner, task[res[r].owner].epoch, r)
    /\ UNCHANGED <<now, task, session, workerVars>>

ReleaseResource(r) ==
    /\ "release" \in Kinds
    /\ res[r].life = "active"
    /\ task[res[r].owner].life \in {"open", "settled", "closing"}
    /\ res' = [res EXCEPT ![r].life = "releasing"]
    /\ Accept("release", res[r].owner, task[res[r].owner].epoch, r)
    /\ UNCHANGED <<now, task, session, workerVars>>

SubmitProviderInput(t) ==
    /\ "provider" \in Kinds
    /\ RuntimeCapable(t)
    /\ session[t] # "closed"
    /\ Accept("provider", t, task[t].epoch, session[t])
    /\ UNCHANGED <<now, domainVars, workerVars>>

HoldBrowserHost(t) ==
    /\ "hold" \in Kinds
    /\ task[t].life = "open"
    /\ Accept("hold", t, task[t].epoch, NoTarget)
    /\ UNCHANGED <<now, domainVars, workerVars>>

RegisterResource(r) ==
    /\ res[r].life = "unregistered"
    /\ RuntimeCapable(res[r].owner)
    /\ res' = [res EXCEPT ![r].life = "active"]
    /\ UNCHANGED <<now, task, session, op, row, workerVars>>

SettleTask(t) ==
    /\ task[t].life = "open"
    /\ task' = [task EXCEPT ![t].life = "settled"]
    /\ UNCHANGED <<now, res, session, op, row, workerVars>>

DeleteTask(t) ==
    /\ task[t].life = "archived"
    /\ task' = [task EXCEPT ![t].life = "deleted"]
    /\ UNCHANGED <<now, res, session, op, row, workerVars>>

\* BindProviderSession after AbandonProviderSession: another provider identity.
RebindSession(t) ==
    /\ RuntimeCapable(t)
    /\ session[t] # "closed"
    /\ \E s \in Sessions \ {session[t]} : session' = [session EXCEPT ![t] = s]
    /\ UNCHANGED <<now, task, res, op, row, workerVars>>

\* CancelSpecialist and AcceptSpecialistHandoff close the session for good.
CloseSpecialist(t) ==
    /\ t \in Specialists
    /\ RuntimeCapable(t)
    /\ session[t] # "closed"
    /\ session' = [session EXCEPT ![t] = "closed"]
    /\ UNCHANGED <<now, task, res, op, row, workerVars>>

\* transition_outbox: a row reaches an outcome and gives up lease and receipt.
TransitionOutbox(r, state, err) ==
    [r EXCEPT !.state = state, !.lease = NoTime, !.err = err, !.proof = 0, !.provedAt = NoTime]

\* apply_operation_outcome: an operation reaches an outcome.
Concluded(p, outcome, at) == [p EXCEPT !.state = outcome, !.outcomeAt = at]

AcceptedAt(t, epoch) ==
    {o \in Ops : op[o].state = "accepted" /\ op[o].task = t /\ op[o].epoch = epoch}

\* mutant: reopen leaves the pending close in place
CancelUntouchedClose_LeftPending(t) == UNCHANGED <<op, row>>

\* cancel_untouched_begin_close_for_reopen: the close must be the only accepted
\* operation of its epoch and must never have been begun, else reopen is refused.
CancelUntouchedClose(t) ==
    \E o \in Ops :
        /\ AcceptedAt(t, task[t].epoch) = {o}
        /\ op[o].kind = "teardown"
        /\ row[o].state \in {"pending", "claimed"}
        /\ row[o].attempts = 0
        /\ now >= op[o].acceptedAt
        /\ op' = [op EXCEPT ![o] = Concluded(@, "cancelled", now)]
        /\ row' = [row EXCEPT ![o] = TransitionOutbox(@, "cancelled", "superseded")]

ReopenTask(t) ==
    /\ task[t].life \in {"settled", "closing", "archived"}
    /\ IF task[t].life = "closing" THEN CancelUntouchedClose(t) ELSE UNCHANGED <<op, row>>
    /\ task' = [task EXCEPT ![t].life = "open"]
    /\ UNCHANGED <<now, res, session, workerVars>>

-----------------------------------------------------------------------------
(* The fence: does the effect still own what it was planned against?         *)

\* current_effect_ownership_check: whether it answers None.
CurrentOwner(o) ==
    LET t == op[o].task IN
    /\ task[t].epoch = op[o].epoch
    /\ op[o].kind = "teardown" => task[t].life = "closing"
    /\ op[o].kind = "hold" => task[t].life = "open"
    /\ op[o].kind = "release" =>
          res[op[o].target].life = "releasing" /\ res[op[o].target].owner = t
    /\ op[o].kind = "provider" => session[t] = op[o].target

\* mutant: staleness judged by the lifecycle instead of the epoch
PermanentlyStale_ByLifecycle(o) ==
    session[op[o].task] = op[o].target /\ task[op[o].task].life = "closing"

\* The refusal of a provider input that StaleFenceCheck::is_permanent calls
\* permanent.  A closed or rebound session is reported before the epoch is read.
PermanentlyStale(o) ==
    /\ session[op[o].task] = op[o].target
    /\ task[op[o].task].epoch > op[o].epoch

\* mutant: a resource still being released counts as gone
HasLiveResources_ActiveOnly(t) == \E r \in Resources : res[r].owner = t /\ res[r].life = "active"

\* refuse_archive_with_live_resources
HasLiveResources(t) == \E r \in Resources : res[r].owner = t /\ res[r].life \in {"active", "releasing"}

-----------------------------------------------------------------------------
(* Claiming.                                                                 *)

\* ORDER BY available_at_ms, event_sequence
Before(a, b) == row[a].avail < row[b].avail \/ (row[a].avail = row[b].avail /\ a < b)

First(S, o) == o \in S /\ \A p \in S \ {o} : Before(o, p)

\* mutant: leases are not consulted
LeaseFree_Always(o) == TRUE

\* leased_until_ms IS NULL OR leased_until_ms <= now
LeaseFree(o) == row[o].lease <= now

\* load_next_dispatch_candidate
DispatchCandidates(kinds) ==
    {o \in Ops :
        /\ op[o].state = "accepted"
        /\ op[o].kind \in kinds
        /\ row[o].avail <= now
        /\ \/ row[o].state = "pending"
           \/ row[o].state = "claimed" /\ LeaseFree(o)}

\* AbsenceReceiptDocument::authorizes
AbsenceAuthorizes(r) == r.proof = r.attempts /\ r.started <= r.provedAt /\ r.provedAt <= r.avail

\* pending_dispatch_is_authorized
Authorized(o) ==
    \/ op[o].kind # "hold" /\ row[o].attempts = 0
    \/ op[o].kind = "teardown" /\ row[o].gen > 0
    \/ op[o].kind = "release" /\ row[o].gen > 0 /\ AbsenceAuthorizes(row[o])

Claimable(kinds) ==
    {o \in DispatchCandidates(kinds) :
        CurrentOwner(o) /\ (row[o].state = "pending" => Authorized(o))}

\* A new lease generation: every token issued for the one before is dead.
NextGeneration(r) == [r EXCEPT !.gen = @ + 1]

\* claim_outbox_row
Claimed(r, d) == [r EXCEPT !.state = "claimed", !.gen = @ + 1, !.lease = now + d]

\* claim_next_dispatch (every destination) and claim_next_dispatch_for_destination
ClaimNextDispatch(kinds) ==
    \E o \in Ops, d \in Durations :
        /\ First(Claimable(kinds), o)
        /\ row' = [row EXCEPT ![o] = Claimed(@, d)]
        /\ claims' = claims \cup {<<o, row[o].gen + 1>>}
        /\ UNCHANGED <<now, domainVars, op, permits, lookups, crossed, torn, absences>>

\* retire_stale_fenced_dispatch_in_tx
RetiredOperation(o) ==
    Concluded(op[o], "failed", MaxOf(now, MaxOf(op[o].acceptedAt, row[o].avail)))

\* claim_next_provider_input_dispatch: the scan retires, in its own transaction,
\* every permanently stale row it steps over before the row it claims, if any.
ClaimNextProviderInput ==
    LET claimable == Claimable({"provider"})
        Retired == {o \in DispatchCandidates({"provider"}) :
                       PermanentlyStale(o) /\ \A p \in claimable : First(claimable, p) => Before(o, p)}
    IN
    /\ claimable # {} \/ Retired # {}
    /\ \E d \in Durations :
          row' = [o \in Ops |->
                     IF o \in Retired THEN TransitionOutbox(row[o], "failed", "stale_fence")
                     ELSE IF First(claimable, o) THEN Claimed(row[o], d) ELSE row[o]]
    /\ op' = [o \in Ops |-> IF o \in Retired THEN RetiredOperation(o) ELSE op[o]]
    /\ claims' = claims \cup {<<o, row[o].gen + 1>> : o \in {p \in Ops : First(claimable, p)}}
    /\ UNCHANGED <<now, domainVars, permits, lookups, crossed, torn, absences>>

-----------------------------------------------------------------------------
(* The life of a claim.                                                      *)

\* verify_claim_generation, after revalidate_outbox_effect
HoldsClaim(c) ==
    LET o == c[1] IN
    /\ op[o].state = "accepted"
    /\ CurrentOwner(o)
    /\ row[o].gen = c[2]
    /\ row[o].lease > now

\* A row handed back unattempted is available after a delay, never earlier than
\* it already was.
PutBackUntil(o, d) == MaxOf(now, row[o].avail) + d

HandedBack(r, until) == [r EXCEPT !.state = "pending", !.lease = NoTime, !.avail = until]

ReleaseDispatchClaim ==
    \E c \in claims, d \in Durations :
        /\ row[c[1]].state = "claimed"
        /\ HoldsClaim(c)
        /\ row' = [row EXCEPT ![c[1]] = HandedBack(@, PutBackUntil(c[1], d))]
        /\ UNCHANGED <<now, domainVars, op, workerVars>>

RenewDispatchClaim ==
    \E c \in claims, d \in Durations :
        /\ row[c[1]].state \in {"claimed", "dispatching"}
        /\ HoldsClaim(c)
        /\ row' = [row EXCEPT ![c[1]].lease = MaxOf(@, now + d)]
        /\ UNCHANGED <<now, domainVars, op, workerVars>>

Begun(r, at) ==
    [r EXCEPT !.state = "dispatching", !.attempts = @ + 1, !.started = at,
              !.proof = 0, !.provedAt = NoTime]

BeginDispatch ==
    \E c \in claims :
        LET o == c[1]
            startedAt == MaxOf(now, row[o].avail)
        IN
        /\ row[o].state = "claimed"
        /\ HoldsClaim(c)
        /\ startedAt < row[o].lease
        /\ row' = [row EXCEPT ![o] = Begun(@, startedAt)]
        /\ permits' = permits \cup {<<o, c[2], row[o].attempts + 1>>}
        /\ UNCHANGED <<now, domainVars, op, claims, lookups, crossed, torn, absences>>

-----------------------------------------------------------------------------
(* The life of a permit.                                                     *)

\* validate_dispatch_permit: exact generation and attempt of the stored row.
PermitMatches(p) == row[p[1]].gen = p[2] /\ row[p[1]].attempts = p[3]

\* mutant: completion does not look at what was recorded before
Dispatching_AnyState(o) == op[o].state # "none" /\ row[o].attempts > 0

\* The operation has no outcome and its current attempt has been begun.
Dispatching(o) == op[o].state = "accepted" /\ row[o].state = "dispatching"

\* mutant: recovery demands live ownership of every effect
AmbiguityAdmitted_OwnersOnly(o) == CurrentOwner(o)

\* revalidate_ambiguity_effect: a provider attempt is judged by its immutable
\* identity, every other effect must still own its target.
AmbiguityAdmitted(o) == op[o].kind = "provider" \/ CurrentOwner(o)

\* write_sealed_provider_action: the first physical write of the input is taken
\* whole, which is the boundary; a step that fails after it is past the boundary.
WriteProviderInput ==
    \E p \in permits \ (crossed \cup torn) :
        /\ op[p[1]].kind = "provider"
        /\ crossed' = crossed \cup {p}
        /\ UNCHANGED <<now, domainVars, op, row, claims, permits, lookups, torn, absences>>

\* The first physical write is a write_all, which may fail with part written.
TearProviderInput ==
    \E p \in permits \ (crossed \cup torn) :
        /\ op[p[1]].kind = "provider"
        /\ torn' = torn \cup {p}
        /\ UNCHANGED <<now, domainVars, op, row, claims, permits, lookups, crossed, absences>>

\* mutant: a failure after the boundary is classified as a hold
BeforeBoundary_AnyFailure(p) == TRUE

\* hold_disposition: a failure counts as before the boundary when no physical write
\* came back whole, so a torn one does (RuntimeAuthorityAbsent).
BeforeBoundary(p) == p \notin crossed

\* The attempt is taken back as if it had never been begun.
TakenBack(r, until) ==
    [HandedBack(r, until) EXCEPT !.attempts = @ - 1, !.started = NoTime]

\* defer_dispatch_before_boundary: the write authority refused before the
\* boundary, so the attempt is taken back.  Only the provider lane calls it.
DeferBeforeBoundary ==
    \E p \in permits, d \in Durations :
        LET o == p[1] IN
        /\ BeforeBoundary(p)
        /\ op[o].kind = "provider"
        /\ Dispatching(o)
        /\ PermitMatches(p)
        /\ row' = [row EXCEPT ![o] = TakenBack(@, PutBackUntil(o, d))]
        /\ permits' = permits \ {p}
        /\ UNCHANGED <<now, domainVars, op, claims, lookups, crossed, torn, absences>>

\* What an outcome does to the domain: apply_new_outcome's derived event.
ApplyResult(o, outcome) ==
    /\ task' = IF op[o].kind = "teardown" /\ outcome = "settled"
               THEN [task EXCEPT ![op[o].task].life = "archived"] ELSE task
    /\ res' = IF op[o].kind = "release" /\ outcome = "settled"
              THEN [res EXCEPT ![op[o].target].life = "released"] ELSE res

ErrorClassOf(outcome) ==
    CASE outcome = "settled" -> "none"
      [] outcome = "failed" -> "side_effect_failed"
      [] outcome = "cancelled" -> "superseded"

\* mutant: the outcome is stamped with the wall clock
CompletedAt_WallClock(o) == now

\* An outcome is never dated before the operation, its schedule or its attempt.
CompletedAt(o) == MaxOf(MaxOf(now, op[o].acceptedAt), MaxOf(row[o].avail, row[o].started))

\* record_dispatch_completion.  The lease is not consulted: exact generation and
\* attempt are, so a worker may report late but never for a superseded attempt.
CompleteDispatch ==
    \E p \in permits, outcome \in Outcomes :
        LET o == p[1] IN
        /\ Dispatching(o)
        /\ PermitMatches(p)
        /\ CurrentOwner(o)
        /\ op[o].kind = "provider" => p \in crossed /\ outcome = "settled"
        /\ op[o].kind = "teardown" /\ outcome = "settled" => ~HasLiveResources(op[o].task)
        /\ op' = [op EXCEPT ![o] = Concluded(@, outcome, CompletedAt(o))]
        /\ row' = [row EXCEPT ![o] = TransitionOutbox(@, outcome, ErrorClassOf(outcome))]
        /\ ApplyResult(o, outcome)
        /\ UNCHANGED <<now, session, workerVars>>

\* mutant: uncertainty is dated at acceptance
UncertainAt_Acceptance(o) == op[o].acceptedAt

\* observed_at_ms.max(accepted_at_ms): the attempt's start is not consulted.
UncertainAt(o) == MaxOf(now, op[o].acceptedAt)

\* record_no_retry_dispatch_uncertainty_in_tx
RecordNoRetryUncertainty(o) ==
    /\ op' = [op EXCEPT ![o] = Concluded(@, "uncertain", UncertainAt(o))]
    /\ row' = [row EXCEPT ![o] = TransitionOutbox(@, "uncertain", "ambiguous_dispatch")]

\* An unresolved row that may go on at a later time, without lease or receipt.
Postponed(r, state, err, until) ==
    [r EXCEPT !.state = state, !.lease = NoTime, !.err = err, !.proof = 0,
              !.provedAt = NoTime, !.avail = until]

\* mutant: the observation is dated by a clock that may have been set back
ObservedAt_WallClock(o) == now

\* When a result was observed, as the row will remember it.
ObservedAt(o) == MaxOf(MaxOf(now, row[o].started), row[o].avail)

\* ambiguity_disposition for the effects that may run again: RetrySafe goes back
\* to pending, ReconcileBeforeRetry waits for a lookup.
Ambiguous(o, d) ==
    IF op[o].kind = "teardown"
    THEN Postponed(row[o], "pending", "none", ObservedAt(o) + d)
    ELSE Postponed(row[o], "reconcile_required", "ambiguous_dispatch", ObservedAt(o) + d)

RecordDispatchAmbiguity ==
    \E p \in permits, d \in Durations :
        LET o == p[1] IN
        /\ Dispatching(o)
        /\ AmbiguityAdmitted(o)
        /\ PermitMatches(p)
        /\ IF op[o].kind = "provider" THEN RecordNoRetryUncertainty(o)
           ELSE row' = [row EXCEPT ![o] = Ambiguous(o, d)] /\ UNCHANGED op
        /\ UNCHANGED <<now, domainVars, workerVars>>

\* load_next_expired_dispatch_candidate
ExpiredDispatches ==
    {o \in Ops : Dispatching(o) /\ LeaseFree(o)}

\* recover_next_expired_dispatch: the generation moves on, so the old permit dies.
RecoverNextExpiredDispatch ==
    \E o \in Ops, d \in Durations :
        /\ First({p \in ExpiredDispatches : AmbiguityAdmitted(p)}, o)
        /\ IF op[o].kind = "provider" THEN RecordNoRetryUncertainty(o)
           ELSE /\ row' = [row EXCEPT ![o] = NextGeneration(Ambiguous(o, d))]
                /\ UNCHANGED op
        /\ UNCHANGED <<now, domainVars, workerVars>>

-----------------------------------------------------------------------------
(* Reconciliation of an ambiguous release.                                   *)

\* load_next_reconciliation_candidate, stepping over stale fences
ReconciliationCandidates ==
    {o \in Ops :
        /\ op[o].state = "accepted"
        /\ row[o].avail <= now
        /\ \/ row[o].state = "reconcile_required"
           \/ row[o].state = "reconciling" /\ LeaseFree(o)
        /\ CurrentOwner(o)}

LookedUp(r, d) == [r EXCEPT !.state = "reconciling", !.gen = @ + 1, !.lease = now + d]

ClaimNextReconciliation ==
    \E o \in Ops, d \in Durations :
        /\ First(ReconciliationCandidates, o)
        /\ row' = [row EXCEPT ![o] = LookedUp(@, d)]
        /\ lookups' = lookups \cup {<<o, row[o].gen + 1, row[o].attempts>>}
        /\ UNCHANGED <<now, domainVars, op, claims, permits, crossed, torn, absences>>

\* validate_reconciliation_claim and verify_reconciliation_claim_generation
HoldsLookup(l) ==
    LET o == l[1] IN
    /\ op[o].state = "accepted"
    /\ row[o].state = "reconciling"
    /\ CurrentOwner(o)
    /\ PermitMatches(l)
    /\ row[o].lease > now

RenewReconciliationClaim ==
    \E l \in lookups, d \in Durations :
        /\ HoldsLookup(l)
        /\ row' = [row EXCEPT ![l[1]].lease = MaxOf(@, now + d)]
        /\ UNCHANGED <<now, domainVars, op, workerVars>>

ReleaseReconciliationClaim ==
    \E l \in lookups, d \in Durations :
        LET o == l[1] IN
        /\ HoldsLookup(l)
        /\ row' = [row EXCEPT ![o] =
                     NextGeneration(Postponed(@, "reconcile_required", "ambiguous_dispatch",
                                              ObservedAt(o) + d))]
        /\ UNCHANGED <<now, domainVars, op, workerVars>>

\* The retry is authorized by a receipt for the attempt that had no effect.
ProvedAbsent(r, at, d) ==
    [Postponed(r, "pending", "none", at + d) EXCEPT !.proof = r.attempts, !.provedAt = at]

\* record_reconciliation with ReconciliationFinding::Absent: the only way an
\* ambiguous release earns another attempt.
ReconcileAbsent ==
    \E l \in lookups, d \in Durations :
        LET o == l[1] IN
        /\ HoldsLookup(l)
        /\ row' = [row EXCEPT ![o] =
                     ProvedAbsent(@, ObservedAt(o), d)]
        /\ absences' = absences \cup {<<o, l[3]>>}
        /\ UNCHANGED <<now, domainVars, op, claims, permits, lookups, crossed, torn>>

\* mutant: an inconclusive lookup authorizes a retry
ReconcileInconclusive_AsAbsent ==
    \E l \in lookups, d \in Durations :
        LET o == l[1] IN
        /\ HoldsLookup(l)
        /\ row' = [row EXCEPT ![o] =
                     ProvedAbsent(@, ObservedAt(o), d)]
        /\ UNCHANGED <<now, domainVars, op, workerVars>>

ReconcileInconclusive ==
    \E l \in lookups, d \in Durations :
        LET o == l[1] IN
        /\ HoldsLookup(l)
        /\ row' = [row EXCEPT ![o] =
                     Postponed(@, "reconcile_required", "ambiguous_dispatch", ObservedAt(o) + d)]
        /\ UNCHANGED <<now, domainVars, op, workerVars>>

Reconciled(p) == [p EXCEPT !.reconciled = TRUE]

\* PresentSettled and PresentFailed: uncertainty and the verified outcome are
\* recorded in one transaction.
ReconcilePresent ==
    \E l \in lookups, outcome \in {"settled", "failed"} :
        LET o == l[1] IN
        /\ HoldsLookup(l)
        /\ op' = [op EXCEPT ![o] = Reconciled(Concluded(@, outcome, ObservedAt(o)))]
        /\ row' = [row EXCEPT ![o] = TransitionOutbox(@, outcome, ErrorClassOf(outcome))]
        /\ ApplyResult(o, outcome)
        /\ UNCHANGED <<now, session, workerVars>>

-----------------------------------------------------------------------------
(* Maintenance lanes that claim, begin and settle in a single transaction.   *)

SettleNow(o) ==
    LET at == MaxOf(now, row[o].avail) IN
    /\ op' = [op EXCEPT ![o] = Concluded(@, "settled", MaxOf(at, op[o].acceptedAt))]
    /\ row' = [row EXCEPT ![o] = TransitionOutbox(Begun(NextGeneration(@), at), "settled", "none")]
    /\ ApplyResult(o, "settled")
    /\ UNCHANGED <<now, session, workerVars>>

SettleNextProcessEmptyTaskTeardown ==
    \E o \in Ops :
        /\ First({p \in Claimable({"teardown"}) : ~HasLiveResources(op[p].task)}, o)
        /\ SettleNow(o)

SettleResourceReleaseFor(r) ==
    \E o \in Ops :
        /\ First({p \in Claimable({"release"}) : op[p].target = r}, o)
        /\ SettleNow(o)

-----------------------------------------------------------------------------

Next ==
    \/ Tick
    \/ ClockStepsBack
    \/ \E t \in Tasks : BeginCloseTask(t)
    \/ \E t \in Tasks : SubmitProviderInput(t)
    \/ \E t \in Tasks : HoldBrowserHost(t)
    \/ \E t \in Tasks : SettleTask(t)
    \/ \E t \in Tasks : ReopenTask(t)
    \/ \E t \in Tasks : DeleteTask(t)
    \/ \E t \in Tasks : RebindSession(t)
    \/ \E t \in Tasks : CloseSpecialist(t)
    \/ \E r \in Resources : RegisterResource(r)
    \/ \E r \in Resources : ReleaseResource(r)
    \/ \E r \in Resources : SettleResourceReleaseFor(r)
    \/ ClaimNextDispatch(EffectKinds)
    \/ ClaimNextDispatch({"release"})
    \/ ClaimNextProviderInput
    \/ ReleaseDispatchClaim
    \/ RenewDispatchClaim
    \/ BeginDispatch
    \/ WriteProviderInput
    \/ TearProviderInput
    \/ DeferBeforeBoundary
    \/ CompleteDispatch
    \/ RecordDispatchAmbiguity
    \/ RecoverNextExpiredDispatch
    \/ ClaimNextReconciliation
    \/ RenewReconciliationClaim
    \/ ReleaseReconciliationClaim
    \/ ReconcileAbsent
    \/ ReconcileInconclusive
    \/ ReconcilePresent
    \/ SettleNextProcessEmptyTaskTeardown

Spec == Init /\ [][Next]_vars

\* One maintenance pass of the provider lane, ProviderDispatchRuntime::run_once:
\* it claims only when recovery had nothing to report.
ProviderLaneClaims == ExpiredDispatches = {} /\ ClaimNextProviderInput

\* The clock runs and the host keeps calling the lane; nothing else is assumed of
\* any worker, so every one of them may die at any step.
FairSpec ==
    /\ Spec
    /\ WF_vars(Tick)
    /\ WF_vars(RecoverNextExpiredDispatch)
    /\ WF_vars(ProviderLaneClaims)

-----------------------------------------------------------------------------
(* What the kernel demands of the rows it reads back.                        *)

\* validate_retry_authorization
RetryAuthorized(r, kind) ==
    \/ kind = "teardown" /\ r.proof = 0
    \/ kind = "release" /\ r.proof # 0 /\ AbsenceAuthorizes(r)

\* validate_nonterminal_outbox_dispatch_metadata: a row that fails it is reported
\* as Corruption by every later call that reads it.
ValidWaitingRow(r, kind, acceptedAt) ==
    /\ r.lease = NoTime
    /\ IF r.attempts = 0
       THEN /\ r.started = NoTime
            /\ r.proof = 0
            /\ IF r.gen = 0 THEN r.avail = acceptedAt ELSE r.avail >= acceptedAt
       ELSE /\ r.started # NoTime
            /\ r.gen > 0
            /\ r.avail >= acceptedAt
            /\ r.avail >= r.started
            /\ RetryAuthorized(r, kind)

ValidClaimedRow(r, kind, acceptedAt) ==
    /\ r.gen > 0
    /\ r.err = "none"
    /\ r.avail >= acceptedAt
    /\ r.lease > r.avail
    /\ IF r.attempts = 0
       THEN r.started = NoTime /\ r.proof = 0
       ELSE /\ r.started # NoTime
            /\ r.avail >= r.started
            /\ r.gen > r.attempts
            /\ RetryAuthorized(r, kind)

ValidDispatchingRow(r, acceptedAt) ==
    /\ r.gen > 0
    /\ r.attempts > 0
    /\ r.err = "none"
    /\ r.proof = 0
    /\ r.started # NoTime
    /\ acceptedAt <= r.avail
    /\ r.avail <= r.started
    /\ r.lease > r.started

ValidReconcilingRow(r, kind, acceptedAt) ==
    /\ kind = "release"
    /\ r.attempts > 0
    /\ r.proof = 0
    /\ r.err = "ambiguous_dispatch"
    /\ r.started # NoTime
    /\ acceptedAt <= r.started
    /\ r.started <= r.avail
    /\ IF r.state = "reconciling"
       THEN r.gen > r.attempts /\ r.lease > r.avail
       ELSE r.lease = NoTime

ValidNonterminalRow(r, kind, acceptedAt) ==
    /\ r.attempts <= r.gen
    /\ r.state = "pending" => ValidWaitingRow(r, kind, acceptedAt)
    /\ r.state = "claimed" => ValidClaimedRow(r, kind, acceptedAt)
    /\ r.state = "dispatching" => ValidDispatchingRow(r, acceptedAt)
    /\ r.state \in {"reconcile_required", "reconciling"} => ValidReconcilingRow(r, kind, acceptedAt)

\* terminal_outbox_error_class
TerminalErrorClass(r) ==
    CASE r.state = "settled" -> "none"
      [] r.state = "failed" -> IF r.attempts = 0 THEN "stale_fence" ELSE "side_effect_failed"
      [] r.state = "cancelled" -> "superseded"
      [] r.state = "uncertain" -> "ambiguous_dispatch"

\* validate_side_effect_terminal_receipt and
\* validate_terminal_outbox_dispatch_metadata
ValidTerminalRow(r, acceptedAt, upperBound, reconciled) ==
    /\ r.lease = NoTime
    /\ r.proof = 0
    /\ r.err = TerminalErrorClass(r)
    /\ r.attempts <= r.gen
    /\ IF r.attempts = 0
       THEN /\ r.started = NoTime
            /\ IF r.gen = 0 THEN r.avail = acceptedAt ELSE r.avail >= acceptedAt
       ELSE /\ r.started # NoTime
            /\ acceptedAt <= r.avail
            /\ acceptedAt <= r.started
            /\ reconciled \/ r.avail <= r.started
            /\ r.avail <= upperBound
            /\ r.started <= upperBound

\* Whether Event::TaskArchived replays through the domain's apply_into.
DomainAdmitsArchive(t) ==
    /\ task[t].life = "closing"
    /\ \A r \in Resources : res[r].owner = t => res[r].life \notin {"active", "releasing"}
    /\ t \in Specialists => session[t] = "closed"
=============================================================================
