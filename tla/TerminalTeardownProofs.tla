------------------------ MODULE TerminalTeardownProofs ------------------------
(***************************************************************************)
(* What the teardown of a terminal guarantees for every set of processes,  *)
(* every mailbox size and any number of faults, late drains and retries.   *)
(***************************************************************************)
EXTENDS TerminalTeardown, TLAPS

Entries == [present : BOOLEAN, state : Lifecycles, prior : Lifecycles \cup {"None"},
            proof : Nat, authoritative : BOOLEAN, settled : Nat, nextNonce : Nat \ {0}]

-----------------------------------------------------------------------------
(* The operators on the registry entry. *)

\* A function on the fields with values of the fields' types is an entry.
LEMMA EntryFromFields ==
    ASSUME NEW e, e = [x \in DOMAIN e |-> e[x]],
           DOMAIN e = {"present", "state", "prior", "proof", "authoritative", "settled",
                       "nextNonce"},
           e.present \in BOOLEAN, e.state \in Lifecycles, e.prior \in Lifecycles \cup {"None"},
           e.proof \in Nat, e.authoritative \in BOOLEAN, e.settled \in Nat,
           e.nextNonce \in Nat \ {0}
    PROVE  e \in Entries
PROOF
    BY DEF Entries

\* What the zero packet writes into the entry.
LEMMA ZeroHintFacts ==
    ASSUME NEW e \in Entries
    PROVE  LET f == ZeroHint(e) IN
           /\ f \in Entries
           /\ f.present = e.present
           /\ ~f.authoritative
PROOF
<1> DEFINE f == ZeroHint(e)
<1>1. f = [x \in DOMAIN f |-> f[x]]
    BY Zenon DEF ZeroHint
<1>2. DOMAIN f = {"present", "state", "prior", "proof", "authoritative", "settled", "nextNonce"}
    BY DEF ZeroHint, Entries
<1>3. /\ f.present = e.present /\ f.state = e.state
      /\ f.prior = (IF e.prior = "None" THEN e.state ELSE e.prior)
      /\ f.proof = e.nextNonce /\ f.authoritative = FALSE /\ f.settled = 0
      /\ f.nextNonce = e.nextNonce + 1
    BY DEF ZeroHint, Entries
<1>4. /\ e.present \in BOOLEAN /\ e.state \in Lifecycles
      /\ e.prior \in Lifecycles \cup {"None"} /\ e.nextNonce \in Nat \ {0}
    BY DEF Entries
<1> HIDE DEF f
<1>5. f.prior \in Lifecycles \cup {"None"} /\ f.nextNonce \in Nat \ {0} /\ f.proof \in Nat
    BY <1>3, <1>4
<1>6. f.present \in BOOLEAN /\ f.state \in Lifecycles /\ f.authoritative \in BOOLEAN
    BY <1>3, <1>4, Zenon
<1>7. f.settled \in Nat
    BY <1>3
<1>8. f \in Entries
    BY <1>1, <1>2, <1>5, <1>6, <1>7, EntryFromFields, Zenon
<1> QED BY <1>3, <1>8, Zenon DEF f

\* A hint never grants anything: apply_job_completion leaves an authoritative
\* entry alone and never makes one.
LEMMA CompletionGrantsNothing ==
    ASSUME NEW e \in Entries, NEW packet
    PROVE  LET f == ApplyJobCompletion(e, packet) IN
           /\ f \in Entries
           /\ f.present = e.present
           /\ f.authoritative => e.authoritative
           /\ e.state = "ZeroSettled" => f = e
PROOF
<1>1. ZeroHint(e) \in Entries /\ ZeroHint(e).present = e.present
                              /\ ~ZeroHint(e).authoritative
    BY ZeroHintFacts
<1>2. CASE packet = "zero" /\ e.state # "ZeroSettled"
    <2>1. ApplyJobCompletion(e, packet) = ZeroHint(e)
        BY <1>2 DEF ApplyJobCompletion
    <2> QED BY <1>1, <1>2, <2>1
<1>3. CASE ~(packet = "zero" /\ e.state # "ZeroSettled")
    BY <1>3 DEF ApplyJobCompletion, Entries, Lifecycles
<1> QED BY <1>2, <1>3

\* reconcile_membership never grants anything either, and leaves a settled
\* entry without a proof alone.
LEMMA ReconcileGrantsNothing ==
    ASSUME NEW e \in Entries, NEW members
    PROVE  LET f == ReconcileMembership(e, members) IN
           /\ f \in Entries
           /\ f.present = e.present
           /\ f.authoritative = e.authoritative
           /\ e.state = "ZeroSettled" /\ e.proof = 0 => f = e
PROOF
    BY DEF ReconcileMembership, PriorState, Entries, Lifecycles

\* settle_active_process_zero grants exactly when the Job is empty, and the
\* grant carries the nonce of the proof it spent.
LEMMA SettlementNeedsEmptyJob ==
    ASSUME NEW e \in Entries, NEW members
    PROVE  LET f == SettleActiveProcessZero(e, members) IN
           /\ f \in Entries
           /\ f.present = e.present
           /\ f.proof = 0
           /\ f.authoritative => /\ members = {}
                                 /\ f.settled = e.proof
                                 /\ f.state = "ZeroSettled"
PROOF
    BY DEF SettleActiveProcessZero, Settled, Unsettled, PriorState, Entries, Lifecycles

-----------------------------------------------------------------------------
(* Release.  The invariant ties the three places a grant lives in (the       *)
(* entry, the retained authority, the released flag) to the empty Job.       *)

GrantInv ==
    /\ entry \in Entries
    /\ (entry.authoritative \/ released \/ ~ledger) => live = {}
    /\ entry.present => /\ entry.authoritative <=> authority # 0
                        /\ authority # 0 => Releasable(entry, authority) /\ entry.proof = 0
    /\ released => ~entry.present
    /\ launch # "resumed" => worker.stage = "Idle" /\ authority = 0

\* Nothing is granted, released or running when the root is registered.
LEMMA InitGrant == Init => GrantInv
PROOF
    BY DEF Init, GrantInv, NewEntry, Entries, Lifecycles, IdleWorker, Releasable

\* The launch, the Job, the listener and the callers keep the invariant: none
\* of them touches a grant, and only a live member can repopulate the Job.
LEMMA HostKeepsGrant ==
    ASSUME GrantInv, Process \/ Host \/ Close
    PROVE  GrantInv'
PROOF
<1> USE DEF GrantInv, Releasable, jobVars, mailVars, entryVars, adapterVars, journalVars
<1>1. ASSUME NEW p \in Procs, Spawn(p) PROVE GrantInv'
    BY <1>1 DEF Spawn
<1>2. ASSUME NEW p \in Procs, NEW packet, Exit(p, packet) PROVE GrantInv'
    BY <1>2 DEF Exit
<1>3. CASE Resume
    <2>1. entry' \in Entries /\ entry'.present = entry.present
              /\ entry'.authoritative = entry.authoritative
        BY <1>3 DEF Resume, Entries, Lifecycles
    <2> QED BY <1>3, <2>1 DEF Resume
<1>4. CASE ResumeFails
    <2>1. entry' \in Entries /\ entry'.present = FALSE
        BY <1>4 DEF ResumeFails, Entries
    <2> QED BY <1>4, <2>1 DEF ResumeFails
<1>5. CASE ShutDown
    BY <1>5 DEF ShutDown
<1>6. CASE Deliver
    BY <1>6 DEF Deliver
<1>7. CASE HintZeroEarly
    BY <1>7 DEF HintZeroEarly
<1>8. CASE ListenerFails
    BY <1>8 DEF ListenerFails
<1>9. CASE ReturnCompleted
    BY <1>9 DEF ReturnCompleted
<1>10. ASSUME NEW how \in JournalResults, BeginCleanup(how) PROVE GrantInv'
    BY <1>10 DEF BeginCleanup, Admitted
<1>11. ASSUME NEW how \in JournalResults, FinalizeEffectsClosed(how) PROVE GrantInv'
    BY <1>11 DEF FinalizeEffectsClosed
<1> QED BY <1>1, <1>2, <1>3, <1>4, <1>5, <1>6, <1>7, <1>8, <1>9, <1>10, <1>11
        DEF Process, Host, Close

\* Nor does a stage that leaves the entry, the authority and the Job alone.
LEMMA QuietStageKeepsGrant ==
    ASSUME GrantInv, worker.stage # "Idle",
           UNCHANGED <<entry, authority, live, launch>>,
           UNCHANGED released, ledger' = ledger \/ released
    PROVE  GrantInv'
PROOF
    BY DEF GrantInv, Releasable

\* A cleanup step keeps the invariant.
LEMMA CleanupKeepsGrant ==
    ASSUME GrantInv, Cleanup
    PROVE  GrantInv'
PROOF
<1> USE DEF jobVars, mailVars, entryVars, adapterVars, journalVars
<1> DEFINE Quiet == /\ worker.stage # "Idle"
                    /\ UNCHANGED <<entry, authority, live, launch>>
                    /\ UNCHANGED released
                    /\ ledger' = ledger \/ released
<1>1. CASE ReceiveMessages
    <2>1. Quiet BY <1>1 DEF ReceiveMessages, MayRun, Polling, Waits
    <2> QED BY <2>1, QuietStageKeepsGrant
<1>2. CASE LateDrain
    <2>1. Quiet BY <1>2 DEF LateDrain, MayRun, Polling, Waits
    <2> QED BY <2>1, QuietStageKeepsGrant
<1>3. CASE ApplyMessage
    <2>1. worker.stage # "Idle" /\ entry.present
        BY <1>3 DEF ApplyMessage, MayRun, Polling, Waits
    <2>2. entry \in Entries BY DEF GrantInv
    <2>3. /\ entry' \in Entries /\ entry'.present = entry.present
          /\ entry'.authoritative => entry.authoritative
          /\ entry.state = "ZeroSettled" => entry' = entry
        BY <1>3, <2>2, CompletionGrantsNothing DEF ApplyMessage
    <2> QED BY <1>3, <2>1, <2>3 DEF ApplyMessage, GrantInv, Releasable
<1>4. CASE AskToClose
    <2>1. Quiet BY <1>4 DEF AskToClose, MayRun, Escalations
    <2> QED BY <2>1, QuietStageKeepsGrant
<1>5. CASE TerminateTree
    <2>1. Quiet BY <1>5 DEF TerminateTree, MayRun
    <2> QED BY <2>1, QuietStageKeepsGrant
<1>6. ASSUME PollFindsZero \/ WaitTimesOut PROVE GrantInv'
    <2>1. entry \in Entries BY DEF GrantInv
    <2>2. /\ Polled \in Entries /\ Polled.present = entry.present
          /\ Polled.authoritative = entry.authoritative
          /\ entry.state = "ZeroSettled" /\ entry.proof = 0 => Polled = entry
        BY <2>1, ReconcileGrantsNothing DEF Polled
    <2>3. entry' = entry \/ entry' = Polled
        BY <1>6 DEF PollFindsZero, WaitTimesOut
    <2>4. worker.stage # "Idle" /\ UNCHANGED <<authority, live, launch, released, ledger>>
        BY <1>6 DEF PollFindsZero, WaitTimesOut, MayRun, Waits
    <2>5. CASE entry' = entry
        <3>1. Quiet BY <2>4, <2>5
        <3> QED BY <3>1, QuietStageKeepsGrant
    <2>6. CASE entry' = Polled
        BY <2>1, <2>2, <2>4, <2>6 DEF GrantInv, Releasable
    <2> QED BY <2>3, <2>5, <2>6
<1>7. CASE SettleZero
    <2> DEFINE f == SettleActiveProcessZero(entry, ActiveProcessIds)
    <2>1. entry \in Entries BY DEF GrantInv
    <2>2. /\ f \in Entries /\ f.present = entry.present /\ f.proof = 0
          /\ f.authoritative => live = {} /\ f.settled = entry.proof /\ f.state = "ZeroSettled"
        BY <2>1, SettlementNeedsEmptyJob DEF ActiveProcessIds
    <2> HIDE DEF f
    <2>3. worker.stage # "Idle" /\ UNCHANGED <<live, launch, released, ledger>>
        BY <1>7 DEF SettleZero, MayRun
    <2>4. \/ UNCHANGED <<entry, authority>>
          \/ /\ ~released /\ authority = 0 /\ entry' = f
             /\ IF f.authoritative THEN entry.proof # 0 /\ authority' = entry.proof
                                   ELSE authority' = authority
        BY <1>7 DEF SettleZero, AlreadySettled, Minted, f
    <2>5. CASE UNCHANGED <<entry, authority>>
        <3>1. Quiet BY <2>3, <2>5
        <3> QED BY <3>1, QuietStageKeepsGrant
    <2>6. CASE /\ ~released /\ authority = 0 /\ entry' = f
               /\ IF f.authoritative THEN entry.proof # 0 /\ authority' = entry.proof
                                     ELSE authority' = authority
        BY <2>1, <2>2, <2>3, <2>6 DEF GrantInv, Releasable
    <2> QED BY <2>4, <2>5, <2>6
<1>8. CASE DetachAfterZero
    <2>1. Quiet BY <1>8 DEF DetachAfterZero, MayRun
    <2> QED BY <2>1, QuietStageKeepsGrant
<1>9. CASE ReleaseStoppedExact
    <2>1. worker.stage # "Idle" /\ UNCHANGED <<live, launch, ledger>>
        BY <1>9 DEF ReleaseStoppedExact, MayRun
    <2>2. \/ UNCHANGED <<entry, authority, released>>
          \/ /\ ~released /\ Releasable(entry, authority)
             /\ entry' = [entry EXCEPT !.present = FALSE] /\ authority' = 0 /\ released'
        BY <1>9 DEF ReleaseStoppedExact
    <2>3. CASE UNCHANGED <<entry, authority, released>>
        <3>1. Quiet BY <2>1, <2>3
        <3> QED BY <3>1, QuietStageKeepsGrant
    <2>4. CASE /\ ~released /\ Releasable(entry, authority)
               /\ entry' = [entry EXCEPT !.present = FALSE] /\ authority' = 0 /\ released'
        <3>1. entry' \in Entries /\ entry'.present = FALSE
            BY <2>4 DEF GrantInv, Entries
        <3>2. live' = {} BY <2>1, <2>4 DEF GrantInv, Releasable
        <3>3. launch' = "resumed" BY <2>1 DEF GrantInv
        <3> QED BY <3>1, <3>2, <3>3 DEF GrantInv
    <2> QED BY <2>2, <2>3, <2>4
<1>10. CASE ReconcilePorts
    <2>1. Quiet BY <1>10 DEF ReconcilePorts, MayRun
    <2> QED BY <2>1, QuietStageKeepsGrant
<1>11. CASE PersistSettlement
    <2>1. Quiet BY <1>11 DEF PersistSettlement, MayRun
    <2> QED BY <2>1, QuietStageKeepsGrant
<1>12. CASE StageFails
    <2>1. Quiet BY <1>12 DEF StageFails, Escalations, Waits, Required
    <2> QED BY <2>1, QuietStageKeepsGrant
<1>13. ASSUME NEW how \in JournalResults, RecordAttempt(how) \/ PersistCompletion(how)
       PROVE  GrantInv'
    <2>1. Quiet BY <1>13 DEF RecordAttempt, PersistCompletion
    <2> QED BY <2>1, QuietStageKeepsGrant
<1> QED BY <1>1, <1>2, <1>3, <1>4, <1>5, <1>6, <1>7, <1>8, <1>9, <1>10, <1>11, <1>12, <1>13
        DEF Cleanup

\* Every step keeps the invariant.
LEMMA NextKeepsGrant == GrantInv /\ [Next]_vars => GrantInv'
PROOF
<1> SUFFICES ASSUME GrantInv, [Next]_vars PROVE GrantInv'
    OBVIOUS
<1>1. CASE UNCHANGED vars
    BY <1>1 DEF vars, jobVars, entryVars, adapterVars, GrantInv, Releasable
<1> QED BY <1>1, HostKeepsGrant, CleanupKeepsGrant DEF Next

\* The invariant holds throughout.
LEMMA GrantAlways == Spec => []GrantInv
PROOF
    BY InitGrant, NextKeepsGrant, PTL DEF Spec

\* A terminal is released, and its root leaves the crash ledger, only when its
\* Job is empty, for any processes, packets, faults and retries.
THEOREM ReleaseIsSafe == Spec => []ReleasedMeansGone
PROOF
<1>1. GrantInv => ReleasedMeansGone
    BY DEF GrantInv, ReleasedMeansGone
<1> QED BY <1>1, GrantAlways, PTL

\* A spent zero proof always leaves an authority that final release accepts.
THEOREM AuthorityIsKept == Spec => []AuthorityStaysUsable
PROOF
<1>1. GrantInv => AuthorityStaysUsable
    BY DEF GrantInv, AuthorityStaysUsable
<1> QED BY <1>1, GrantAlways, PTL

-----------------------------------------------------------------------------
(* Completion.  What the stage reached, the outcome computed, the journal    *)
(* and the answers say must already have been done; nothing done is undone.  *)

Workers == [stage : Stages, waited : Waits \cup {"None"}, errors : BOOLEAN,
            outcome : Outcomes]

Done == released /\ detached /\ ~ledger

WorkerOK(w) ==
    /\ w \in Workers
    /\ w.stage \in {"ReleaseStoppedExact", "ReconcilePorts", "PersistSettlement"} => detached
    /\ w.stage \in {"ReconcilePorts", "PersistSettlement"} => released
    /\ w.outcome = "Closed" => Done
    /\ w.stage = "PersistCompletion" => w.outcome = "Closed"

JournalOK ==
    /\ attempt \in [disk : Attempts, cache : Attempts]
    /\ report \in [disk : BOOLEAN, cache : BOOLEAN]
    /\ told = "Closed" => Done
    /\ report.disk \/ report.cache => Done
    /\ "EffectsClosed" \in {attempt.disk, attempt.cache} => Done
    /\ report.disk => worker.stage = "Idle"

CompleteInv == WorkerOK(worker) /\ JournalOK

\* A stage that failed is followed by no stage that needs an effect.
LEMMA FailedWorker ==
    ASSUME NEW w \in Workers
    PROVE  LET f == FailedStage(w) IN
           /\ f \in Workers
           /\ f.outcome = "CleanupFailed"
           /\ f.stage \in Waits \cup Escalations \cup {"RecordAttempt"}
PROOF
    BY DEF Workers, FailedStage, Escalate, Stages, Waits, Escalations, Required, Outcomes

\* A stage that passed is followed by the next one, and the outcome Closed is
\* computed only after the last.
LEMMA PassedWorker ==
    ASSUME NEW w \in Workers, w.stage \in Escalations \cup Required \cup {"SettleActiveProcessZero"}
    PROVE  LET f == Passed(w) IN
           /\ f \in Workers
           /\ f.stage # "PersistCompletion"
           /\ f.outcome = "Closed" => w.stage = "PersistSettlement" \/ w.outcome = "Closed"
           /\ f.stage = "ReleaseStoppedExact" => w.stage = "DetachAfterZero"
           /\ f.stage = "ReconcilePorts" => w.stage = "ReleaseStoppedExact"
           /\ f.stage = "PersistSettlement" => w.stage = "ReconcilePorts"
PROOF
    BY DEF Workers, Passed, Escalate, Proceed, Stages, Waits, Escalations, Required, Outcomes

\* A wait ends in the next escalation or in the settlement of zero.
LEMMA WaitedWorker ==
    ASSUME NEW w \in Workers, w.stage \in Waits
    PROVE  /\ TimedOut(w) \in Workers
           /\ TimedOut(w).stage \in Waits \cup Escalations \cup {"RecordAttempt"}
           /\ TimedOut(w).outcome # "Closed"
           /\ FoundZero(w) \in Workers
           /\ FoundZero(w).stage = "SettleActiveProcessZero"
           /\ FoundZero(w).outcome = w.outcome
PROOF
    BY DEF Workers, TimedOut, FoundZero, Escalate, Stages, Waits, Escalations, Required, Outcomes

\* The effects are irrevocable.
LEMMA EffectsStay ==
    ASSUME Next
    PROVE  /\ released => released'
           /\ detached => detached'
           /\ ~ledger => ~ledger'
PROOF
<1> DEFINE Kept == (released => released') /\ (detached => detached') /\ (~ledger => ~ledger')
<1> USE DEF adapterVars
<1>1. ASSUME UNCHANGED adapterVars PROVE Kept
    BY <1>1
<1>2. CASE Process
    BY <1>1, <1>2 DEF Process, Spawn, Exit
<1>3. CASE Host
    <2>1. CASE Resume \/ ResumeFails
        <3>1. UNCHANGED adapterVars BY <2>1, Zenon DEF Resume, ResumeFails
        <3> QED BY <1>1, <3>1
    <2>2. CASE ShutDown \/ Deliver \/ HintZeroEarly \/ ListenerFails
        BY <1>1, <2>2 DEF ShutDown, Deliver, HintZeroEarly, ListenerFails
    <2> QED BY <1>3, <2>1, <2>2 DEF Host
<1>4. CASE Close
    <2>1. CASE ReturnCompleted
        BY <1>1, <2>1 DEF ReturnCompleted
    <2>2. ASSUME NEW how \in JournalResults, BeginCleanup(how) PROVE Kept
        BY <1>1, <2>2 DEF BeginCleanup
    <2>3. ASSUME NEW how \in JournalResults, FinalizeEffectsClosed(how) PROVE Kept
        BY <1>1, <2>3 DEF FinalizeEffectsClosed
    <2> QED BY <1>4, <2>1, <2>2, <2>3 DEF Close
<1>5. CASE Cleanup
    <2>1. CASE ReceiveMessages \/ LateDrain \/ ApplyMessage
        BY <1>1, <2>1 DEF ReceiveMessages, LateDrain, ApplyMessage
    <2>2. CASE AskToClose \/ TerminateTree
        BY <1>1, <2>2 DEF AskToClose, TerminateTree
    <2>3. CASE PollFindsZero \/ WaitTimesOut
        BY <1>1, <2>3 DEF PollFindsZero, WaitTimesOut
    <2>4. CASE SettleZero
        BY <2>4 DEF SettleZero
    <2>5. CASE DetachAfterZero
        BY <2>5 DEF DetachAfterZero
    <2>6. CASE ReleaseStoppedExact
        <3>1. /\ released' = released \/ released' = TRUE
              /\ UNCHANGED <<detached, ledger>>
            BY <2>6, Zenon DEF ReleaseStoppedExact
        <3> QED BY <3>1
    <2>7. CASE ReconcilePorts \/ StageFails
        BY <1>1, <2>7 DEF ReconcilePorts, StageFails
    <2>8. CASE PersistSettlement
        BY <2>8 DEF PersistSettlement
    <2>9. ASSUME NEW how \in JournalResults, RecordAttempt(how) \/ PersistCompletion(how)
          PROVE  Kept
        BY <1>1, <2>9 DEF RecordAttempt, PersistCompletion
    <2> QED BY <1>5, <2>1, <2>2, <2>3, <2>4, <2>5, <2>6, <2>7, <2>8, <2>9 DEF Cleanup
<1> QED BY <1>2, <1>3, <1>4, <1>5 DEF Next

\* Nothing has been done or claimed when the root is registered.
LEMMA InitComplete == Init => CompleteInv
PROOF
    BY DEF Init, CompleteInv, WorkerOK, JournalOK, Workers, IdleWorker, Stages, Waits,
           Outcomes, Attempts

\* A step that leaves the worker, the journal and the answers alone.
LEMMA IdleStepKeepsComplete ==
    ASSUME CompleteInv, Next, UNCHANGED <<worker, attempt, report>>, told' = told \/ told' # "Closed"
    PROVE  CompleteInv'
PROOF
<1>1. Done => Done' BY EffectsStay DEF Done
<1>2. (detached => detached') /\ (released => released') BY EffectsStay
<1> QED BY <1>1, <1>2 DEF CompleteInv, WorkerOK, JournalOK

\* A step of the running cleanup that leaves the journal and the answers alone.
LEMMA StageStepKeepsComplete ==
    ASSUME CompleteInv, Next, worker.stage # "Idle", UNCHANGED <<attempt, report, told>>,
           WorkerOK(worker)'
    PROVE  CompleteInv'
PROOF
<1>1. Done => Done' BY EffectsStay DEF Done
<1>2. worker' \in Workers BY DEF WorkerOK
<1> QED BY <1>1 DEF CompleteInv, JournalOK

\* The worker after a failed stage, whatever the adapter did.
LEMMA FailureKeepsComplete ==
    ASSUME CompleteInv, Next, worker.stage # "Idle", UNCHANGED <<attempt, report, told>>,
           worker' = FailedStage(worker)
    PROVE  CompleteInv'
PROOF
<1>1. worker \in Workers BY DEF CompleteInv, WorkerOK
<1>2. /\ worker' \in Workers /\ worker'.outcome = "CleanupFailed"
      /\ worker'.stage \in Waits \cup Escalations \cup {"RecordAttempt"}
    BY <1>1, FailedWorker
<1>3. WorkerOK(worker)' BY <1>2 DEF WorkerOK, Waits, Escalations
<1> QED BY <1>3, StageStepKeepsComplete

\* The worker after a stage whose effect is done.
LEMMA SuccessKeepsComplete ==
    ASSUME CompleteInv, Next,
           worker.stage \in Escalations \cup Required \cup {"SettleActiveProcessZero"},
           UNCHANGED <<attempt, report, told>>,
           worker' = Passed(worker),
           worker.stage = "DetachAfterZero" => detached',
           worker.stage = "ReleaseStoppedExact" => released',
           worker.stage = "PersistSettlement" => ~ledger'
    PROVE  CompleteInv'
PROOF
<1>1. worker \in Workers /\ WorkerOK(worker) BY DEF CompleteInv, WorkerOK
<1>2. /\ worker' \in Workers /\ worker'.stage # "PersistCompletion"
      /\ worker'.outcome = "Closed" => worker.stage = "PersistSettlement" \/ worker.outcome = "Closed"
      /\ worker'.stage = "ReleaseStoppedExact" => worker.stage = "DetachAfterZero"
      /\ worker'.stage = "ReconcilePorts" => worker.stage = "ReleaseStoppedExact"
      /\ worker'.stage = "PersistSettlement" => worker.stage = "ReconcilePorts"
    BY <1>1, PassedWorker
<1>3. (detached => detached') /\ (released => released') /\ (~ledger => ~ledger')
    BY EffectsStay
<1>4. worker'.outcome = "Closed" => Done'
    BY <1>1, <1>2, <1>3 DEF WorkerOK, Done
<1>5. WorkerOK(worker)' BY <1>1, <1>2, <1>3, <1>4 DEF WorkerOK
<1>6. worker.stage # "Idle" BY DEF Escalations, Required
<1> QED BY <1>5, <1>6, StageStepKeepsComplete

\* A stage whose effect is done, in time or late.
LEMMA EffectKeepsComplete ==
    ASSUME CompleteInv, Next, EffectDone,
           worker.stage \in Escalations \cup Required \cup {"SettleActiveProcessZero"},
           UNCHANGED <<attempt, report, told>>,
           worker.stage = "DetachAfterZero" => detached',
           worker.stage = "ReleaseStoppedExact" => released',
           worker.stage = "PersistSettlement" => ~ledger'
    PROVE  CompleteInv'
PROOF
<1>1. worker.stage # "Idle" BY DEF Escalations, Required
<1> QED BY <1>1, SuccessKeepsComplete, FailureKeepsComplete DEF EffectDone

\* The stages of the cleanup keep the invariant.
LEMMA StagesKeepComplete ==
    ASSUME CompleteInv, Next,
           \/ ReceiveMessages \/ LateDrain \/ ApplyMessage \/ AskToClose \/ TerminateTree
           \/ PollFindsZero \/ WaitTimesOut \/ SettleZero \/ DetachAfterZero
           \/ ReleaseStoppedExact \/ ReconcilePorts \/ PersistSettlement \/ StageFails
    PROVE  CompleteInv'
PROOF
<1> USE DEF journalVars
<1>1. CASE ReceiveMessages \/ ApplyMessage
    BY <1>1, IdleStepKeepsComplete DEF ReceiveMessages, ApplyMessage
<1>2. ASSUME worker.stage \in Waits, worker' = TimedOut(worker) \/ worker' = FoundZero(worker),
             UNCHANGED <<attempt, report, told>>
      PROVE  CompleteInv'
    <2>1. worker \in Workers /\ WorkerOK(worker) BY DEF CompleteInv, WorkerOK
    <2>2. /\ worker' \in Workers
          /\ worker'.stage \in Waits \cup Escalations \cup {"RecordAttempt", "SettleActiveProcessZero"}
          /\ worker'.outcome = "Closed" => worker.outcome = "Closed"
        BY <1>2, <2>1, WaitedWorker
    <2>3. Done => Done' BY EffectsStay DEF Done
    <2>4. WorkerOK(worker)' BY <2>1, <2>2, <2>3 DEF WorkerOK, Waits, Escalations
    <2>5. worker.stage # "Idle" BY <1>2 DEF Waits
    <2> QED BY <1>2, <2>4, <2>5, StageStepKeepsComplete
<1>3. CASE LateDrain
    <2>1. worker.stage \in Waits \cup {"Drain"} /\ UNCHANGED <<attempt, report, told>>
        BY <1>3 DEF LateDrain, Polling, MayRun
    <2>2. \/ worker.stage \in Waits /\ worker' = TimedOut(worker)
          \/ worker' = FailedStage(worker)
        BY <1>3 DEF LateDrain
    <2>3. worker.stage # "Idle" BY <2>1 DEF Waits
    <2> QED BY <1>2, <2>1, <2>2, <2>3, FailureKeepsComplete
<1>4. CASE PollFindsZero \/ WaitTimesOut
    BY <1>2, <1>4 DEF PollFindsZero, WaitTimesOut, MayRun
<1>5. CASE AskToClose \/ TerminateTree \/ ReconcilePorts
    <2>1. /\ EffectDone /\ UNCHANGED <<attempt, report, told>>
          /\ worker.stage \in Escalations \cup {"ReconcilePorts"}
        BY <1>5 DEF AskToClose, TerminateTree, ReconcilePorts, MayRun, Escalations
    <2> QED BY <2>1, EffectKeepsComplete DEF Escalations, Required
<1>6. CASE SettleZero
    <2>1. worker.stage = "SettleActiveProcessZero" /\ UNCHANGED <<attempt, report, told>>
        BY <1>6, Zenon DEF SettleZero, MayRun
    <2>2. EffectDone \/ worker' = FailedStage(worker)
        <3>1. CASE AlreadySettled
            BY <1>6, <3>1, Zenon DEF SettleZero
        <3>2. CASE ~AlreadySettled
            BY <1>6, <3>2, Zenon DEF SettleZero
        <3> QED BY <3>1, <3>2
    <2> QED BY <2>1, <2>2, EffectKeepsComplete, FailureKeepsComplete
<1>7. CASE DetachAfterZero
    <2>1. /\ worker.stage = "DetachAfterZero" /\ UNCHANGED <<attempt, report, told>>
          /\ EffectDone /\ detached'
        BY <1>7 DEF DetachAfterZero, MayRun
    <2> QED BY <2>1, EffectKeepsComplete DEF Required
<1>8. CASE ReleaseStoppedExact
    <2>1. worker.stage = "ReleaseStoppedExact" /\ UNCHANGED <<attempt, report, told>>
        BY <1>8, Zenon DEF ReleaseStoppedExact, MayRun
    <2>2. \/ EffectDone /\ (released' = TRUE \/ (released /\ released' = released))
          \/ worker' = FailedStage(worker)
        BY <1>8, Zenon DEF ReleaseStoppedExact
    <2> QED BY <2>1, <2>2, EffectKeepsComplete, FailureKeepsComplete DEF Required
<1>9. CASE PersistSettlement
    <2>1. /\ worker.stage = "PersistSettlement" /\ UNCHANGED <<attempt, report, told>>
          /\ EffectDone /\ ~ledger'
        BY <1>9 DEF PersistSettlement, MayRun
    <2> QED BY <2>1, EffectKeepsComplete DEF Required
<1>10. CASE StageFails
    <2>1. /\ worker.stage # "Idle" /\ UNCHANGED <<attempt, report, told>>
          /\ worker' = FailedStage(worker)
        BY <1>10 DEF StageFails, Escalations, Waits, Required
    <2> QED BY <2>1, FailureKeepsComplete
<1> QED BY <1>1, <1>3, <1>4, <1>5, <1>6, <1>7, <1>8, <1>9, <1>10

\* A completion write keeps the type of the completion row.
LEMMA CompletionRow ==
    ASSUME NEW how, Completed(how), report \in [disk : BOOLEAN, cache : BOOLEAN]
    PROVE  report' \in [disk : BOOLEAN, cache : BOOLEAN]
PROOF
<1>1. CASE how = "done"
    <2>1. report' = [disk |-> TRUE, cache |-> TRUE] BY <1>1, Zenon DEF Completed
    <2> QED BY <2>1
<1>2. CASE how = "uncached"
    BY <1>2 DEF Completed
<1>3. CASE how # "done" /\ how # "uncached"
    BY <1>3 DEF Completed
<1> QED BY <1>1, <1>2, <1>3

\* The journal and the callers keep the invariant: Closed is recorded and told
\* only for effects that are done, and only an idle worker is given new work.
LEMMA JournalKeepsComplete ==
    ASSUME CompleteInv, Next, NEW how \in JournalResults,
           \/ BeginCleanup(how) \/ FinalizeEffectsClosed(how)
           \/ RecordAttempt(how) \/ PersistCompletion(how)
    PROVE  CompleteInv'
PROOF
<1> USE DEF Recorded, Attempts
<1>1. (Done => Done') /\ (detached => detached') /\ (released => released')
    BY EffectsStay DEF Done
<1>2. WorkerOK(worker) /\ worker \in Workers /\ JournalOK
    BY DEF CompleteInv, WorkerOK
<1>3. CASE BeginCleanup(how)
    <2>1. \/ /\ worker' \in Workers /\ worker'.stage \in {"Idle", "Drain"}
             /\ worker'.outcome # "Closed"
          \/ worker' = worker
        BY <1>3 DEF BeginCleanup, FirstStage, IdleWorker, Workers, Stages, Escalations, Waits, Outcomes
    <2>2. WorkerOK(worker)'
        BY <1>1, <1>2, <2>1 DEF WorkerOK
    <2>3. ~report.disk /\ report' = report
        BY <1>3 DEF BeginCleanup, CompletedReport
    <2>4. /\ attempt' \in [disk : Attempts, cache : Attempts]
          /\ "EffectsClosed" \in {attempt'.disk, attempt'.cache}
                => "EffectsClosed" \in {attempt.disk, attempt.cache}
        BY <1>2, <1>3 DEF BeginCleanup, JournalOK
    <2>5. told' = told \/ told' = "Failed"
        BY <1>3 DEF BeginCleanup
    <2> QED BY <1>1, <1>2, <2>2, <2>3, <2>4, <2>5 DEF CompleteInv, JournalOK
<1>4. CASE FinalizeEffectsClosed(how)
    <2>1. worker' = worker /\ worker.stage = "Idle" /\ LastAttempt = "EffectsClosed"
        BY <1>4 DEF FinalizeEffectsClosed, Admitted
    <2>2. Done' BY <1>1, <1>2, <2>1 DEF LastAttempt, JournalOK
    <2>3. attempt' \in [disk : Attempts, cache : Attempts]
        BY <1>2, <1>4 DEF FinalizeEffectsClosed, JournalOK
    <2>4. report' \in [disk : BOOLEAN, cache : BOOLEAN]
        BY <1>2, <1>4, CompletionRow DEF FinalizeEffectsClosed, JournalOK
    <2>5. WorkerOK(worker)' BY <1>1, <1>2, <2>1 DEF WorkerOK
    <2> QED BY <2>1, <2>2, <2>3, <2>4, <2>5 DEF CompleteInv, JournalOK
<1>5. CASE RecordAttempt(how)
    <2>1. worker.stage = "RecordAttempt" /\ report' = report
        BY <1>5 DEF RecordAttempt
    <2>2. /\ attempt' \in [disk : Attempts, cache : Attempts]
          /\ "EffectsClosed" \in {attempt'.disk, attempt'.cache}
                => "EffectsClosed" \in {attempt.disk, attempt.cache} \/ worker.outcome = "Closed"
        BY <1>2, <1>5 DEF RecordAttempt, JournalOK
    <2>3. told' = told \/ told' = "Failed"
        BY <1>5 DEF RecordAttempt
    <2>4. \/ worker' = IdleWorker
          \/ worker.outcome = "Closed" /\ worker' = [worker EXCEPT !.stage = "PersistCompletion"]
        BY <1>5 DEF RecordAttempt
    <2>5. WorkerOK(worker)'
        <3>1. CASE worker' = IdleWorker
            BY <3>1 DEF WorkerOK, IdleWorker, Workers, Stages, Waits, Outcomes
        <3>2. CASE /\ worker.outcome = "Closed"
                   /\ worker' = [worker EXCEPT !.stage = "PersistCompletion"]
            <4>1. /\ worker' \in Workers /\ worker'.stage = "PersistCompletion"
                  /\ worker'.outcome = "Closed"
                BY <1>2, <3>2 DEF Workers, Stages
            <4>2. Done' BY <1>1, <1>2, <3>2 DEF WorkerOK
            <4> QED BY <4>1, <4>2 DEF WorkerOK
        <3> QED BY <2>4, <3>1, <3>2
    <2>6. ~report.disk BY <1>2, <2>1 DEF JournalOK
    <2> QED BY <1>1, <1>2, <2>1, <2>2, <2>3, <2>5, <2>6 DEF CompleteInv, JournalOK, WorkerOK
<1>6. CASE PersistCompletion(how)
    <2>1. worker' = IdleWorker /\ Done'
        BY <1>1, <1>2, <1>6 DEF PersistCompletion, WorkerOK
    <2>2. attempt' \in [disk : Attempts, cache : Attempts]
        BY <1>2, <1>6 DEF PersistCompletion, JournalOK
    <2>3. report' \in [disk : BOOLEAN, cache : BOOLEAN]
        BY <1>2, <1>6, CompletionRow DEF PersistCompletion, JournalOK
    <2>4. WorkerOK(worker)' /\ worker'.stage = "Idle"
        BY <2>1 DEF WorkerOK, IdleWorker, Workers, Stages, Waits, Outcomes
    <2> QED BY <2>1, <2>2, <2>3, <2>4 DEF CompleteInv, JournalOK
<1> QED BY <1>3, <1>4, <1>5, <1>6

\* Every step keeps the invariant.
LEMMA NextKeepsComplete == CompleteInv /\ [Next]_vars => CompleteInv'
PROOF
<1> SUFFICES ASSUME CompleteInv, [Next]_vars PROVE CompleteInv'
    OBVIOUS
<1> USE DEF journalVars
<1>1. CASE UNCHANGED vars
    BY <1>1 DEF vars, adapterVars, CompleteInv, WorkerOK, JournalOK, Done
<1>2. CASE Next
    <2>1. CASE Process
        BY <1>2, <2>1, IdleStepKeepsComplete DEF Process, Spawn, Exit
    <2>2. CASE Host
        <3>1. /\ UNCHANGED <<worker, attempt, report>>
              /\ told' = told \/ told' = "Failed"
            BY <2>2, Zenon DEF Host, Resume, ResumeFails, ShutDown, Deliver, HintZeroEarly, ListenerFails
        <3> QED BY <1>2, <3>1, IdleStepKeepsComplete
    <2>3. CASE ReturnCompleted
        <3>1. UNCHANGED <<worker, attempt, report, released, detached, ledger>> /\ CompletedReport
            BY <2>3 DEF ReturnCompleted, adapterVars
        <3> QED BY <3>1 DEF CompleteInv, WorkerOK, JournalOK, Done, CompletedReport
    <2>4. CASE Close \/ Cleanup
        BY <1>2, <2>3, <2>4, StagesKeepComplete, JournalKeepsComplete DEF Close, Cleanup
    <2> QED BY <1>2, <2>1, <2>2, <2>4 DEF Next
<1> QED BY <1>1, <1>2

\* The invariant holds throughout.
LEMMA CompleteAlways == Spec => []CompleteInv
PROOF
    BY InitComplete, NextKeepsComplete, PTL DEF Spec

\* Closed is recorded, or told to a caller, only when every effect has taken
\* place: tree empty, actors joined, entry released, ledger clean.
THEOREM ClosedIsComplete == Spec => []ClosedMeansComplete
PROOF
<1>1. GrantInv /\ CompleteInv => ClosedMeansComplete
    BY DEF GrantInv, CompleteInv, JournalOK, Done, ClosedMeansComplete
<1> QED BY <1>1, GrantAlways, CompleteAlways, PTL

\* A teardown whose completion is durable is never started again.
THEOREM CompletedStays == Spec => []CompletedIsNeverRerun
PROOF
<1>1. CompleteInv => CompletedIsNeverRerun
    BY DEF CompleteInv, JournalOK, CompletedIsNeverRerun
<1> QED BY <1>1, CompleteAlways, PTL

-----------------------------------------------------------------------------
(* The zero fact.  One packet says that the Job is empty, and it passes      *)
(* through the port, the mailbox and the retained queue before it becomes a  *)
(* proof and then an authority.  The invariant adds why a settled entry may  *)
(* drop a repeated packet: it holds the proof or the authority already.      *)

InFlight == Holds(port, "zero") \/ Holds(mailbox.messages, "zero") \/ Holds(pending, "zero")

Proven == entry.proof # 0 \/ authority # 0

ZeroInv ==
    /\ lateDrains \in Nat
    /\ port \in Seq(Packets) /\ pending \in Seq(Packets) /\ mailbox.messages \in Seq(Packets)
    /\ mailbox = [messages |-> mailbox.messages, overflowed |-> mailbox.overflowed]
    /\ launch = "suspended" => live # {}
    /\ entry.prior # "ZeroSettled"
    /\ entry.present /\ entry.state = "ZeroSettled" => Proven
    /\ lateDrains = 0 => ZeroFactIsKept

\* A packet is in a longer queue if it was in the queue or is the one added.
LEMMA HoldsAppended ==
    ASSUME NEW s \in Seq(Packets), NEW p \in Packets, NEW z
    PROVE  /\ Append(s, p) \in Seq(Packets)
           /\ Holds(Append(s, p), z) <=> Holds(s, z) \/ p = z
PROOF
<1> DEFINE a == Append(s, p)
<1>1. a \in Seq(Packets) /\ Len(a) = Len(s) + 1 /\ Len(s) \in Nat
    OBVIOUS
<1>2. DOMAIN a = 1 .. Len(s) + 1 /\ DOMAIN s = 1 .. Len(s)
    BY <1>1
<1>3. a[Len(s) + 1] = p /\ \A i \in 1 .. Len(s) : a[i] = s[i]
    OBVIOUS
<1> HIDE DEF a
<1>4. ASSUME NEW i \in DOMAIN a, a[i] = z PROVE Holds(s, z) \/ p = z
    BY <1>1, <1>2, <1>3, <1>4 DEF Holds
<1>5. ASSUME NEW i \in DOMAIN s, s[i] = z PROVE Holds(a, z)
    BY <1>1, <1>2, <1>3, <1>5 DEF Holds
<1>6. p = z => Holds(a, z)
    BY <1>1, <1>2, <1>3 DEF Holds
<1> QED BY <1>1, <1>4, <1>5, <1>6 DEF Holds, a

\* Taking the head of a queue loses no other packet.
LEMMA HoldsTaken ==
    ASSUME NEW s \in Seq(Packets), s # <<>>, NEW z
    PROVE  /\ Tail(s) \in Seq(Packets) /\ Head(s) \in Packets
           /\ Holds(s, z) => Head(s) = z \/ Holds(Tail(s), z)
PROOF
<1>1. Tail(s) \in Seq(Packets) /\ Head(s) \in Packets
    OBVIOUS
<1>2. ASSUME NEW i \in DOMAIN s, s[i] = z PROVE Head(s) = z \/ Holds(Tail(s), z)
    <2>1. CASE i = 1
        BY <1>2, <2>1
    <2>2. CASE i # 1
        <3>1. i - 1 \in DOMAIN Tail(s) /\ Tail(s)[i - 1] = s[i]
            BY <2>2
        <3> QED BY <1>2, <3>1 DEF Holds
    <2> QED BY <2>1, <2>2
<1> QED BY <1>1, <1>2 DEF Holds

\* The bounded mailbox never loses the zero packet, not even on overflow.
LEMMA PushKeepsZero ==
    ASSUME NEW m, m = [messages |-> m.messages, overflowed |-> m.overflowed],
           m.messages \in Seq(Packets), NEW p \in Packets
    PROVE  LET n == Push(m, p) IN
           /\ n = [messages |-> n.messages, overflowed |-> n.overflowed]
           /\ n.messages \in Seq(Packets)
           /\ Holds(m.messages, "zero") \/ p = "zero" => Holds(n.messages, "zero")
PROOF
<1>1. CASE Redundant(m, p)
    <2>1. Push(m, p) = m
        BY <1>1 DEF Push
    <2>2. p = "zero" => Holds(m.messages, "zero")
        BY <1>1 DEF Redundant
    <2> QED BY <2>1, <2>2
<1>2. CASE ~Redundant(m, p) /\ HasRoom(m)
    <2>1. Push(m, p) = [messages |-> Append(m.messages, p), overflowed |-> m.overflowed]
        BY <1>2 DEF Push
    <2> QED BY <2>1, HoldsAppended
<1>3. CASE ~Redundant(m, p) /\ ~HasRoom(m)
    <2> DEFINE kept == IF p = "zero" \/ Holds(m.messages, "zero")
                       THEN <<"failed", "zero">> ELSE <<"failed">>
    <2>1. Push(m, p) = [messages |-> kept, overflowed |-> TRUE]
        BY <1>3 DEF Push
    <2>2. <<"failed", "zero">> \in Seq(Packets) /\ <<"failed">> \in Seq(Packets)
        BY DEF Packets
    <2>3. Holds(<<"failed", "zero">>, "zero")
        <3>1. 2 \in DOMAIN <<"failed", "zero">> /\ <<"failed", "zero">>[2] = "zero"
            OBVIOUS
        <3> QED BY <3>1 DEF Holds
    <2>4. /\ kept \in Seq(Packets)
          /\ Holds(m.messages, "zero") \/ p = "zero" => Holds(kept, "zero")
        BY <2>2, <2>3
    <2> HIDE DEF kept
    <2> QED BY <2>1, <2>4
<1> QED BY <1>1, <1>2, <1>3

\* What a completion does to the proof: only a settled entry ignores a zero.
LEMMA CompletionKeepsProof ==
    ASSUME NEW e \in Entries, NEW packet \in Packets, e.prior # "ZeroSettled"
    PROVE  LET f == ApplyJobCompletion(e, packet) IN
           /\ f.present = e.present /\ f.prior # "ZeroSettled"
           /\ f.state = "ZeroSettled" => e.state = "ZeroSettled" /\ f.proof = e.proof
           /\ e.proof # 0 => f.proof # 0
           /\ packet = "zero" /\ e.state # "ZeroSettled" => f.proof # 0
PROOF
<1>1. CASE packet = "zero" /\ e.state # "ZeroSettled"
    <2>1. ApplyJobCompletion(e, packet) = ZeroHint(e)
        BY <1>1 DEF ApplyJobCompletion
    <2>2. LET f == ZeroHint(e) IN
          /\ f.present = e.present /\ f.state = e.state /\ f.proof = e.nextNonce
          /\ f.prior = IF e.prior = "None" THEN e.state ELSE e.prior
        BY DEF ZeroHint, Entries
    <2>3. e.nextNonce # 0
        BY DEF Entries
    <2> QED BY <1>1, <2>1, <2>2, <2>3
<1>2. CASE ~(packet = "zero" /\ e.state # "ZeroSettled")
    BY <1>2 DEF ApplyJobCompletion, Entries
<1> QED BY <1>1, <1>2

\* A poll withdraws a proof only over a populated Job.
LEMMA PollKeepsProof ==
    ASSUME NEW e \in Entries, NEW members, e.prior # "ZeroSettled"
    PROVE  LET f == ReconcileMembership(e, members) IN
           /\ f.present = e.present /\ f.prior # "ZeroSettled"
           /\ f.state = "ZeroSettled" => f.proof # 0 \/ (e.state = "ZeroSettled" /\ e.proof = 0)
           /\ members = {} => f.proof = e.proof
PROOF
    BY DEF ReconcileMembership, PriorState, Entries

\* A step that grants nothing, loses no packet and does not touch the entry keeps
\* the fact.
LEMMA QuietKeepsZero ==
    ASSUME ZeroInv, UNCHANGED <<entry, authority, launch>>,
           live # {} => live' # {} \/ InFlight',
           lateDrains' = 0 => lateDrains = 0, lateDrains' \in Nat,
           listener' => listener, lateDrains' = 0 /\ InFlight => InFlight',
           port' \in Seq(Packets), pending' \in Seq(Packets), mailbox'.messages \in Seq(Packets),
           mailbox' = [messages |-> mailbox'.messages, overflowed |-> mailbox'.overflowed],
           launch = "suspended" => live' # {}
    PROVE  ZeroInv'
PROOF
<1>1. lateDrains' = 0 => ZeroFactIsKept'
    BY DEF ZeroInv, ZeroFactIsKept, InFlight
<1> QED BY <1>1 DEF ZeroInv, Proven

\* A fault leaves the count of late drains alone.
LEMMA EffectKeepsDrains == ASSUME EffectDone PROVE UNCHANGED lateDrains
PROOF
    BY DEF EffectDone, faultVars, Fault

\* The launch, the Job, the listener and the callers lose no zero packet.
LEMMA HostKeepsZero ==
    ASSUME ZeroInv, GrantInv, Process \/ Host \/ Close
    PROVE  ZeroInv'
PROOF
<1> USE DEF jobVars, mailVars, entryVars, adapterVars, journalVars, faultVars
<1>0. /\ lateDrains \in Nat /\ port \in Seq(Packets) /\ pending \in Seq(Packets)
      /\ mailbox.messages \in Seq(Packets)
      /\ launch = "suspended" => live # {}
      /\ mailbox = [messages |-> mailbox.messages, overflowed |-> mailbox.overflowed]
      /\ entry \in Entries
    BY DEF ZeroInv, GrantInv
<1>a. {"new", "exit", "abnormal", "zero", "failed"} \subseteq Packets
    BY DEF Packets
<1>1. ASSUME NEW p \in Procs, Spawn(p) PROVE ZeroInv'
    <2>1. port' = Append(port, "new") /\ live' # {}
          /\ UNCHANGED <<launch, mailbox, listener, entry, pending, authority, lateDrains>>
        BY <1>1 DEF Spawn
    <2>2. port' \in Seq(Packets) /\ (InFlight => InFlight')
        BY <1>0, <1>a, <2>1, HoldsAppended DEF InFlight
    <2> QED BY <1>0, <2>1, <2>2, QuietKeepsZero
<1>2. ASSUME NEW p \in Procs, NEW packet \in {"exit", "abnormal"}, Exit(p, packet) PROVE ZeroInv'
    <2>1. launch = "resumed" /\ p \in live /\ live' = live \ {p}
          /\ UNCHANGED <<launch, mailbox, listener, entry, pending, authority, lateDrains>>
        BY <1>2 DEF Exit
    <2>2. CASE live = {p}
        <3>1. port' = port \o <<packet, "zero">>
            BY <1>2, <2>2 DEF Exit
        <3>2. port' = Append(Append(port, packet), "zero")
            BY <1>0, <3>1
        <3>3. port' \in Seq(Packets) /\ Holds(port', "zero")
            BY <1>0, <1>a, <3>2, HoldsAppended
        <3> QED BY <1>0, <2>1, <3>3, QuietKeepsZero DEF InFlight
    <2>3. CASE live # {p}
        <3>1. port' = Append(port, packet)
            BY <1>0, <1>2, <2>3 DEF Exit
        <3>2. port' \in Seq(Packets) /\ (InFlight => InFlight')
            BY <1>0, <1>a, <2>1, <3>1, HoldsAppended DEF InFlight
        <3> QED BY <1>0, <2>1, <2>3, <3>2, QuietKeepsZero
    <2> QED BY <2>2, <2>3
<1>3. CASE Resume
    <2>1. /\ launch' = "resumed" /\ live' # {} /\ entry'.state = "Running" /\ entry'.prior = entry.prior
          /\ UNCHANGED <<port, mailbox, pending, lateDrains>>
        BY <1>0, <1>3 DEF Resume, Entries
    <2> QED BY <1>0, <2>1 DEF ZeroInv, ZeroFactIsKept
<1>4. CASE ResumeFails
    <2>1. /\ launch' = "aborted" /\ ~entry'.present /\ entry'.prior = entry.prior
          /\ UNCHANGED <<port, mailbox, pending, lateDrains>>
        BY <1>0, <1>4 DEF ResumeFails, Entries
    <2> QED BY <1>0, <2>1 DEF ZeroInv, ZeroFactIsKept
<1>5. CASE HintZeroEarly
    <2>1. port' = Append(port, "zero")
          /\ UNCHANGED <<launch, live, mailbox, listener, entry, pending, authority, lateDrains>>
        BY <1>5 DEF HintZeroEarly, Fault
    <2>2. port' \in Seq(Packets) /\ (InFlight => InFlight')
        BY <1>0, <1>a, <2>1, HoldsAppended DEF InFlight
    <2> QED BY <1>0, <2>1, <2>2, QuietKeepsZero
<1>6. CASE Deliver
    <2>1. /\ port # <<>> /\ mailbox' = Push(mailbox, Head(port)) /\ port' = Tail(port)
          /\ UNCHANGED <<launch, live, listener, entry, pending, authority, lateDrains>>
        BY <1>6 DEF Deliver
    <2>2. /\ port' \in Seq(Packets) /\ Head(port) \in Packets
          /\ Holds(port, "zero") => Head(port) = "zero" \/ Holds(port', "zero")
        BY <1>0, <2>1, HoldsTaken
    <2>3. /\ mailbox' = [messages |-> mailbox'.messages, overflowed |-> mailbox'.overflowed]
          /\ mailbox'.messages \in Seq(Packets)
          /\ Holds(mailbox.messages, "zero") \/ Head(port) = "zero" => Holds(mailbox'.messages, "zero")
        BY <1>0, <2>1, <2>2, PushKeepsZero
    <2>4. InFlight => InFlight'
        BY <2>1, <2>2, <2>3 DEF InFlight
    <2> QED BY <1>0, <2>1, <2>2, <2>3, <2>4, QuietKeepsZero
<1>7. CASE ListenerFails
    <2>1. /\ mailbox' = Push(mailbox, "failed")
          /\ UNCHANGED <<port, launch, live, entry, pending, authority, lateDrains>>
          /\ listener /\ ~listener'
        BY <1>7 DEF ListenerFails
    <2>2. /\ mailbox' = [messages |-> mailbox'.messages, overflowed |-> mailbox'.overflowed]
          /\ mailbox'.messages \in Seq(Packets)
          /\ Holds(mailbox.messages, "zero") => Holds(mailbox'.messages, "zero")
        BY <1>0, <1>a, <2>1, PushKeepsZero
    <2>3. InFlight => InFlight'
        BY <2>1, <2>2 DEF InFlight
    <2> QED BY <1>0, <2>1, <2>2, <2>3, QuietKeepsZero
<1>8. ASSUME \/ ShutDown \/ ReturnCompleted
             \/ \E how \in JournalResults : BeginCleanup(how) \/ FinalizeEffectsClosed(how)
      PROVE  ZeroInv'
    <2>1. UNCHANGED <<port, mailbox, listener, launch, live, entry, pending, authority, lateDrains>>
        BY <1>8 DEF ShutDown, ReturnCompleted, BeginCleanup, FinalizeEffectsClosed, Fault
    <2> QED BY <1>0, <2>1, QuietKeepsZero DEF InFlight
<1> QED BY <1>1, <1>2, <1>3, <1>4, <1>5, <1>6, <1>7, <1>8 DEF Process, Host, Close

\* A cleanup step loses no zero packet before it has become a proof, and no proof
\* of an empty Job before it has become an authority.
LEMMA CleanupKeepsZero ==
    ASSUME ZeroInv, GrantInv, Cleanup
    PROVE  ZeroInv'
PROOF
<1> USE DEF jobVars, mailVars, entryVars, adapterVars, journalVars, faultVars
<1>0. /\ lateDrains \in Nat /\ port \in Seq(Packets) /\ pending \in Seq(Packets)
      /\ mailbox.messages \in Seq(Packets)
      /\ launch = "suspended" => live # {}
      /\ mailbox = [messages |-> mailbox.messages, overflowed |-> mailbox.overflowed]
      /\ entry \in Entries /\ entry.prior # "ZeroSettled"
    BY DEF ZeroInv, GrantInv
<1>1. CASE ReceiveMessages
    <2>1. /\ pending = <<>> /\ pending' = mailbox.messages /\ mailbox' = EmptyMailbox
          /\ UNCHANGED <<port, launch, live, listener, entry, authority, lateDrains>>
        BY <1>1 DEF ReceiveMessages
    <2>2. /\ mailbox' = [messages |-> mailbox'.messages, overflowed |-> mailbox'.overflowed]
          /\ mailbox'.messages = <<>> /\ mailbox'.messages \in Seq(Packets)
        BY <2>1 DEF EmptyMailbox
    <2>3. ~Holds(pending, "zero")
        BY <2>1 DEF Holds
    <2>4. InFlight => InFlight'
        BY <2>1, <2>3 DEF InFlight
    <2> QED BY <1>0, <2>1, <2>2, <2>4, QuietKeepsZero
<1>2. CASE LateDrain
    <2>1. /\ mailbox' = EmptyMailbox /\ lateDrains' = lateDrains + 1
          /\ UNCHANGED <<port, launch, live, listener, entry, pending, authority>>
        BY <1>2 DEF LateDrain
    <2>2. /\ mailbox' = [messages |-> mailbox'.messages, overflowed |-> mailbox'.overflowed]
          /\ mailbox'.messages \in Seq(Packets)
        BY <2>1 DEF EmptyMailbox
    <2>3. lateDrains' # 0 /\ lateDrains' \in Nat
        BY <1>0, <2>1
    <2> QED BY <1>0, <2>1, <2>2, <2>3, QuietKeepsZero
<1>3. CASE ApplyMessage
    <2>1. /\ entry.present /\ pending # <<>> /\ entry' = ApplyJobCompletion(entry, Head(pending))
          /\ pending' = Tail(pending)
          /\ UNCHANGED <<port, mailbox, launch, live, listener, authority, lateDrains>>
        BY <1>3 DEF ApplyMessage
    <2>2. /\ pending' \in Seq(Packets) /\ Head(pending) \in Packets
          /\ Holds(pending, "zero") => Head(pending) = "zero" \/ Holds(pending', "zero")
        BY <1>0, <2>1, HoldsTaken
    <2>3. /\ entry'.present = entry.present /\ entry'.prior # "ZeroSettled"
          /\ entry'.state = "ZeroSettled" => entry.state = "ZeroSettled" /\ entry'.proof = entry.proof
          /\ entry.proof # 0 => entry'.proof # 0
          /\ Head(pending) = "zero" /\ entry.state # "ZeroSettled" => entry'.proof # 0
        BY <1>0, <2>1, <2>2, CompletionKeepsProof
    <2>4. Proven => Proven'
        BY <2>1, <2>3 DEF Proven
    <2>5. InFlight => InFlight' \/ Proven'
        BY <2>1, <2>2, <2>3, <2>4 DEF InFlight, Proven, ZeroInv
    <2>6. entry'.present /\ entry'.state = "ZeroSettled" => Proven'
        BY <2>1, <2>3, <2>4 DEF ZeroInv
    <2>7. lateDrains' = 0 => ZeroFactIsKept'
        BY <2>1, <2>3, <2>4, <2>5 DEF ZeroInv, ZeroFactIsKept, InFlight, Proven
    <2> QED BY <1>0, <2>1, <2>2, <2>3, <2>6, <2>7 DEF ZeroInv
<1>4. CASE PollFindsZero \/ WaitTimesOut
    <2>1. /\ entry' = entry \/ entry' = Polled
          /\ UNCHANGED <<port, mailbox, pending, launch, live, listener, authority, lateDrains>>
        BY <1>4 DEF PollFindsZero, WaitTimesOut
    <2>2. CASE entry' = entry
        BY <1>0, <2>1, <2>2, QuietKeepsZero DEF InFlight
    <2>3. CASE entry' # entry
        <3>1. entry.present /\ entry' = ReconcileMembership(entry, live)
            BY <2>1, <2>3 DEF Polled, ActiveProcessIds
        <3>2. /\ entry'.present = entry.present /\ entry'.prior # "ZeroSettled"
              /\ entry'.state = "ZeroSettled" => \/ entry'.proof # 0
                                                 \/ entry.state = "ZeroSettled" /\ entry.proof = 0
              /\ live = {} => entry'.proof = entry.proof
            BY <1>0, <3>1, PollKeepsProof
        <3>3. entry'.present /\ entry'.state = "ZeroSettled" => Proven'
            BY <2>1, <3>1, <3>2 DEF ZeroInv, Proven
        <3>4. lateDrains' = 0 => ZeroFactIsKept'
            BY <2>1, <3>1, <3>2 DEF ZeroInv, ZeroFactIsKept
        <3> QED BY <1>0, <2>1, <3>2, <3>3, <3>4 DEF ZeroInv
    <2> QED BY <2>2, <2>3
<1>5. CASE SettleZero
    <2> DEFINE f == SettleActiveProcessZero(entry, live)
    <2>1. UNCHANGED <<port, mailbox, pending, launch, live, listener, lateDrains>>
        BY <1>5, EffectKeepsDrains DEF SettleZero
    <2>2. \/ UNCHANGED <<entry, authority>>
          \/ entry.proof # 0 /\ entry' = f /\ f.authoritative /\ authority' = entry.proof
          \/ entry.proof # 0 /\ entry' = f /\ ~f.authoritative /\ authority' = authority
        BY <1>5 DEF SettleZero, Minted, ActiveProcessIds
    <2>3. CASE UNCHANGED <<entry, authority>>
        BY <1>0, <2>1, <2>3, QuietKeepsZero DEF InFlight
    <2>4. CASE entry.proof # 0 /\ entry' = f /\ f.authoritative /\ authority' = entry.proof
        <3>1. f.prior = "None"
            BY <1>0 DEF SettleActiveProcessZero, Settled, Unsettled, Entries
        <3> QED BY <1>0, <2>1, <2>4, <3>1 DEF ZeroInv, ZeroFactIsKept, Proven
    <2>5. CASE entry.proof # 0 /\ entry' = f /\ ~f.authoritative /\ authority' = authority
        <3>1. live # {}
            BY <1>0, <2>5 DEF SettleActiveProcessZero, Settled, Entries
        <3>2. f.prior = "None" /\ f.state # "ZeroSettled"
            BY <1>0, <3>1 DEF SettleActiveProcessZero, Unsettled, PriorState, Entries
        <3> QED BY <1>0, <2>1, <2>5, <3>1, <3>2 DEF ZeroInv, ZeroFactIsKept
    <2> QED BY <2>2, <2>3, <2>4, <2>5
<1>6. CASE ReleaseStoppedExact
    <2>1. /\ UNCHANGED <<port, mailbox, pending, launch, live, lateDrains>>
          /\ \/ UNCHANGED <<entry, authority>> /\ (listener' => listener)
             \/ entry' = [entry EXCEPT !.present = FALSE]
        BY <1>6, EffectKeepsDrains DEF ReleaseStoppedExact, Fault
    <2>2. CASE UNCHANGED <<entry, authority>> /\ (listener' => listener)
        BY <1>0, <2>1, <2>2, QuietKeepsZero DEF InFlight
    <2>3. CASE entry' = [entry EXCEPT !.present = FALSE]
        <3>1. ~entry'.present /\ entry'.prior = entry.prior
            BY <1>0, <2>3 DEF Entries
        <3> QED BY <1>0, <2>1, <3>1 DEF ZeroInv, ZeroFactIsKept
    <2> QED BY <2>1, <2>2, <2>3
<1>7. ASSUME \/ AskToClose \/ TerminateTree \/ DetachAfterZero \/ ReconcilePorts
             \/ PersistSettlement \/ StageFails
             \/ \E how \in JournalResults : RecordAttempt(how) \/ PersistCompletion(how)
      PROVE  ZeroInv'
    <2>1. UNCHANGED <<port, mailbox, listener, launch, live, entry, pending, authority>>
        BY <1>7 DEF AskToClose, TerminateTree, DetachAfterZero, ReconcilePorts, PersistSettlement,
                    StageFails, RecordAttempt, PersistCompletion
    <2>2. UNCHANGED lateDrains
        BY <1>7, EffectKeepsDrains
        DEF AskToClose, TerminateTree, DetachAfterZero, ReconcilePorts, PersistSettlement,
            StageFails, RecordAttempt, PersistCompletion, Fault, JournalStep
    <2> QED BY <1>0, <2>1, <2>2, QuietKeepsZero DEF InFlight
<1> QED BY <1>1, <1>2, <1>3, <1>4, <1>5, <1>6, <1>7 DEF Cleanup

\* As long as no drain of the mailbox has crossed its deadline, the fact that the
\* Job is empty is never lost: its one packet is on its way, or has become the
\* proof or the authority, whatever overflowed, failed, expired or was retried.
THEOREM ZeroIsKept == Spec => [](lateDrains = 0 => ZeroFactIsKept)
PROOF
<1>1. Init => ZeroInv
    <2> SUFFICES ASSUME Init PROVE ZeroInv
        OBVIOUS
    <2>1. port = <<"new">> /\ pending = <<>> /\ mailbox = [messages |-> <<>>, overflowed |-> FALSE]
        BY DEF Init, EmptyMailbox
    <2>2. port \in Seq(Packets) /\ pending \in Seq(Packets) /\ mailbox.messages \in Seq(Packets)
        BY <2>1 DEF Packets
    <2>3. /\ lateDrains = 0 /\ launch = "suspended" /\ live # {}
          /\ entry.prior = "None" /\ entry.state = "Starting"
        BY DEF Init, NewEntry
    <2> QED BY <2>1, <2>2, <2>3 DEF ZeroInv, ZeroFactIsKept
<1>2. ZeroInv /\ GrantInv /\ [Next]_vars => ZeroInv'
    <2> SUFFICES ASSUME ZeroInv, GrantInv, [Next]_vars PROVE ZeroInv'
        OBVIOUS
    <2>1. CASE UNCHANGED vars
        BY <2>1 DEF vars, jobVars, mailVars, entryVars, adapterVars, faultVars, ZeroInv,
                    ZeroFactIsKept, Proven
    <2> QED BY <2>1, HostKeepsZero, CleanupKeepsZero DEF Next
<1>3. ZeroInv => (lateDrains = 0 => ZeroFactIsKept)
    BY DEF ZeroInv
<1> QED BY <1>1, <1>2, <1>3, GrantAlways, PTL DEF Spec
=============================================================================
