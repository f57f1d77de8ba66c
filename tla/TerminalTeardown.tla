--------------------------- MODULE TerminalTeardown ---------------------------
(***************************************************************************)
(* The exact teardown of one managed terminal: its kill-on-close Job and   *)
(* completion mailbox (process/job.rs), its entry in the process registry  *)
(* (process/registry.rs), the staged cleanup run by the coordinator's      *)
(* worker over the terminal adapter, and the attempt and completion        *)
(* journal that makes a retry safe (process/teardown.rs).                  *)
(*                                                                         *)
(* Every production registry holds one entry of one generation: it is      *)
(* created with the launch and owned by the terminal's teardown state.     *)
(* The process fence and the ticket are therefore one constant value and   *)
(* are left out.  The state mutex makes each adapter call atomic, and only *)
(* the worker writes the registry; the Job, its listener thread and the    *)
(* callers of close run beside it.                                         *)
(***************************************************************************)
EXTENDS Naturals, Sequences

CONSTANTS
    Procs,          \* process identities the Job may ever contain
    Root,           \* the launched root
    MaxMessages,    \* MAX_COMPLETION_MESSAGES of the mailbox
    MaxFaults,      \* deadline expiries and failed calls in one behaviour
    MaxLateDrains,  \* mailbox drains that cross the deadline
    MayFailMonitor, \* may the completion port fail under the listener?
    MayHintEarly    \* may a zero packet arrive while the Job is populated?

ASSUME RootIsProcess == Root \in Procs
ASSUME BoundsAreNatural ==
    /\ MaxMessages \in Nat \ {0}
    /\ MaxFaults \in Nat
    /\ MaxLateDrains \in Nat
    /\ {MayFailMonitor, MayHintEarly} \subseteq BOOLEAN

VARIABLES
    launch,      \* "suspended", "resumed" or "aborted"
    live,        \* members of the Job
    used,        \* every identity that was ever a member
    dying,       \* TerminateJobObject has been called
    port,        \* completion packets the listener has not yet read
    mailbox,     \* CompletionMailbox
    listener,    \* is the completion listener thread running?
    entry,       \* RegisteredProcess
    pending,     \* pending_completion_messages of the entry
    authority,   \* nonce of the retained release authority, 0 for none
    released,    \* released_exact
    detached,    \* the PTY actors are joined
    ledger,      \* the PID ledger still names the root
    persisted,   \* settlement_persisted
    worker,      \* the running cleanup
    expired,     \* its absolute deadline has passed
    shutdown,    \* the coordinator was shut down
    attempt,     \* teardown_attempts row: on disk and in the cache
    report,      \* teardown_completions row: on disk and in the cache
    told,        \* the last answer a caller of close received
    faults,      \* faults so far
    lateDrains   \* late drains so far

jobVars == <<launch, live, used, dying, port>>
mailVars == <<mailbox, listener>>
entryVars == <<entry, pending>>
adapterVars == <<authority, released, detached, ledger, persisted>>
journalVars == <<attempt, report>>
faultVars == <<expired, faults, lateDrains>>
vars == <<jobVars, mailVars, entryVars, adapterVars, journalVars, faultVars,
          worker, shutdown, told>>

\* Definitions marked "mutant" change the one that follows them the way a
\* plausible defect would; each must break a property.  Nothing uses them.

Packets == {"new", "exit", "abnormal", "zero", "failed"}
Lifecycles == {"Starting", "Running", "Stopping", "Failed", "ZeroSettled", "Leaked"}
Waits == {"CooperativeWait", "InterruptWait", "TerminationWait"}
Escalations == {"Drain", "CooperativeClose", "InterruptOrSafeClose", "TerminateTree"}
Required == {"DetachAfterZero", "ReleaseStoppedExact", "ReconcilePorts", "PersistSettlement"}
Stages == Waits \cup Escalations \cup Required
              \cup {"Idle", "SettleActiveProcessZero", "RecordAttempt", "PersistCompletion"}
Outcomes == {"Closed", "Leaked", "CleanupFailed"}
Attempts == {"None", "InProgress", "RetryableFailure", "EffectsClosed"}

-----------------------------------------------------------------------------
(* The completion mailbox. *)

Holds(messages, packet) == \E i \in DOMAIN messages : messages[i] = packet

\* A second zero packet is redundant; after an overflow only a first one counts.
Redundant(m, packet) ==
    IF packet = "zero" THEN Holds(m.messages, "zero") ELSE m.overflowed

HasRoom(m) == m.overflowed \/ Len(m.messages) < MaxMessages

\* mutant: an overflow forgets the zero packet
Push_DropsZero(m, packet) ==
    CASE Redundant(m, packet) -> m
      [] ~Redundant(m, packet) /\ HasRoom(m) -> [m EXCEPT !.messages = Append(@, packet)]
      [] OTHER -> [messages |-> <<"failed">>, overflowed |-> TRUE]

\* A bounded queue that, on overflow, keeps the failure and the zero packet.
Push(m, packet) ==
    CASE Redundant(m, packet) -> m
      [] ~Redundant(m, packet) /\ HasRoom(m) -> [m EXCEPT !.messages = Append(@, packet)]
      [] OTHER ->
            [messages |-> IF packet = "zero" \/ Holds(m.messages, "zero")
                              THEN <<"failed", "zero">> ELSE <<"failed">>,
             overflowed |-> TRUE]

EmptyMailbox == [messages |-> <<>>, overflowed |-> FALSE]

-----------------------------------------------------------------------------
(* The registry entry.  A nonce of 0 stands for None: nonces start at 1. *)

NewEntry ==
    [present |-> TRUE, state |-> "Starting", prior |-> "None", proof |-> 0,
     authoritative |-> FALSE, settled |-> 0, nextNonce |-> 1]

\* The state an unconfirmed zero hint falls back to.
PriorState(e) == IF e.prior = "None" THEN "Leaked" ELSE e.prior

ZeroHint(e) ==
    [e EXCEPT !.prior = IF e.prior = "None" THEN e.state ELSE e.prior,
              !.authoritative = FALSE, !.settled = 0,
              !.proof = e.nextNonce, !.nextNonce = e.nextNonce + 1]

ApplyJobCompletion(e, packet) ==
    CASE packet = "new" /\ e.state = "Starting" -> [e EXCEPT !.state = "Running"]
      [] packet = "abnormal" /\ e.state # "ZeroSettled" -> [e EXCEPT !.state = "Failed"]
      [] packet = "zero" /\ e.state # "ZeroSettled" -> ZeroHint(e)
      [] packet = "failed" /\ e.state # "ZeroSettled" -> [e EXCEPT !.state = "Leaked"]
      [] OTHER -> e

\* A pending proof over an empty Job settles the state but grants nothing;
\* over a populated Job it is withdrawn.
ReconcileMembership(e, members) ==
    LET withdrawn == IF e.proof = 0 THEN e
                     ELSE [e EXCEPT !.proof = 0, !.state = PriorState(e), !.prior = "None"]
    IN  IF e.proof # 0 /\ members = {}
        THEN [e EXCEPT !.state = "ZeroSettled", !.prior = "None"]
        ELSE IF members # {} /\ withdrawn.state = "Starting"
             THEN [withdrawn EXCEPT !.state = "Running"]
             ELSE withdrawn

Settled(e) ==
    [e EXCEPT !.proof = 0, !.prior = "None", !.state = "ZeroSettled",
              !.authoritative = TRUE, !.settled = e.proof]

Unsettled(e) ==
    [e EXCEPT !.proof = 0, !.prior = "None", !.state = PriorState(e),
              !.authoritative = FALSE, !.settled = 0]

\* settle_active_process_zero: the proof is spent either way.
SettleActiveProcessZero(e, members) == IF members = {} THEN Settled(e) ELSE Unsettled(e)

\* What final release demands of the entry.
Releasable(e, nonce) ==
    /\ e.present
    /\ e.settled # 0
    /\ e.authoritative
    /\ nonce = e.settled
    /\ e.state = "ZeroSettled"

-----------------------------------------------------------------------------
(* The cleanup as a sequence of stages. *)

IdleWorker == [stage |-> "Idle", waited |-> "None", errors |-> FALSE, outcome |-> "Leaked"]
FirstStage == [IdleWorker EXCEPT !.stage = "Drain"]

\* The stage after an escalation step or an unsuccessful wait.
Escalate(stage) ==
    CASE stage = "Drain" -> "CooperativeClose"
      [] stage = "CooperativeClose" -> "CooperativeWait"
      [] stage = "CooperativeWait" -> "InterruptOrSafeClose"
      [] stage = "InterruptOrSafeClose" -> "InterruptWait"
      [] stage = "InterruptWait" -> "TerminateTree"
      [] stage = "TerminateTree" -> "TerminationWait"
      [] OTHER -> "RecordAttempt"

\* The stage after a required post-zero step.
Proceed(stage) ==
    CASE stage = "SettleActiveProcessZero" -> "DetachAfterZero"
      [] stage = "DetachAfterZero" -> "ReleaseStoppedExact"
      [] stage = "ReleaseStoppedExact" -> "ReconcilePorts"
      [] stage = "ReconcilePorts" -> "PersistSettlement"
      [] OTHER -> "RecordAttempt"

\* The worker after a stage that completed.
Passed(w) ==
    IF w.stage = "PersistSettlement"
    THEN [w EXCEPT !.stage = "RecordAttempt",
                   !.outcome = IF w.errors THEN "CleanupFailed" ELSE "Closed"]
    ELSE [w EXCEPT !.stage = IF w.stage \in Escalations THEN Escalate(w.stage)
                                                        ELSE Proceed(w.stage)]

\* The worker after a wait that ended without zero and without an error.
TimedOut(w) ==
    [w EXCEPT !.stage = Escalate(w.stage),
              !.outcome = IF w.errors THEN "CleanupFailed" ELSE "Leaked"]

\* mutant: a failed detach is only noted
FailedStage_DetachIsOptional(w) ==
    IF w.stage = "DetachAfterZero" THEN Passed(w)
    ELSE [w EXCEPT !.errors = TRUE, !.outcome = "CleanupFailed",
                   !.stage = CASE w.stage \in Required -> "RecordAttempt"
                               [] w.stage = "SettleActiveProcessZero" -> Escalate(w.waited)
                               [] OTHER -> Escalate(w.stage)]

\* The worker after a stage that failed: a failed settlement goes back to the
\* escalation it interrupted, a failed required stage ends the cleanup.
FailedStage(w) ==
    [w EXCEPT !.errors = TRUE, !.outcome = "CleanupFailed",
              !.stage = CASE w.stage \in Required -> "RecordAttempt"
                          [] w.stage = "SettleActiveProcessZero" -> Escalate(w.waited)
                          [] OTHER -> Escalate(w.stage)]

FoundZero(w) == [w EXCEPT !.stage = "SettleActiveProcessZero", !.waited = w.stage]

\* A stage starts only before the deadline and before cancellation.
MayRun(stage) == worker.stage = stage /\ ~expired /\ ~shutdown

\* One more fault; late says whether it is the deadline that passed.
Fault(late) ==
    /\ faults < MaxFaults
    /\ faults' = faults + 1
    /\ expired' = (expired \/ late)
    /\ UNCHANGED lateDrains

\* The effect of the current stage is done: its result is in time, or it is
\* late and reported as a failure although the effect stands.
EffectDone ==
    \/ worker' = Passed(worker) /\ UNCHANGED faultVars
    \/ worker' = FailedStage(worker) /\ Fault(TRUE)

Init ==
    /\ launch = "suspended" /\ live = {Root} /\ used = {Root} /\ dying = FALSE
    /\ port = <<"new">> /\ mailbox = EmptyMailbox /\ listener = TRUE
    /\ entry = NewEntry /\ pending = <<>>
    /\ authority = 0 /\ released = FALSE /\ detached = FALSE
    /\ ledger = TRUE /\ persisted = FALSE
    /\ worker = IdleWorker /\ expired = FALSE /\ shutdown = FALSE
    /\ attempt = [disk |-> "None", cache |-> "None"]
    /\ report = [disk |-> FALSE, cache |-> FALSE]
    /\ told = "None" /\ faults = 0 /\ lateDrains = 0

-----------------------------------------------------------------------------
(* The launch, the Job and its completion listener. *)

\* The registered suspended root starts to run.
Resume ==
    /\ launch = "suspended"
    /\ launch' = "resumed"
    /\ entry' = [entry EXCEPT !.state = "Running"]
    /\ UNCHANGED <<live, used, dying, port, mailVars, pending, adapterVars,
                   journalVars, faultVars, worker, shutdown, told>>

\* A root that cannot be resumed never ran: the entry is rolled back and the
\* Job is dropped with it.
ResumeFails ==
    /\ launch = "suspended"
    /\ launch' = "aborted"
    /\ entry' = [entry EXCEPT !.present = FALSE]
    /\ live' = {} /\ listener' = FALSE /\ shutdown' = TRUE
    /\ UNCHANGED <<used, dying, port, mailbox, pending, adapterVars,
                   journalVars, faultVars, worker, told>>

\* Only a member can put a new process into the Job.
Spawn(p) ==
    /\ launch = "resumed" /\ ~dying
    /\ live # {} /\ p \in Procs \ used
    /\ live' = live \cup {p} /\ used' = used \cup {p}
    /\ port' = Append(port, "new")
    /\ UNCHANGED <<launch, dying, mailVars, entryVars, adapterVars,
                   journalVars, faultVars, worker, shutdown, told>>

\* The last exit also posts ACTIVE_PROCESS_ZERO, once.
Exit(p, packet) ==
    /\ launch = "resumed" /\ p \in live
    /\ live' = live \ {p}
    /\ port' = port \o (IF live = {p} THEN <<packet, "zero">> ELSE <<packet>>)
    /\ UNCHANGED <<launch, used, dying, mailVars, entryVars, adapterVars,
                   journalVars, faultVars, worker, shutdown, told>>

\* A packet is a scheduling hint, never a fact about the Job: the registry
\* must also cope with one that does not describe it.
HintZeroEarly ==
    /\ MayHintEarly /\ launch = "resumed" /\ live # {}
    /\ port' = Append(port, "zero")
    /\ Fault(FALSE)
    /\ UNCHANGED <<launch, live, used, dying, mailVars, entryVars, adapterVars,
                   journalVars, worker, shutdown, told>>

Deliver ==
    /\ listener /\ port # <<>>
    /\ mailbox' = Push(mailbox, Head(port))
    /\ port' = Tail(port)
    /\ UNCHANGED <<launch, live, used, dying, listener, entryVars, adapterVars,
                   journalVars, faultVars, worker, shutdown, told>>

ListenerFails ==
    /\ MayFailMonitor /\ listener
    /\ mailbox' = Push(mailbox, "failed")
    /\ listener' = FALSE
    /\ UNCHANGED <<jobVars, entryVars, adapterVars, journalVars, faultVars,
                   worker, shutdown, told>>

-----------------------------------------------------------------------------
(* The calls of close.  Admission is serialised by one mutex; a call that   *)
(* finds the cleanup running joins it and changes nothing.                  *)

\* The answer of the completion journal, the cache before the disk.
CompletedReport == report.cache \/ report.disk

LastAttempt == IF attempt.cache # "None" THEN attempt.cache ELSE attempt.disk

Admitted == launch = "resumed" /\ ~shutdown /\ worker.stage = "Idle"

ReturnCompleted ==
    /\ Admitted /\ CompletedReport
    /\ told' = "Closed"
    /\ UNCHANGED <<jobVars, mailVars, entryVars, adapterVars, journalVars, faultVars,
                   worker, shutdown>>

\* How far a journal transaction gets: committed and cached, failed before the
\* commit, or committed with the deadline passing before the cache is written.
JournalStep(how) ==
    /\ expired => how = "uncommitted"
    /\ IF how = "done" \/ expired THEN UNCHANGED faultVars ELSE Fault(TRUE)

Recorded(how, status) ==
    CASE how = "done" -> [disk |-> status, cache |-> status]
      [] how = "uncached" -> [attempt EXCEPT !.disk = status]
      [] OTHER -> attempt

\* persist: the completion row is written and the attempt row deleted.
Completed(how) ==
    CASE how = "done" -> report' = [disk |-> TRUE, cache |-> TRUE]
      [] how = "uncached" -> report' = [report EXCEPT !.disk = TRUE]
      [] OTHER -> report' = report

\* mutant: the completion journal is not consulted
BeginCleanup_WithoutLookup(how) ==
    /\ Admitted /\ LastAttempt # "EffectsClosed"
    /\ attempt' = Recorded(how, "InProgress")
    /\ IF how = "done"
       THEN worker' = FirstStage /\ expired' = FALSE /\ UNCHANGED <<told, faults, lateDrains>>
       ELSE worker' = worker /\ told' = "Failed" /\ Fault(FALSE)
    /\ UNCHANGED <<jobVars, mailVars, entryVars, adapterVars, report, shutdown>>

BeginCleanup(how) ==
    /\ Admitted /\ ~CompletedReport /\ LastAttempt # "EffectsClosed"
    /\ attempt' = Recorded(how, "InProgress")
    /\ IF how = "done"
       THEN worker' = FirstStage /\ expired' = FALSE /\ UNCHANGED <<told, faults, lateDrains>>
       ELSE worker' = worker /\ told' = "Failed" /\ Fault(FALSE)
    /\ UNCHANGED <<jobVars, mailVars, entryVars, adapterVars, report, shutdown>>

\* The effects of an earlier attempt are complete: only the journal is missing.
FinalizeEffectsClosed(how) ==
    /\ Admitted /\ ~CompletedReport /\ LastAttempt = "EffectsClosed"
    /\ Completed(how)
    /\ attempt' = Recorded(how, "None")
    /\ told' = IF how = "done" THEN "Closed" ELSE "Failed"
    /\ IF how = "done" THEN UNCHANGED faultVars ELSE Fault(FALSE)
    /\ UNCHANGED <<jobVars, mailVars, entryVars, adapterVars, worker, shutdown>>

\* The synchronous close waited past its deadline: it shuts the coordinator
\* down, which cancels the running cleanup and refuses every later call.
ShutDown ==
    /\ launch = "resumed" /\ ~shutdown /\ worker.stage # "Idle"
    /\ shutdown' = TRUE /\ told' = "Failed"
    /\ Fault(FALSE)
    /\ UNCHANGED <<jobVars, mailVars, entryVars, adapterVars, journalVars, worker>>

-----------------------------------------------------------------------------
(* The stages. *)

\* mutant: only the root is looked for
ActiveProcessIds_RootOnly == live \cap {Root}

\* The membership query of the Job.
ActiveProcessIds == live

Polling(stage) == stage \in Waits \cup {"Drain"}

\* drain_job_completions takes the mailbox only once the retained queue is empty.
ReceiveMessages ==
    /\ \E stage \in Stages : Polling(stage) /\ MayRun(stage)
    /\ entry.present /\ pending = <<>> /\ mailbox.messages # <<>>
    /\ pending' = mailbox.messages /\ mailbox' = EmptyMailbox
    /\ UNCHANGED <<jobVars, listener, entry, adapterVars, journalVars, faultVars,
                   worker, shutdown, told>>

\* The deadline passes after the Job emptied its mailbox and before it returns
\* the messages.  In a wait it is the deadline of the stage.
LateDrain ==
    /\ lateDrains < MaxLateDrains
    /\ \E stage \in Stages : Polling(stage) /\ MayRun(stage)
    /\ entry.present /\ pending = <<>> /\ mailbox.messages # <<>>
    /\ mailbox' = EmptyMailbox
    /\ lateDrains' = lateDrains + 1
    /\ IF worker.stage \in Waits
       THEN worker' = TimedOut(worker) /\ UNCHANGED expired
       ELSE worker' = FailedStage(worker) /\ expired' = TRUE
    /\ UNCHANGED <<jobVars, listener, entryVars, adapterVars, journalVars, faults,
                   shutdown, told>>

ApplyMessage ==
    /\ \E stage \in Stages : Polling(stage) /\ MayRun(stage)
    /\ entry.present /\ pending # <<>>
    /\ entry' = ApplyJobCompletion(entry, Head(pending))
    /\ pending' = Tail(pending)
    /\ UNCHANGED <<jobVars, mailVars, adapterVars, journalVars, faultVars,
                   worker, shutdown, told>>

\* The stages with no effect on the modelled state: the input drain after the
\* mailbox, the unsupported cooperative close, the input close.
AskToClose ==
    /\ \E stage \in Escalations \ {"TerminateTree"} : MayRun(stage)
    /\ worker.stage = "Drain" => pending = <<>> \/ ~entry.present
    /\ EffectDone
    /\ UNCHANGED <<jobVars, mailVars, entryVars, adapterVars, journalVars, shutdown, told>>

TerminateTree ==
    /\ MayRun("TerminateTree")
    /\ dying' = (dying \/ ~released)
    /\ EffectDone
    /\ UNCHANGED <<launch, live, used, port, mailVars, entryVars, adapterVars,
                   journalVars, shutdown, told>>

\* One poll of wait_for_zero: the entry is reconciled with the Job.
Polled == IF entry.present THEN ReconcileMembership(entry, ActiveProcessIds) ELSE entry

PollFindsZero ==
    /\ \E stage \in Waits : MayRun(stage)
    /\ released \/ (pending = <<>> /\ Polled.state = "ZeroSettled")
    /\ entry' = Polled
    /\ worker' = FoundZero(worker)
    /\ UNCHANGED <<jobVars, mailVars, pending, adapterVars, journalVars, faultVars,
                   shutdown, told>>

\* The wait ends; its last poll may have touched the entry.
WaitTimesOut ==
    /\ \E stage \in Waits : MayRun(stage)
    /\ entry' = entry \/ (pending = <<>> /\ ~released /\ entry' = Polled)
    /\ worker' = TimedOut(worker)
    /\ UNCHANGED <<jobVars, mailVars, pending, adapterVars, journalVars, faultVars,
                   shutdown, told>>

\* mutant: a retry asks for a second authority
AlreadySettled_Remints == released

\* A retained authority, or the release it was spent on, is reused by a retry.
AlreadySettled == released \/ authority # 0

\* mutant: the authority minted past the deadline is dropped with the error
Minted_LateIsLost == IF expired' THEN 0 ELSE entry.proof

\* The authority is retained before the deadline is checked again.
Minted == entry.proof

\* settle_active_process_zero of the adapter: without a retained authority the
\* pending proof is spent on a new one.
SettleZero ==
    /\ MayRun("SettleActiveProcessZero")
    /\ IF AlreadySettled
       THEN EffectDone /\ UNCHANGED <<entry, authority>>
       ELSE LET settled == SettleActiveProcessZero(entry, ActiveProcessIds)
            IN  /\ entry' = IF entry.proof # 0 THEN settled ELSE entry
                /\ IF entry.proof # 0 /\ settled.authoritative
                   THEN EffectDone /\ authority' = Minted
                   ELSE worker' = FailedStage(worker) /\ UNCHANGED <<authority, faultVars>>
    /\ UNCHANGED <<jobVars, mailVars, pending, released, detached, ledger, persisted,
                   journalVars, shutdown, told>>

DetachAfterZero ==
    /\ MayRun("DetachAfterZero")
    /\ detached' = TRUE
    /\ EffectDone
    /\ UNCHANGED <<jobVars, mailVars, entryVars, authority, released, ledger, persisted,
                   journalVars, shutdown, told>>

\* Final release: the listener is joined, then the entry leaves the registry.
ReleaseStoppedExact ==
    /\ MayRun("ReleaseStoppedExact")
    /\ \/ released /\ EffectDone /\ UNCHANGED <<listener, entry, authority, released>>
       \/ /\ ~released /\ authority # 0 /\ Releasable(entry, authority)
          /\ listener' = FALSE /\ entry' = [entry EXCEPT !.present = FALSE]
          /\ authority' = 0 /\ released' = TRUE
          /\ EffectDone
       \/ /\ ~released /\ authority # 0 /\ Releasable(entry, authority)
          /\ listener' = FALSE
          /\ worker' = FailedStage(worker) /\ Fault(TRUE)
          /\ UNCHANGED <<entry, authority, released>>
    /\ UNCHANGED <<jobVars, mailbox, pending, detached, ledger, persisted,
                   journalVars, shutdown, told>>

ReconcilePorts ==
    /\ MayRun("ReconcilePorts") /\ released
    /\ EffectDone
    /\ UNCHANGED <<jobVars, mailVars, entryVars, adapterVars, journalVars, shutdown, told>>

\* The root leaves the PID ledger.  A late release is not marked as persisted,
\* and the retry finds nothing left to remove.
PersistSettlement ==
    /\ MayRun("PersistSettlement") /\ released
    /\ ledger' = FALSE
    /\ EffectDone
    /\ persisted' = (persisted \/ ~expired')
    /\ UNCHANGED <<jobVars, mailVars, entryVars, authority, released, detached,
                   journalVars, shutdown, told>>

\* A stage that is past its deadline, cancelled, or refused by the host.
StageFails ==
    /\ worker.stage \in Escalations \cup Waits \cup Required \cup {"SettleActiveProcessZero"}
    /\ worker' = FailedStage(worker)
    /\ \/ (expired \/ shutdown) /\ UNCHANGED faultVars
       \/ \E late \in BOOLEAN : Fault(late)
    /\ UNCHANGED <<jobVars, mailVars, entryVars, adapterVars, journalVars, shutdown, told>>

\* handoff_completed_cleanup, first journal write.
RecordAttempt(how) ==
    /\ worker.stage = "RecordAttempt"
    /\ attempt' = Recorded(how, IF worker.outcome = "Closed" THEN "EffectsClosed"
                                                             ELSE "RetryableFailure")
    /\ JournalStep(how)
    /\ IF how = "done" /\ worker.outcome = "Closed"
       THEN worker' = [worker EXCEPT !.stage = "PersistCompletion"] /\ UNCHANGED told
       ELSE worker' = IdleWorker /\ told' = "Failed"
    /\ UNCHANGED <<jobVars, mailVars, entryVars, adapterVars, report, shutdown>>

\* Second journal write; the answer of a coordinator that was shut down
\* meanwhile has already been given.
PersistCompletion(how) ==
    /\ worker.stage = "PersistCompletion"
    /\ Completed(how)
    /\ attempt' = Recorded(how, "None")
    /\ JournalStep(how)
    /\ worker' = IdleWorker
    /\ told' = IF how = "done" /\ ~shutdown THEN "Closed" ELSE "Failed"
    /\ UNCHANGED <<jobVars, mailVars, entryVars, adapterVars, shutdown>>

-----------------------------------------------------------------------------
JournalResults == {"done", "uncommitted", "uncached"}

Process == (\E p \in Procs : Spawn(p)) \/ (\E p \in Procs : Exit(p, "exit") \/ Exit(p, "abnormal"))
Host == Resume \/ ResumeFails \/ ShutDown \/ Deliver \/ HintZeroEarly \/ ListenerFails
Close ==
    \/ ReturnCompleted
    \/ \E how \in JournalResults : BeginCleanup(how) \/ FinalizeEffectsClosed(how)
Cleanup ==
    \/ ReceiveMessages \/ LateDrain \/ ApplyMessage \/ AskToClose \/ TerminateTree
    \/ PollFindsZero \/ WaitTimesOut \/ SettleZero \/ DetachAfterZero
    \/ ReleaseStoppedExact \/ ReconcilePorts \/ PersistSettlement \/ StageFails
    \/ \E how \in JournalResults : RecordAttempt(how) \/ PersistCompletion(how)

Next == Process \/ Host \/ Close \/ Cleanup

Spec == Init /\ [][Next]_vars

\* The listener thread and the worker are scheduled; a Job being terminated
\* empties; a caller that was not told Closed asks again; and a wait, which
\* polls every few milliseconds for seconds, does not miss its chance forever.
Fairness ==
    /\ WF_vars(Resume \/ ResumeFails) /\ WF_vars(Deliver)
    /\ WF_vars(Close) /\ WF_vars(Cleanup)
    /\ WF_vars(dying /\ \E p \in Procs : Exit(p, "exit"))
    /\ SF_vars(ReceiveMessages) /\ SF_vars(ApplyMessage) /\ SF_vars(PollFindsZero)

FairSpec == Spec /\ Fairness

-----------------------------------------------------------------------------
(* Properties. *)

\* Every variable stays in its declared shape, and the worker in a stage of
\* the TeardownStage enumeration.
TeardownTypeOK ==
    /\ launch \in {"suspended", "resumed", "aborted"}
    /\ live \subseteq used /\ used \subseteq Procs /\ dying \in BOOLEAN
    /\ port \in Seq(Packets) /\ pending \in Seq(Packets)
    /\ mailbox \in [messages : Seq(Packets), overflowed : BOOLEAN]
    /\ entry \in [present : BOOLEAN, state : Lifecycles, prior : Lifecycles \cup {"None"},
                  proof : Nat, authoritative : BOOLEAN, settled : Nat, nextNonce : Nat \ {0}]
    /\ authority \in Nat
    /\ {listener, released, detached, ledger, persisted, expired, shutdown} \subseteq BOOLEAN
    /\ worker \in [stage : Stages, waited : Waits \cup {"None"}, errors : BOOLEAN,
                   outcome : Outcomes]
    /\ attempt \in [disk : Attempts, cache : Attempts]
    /\ report \in [disk : BOOLEAN, cache : BOOLEAN]
    /\ told \in {"None", "Closed", "Failed"}
    /\ faults \in 0..MaxFaults /\ lateDrains \in 0..MaxLateDrains

\* release_stopped_with_authority and the PID ledger: a terminal is released,
\* and its root forgotten by the crash ledger, only when no process of its Job
\* is left, whatever packets, timeouts and retries came before.
ReleasedMeansGone == (released \/ ~ledger) => live = {}

\* settle_after_zero and the journal: an outcome Closed, recorded or told to a
\* caller, is only ever given for a teardown all of whose required effects
\* have taken place: tree empty, actors joined, entry released, ledger clean.
ClosedMeansComplete ==
    (told = "Closed" \/ report.disk \/ "EffectsClosed" \in {attempt.disk, attempt.cache})
        => released /\ detached /\ ~ledger /\ ~entry.present /\ live = {}

\* mint_teardown_release_authority: the zero proof is spent only to mint an
\* authority that final release accepts, and that authority survives every
\* failed attempt; otherwise no retry could ever release the entry.
AuthorityStaysUsable ==
    entry.present => /\ entry.authoritative <=> authority # 0
                     /\ authority # 0 => Releasable(entry, authority)

\* The completion mailbox and the retained queue: the one ACTIVE_PROCESS_ZERO
\* packet of an emptied Job is still on its way, or has become a proof or an
\* authority, for as long as the entry exists and the listener has not failed.
ZeroFactIsKept ==
    (launch = "resumed" /\ live = {} /\ entry.present /\ listener)
        => \/ Holds(port, "zero") \/ Holds(mailbox.messages, "zero") \/ Holds(pending, "zero")
           \/ entry.proof # 0 \/ authority # 0

\* lookup_completed: once the completion of a teardown is durable no caller
\* starts its effects again.
CompletedIsNeverRerun == report.disk => worker.stage = "Idle"

\* A caller that keeps asking is told Closed in the end, whatever stage, journal
\* write or deadline failed before, unless the coordinator was shut down or the
\* root never ran.
CloseConverges == (launch = "resumed") ~> (told = "Closed" \/ shutdown)
=============================================================================
