# DevManager: a TLA+ verification project

DevManager is a desktop host that runs coding agents, terminals and services as
*tasks*. A background host process owns a durable kernel (SQLite: commands,
events, projections, an outbox of effects), the process trees of the terminals,
and the connections of desktop, remote and agent clients. This project models the
parts of that host where a wrong interleaving, crash, timeout or clock step does
lasting damage: the **dispatch of durable effects**, the **teardown of
terminals**, the **live event feed** of a client, the **wake-ups of open
conversations**, the **update** of host and client, and the **replication of
terminals**. Paths below are relative to the repository, which is kept under
`src/`; the Rust sources are therefore in `src/src/`.

## 1. Inventory

| Component | State | Operations | What makes it correct |
|---|---|---|---|
| Kernel outbox and dispatch (`kernel/store.rs`, `kernel/dispatch.rs`, `kernel/outbox.rs`, `providers/dispatch.rs`) | outbox rows: state, lease generation, attempt count, several wall-clock times, absence receipt | claim, renew, release, begin, defer, complete, record ambiguity, recover, look up, reconcile, retire | an input is delivered at most once; a retry needs a proof of absence; leases are exclusive; no stored row is unreadable; nothing stays interrupted |
| Kernel command bus (`kernel/command_bus.rs`) | operations, receipts, fences | accept a command with its effect, cancel an untouched close, apply an outcome | outcomes are final; a reopened task leaves no live close behind; a repeated command gets its receipt |
| Domain decisions (`domain/command.rs`, `event.rs`, `task.rs`) | task lifecycle, action epoch, resources, agent sessions | `decide`, `apply_into` | what is decided can be replayed |
| Projector, snapshots (`kernel/projector.rs`, `snapshot.rs`) | projections | apply an event, rebuild, read a consistent page | projections equal the replayed history |
| Event replay and live tail (`host/connection.rs`, `host/ipc.rs`, `kernel/replay.rs`) | replay sessions, live bindings, the lanes of each connection | open, continue and release a replay, fan out, catch up, rebind, detach, write | an event lost to a full lane or a closed connection leaves a notice; no tail outlives its owner |
| Conversation wake (`host/conversation_wake.rs`, the ephemeral lane of `host/connection.rs`) | dirty board with watch counts, subscriptions, coalescing slots, one wake token per lane | mark, open, fan out, take, finish, detach | no marked record goes untold, no writer sleeps on work, nothing is told twice |
| Purge, maintenance, runtime registry (`kernel/purge.rs`, `maintenance.rs`, `runtime.rs`) | tombstones, lane schedule | purge a task, run the lanes | no half purge; every lane is called again |
| Provider sessions (`providers/*`) | one process and journal per agent session | bind, write input, observe, abandon | a write that failed before the boundary had no effect |
| Terminal teardown (`process/teardown.rs`) | tickets, stage of the running cleanup, attempt and completion journal | request a close, escalate, settle zero, detach, release, reconcile ports, persist | "Closed" means gone; a failed attempt can be retried; a completed one is not rerun |
| Process registry (`process/registry.rs`) | one entry per generation: lifecycle, pending zero proof, authority nonce | register, apply packets, reconcile membership, settle, release | release only of an empty tree and only by the exact generation |
| Job and mailbox (`process/job.rs`) | Job members, bounded mailbox, listener | spawn, exit, deliver, drain, terminate | the one zero packet is not lost |
| Host quit (`host/shutdown.rs`) | cleanup journal | quit, fan out teardowns | quit ends; nothing outlives it |
| Desktop client (`client/*`) | subscription phase and state, model, unsolicited inbox, retired ids | connect, synchronise, apply, release, reconnect | gaps and duplicates lead to a resync, never to a wrong model |
| Wire protocol (`protocol/*`) | chunks | encode, decode | bounded frames |
| Terminal service and replica (`terminal/*`) | grid, pending notifications, sequenced deltas, replicas | notify, drain, answer with deltas or a snapshot, resize, replace the generation | a replica at the host's position shows the host's screen |
| Services supervisor (`services/*`) | restart counters, PID ledger | start, probe, restart, stop | restart policy is bounded; no orphan |
| Connect (`connect/*`) | identities, epochs, invites, relay sessions | pair, rotate, revoke | old epochs are refused |
| Update handoff (`updater/handoff.rs`, `updater/mod.rs`, `host/update.rs`, `host/lock.rs`) | gate phase, token, profile lock | inspect, prepare, confirm, arm, retire, join, install | files are replaced by one client, with the host gone and idle |
| Replacement (`updater/appimage.rs`, `updater/replace.rs`) | image or pair of binaries, staged file, backups, journal, markers | stage, commit, roll back, recover, finalize | an update ends in the old or the new version, whatever step it died at |
| Organisation, prompts, workspace, git, ssh, browser, remote web, UI | documents, views | mostly wrappers and rendering | outside the durable core |

How they interact: a client's command goes over the protocol to the host, which
submits it to the command bus. The bus decides it with the domain, commits the
event, the projection, the operation and the outbox row in one SQLite
transaction. The maintenance loop calls the lanes; a lane claims a row, begins
an attempt, touches the outside (a provider's input, a resource, a task's
processes), and records the result. Closing a task begins a teardown effect; the
host tears terminals down through the coordinator, releases the task's
resources, and the teardown's settlement archives the task. Replay feeds
subscriptions.

What is hard: the boundary between a durable record and an effect outside
(crash, stall, lost answer); leases on a wall clock that may be set back; late
holders of old claims, permits and lookups; one-shot facts (the zero packet, the
release authority, the wake token) that cross deadlines or other work; journal
writes that commit but report failure; bounded lanes that overflow while a writer
is in the middle of a frame; connections replaced while the host still knows the
old one; files exchanged one at a time. `PROJECT.json` lists these hazards with their lines and the properties
that watch them.

## 2. Modules

| Module | Models | Size of the idea |
|---|---|---|
| `KernelDispatch` | the outbox, its workers and the commands that feed it | one action per IMMEDIATE transaction |
| `KernelDispatchProperties` | what the kernel promises | invariants, action properties, liveness |
| `KernelDispatchProofs` | type correctness, valid live, finished and uncertain rows, final outcomes, at-most-once inputs, exclusive leases, proved retries, current closes, single releases, archived tasks that own nothing | proofs |
| `TerminalTeardown` | Job, mailbox, registry entry, cleanup stages, journal of one terminal, and its properties | one action per adapter call, packet or journal write |
| `TerminalTeardownProofs` | release safety, authority, completeness, no rerun, no lost zero | proofs |
| `EventSubscription` | executor, connection tasks and one client of the event feed | one action per job, channel operation, frame or client step |
| `EventFeed` | what the feed promises: a hole-free prefix | abstract specification |
| `EventSubscriptionProperties` | properties, and the refinement of `EventFeed` | invariants, refinement, liveness |
| `EventSubscriptionProofs` | the inductive invariant of the feed, and its parts about the host's tables, the one request and the client's model | proofs |
| `EventSubscriptionSafety` | the parts about what is under way, no misdelivery, no silent loss, no foreign frame, no orphan, the refinement of `EventFeed` | proofs |
| `ConversationWake` | board, registry, executor, lanes and writers, and their properties | one action per critical section |
| `ConversationWakeProofs` | types, watch counts, no lost wake, no lost notice, no repeated notice | proofs |
| `UpdateHandoff` | the host's update gate and the clients' install attempts | one action per request |
| `UpdateHandoffProofs` | exclusive install, idle retirement, kept token | proofs |
| `ImageReplacement` | replacement of the AppImage by client and host | one action per change of the file system |
| `BinaryReplacement` | replacement of the pair of binaries | one action per change of the file system |
| `UpdateReplacement` | `PreparedReplacement`: the one or the other | composition |
| `UpdateReplacementProofs` | crash safety of both replacements | proofs |
| `TerminalReplication` | one terminal, its service and the clients' replicas | one action per lock section |
| `TerminalReplicationProofs` | the retained deltas are ordered; a replica at the host's position shows its rows | proofs |

### KernelDispatch

State and code: `task`, `res` and `session` are the columns of the tasks,
resources and agent_sessions projections that a fence reads; `op` and `row` are
an operation and its outbox row; `claims`, `permits` and `lookups` are the tokens
(`DispatchClaim`, `DispatchPermit`, `ReconciliationClaim`) ever handed to
workers. A worker is not a process of its own: it is whoever holds a token. A
crash is a token that is never used again, a stall is one that is used late,
and a duplicated call is one that is used twice. `crossed`, `torn` and `absences` are
history: the permits whose first write was taken whole, those whose first write failed
with part written, and the attempts a lookup proved to have had no effect.

Abstractions. Identifiers, documents, receipts and fingerprints are dropped
except for the equalities the code compares. The four effects are the four
dispositions of the code: `teardown` (RetrySafe), `release`
(ReconcileBeforeRetry), `provider` (NoAutomaticRetry) and `hold` (no dispatcher).
A claim that the code answers with nothing, StaleFence or an error without a
write is a stuttering step. `agent_sessions.runtime_generation` never changes
after registration in this commit, so the refusal ProviderRuntimeGenerationAdvanced
cannot happen and is not modelled. A session is the provider identity it is
bound to; abandoning and binding again is one step, as no fence can tell the
moment between. The write boundary of a provider is the action
`WriteProviderInput`: before it a failure is a hold, after it an ambiguity
(`hold_disposition`). The first write is a `write_all` that may fail with part of its
bytes written (`TearProviderInput`); the code counts that as before the boundary.

### TerminalTeardown

State and code: `launch`, `live`, `used`, `dying`, `port` are the Windows Job as
the code sees it (external); `mailbox` and `listener` are the completion mailbox
and its thread; `entry` and `pending` the registered process and its retained
queue; `authority`, `released`, `detached`, `persisted` the fields of the
adapter's state; `ledger` the PID ledger's entry for the root; `worker` and
`expired` the running cleanup and its absolute deadline; `attempt` and `report`
the two journal tables, each on disk and in the cache; `told` the answer the last
caller of `close` got.

Every production registry holds exactly one entry of one generation, so fence
and ticket are constant. A stage whose effect happened but whose result is late
is `FailedStage` with the effect in place (`EffectDone`); a stage that was refused
or is past its deadline is `StageFails`. A journal write is done, fails before
the commit, or commits and misses the deadline before the cache is updated
(`JournalStep`). A call of `close` that finds a running cleanup joins it and
changes nothing. A limit packet is handled like an abnormal exit by
`apply_job_completion` and shares its model.

### EventSubscription, EventFeed

State and code: `registry`, `streams` and `exec` are the executor's
`EventReplayRegistry`, its live stream states and the job it is in the middle of;
`control` and `jobs` its two channels; `outputs` the registered outputs; `lane[c]`
the critical and durable lane, the frame being written and the wire of connection
`c`; `client` the client's connection, subscription phase, model, inbox and retired
ids. The executor's fan-out awaits between two subscriptions, so commits, writers
and clients interleave with it. A connection may close at any step; unregistration
is a `try_send` and may be lost.

Abstractions. An event is its sequence number, and a page or frame is the range it
carries. The model is the set of sequences applied. The relay transport of
`host/connect.rs`, the snapshot's own pages and its release, `MAX_SNAPSHOT_SESSIONS`,
the eviction of `MAX_SEEN_EVENT_IDS`, task detail and the retry delays are left out.
Whether a reconnect presents a valid grant (they live five minutes) is a choice of
`Connect`; `client.grant` is the earlier connection it was granted on. Two failures are
not branches of their own: a replay read that fails during catch-up (`fail_live_replay`,
`host/connection.rs:9556`), which sends a resync and drops the entry as an overflow does
but hints at a newest sequence, and a page longer than `MAX_PENDING_REPLAY_EVENTS`
(`client/subscription.rs:619`), which the client treats as it does a gap in a page.

`EventFeed` says what the client may see: a view that is hole-free, grows by the
next event while live, is given up, and is rebased only forward. The refinement
mapping (`ImplementsFeed`) reads the view off the client's model.

### ConversationWake

State and code: the dirty board with its watch counts and high waters, the
registry of subscriptions, the executor's fan-out (which key, which targets are
left), an opening between its capture and its registration, and per connection the
slots of the ephemeral lane, the list of dirty ones, the wake token and what the
writer holds. A provider's draft is recorded and marked under the journal's mutex
(`Record`, `Mark`); status, output and terminal-mode events are recorded without a mark
(`Observe`). `announced` is the last marked record. The list of dirty slots is a set, which allows more orders than the
FIFO of the code. Stream keys, which only tests use, and the contents of a page are
left out.

### UpdateHandoff

State and code: `phase`, `token` and `retiring` are the host's gate, `profile` the
profile lock, `marked` a sealed recovery marker, and per client the stage of its
attempt, the token it holds, the token `UpdaterInner` remembers and the boot it
waits for. One request is one step whose reply may be lost with the attempt. What
the new host does between its start and `Completed` is one step, since it serves no
other request in between. Every attempt mints its command ids, so the branch that
answers a repeated id is never taken.

Two consequences the model shows that no run states: a host in phase `Completed`
refuses the next `PrepareUpdate` until it is restarted, and a token remembered from
a failed attempt makes the same client's next attempt fail once
(`updater/mod.rs:1088`).

### ImageReplacement, BinaryReplacement, UpdateReplacement

State and code: the files (image, staged image, journal, marker; client and host
binary, their backups, stage marker, recovery marker), the locks and the steps of
client and host. One action is one change of the file system, so a crash may fall
between any two. Images and binaries are version numbers; a failed copy may leave a
torn file, a failed write a torn marker. The journal is created and then written in
place, so a crash may leave it torn; a staging that fails removes the files it created,
and each of these unlinks may fail unnoticed (`JournalAfterFailure`). Inspection, signatures, ownership of paths
and the legacy migration are left out, and the removal of the stage marker after a
rollback does not fail. `UpdateReplacement` is the `ReplacementKind` of the code: the
installed package decides once which of the two takes place.

### TerminalReplication

State and code: the grid (under its own lock), the reader thread between changing it
and notifying, the pending queue, the service's generation, sequence, last recorded
screen and retained deltas, the operation that holds the service's lock, and the
replicas with the updates under way to them, which may be lost, repeated and
reordered. A screen is its rows and one attribute that a delta carries only when it
changed (cursor, modes and title alike). End of file and exit are one event. The first
view of a generation and every scroll take a sequence and record no delta
(`FirstView`, `ScrollRuntime`), so the log may end before the sequence (`StopShort`). A
scroll moves the rows a snapshot shows, or is passed on to the process; cutting the
scrollback moves a scrolled grid too. Input, selection and search are left out, and so
are the scrolls of a desktop window's own session (`services/process_manager.rs:4153`),
which bypass the service. `updates_since` and the replica have no
caller in `src/` but tests yet, so no progress is claimed.

## 3. Runs

Passing runs (states: distinct states found):

| Run | Instance | Shows | States |
|---|---|---|---|
| `provider_lane` | inputs and closes, two identities, a specialist, 2 operations, time 0..1, `FairSpec` | `InterruptedInputConverges`, `StaleInputConverges` | 114 k |
| `kernel_safety` | all four kinds, one resource, 2 operations, time 0..2 | `ProviderAtMostOnce`, `RetryNeedsAbsenceProof`, `ReleasingHasOneOperation`, `AcceptedCloseIsCurrent`, `ArchivedOwnsNothing`, `OutcomesAreFinal`, `LiveLeaseIsExclusive` | 519 k |
| `clock_steps` | any one effect, two identities, a specialist, time 0..3, clock may step back | `LiveRowsPassValidator`, `FinishedRowsPassValidator`, `UncertaintyPassesValidator` | 894 k |
| `teardown_safety` | 2 processes, mailbox of 2, 2 faults, 1 late drain, failing listener, early hints | `ReleasedMeansGone`, `ClosedMeansComplete`, `AuthorityStaysUsable`, `CompletedIsNeverRerun` | 1.26 M |
| `teardown_retry` | 2 processes, mailbox of 2, 2 faults, `FairSpec` | `ZeroFactIsKept`, `CloseConverges` | 67 k |
| `feed_reconnect` | 2 events, 2 subscriptions, 2 connections, lanes of 1, with and without grant | `NoMisdelivery`, `NeverSilentlyStale`, `ImplementsFeed` | 885 k |
| `feed_converges` | the same with a registry of 1, `FairSpec` | `NoForeignFrame`, `NoOrphanTail`, `Converges` | 318 k |
| `conversation_wake` | 1 conversation, 3 subscriptions, share of 2, 2 records, marked or not, `FairSpec` | `WatchCountsSubscriptions`, `NoLostWake`, `NoLostNotice`, `NoticeIsNews`, `EventuallyTold` | 601 k |
| `handoff_safety` | 2 clients, 3 tokens, 3 boots, 1 session | `InstallIsExclusive`, `RetiresIdle`, `InstallerOwnsToken` | 304 k |
| `replacement` | 4 versions, 4 faults, either kind, image steps fair | `Recoverable`, `BackupUntilHello`, `ServedImageStays`, `Settles`, `OldPairIsKept`, `NewHostCarriesMarker` | 5.9 k |
| `replica_rows` | 1 client, 2 outputs, resizes or scrolls, heights 1 and 2, 2 generations, log of 2, queue of 1 | `LogIsOrdered`, `RowsAreCurrent` | 4.45 M |

One run refutes what the repository says of itself: `stuck_drain` (section 6). The
other configurations in this directory (`ClockRollback`, `OpenSpecialist`,
`ClosedSession`, `LateDrain`, `ForeignTail`, `UngatedLaunch`, `TornJournal`, `MixedPair`,
`StrandedMarker`, `ShrunkRows`, `StaleCursor`, `ScrolledReplica`, `TornInput`,
`UnmarkedRecord`) reproduce the further disagreements of
section 6 one at a time; each ends in a counterexample.

Each property of each passing run has a *mutant*: a variant of a modelled
definition, written just before it and marked `mutant`, that TLC must find to
violate the property. Nothing else uses these definitions.

**Bounds.** Two operations are enough for an effect to overtake another, for a
close to meet a release or an input, and for claims to be ordered; a third adds
no relation, since rows interact only through the order of claims and through
their task. One is enough for the validators, which look at a single row, so the
run in which the clock steps back has one; that delivery and finality do not
depend on the clock either is proved (section 4). A lease or delay of 1 lets a lease expire and
be recovered within time 1, be renewed and run again within 2 or 3; the number of generations and attempts is
not bounded separately, since each costs time. `MaxTime` also ends leases, so
the liveness properties speak of rows whose times lie within the horizon
(`WithinHorizon`). In the teardown, two processes make one spawn race the
emptying of the Job, a mailbox of two overflows with three packets, and two
faults put a second failure into the retry after the first one.
`MaxFaults` bounds deadline expiries and failed calls, `MaxLateDrains` drains
that cross the deadline; `MayFailMonitor` and `MayHintEarly` switch on a failing
completion port and a zero hint that does not describe the Job.

In the feed, two events overflow a durable lane of one and leave a tail behind a
resync, two subscriptions and two connections make a replacement meet what it
replaces, and a registry of one makes opening evict. In the wake model one
conversation suffices, since keys meet only on the lane's one token, which three
subscriptions share; the third subscription meets a share of two, and the second
record arrives while the first is under way. Several connections are covered by the
theorems. In the handoff two clients compete, and three tokens let one expire or be
left behind before the next. A fourth fault in a replacement falls into the recovery
from the recovery of the first. `Settles` holds for one fault: after a second one the
files may stay until the host is started again. In the replica a queue of one
coalesces, a log of two drops its oldest delta, and two generations let an update of
the old one arrive late. `MaxChanges` bounds outputs, resizes and scrolls together: two
let one fall between the other and its delta.

**Deadlock** is not checked: with the clock at its bound, all operations
accepted and all tokens spent, a terminal closed for good, every event delivered, or
the last version installed, the system rests.

**Fairness.** Kernel (`FairSpec`): the clock runs, and the host's maintenance
keeps calling recovery and the provider lane (weak fairness of each; the lane
claims only when recovery had nothing to report, as `run_once` does). Nothing is
assumed of workers. Teardown (`Fairness`): the launch is decided, the listener
thread and the cleanup worker are scheduled, a caller that was not told Closed
asks again, and a terminated Job empties (TerminateJobObject). A wait polls every
few milliseconds for seconds, so a drain, an application of a drained packet and
a poll that find their chance again and again do not miss it for ever (strong
fairness). No fairness is assumed of processes that were not terminated. Feed: the
executor serves its channels and finishes what it began (its select! is unbiased),
writers write, and a client that stays open reads, synchronises and reconnects;
nothing is assumed of commits, failures and reaping. Wake: executor and writers go
on, and each dirty slot is taken in the end, which the lane's FIFO order ensures.
Replacement: a running client or starting host goes on, and a missing host is started
again, as the desktop does whenever it finds none. Handoff (`stuck_drain`): attempts
go on and are begun again, sessions are closed, a retiring host leaves and a missing
one is started.

## 4. Theorems

All are proved for every value of the constants under the assumptions declared
with them (`KindsAssumption`, `DurationsAssumption`, `BoundsAssumption`,
`SpecialistsAssumption`, `TasksAssumption`, `ClosedIsNoSession`,
`ClockAssumption`; `RootIsProcess`, `BoundsAreNatural`; `SubscriptionAssumption`; those of
`ConversationWake`;
`HandoffAssumption`, `ImageAssumption`; `ReplicationAssumption`),
which TLC evaluates in the runs.

* `TypeCorrect`: `Spec => []TypeOK`. `TypeOK` is inductive; the proof has one
  lemma per kind of row write and one group of actions per lemma.
* `LiveRowsAreValid`: `Spec => []LiveRowsPassValidator`. The validator alone is
  not inductive. `RowsInv` adds what the code relies on without checking it: a
  pending row carries no error class, a provider input is on attempt 0 or, while
  dispatching, 1, a hold never leaves pending, and the row of an operation not
  yet accepted is untouched. The argument is per write: claiming, handing back,
  beginning, taking back, postponing, looking up and proving absence each keep
  `LiveRow`, because the times they store are maxima with the times already
  there. It holds for any movement of the clock.
* `OutcomesFinal`: `Spec => OutcomesAreFinal`. Every step moves an operation from
  none to accepted, from accepted to accepted, or from accepted to an outcome
  (`Moves`); it needs `RowsInv` to know that a retired or settled row was live.
* `ProviderDeliveredAtMostOnce`: `Spec => []ProviderAtMostOnce`. Inductive form:
  a permit for an input without outcome is the one its dispatching row speaks of
  (`OncePermit`, `PermitsInv`), so a second permit cannot be issued while the
  first lives, and a hold takes back only a permit that has not crossed. `TornInv`
  adds that a torn permit never crosses and is of an older generation than every other
  permit of its input, since the claim after a deferral is a new generation.
* `LeasesAreExclusive`: `Spec => LiveLeaseIsExclusive`. From `RowsInv` alone: a row that
  waits for a claim or a lookup has no lease (`WaitingRowHasNoLease`), and each other
  write of a generation is guarded by expiry or by the holder's token.
* `RetriesAreProved`: `RetryInv` adds that a release waiting for, or holding, a later
  attempt already has the proof of absence of the attempt before; recovery makes it
  `reconcile_required`, which leaves only through a lookup.
* `FinishedRowsAreValid`, `UncertaintyIsValid`: every step either leaves a row, accepts
  an operation, continues a live row or ends it (`Writes`), and each way of ending it
  stores times that the terminal validator accepts. For outcomes these times are maxima,
  so the clock does not matter. An uncertain row is dated by the clock: the theorem says
  of the step that writes it that a clock at or after the attempt's start is enough,
  whatever the clock did before (finding 2 is a clock below the start).
* `ClosesAreCurrent`: `CloseInv` adds that a task has at most one teardown without an
  outcome, so the one that archives it leaves no other behind.
* `ReleasesHaveOneOperation`: `ReleaseInv` ties the life of a resource to the state of
  its one release in both directions; a released resource keeps its settled release,
  which is why registration cannot make it releasable twice.
* `ArchivedTasksOwnNothing`: `ArchivedOwnsNothing` is inductive beside `RowsInv`. Of the
  steps that change a task only the settling of a close archives it, after
  `HasLiveResources` was evaluated in the same transaction, and no command registers or
  releases a resource of a task that is archived or deleted.
* `ReleaseIsSafe`, `AuthorityIsKept`: `GrantInv` says that authority, an
  authoritative entry and a release exist only over an empty Job of a resumed
  launch, which stays empty because only members spawn, and that the retained
  nonce is the settled one.
* `ClosedIsComplete`, `CompletedStays`: `CompleteInv` records, for each stage of
  the worker, which effects must have happened (`WorkerOK`), and that the journal
  never claims more than has happened, on disk or in the cache (`JournalOK`).
* `ZeroIsKept`: `Spec => [](lateDrains = 0 => ZeroFactIsKept)`, so in every behaviour up
  to the first drain that crosses its deadline (finding 5 is what happens then), with a
  failing monitor and early hints allowed. `ZeroInv` adds why a packet may be dropped: a
  settled entry has its proof or its authority already, and an entry never returns to
  settled from its prior state. An overflowing mailbox keeps the fact by its flag.
* `NeverMisdelivers`, `NeverStale`: corollaries of `Inductive`, `Spec => []IInv`. Neither
  property is inductive, since each speaks of one end of a pipe. `IInv` has ten parts. Four
  are about the host: the shape of the state (`ShapeInv`), an entry is current exactly
  on the output it is bound to and has admitted everything unless it is being caught up
  (`RegistryInv`), a registration under way has no entries yet (`ControlInv`), and the
  client's output is known, shut down or being registered (`ConnInv`). Two say that ids
  and kinds of frames are where they belong (`FreshInv`, `KindInv`). `RequestInv` is the
  protocol: the client's request is in one of seven places, and job and reply fit the
  phase the caller is in. `ViewInv`: the model is a prefix of the log. `FlowInv` is the
  heart: for the tail of a Ready client, of a page under way and of a frozen replay
  between two pages, inbox and pipe hold exactly the events between what the client has
  and what was written, the durable lane exactly the rest up to what was admitted, both
  in order, and a notice that is being sent names what was written. `CoverInv`: such a
  tail is bound, or a notice is on its way, or the connection is shut down. Each action
  is first restated by what it changes (the `...Cases` lemmas), then each part is kept
  by the executor, by the connection tasks and by the caller.
* `SubscriptionImplementsFeed`: `Spec => ImplementsFeed`. Initial states map to initial
  states; a step keeps the model, gives it up, forgets it, extends it by the next event
  or rebases it (`ModelMoves`), and with `IInv` each of these is a step or a stutter of
  `EventFeed`. The feed has no fairness, so this is the whole refinement.
* `NeverForeign`, `NeverOrphaned`: from `TailsAreOwned`, `Spec => []OwnInv`. Grants are
  allowed; what is claimed is about a client whose own connection presented none
  (finding 6 is one that did). `OwnInv` says that every entry of such a
  connection and every tail on its way is of the id the client holds, of an id it
  retired, or of the one its unanswered open made; it needs that a release that was
  answered has left no entry, that a reply to a release is never a refusal, and that a
  registration moves tails only to the connection that presented the grant. The
  proof of `NeverOrphaned` does not use that the host is idle: the property also holds
  while the host has work.
* `WakeTypeCorrect`, `WatchCountsAreExact`, `WakesAreNotLost`, `NoticesAreNotLost`,
  `NoticesAreNews`: corollaries of `WakeInvariant`, `Spec => []WakeInv`. None of the
  five is inductive alone. Their strengthening says who owns what between two
  critical sections: names are used once (`NamesOK`), the executor's opening and
  fan-out hold exactly what they took (`ExecOK`, `FanOK`, `BoardOK`), slots belong to
  the connection of their subscription and are listed, in flight or idle (`OwnerOK`,
  `PendingOK`, `SlotOK`, `IdleOK`, `InflightOK`, `HoldsOK`), a lane with a listed slot
  has its token or an awake writer (`TokenOK`), an output stays within its share
  (`RoomOK`), and the marked records a subscription was not told of are on the board, in an
  opening, in a fan-out or in its slot (`OnItsWay`), also when an opening or a fan-out
  reads past them to an unmarked record. The counting argument of the watch counts
  uses the finite-set theorems of the library.
* `InstallExclusive`, `RetirementIsIdle`, `InstallerKeepsToken`: corollaries of
  `HandoffInvariant`. A host that is up, and a client that has joined, own the profile
  lock (`LockOK`), so the two exclude each other and so do two installers. An arm of the
  running boot means that its executor takes no more requests (`ArmOK`), so there is no
  second one. A token is held from the reply and remembered from its acceptance
  (`TokenOK`).
* `ImageIsRecoverable`, `BackupIsKept`, `ServedImageIsKept`: corollaries of
  `ReplacementInvariant`, with crashes inside the journal's write and unlinks that fail.
  `Recoverable` says that a prepared or committed replacement can be undone or finished,
  and that a stranded one (finding 8) has replaced nothing. It is strengthened by the holders of the update lock and of the profile
  lock at every step (`LocksOK`) and by what client and host know of the files since
  they took them (`ClientOK`, `HostOK`). The old client that may roll back and a host
  that starts hold different locks; `HostVersionOK` says that a host whose image was
  rolled back under it is of the version that is gone. `FilesOK` adds that the old
  image of a readable journal has finished, which is why a rollback needs no older backup.
* `OldPairStays`, `NewHostIsMarked`: corollaries of `PairInvariant`, with crashes and
  torn stage markers allowed. A crash during the rollback may leave the new host beside
  the old client; `PairExeOK` says that is the only way the two differ under a serving
  host, and that the marker names the target from its write until a host clears it
  (`PairMarkerOK`). `InstallerOK` gives what is installed and backed up at each step.
* `DeltasAreOrdered`: every action leaves the log alone, appends the delta of the
  next sequence, takes a sequence without a delta, or begins a generation with an empty
  log (`LogStep`); that an exit is one delta needs that at most one exit waits to be
  drained (`LogShape`).
* `RowsStayCurrent`: `Spec => []RowsAreCurrent`, with resizes either way and scrolls. The
  inductive invariant `RowsInv` is `LogInv`, the shape of the state (`Shape`), that a
  generation is replaced only by a greater one (`OpOK`), that nothing sent, retained or
  shown is ahead of the service (`PastOK`), and that some sequence `w` with rows `r` is
  the newest taken for a screen (`RecordedAt`). A snapshot shows the live grid under an
  older sequence, and deltas may be lost, repeated and reordered, so what a replica shows
  is compared with `r`, not with the grid: the grid has the rows `r` or a delta is still
  due (`Unsettled`: the reader has not notified, the queue or the operation holds
  notifications, a resize is not recorded, or the generation is over), deltas after `w`
  carry no rows, the one at `w` carries `r` unless the log is truncated (and then it is
  never sent), and whoever is at `w` or beyond covers `r` or a delta is due. A step waits
  for the delta that is due (`Waits`), takes the next sequence for the screen with or
  without a delta (`Advances`; then `w` is that sequence, which no replica has reached),
  begins a generation, or concerns only the clients (`Still`).

The inductive invariants of the handoff and of the replacements were first checked with
TLC, also as initial predicates of small instances, which checks that they are inductive.

Only model-checked, not proved: the liveness properties (`InterruptedInputConverges`,
`StaleInputConverges`, `CloseConverges`, `Converges`, `EventuallyTold`, `Settles`), which
rest on fairness and ENABLED. The type
invariants of the handoff and of the replacements are parts of the invariants proved;
those of the feed, the replica and the teardown are stated in their modules and hold in
the runs' instances, where they can be added as an INVARIANT.

Some properties are stated as weakly as the code makes them true, and the stronger form is
violated (section 6): `UncertaintyPassesValidator` needs a clock at or after the
attempt's start, `ProviderAtMostOnce` admits torn writes of earlier generations,
`StaleInputConverges` speaks of sessions that stay bound, `NoForeignFrame` and
`NoOrphanTail` of connections that presented no grant, `NoLostNotice` and `EventuallyTold`
of marked records, `Recoverable` and `Settles` admit a stranded journal over an untouched
image, and `RowsAreCurrent` admits rows below the screen. `ZeroFactIsKept` holds up to the
first late drain; `teardown_retry` therefore has none.

## 5. Not modelled

Command receipts and the replay of repeated commands; the three-transaction form
of `settle_next_resource_release` as one procedure (its transactions are separate
actions here, and reconciliation has no caller in `src/`, so no convergence of an
interrupted release is claimed); teardown batches, joins, the executor's queue
and the owner's Drop; registration over an old generation; the projector, purge,
the host's quit, the services supervisor, connect; what section 2 leaves out of each
module. Checking for, downloading and verifying updates. Platform calls, codecs,
cryptography, rendering and wrappers around external programs are outside what TLC
can say anything about. RECURSIVE operators are not
used; the one recursive function (`Picked`, the retained part of a queue) is reasoned
about with an induction over its length (`NatSetInduction`, from well-foundedness).

## 6. Findings

Of a listed run:

1. `stuck_drain`: once `PrepareUpdate` has succeeded the gate stops new launches, no
   path of the client's attempt sends `AbortUpdateHandoff`, and `begin_inspect`
   (`updater/handoff.rs:302`) refuses a later attempt, also when the token has expired.
   The plan of phase 2
   (`docs/superpowers/plans/2026-08-04-phase-02-host-ipc-lifecycle.md:186`) wants it to
   "remain recoverable if the installer/new host never completes". Only a restart of
   the host ends it.

Reproduced by the configuration of the same name, with its module and property:

2. `ClockRollback` (`KernelDispatchProperties`, `UncertainRowsPassValidator`): an
   uncertain attempt is dated without regard to the time it was started
   (`kernel/command_bus.rs:5266`), so a clock set back between begin and recovery
   produces a row that `validate_terminal_outbox_dispatch_metadata` calls corrupt ("both
   durable clocks must still precede uncertainty/finality", `kernel/command_bus.rs:9537`).
3. `OpenSpecialist` (`KernelDispatchProperties`, `ArchiveReplays`): `require_archive`
   (`kernel/projector.rs:1991`) accepts the archive of a task whose specialist session
   is open; `apply_into` (`domain/event.rs:2573`) refuses to replay it.
4. `ClosedSession` (`KernelDispatchProperties`, `EveryStaleInputConverges`): an input whose
   session was closed or rebound is not retired when the epoch advances, because the
   fence reports the closed session or the moved identity first
   (`kernel/command_bus.rs:6672`, `:6675`) and neither is permanent (`:5684`); the lane
   re-examines it at every tick, which the comment at `kernel/store.rs:631` says must
   not happen.
5. `LateDrain` (`TerminalTeardown`, `ZeroFactIsKept`): `drain_completion_messages_until`
   (`process/job.rs:899`) drops what it drained when the deadline passes, the zero packet
   included, against the comment at `process/registry.rs:1362`. No later close succeeds.
6. `ForeignTail` (`EventSubscriptionProperties`, `NoForeignFrameAtAll`): a reconnect whose
   registration overtakes the unregistration of the old output moves the old live tail
   to the new connection (`host/connection.rs:1897`), though the client has forgotten it
   (`client/fleet.rs:2903`). Its frames force a resync at every event until the entry is
   reaped; the comment at `client/connection.rs:339` speaks of not "allowing an old tail
   to poison a replacement generation".
7. `UngatedLaunch` (`UpdateHandoff`, `LaunchesAreRefused`): the cockpit queries that open
   a browser or a shell (`host/connection.rs:5187`, `:5454`) do not ask the gate, though
   `updater/handoff.rs:1443` says "New task/resource/provider/browser launches are refused
   while draining or installing." `RetiresIdle` still holds, by the arm's own check.
8. `TornJournal` (`ImageReplacement`, `AlwaysRecoverable`): the journal is created and then
   written in place (`updater/appimage.rs:382`); a crash between the two leaves one that
   stops every later start ("Corrupt AppImage replacement journal; recovery stopped.",
   `:538`), although the image was never touched.
9. `MixedPair` (`BinaryReplacement`, `AtomicPair`): `updater/replace.rs:3` says "as one
   atomic pair. Failure or interruption restores both backups", but `recover_interrupted`
   runs only from the Drop of the installing process. A client that dies between the two
   replacements leaves a mixed pair that nothing rolls back.
10. `StrandedMarker` (`BinaryReplacement`, `HostCanStart`): a failed commit is rolled back
   and leaves the recovery marker (`updater/mod.rs:926`), which stops the old host
   (`bin/devmanager-host.rs:1316`), against "aborts to a retryable Ready admission"
   (`updater/mod.rs:792`).
11. `ShrunkRows` (`TerminalReplication`, `RowsAreEqual`): `apply_ops`
   (`terminal/replica.rs:184`) extends the replica's rows and never shortens them, so after
   a shrink the old bottom rows stay at the host's sequence, against the comment at `:190`
   and the test at `tests/terminal_replication.rs:97`.
12. `StaleCursor` (`TerminalReplication`, `AttributesAreCurrent`): a snapshot shows the live
   grid under the sequence of the last delta (`terminal/service.rs:682`) and leaves
   `last_cursor` alone; when the cursor is back by the time the notification is drained,
   no delta corrects it.
13. `ScrolledReplica` (`TerminalReplication`, `LaggardsAreAnswered`): a scroll
   takes a sequence and records no delta (`terminal/service.rs:1871`). A client that
   has all retained deltas but not that sequence is answered with an empty list of deltas, and the
   service remembers it as current (`:750`-`:767`); the branch for a log that stops short
   (`:756`) is taken only when there is a delta to send. The replica stays at its
   sequence until the next delta, which it refuses as a gap.
14. `TornInput` (`KernelDispatchProperties`, `NoByteTwice`): the first
   `write_provider_bytes` is a `write_all` (`terminal/session.rs:2420`); when it fails,
   with whatever was written before, the failure is reported as before the boundary
   (`services/process_manager.rs:3969`), `hold_disposition` takes the attempt back
   (`providers/dispatch.rs:104`), and the input is written again. The comment at
   `kernel/store.rs:791` says the deferral "must never be used after any provider byte may
   have been written".
15. `UnmarkedRecord` (`ConversationWake`, `EveryRecordIsTold`): `observe_runtime` and
   `observe_native_terminal_mode` (`host/connection.rs:2584`-`:2595`) record on a watched
   conversation without marking the board, though `host/conversation_wake.rs:3` says
   "Producer records once into the semantic journal, then marks a bounded dirty board".
   A client learns of such a record with the next draft, or from its own slow recovery
   heartbeat (`ui/task_workspace/surfaces.rs:22`).

## 7. Plan

Done: kernel dispatch, the teardown of one terminal, the event feed with its
abstract specification, the conversation wake, the update handoff and both
replacements, terminal replication, with the theorems above. Next, in order:

1. `HostQuit`: `host/shutdown.rs` and the cleanup journal of the command bus, the
   fan-out of teardowns on quit, with crash and restart between its writes.
2. `CommandReceipts`: idempotent commands, lost answers, replays and conflicts.
3. `TaskClose`: KernelDispatch composed with teardowns and releases, so that
   archiving a task is tied to its processes being gone; convergence of a close
   and the reconciliation gap.
4. `UpdateHandoff` composed with `UpdateReplacement`, its install step refined by the
   steps on the files.
5. `ProcessRegistry` with several generations and `TeardownBatch` with joins and
   the executor's limits.
6. `ServiceSupervisor` and the epochs of connect.

Abstract specifications worth stating: at-most-once delivery (accepted, then
delivered or not, then an outcome), implemented by KernelDispatch; a close that
is asked for, retried and answered once, implemented by TerminalTeardown.

Theorems worth proving next: the capacities in `SubscriptionTypeOK`; the type invariants of
the teardown and the replica (`ReplicationTypeOK` adds the bounds to `Shape`); that only
scrolls leave a lagging replica without an answer.
