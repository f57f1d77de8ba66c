------------------------ MODULE TerminalReplication ------------------------
(***************************************************************************)
(* One hosted terminal and the replicas of its clients: the reader thread  *)
(* that changes the grid and then notifies (terminal/session.rs), the      *)
(* service that turns notifications into sequenced deltas and answers      *)
(* clients with deltas or a snapshot (terminal/service.rs), and the client *)
(* replica (terminal/replica.rs).                                          *)
(*                                                                         *)
(* The service works under its own lock, so one of its operations runs at  *)
(* a time, but the grid has a different lock: the reader may move it at    *)
(* every step of an operation.  A screen is its rows and one attribute     *)
(* that deltas carry only when it changed; it stands for the cursor, the   *)
(* modes and the title alike.                                              *)
(***************************************************************************)
EXTENDS Integers, Sequences, FiniteSets

CONSTANTS
  Clients,
  Contents,        \* what a row can show
  Heights,         \* numbers of rows the terminal can have
  OpeningHeight,   \* the one it is opened with
  Attributes,      \* cursors, modes, titles
  MaxRetained,     \* MAX_RETAINED_DELTAS
  MaxPending,      \* MAX_PENDING_OUTPUT_CHUNKS
  MaxGeneration,   \* bound on restarts of the process
  MaxChanges,      \* bound on the chunks the process writes, resizes and scrolls
  MaxFlight        \* bound on the updates under way to one client

ASSUME ReplicationAssumption ==
  /\ Contents # {} /\ Attributes # {} /\ OpeningHeight \in Heights /\ Heights \subseteq Nat
  /\ MaxRetained \in Nat \ {0} /\ MaxPending \in Nat /\ MaxGeneration \in Nat \ {0}
  /\ MaxChanges \in Nat /\ MaxFlight \in Nat

NoFence == 0  \* the attachment of a process that is torn down

Rows == UNION {[1..h -> Contents] : h \in Heights}
Screens == [rows : Rows, attr : Attributes]
Blank(h, a) == [rows |-> [i \in 1..h |-> CHOOSE c \in Contents : TRUE], attr |-> a]

VARIABLES
  grid,      \* the screen of the running process, as far as it is scrolled
  reader,    \* the reader thread: idle, or grid changed and not yet notified
  attached,  \* the generation the runtime says it is, or NoFence
  pending,   \* PendingOutputQueue: notifications, and whether they coalesced
  exits,     \* lifecycle events not yet drained
  exited,    \* exit_summary is set
  gen, seq,  \* the service's generation and sequence
  last,      \* the screen of the last recorded delta
  deltas,    \* the retained deltas
  truncated, pressure,
  op,        \* the operation that holds the service's lock
  replica,   \* the client replicas
  wire,      \* updates under way to a client
  outputs, moves

runtime == <<grid, reader, attached, outputs, moves>>
queue == <<pending, exits>>
log == <<gen, seq, last, deltas, truncated, pressure, exited>>
clients == <<replica, wire>>
vars == <<runtime, queue, log, op, clients>>

NoOp == [kind |-> "none"]
EmptyQueue == [count |-> 0, coalesced |-> FALSE]

Init ==
  \E a \in Attributes :
    /\ grid = Blank(OpeningHeight, a) /\ last = grid
    /\ reader = "idle" /\ attached = 1 /\ outputs = 0 /\ moves = 0
    /\ pending = EmptyQueue /\ exits = 0 /\ exited = FALSE
    /\ gen = 1 /\ seq = 0 /\ deltas = <<>> /\ truncated = FALSE /\ pressure = FALSE
    /\ op = NoOp
    /\ replica = [c \in Clients |-> [gen |-> 0, seq |-> 0, rows |-> <<>>, attr |-> a, needs |-> TRUE]]
    /\ wire = [c \in Clients |-> {}]

-----------------------------------------------------------------------------
(* The process and the reader thread *)

\* What the grid may show next without a resize.
Redrawn == {s \in Screens : DOMAIN s.rows = DOMAIN grid.rows}

\* apply_terminal_output_chunk: the bytes reach the grid first.
Output ==
  /\ reader = "idle" /\ attached # NoFence /\ outputs + moves < MaxChanges
  /\ \E s \in Redrawn : s # grid /\ grid' = s
  /\ reader' = "applied" /\ outputs' = outputs + 1
  /\ UNCHANGED <<attached, moves, queue, log, op, clients>>

\* PendingOutputQueue::push
Push == IF pending.coalesced \/ pending.count + 1 > MaxPending
          THEN [count |-> 0, coalesced |-> TRUE]
          ELSE [pending EXCEPT !.count = @ + 1]

\* The service's sink is told after the grid has changed.
Notify ==
  /\ reader = "applied"
  /\ reader' = "idle" /\ pending' = Push
  /\ UNCHANGED <<grid, attached, outputs, moves, exits, log, op, clients>>

\* The child exits and the waiter says so; teardown may then retire the fence.
\* The reader's end of file is an event of the same form and is not repeated.
ChildExits ==
  /\ attached # NoFence /\ exits = 0 /\ ~exited
  /\ exits' = 1
  /\ UNCHANGED <<runtime, pending, log, op, clients>>

RetireFence ==
  /\ attached # NoFence /\ (exits > 0 \/ exited) /\ reader = "idle"
  /\ attached' = NoFence
  /\ UNCHANGED <<grid, reader, outputs, moves, queue, log, op, clients>>

\* restart_command: the process is restarted behind the same runtime, with a
\* blank grid of the same height and a greater generation.
Restart ==
  /\ reader = "idle" /\ attached \in {gen, NoFence} /\ gen < MaxGeneration
  /\ attached' = gen + 1 /\ grid' = Blank(Len(grid.rows), last.attr)
  /\ UNCHANGED <<reader, outputs, moves, queue, log, op, clients>>

-----------------------------------------------------------------------------
(* Deltas *)

Newest(s) == IF Len(s) > MaxRetained THEN Tail(s) ELSE s

\* A part a delta carries is a singleton; a part it leaves alone is empty.
Part(present, value) == IF present THEN {value} ELSE {}
Patched(old, part) == IF part = {} THEN old ELSE CHOOSE value \in part : TRUE

Delta(rows, attr) == [gen |-> gen, seq |-> seq + 1, rows |-> rows, attr |-> attr]

\* record_delta_from_screen, after bump_sequence.  Rows are left out only when
\* the Truncated marker already fills the delta.
RecordDelta(screen, trunc) ==
  /\ seq' = seq + 1 /\ last' = screen
  /\ deltas' = Newest(Append(deltas,
       Delta(Part(~trunc \/ screen.rows # last.rows, screen.rows),
             Part(screen.attr # last.attr, screen.attr))))

\* drain_lifecycle: an exit is a delta of its own.
DrainLifecycle ==
  /\ exits' = 0 /\ exited' = (exited \/ exits > 0)
  /\ seq' = seq + exits
  /\ deltas' = IF exits > 0 THEN Newest(Append(deltas, Delta({}, {}))) ELSE deltas

-----------------------------------------------------------------------------
(* Operations of the service *)

\* verify_attachment, with the exception for a process that has exited
Attached == attached = gen \/ (attached = NoFence /\ (exited \/ exits > 0))

\* drain_attached_output: lifecycle, the fence, then the queue is taken; what it
\* held is what the operation has left to drain.
Begin(request) ==
  /\ op = NoOp
  /\ DrainLifecycle
  /\ IF Attached
       THEN op' = request /\ pending' = EmptyQueue
       ELSE UNCHANGED <<op, pending>>
  /\ UNCHANGED <<runtime, gen, last, truncated, pressure, clients>>

\* One notification, or all coalesced ones, become one delta of what the grid
\* shows now.  When the scrollback is found to exceed its bounds it is cut, which
\* moves a grid that is scrolled into it.
Drain ==
  /\ op # NoOp /\ (op.left > 0 \/ op.coalesced)
  /\ \/ UNCHANGED <<truncated, grid>>
     \/ truncated' = TRUE /\ grid' \in {s \in Redrawn : s # grid => moves > 0}
  /\ RecordDelta(grid, truncated')
  /\ pressure' = (pressure \/ op.coalesced)
  /\ op' = [op EXCEPT !.left = IF @ > 0 THEN @ - 1 ELSE 0, !.coalesced = FALSE]
  /\ UNCHANGED <<reader, attached, outputs, moves, queue, gen, exited, clients>>

Drained(kind) == op # NoOp /\ op.kind = kind /\ op.left = 0 /\ ~op.coalesced

Pump == Begin([kind |-> "pump", left |-> pending.count, coalesced |-> pending.coalesced])

PumpDone ==
  /\ Drained("pump")
  /\ op' = NoOp
  /\ UNCHANGED <<runtime, queue, log, clients>>

\* A client without a usable replica asks for a snapshot, one with a replica
\* for the updates since its position.
Ask(c) ==
  /\ Cardinality(wire[c]) < MaxFlight
  /\ IF replica[c].needs
       THEN Begin([kind |-> "snapshot", client |-> c, clears |-> FALSE,
                   left |-> pending.count, coalesced |-> pending.coalesced])
       ELSE Begin([kind |-> "updates", client |-> c, gen |-> replica[c].gen, since |-> replica[c].seq,
                   left |-> pending.count, coalesced |-> pending.coalesced])

Contiguous ==
  /\ deltas # <<>> /\ op.since + 1 >= Head(deltas).seq
  /\ seq - op.since <= MaxRetained /\ ~truncated /\ ~pressure

\* The retained deltas the client has not seen, and whether they end before the
\* sequence because the last ones were taken without a delta.
Unseen == {deltas[i] : i \in {j \in DOMAIN deltas : deltas[j].seq > op.since}}
StopShort == Unseen # {} /\ deltas[Len(deltas)].seq # seq

Send(c, updates) == wire' = [wire EXCEPT ![c] = @ \cup updates]

\* updates_since once everything is drained
AnswerDeltas ==
  /\ Drained("updates") /\ op.gen = gen
  /\ op.since = seq \/ (op.since < seq /\ Contiguous /\ ~StopShort)
  /\ Send(op.client, Unseen)
  /\ op' = NoOp
  /\ UNCHANGED <<runtime, queue, log, replica>>

\* Anything else is answered with a snapshot, which drains once more.
FallBack ==
  /\ Drained("updates")
  /\ op.gen # gen \/ op.since > seq \/ (op.since < seq /\ (~Contiguous \/ StopShort))
  /\ op' = [kind |-> "snapshot", client |-> op.client,
            clears |-> op.gen = gen /\ op.since <= seq /\ ~Contiguous,
            left |-> pending.count, coalesced |-> pending.coalesced]
  /\ pending' = EmptyQueue /\ DrainLifecycle
  /\ UNCHANGED <<runtime, gen, last, truncated, pressure, clients>>

\* The snapshot shows the grid as it is now under the sequence of the last delta.
AnswerSnapshot ==
  /\ Drained("snapshot")
  /\ Send(op.client, {[gen |-> gen, seq |-> seq, screen |-> grid]})
  /\ pressure' = (pressure /\ ~op.clears) /\ op' = NoOp
  /\ UNCHANGED <<runtime, queue, gen, seq, last, deltas, truncated, exited, replica>>

Resize(h) ==
  /\ outputs + moves < MaxChanges
  /\ Begin([kind |-> "resize", height |-> h,
            left |-> pending.count, coalesced |-> pending.coalesced])

Resized(rows, h) == [i \in 1..h |-> IF i <= Len(rows) THEN rows[i] ELSE CHOOSE c \in Contents : TRUE]

\* The runtime resizes its grid, or refuses a fence that is no longer its own.
ResizeRuntime ==
  /\ Drained("resize")
  /\ \/ /\ attached = gen
        /\ grid' = [grid EXCEPT !.rows = Resized(@, op.height)]
        /\ op' = [op EXCEPT !.kind = "record"] /\ moves' = moves + 1
     \/ op' = NoOp /\ UNCHANGED <<grid, moves>>
  /\ UNCHANGED <<reader, attached, outputs, queue, log, clients>>

\* Mutant: a resize records no delta.
MutRecordResize ==
  /\ Drained("record")
  /\ op' = NoOp
  /\ UNCHANGED <<runtime, queue, log, clients>>

RecordResize ==
  /\ Drained("record")
  /\ RecordDelta(grid, truncated)
  /\ op' = NoOp
  /\ UNCHANGED <<runtime, queue, gen, truncated, pressure, exited, clients>>

\* task_terminal_view_for drains as the pump does; the first view of a generation
\* takes a sequence without a delta.
FirstView ==
  /\ Drained("pump") /\ seq = 0
  /\ seq' = 1
  /\ op' = NoOp
  /\ UNCHANGED <<runtime, queue, gen, last, deltas, truncated, pressure, exited, clients>>

\* scroll_task_terminal_for: the grid moves, or the process is told instead, and
\* a sequence is taken without a delta; or the runtime refuses.
Scroll ==
  /\ outputs + moves < MaxChanges
  /\ Begin([kind |-> "scroll", left |-> pending.count, coalesced |-> pending.coalesced])

ScrollRuntime ==
  /\ Drained("scroll")
  /\ \/ grid' \in Redrawn /\ seq' = seq + 1 /\ moves' = moves + 1
     \/ UNCHANGED <<grid, seq, moves>>
  /\ op' = NoOp
  /\ UNCHANGED <<reader, attached, outputs, queue, gen, last, deltas, truncated, pressure, exited, clients>>

\* replace_generation rebinds the service to the restarted process: the queue
\* is taken, then the screen is read and everything begins anew.
BeginReplace ==
  /\ op = NoOp /\ attached > gen
  /\ DrainLifecycle
  /\ pending' = EmptyQueue /\ op' = [kind |-> "replace", to |-> attached, left |-> 0, coalesced |-> FALSE]
  /\ UNCHANGED <<runtime, gen, last, truncated, pressure, clients>>

\* Mutant: the deltas of the old generation are kept.
MutReplaceGeneration ==
  /\ Drained("replace")
  /\ gen' = op.to /\ seq' = 0 /\ last' = grid
  /\ truncated' = FALSE /\ pressure' = FALSE /\ exited' = FALSE
  /\ op' = NoOp
  /\ UNCHANGED <<runtime, queue, deltas, clients>>

ReplaceGeneration ==
  /\ Drained("replace")
  /\ gen' = op.to /\ seq' = 0 /\ deltas' = <<>> /\ last' = grid
  /\ truncated' = FALSE /\ pressure' = FALSE /\ exited' = FALSE
  /\ op' = NoOp
  /\ UNCHANGED <<runtime, queue, clients>>

-----------------------------------------------------------------------------
(* The client replica *)

IsSnapshot(m) == "screen" \in DOMAIN m

ApplySnapshot(m) ==
  [gen |-> m.gen, seq |-> m.seq, rows |-> m.screen.rows, attr |-> m.screen.attr, needs |-> FALSE]

\* apply_ops: changed rows overwrite the replica's rows from the first one on
\* and extend them where they are too few.
Overwritten(old, new) ==
  [i \in 1..(IF Len(new) > Len(old) THEN Len(new) ELSE Len(old)) |->
     IF i <= Len(new) THEN new[i] ELSE old[i]]

Applied(r, m) ==
  [r EXCEPT !.seq = m.seq,
            !.rows = Overwritten(@, Patched(<<>>, m.rows)),
            !.attr = Patched(@, m.attr)]

\* apply_delta: of this generation and the very next one, or a resync.
ApplyDelta(r, m) ==
  IF ~r.needs /\ m.gen = r.gen /\ m.seq = r.seq + 1 THEN Applied(r, m) ELSE [r EXCEPT !.needs = TRUE]

\* An update arrives, in any order, perhaps again later.
Deliver(c) ==
  \E m \in wire[c] :
    /\ replica' = [replica EXCEPT ![c] = IF IsSnapshot(m) THEN ApplySnapshot(m) ELSE ApplyDelta(@, m)]
    /\ wire' \in {wire, [wire EXCEPT ![c] = @ \ {m}]}
    /\ UNCHANGED <<runtime, queue, log, op>>

Lose(c) ==
  /\ \E m \in wire[c] : wire' = [wire EXCEPT ![c] = @ \ {m}]
  /\ UNCHANGED <<runtime, queue, log, op, replica>>

Next ==
  \/ Output \/ Notify \/ ChildExits \/ RetireFence \/ Restart
  \/ Pump \/ Drain \/ PumpDone \/ AnswerDeltas \/ FallBack \/ AnswerSnapshot
  \/ ResizeRuntime \/ RecordResize \/ FirstView \/ Scroll \/ ScrollRuntime
  \/ BeginReplace \/ ReplaceGeneration
  \/ \E h \in Heights : Resize(h)
  \/ \E c \in Clients : Ask(c) \/ Deliver(c) \/ Lose(c)

Spec == Init /\ [][Next]_vars

-----------------------------------------------------------------------------
(* Properties *)

ReplicationTypeOK ==
  /\ grid \in Screens /\ last \in Screens
  /\ reader \in {"idle", "applied"} /\ attached \in {NoFence} \cup 1..MaxGeneration
  /\ pending.count \in 0..MaxPending /\ exits \in 0..1
  /\ gen \in 1..MaxGeneration /\ seq \in Nat /\ Len(deltas) <= MaxRetained
  /\ \A c \in Clients : replica[c].seq \in Nat /\ replica[c].gen \in 0..MaxGeneration

\* The retained deltas are of the service's generation and in the order of their
\* sequences, none beyond the service's own: what updates_since takes the first
\* and the last of them for, across restarts, exits, dropped deltas and the
\* sequences that views and scrolls take without a delta.
LogIsOrdered ==
  \A i \in DOMAIN deltas :
    /\ deltas[i].gen = gen /\ deltas[i].seq <= seq
    /\ \A j \in DOMAIN deltas : i < j => deltas[i].seq < deltas[j].seq

\* Nothing is under way in the host: every change of the grid is recorded.
Quiet == reader = "idle" /\ pending = EmptyQueue /\ exits = 0 /\ op = NoOp /\ attached = gen

Current(c) == ~replica[c].needs /\ replica[c].gen = gen /\ replica[c].seq = seq

\* Rows that show a screen, perhaps with rows below it.
Covers(rows, screen) ==
  Len(screen) <= Len(rows) /\ \A i \in 1..Len(screen) : rows[i] = screen[i]

\* A replica that is at the host's generation and sequence shows the host's rows,
\* whatever was coalesced, dropped, delayed, repeated or reordered, resized,
\* scrolled or cut.  Rows that a resize took away may stay below them.
RowsAreCurrent == Quiet => \A c \in Clients : Current(c) => Covers(replica[c].rows, grid.rows)

\* The same without rows below them.
RowsAreEqual == Quiet => \A c \in Clients : Current(c) => replica[c].rows = grid.rows

\* A current replica has the host's cursor, modes and title.
AttributesAreCurrent == Quiet => \A c \in Clients : Current(c) => replica[c].attr = grid.attr

\* An answer to a replica behind the host carries a delta.
LaggardsAreAnswered == [][AnswerDeltas /\ op.since < seq => Unseen # {}]_vars

=============================================================================
