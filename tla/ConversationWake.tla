-------------------------- MODULE ConversationWake --------------------------
(***************************************************************************)
(* The wake path of conversation subscriptions: the producers that record    *)
(* into the semantic journal and mark the dirty board                        *)
(* (host/conversation_wake.rs), the executor that opens, fans out, releases   *)
(* and detaches (host/connection.rs), and the ephemeral lane of every        *)
(* connection output with the writer that drains it.                         *)
(*                                                                         *)
(* A conversation is only told that it is dirty, never what changed, so a     *)
(* notice that is lost leaves its reader behind until the next token.  Three  *)
(* kinds of thread meet here: producers hold the journal mutex while they     *)
(* record and mark; the executor takes the board mutex and each lane mutex    *)
(* for one call at a time; a writer holds a lane mutex only to take a notice  *)
(* and to finish it.  Every action below is one such critical section.       *)
(***************************************************************************)
EXTENDS Naturals, FiniteSets

CONSTANTS
    Keys,       \* session keys, one per task
    Subs,       \* subscription ids
    Conns,      \* connection outputs
    PerOutput,  \* MAX_CONVERSATION_SUBSCRIPTIONS_PER_OUTPUT
    NoKey, NoSub, NoConn,
    MaxSeq      \* bound: records of one conversation

ASSUME WakeAssumption ==
    /\ IsFiniteSet(Subs)
    /\ NoKey \notin Keys /\ NoSub \notin Subs /\ NoConn \notin Conns
    /\ PerOutput \in Nat /\ MaxSeq \in Nat

VARIABLES
    journal,    \* latest sequence of every conversation
    announced,  \* latest sequence recorded by a producer that marks the board
    marking,    \* the conversation a producer recorded and has still to mark
    watched,    \* DirtyInner::watched, the reference counts
    dirty,      \* DirtyInner::dirty, 0 when absent
    edge,       \* whether the executor's watch receiver has a change to see
    freed,      \* whether the capacity Notify stores a permit
    exec,       \* what the executor is in the middle of
    outputs,    \* outputs the executor knows
    stage,      \* "new", "open" or "gone" for every subscription id
    keyOf,      \* session key and connection of a subscription
    connOf,
    notified,   \* last_notified_high_water
    slot,       \* EphemeralSlot of a subscription's key in its connection's lane
    pending,    \* keys pending in the lanes
    shut,       \* whether the lane of an output is shut down
    writer,     \* the notice the writer of an output has taken
    parked,     \* whether that writer sleeps in recv_prioritized
    token,      \* whether its wake channel holds a token
    told        \* highest sequence the client of a subscription was told of

board == <<watched, dirty, edge>>
lanes == <<slot, pending, shut, writer, parked, token>>
names == <<stage, keyOf, connOf>>
vars == <<journal, announced, marking, board, freed, exec, outputs, names, notified, lanes, told>>

Empty == [phase |-> "none", rev |-> 0, hw |-> 0]
NoWrite == [sub |-> NoSub, rev |-> 0, msg |-> 0]
Idle == [op |-> "idle", sub |-> NoSub, conn |-> NoConn, key |-> NoKey, hw |-> 0,
         ok |-> TRUE, todo |-> [k \in Keys |-> 0]]

Init ==
    /\ journal = [k \in Keys |-> 0]
    /\ announced = [k \in Keys |-> 0]
    /\ marking = NoKey
    /\ watched = [k \in Keys |-> 0]
    /\ dirty = [k \in Keys |-> 0]
    /\ edge = FALSE /\ freed = FALSE
    /\ exec = Idle
    /\ outputs = Conns
    /\ stage = [s \in Subs |-> "new"]
    /\ keyOf = [s \in Subs |-> NoKey]
    /\ connOf = [s \in Subs |-> NoConn]
    /\ notified = [s \in Subs |-> 0]
    /\ slot = [s \in Subs |-> Empty]
    /\ pending = {}
    /\ shut = [c \in Conns |-> FALSE]
    /\ writer = [c \in Conns |-> NoWrite]
    /\ parked = [c \in Conns |-> FALSE]
    /\ token = [c \in Conns |-> FALSE]
    /\ told = [s \in Subs |-> 0]

Larger(a, b) == IF a >= b THEN a ELSE b

-----------------------------------------------------------------------------
(* Producers.                                                                *)

\* A semantic draft of a provider.  The journal mutex is held from here to the end
\* of Mark.
Record(k) ==
    /\ marking = NoKey
    /\ journal[k] < MaxSeq
    /\ journal' = [journal EXCEPT ![k] = @ + 1]
    /\ announced' = [announced EXCEPT ![k] = journal'[k]]
    /\ marking' = k
    /\ UNCHANGED <<board, freed, exec, outputs, names, notified, lanes, told>>

\* observe_runtime, observe_output and observe_native_terminal_mode record a
\* status, output or terminal-mode event and leave the board alone.
Observe(k) ==
    /\ marking = NoKey
    /\ journal[k] < MaxSeq
    /\ journal' = [journal EXCEPT ![k] = @ + 1]
    /\ UNCHANGED <<announced, marking, board, freed, exec, outputs, names, notified, lanes, told>>

\* SemanticDirtyBoard::mark: a mark of an unwatched key is dropped.
Mark ==
    /\ marking # NoKey
    /\ LET k == marking IN
         IF watched[k] = 0 THEN UNCHANGED board
         ELSE /\ dirty' = [dirty EXCEPT ![k] = Larger(@, journal[k])]
              /\ edge' = (edge \/ dirty[k] = 0 \/ journal[k] > dirty[k])
              /\ UNCHANGED watched
    /\ marking' = NoKey
    /\ UNCHANGED <<journal, announced, freed, exec, outputs, names, notified, lanes, told>>

-----------------------------------------------------------------------------
(* The ephemeral lane.                                                       *)

\* EphemeralLaneInner::admit of a reserved key, then wake_ephemeral.  A slot that
\* is in flight is only made dirty; its writer queues it again.
Admitted(e, h) ==
    [phase |-> IF e.phase = "none" THEN "queued" ELSE e.phase, rev |-> e.rev + 1, hw |-> h]

Wakes(s) == slot[s].phase = "none" \/ (slot[s].phase = "queued" /\ s \notin pending)

\* try_admit_conversation_dirty for a set of subscriptions whose outputs live.
AdmitAll(S, h) ==
    /\ slot' = [s \in Subs |-> IF s \in S THEN Admitted(slot[s], h) ELSE slot[s]]
    /\ pending' = pending \cup {s \in S : Wakes(s)}
    /\ token' = [c \in Conns |-> token[c] \/ \E s \in S : connOf[s] = c /\ Wakes(s)]
    /\ notified' = [s \in Subs |-> IF s \in S THEN Larger(notified[s], h) ELSE notified[s]]

\* release_reserved_key: whether a slot was there decides on the capacity notice.
RemoveKey(s) ==
    /\ slot' = [slot EXCEPT ![s] = Empty]
    /\ pending' = pending \ {s}
    /\ freed' = (freed \/ slot[s].phase # "none")

\* request_shutdown: the lane is cleared and the writer woken.
ShutLane(c) ==
    /\ slot' = [s \in Subs |-> IF connOf[s] = c THEN Empty ELSE slot[s]]
    /\ pending' = {s \in pending : connOf[s] # c}
    /\ shut' = [shut EXCEPT ![c] = TRUE]
    /\ token' = [token EXCEPT ![c] = TRUE]

\* take_ephemeral_outbound: the materializer finds its generation invalidated
\* when the subscription is gone, and then there is nothing to write.
Take(c, s) ==
    /\ writer[c] = NoWrite /\ ~parked[c] /\ ~shut[c]
    /\ s \in pending /\ connOf[s] = c
    /\ pending' = pending \ {s}
    /\ slot' = [slot EXCEPT ![s].phase = "inflight"]
    /\ writer' = [writer EXCEPT ![c] =
                    [sub |-> s, rev |-> slot[s].rev,
                     msg |-> IF stage[s] = "open" THEN slot[s].hw ELSE 0]]
    /\ UNCHANGED <<journal, announced, marking, board, freed, exec, outputs, names, notified,
                   shut, parked, token, told>>

\* Mutant: a notice made dirty in flight is queued but not pending.
FinishKeyUnlisted(s, r) ==
    IF slot[s].phase # "inflight"
    THEN UNCHANGED <<slot, pending, freed>>
    ELSE IF slot[s].rev > r
    THEN slot' = [slot EXCEPT ![s].phase = "queued"] /\ UNCHANGED <<pending, freed>>
    ELSE RemoveKey(s)

\* Mutant: a finished notice always frees its slot.
FinishKeyForgetting(s, r) ==
    IF slot[s].phase # "inflight"
    THEN UNCHANGED <<slot, pending, freed>>
    ELSE RemoveKey(s)

\* EphemeralLaneInner::finish: queue the key again when it was made dirty since
\* it was taken, else free it.
FinishKey(s, r) ==
    IF slot[s].phase # "inflight"
    THEN UNCHANGED <<slot, pending, freed>>
    ELSE IF slot[s].rev > r
    THEN /\ slot' = [slot EXCEPT ![s].phase = "queued"]
         /\ pending' = pending \cup {s}
         /\ UNCHANGED freed
    ELSE RemoveKey(s)

\* The write returned, or there was nothing to write: the client is told and
\* release_or_requeue runs.
Finish(c) ==
    LET w == writer[c] IN
    /\ w.sub # NoSub
    /\ told' = IF w.msg = 0 THEN told ELSE [told EXCEPT ![w.sub] = w.msg]
    /\ IF shut[c] THEN UNCHANGED <<slot, pending, freed, token>>
       ELSE /\ FinishKey(w.sub, w.rev)
            /\ token' = [token EXCEPT ![c] = @ \/ pending' # pending]
    /\ writer' = [writer EXCEPT ![c] = NoWrite]
    /\ UNCHANGED <<journal, announced, marking, board, exec, outputs, names, notified, shut, parked>>

\* recv_prioritized finds nothing pending and sleeps until a token arrives.
Park(c) ==
    /\ writer[c] = NoWrite /\ ~parked[c] /\ ~shut[c]
    /\ \A s \in pending : connOf[s] # c
    /\ parked' = [parked EXCEPT ![c] = TRUE]
    /\ UNCHANGED <<journal, announced, marking, board, freed, exec, outputs, names, notified,
                   slot, pending, shut, writer, token, told>>

Wake(c) ==
    /\ parked[c] /\ token[c]
    /\ parked' = [parked EXCEPT ![c] = FALSE]
    /\ token' = [token EXCEPT ![c] = FALSE]
    /\ UNCHANGED <<journal, announced, marking, board, freed, exec, outputs, names, notified,
                   slot, pending, shut, writer, told>>

\* The connection dies: its write fails or its registration is dropped.
Shutdown(c) ==
    /\ ~shut[c]
    /\ ShutLane(c)
    /\ writer' = [writer EXCEPT ![c] = NoWrite]
    /\ UNCHANGED <<journal, announced, marking, board, freed, exec, outputs, names, notified,
                   parked, told>>

-----------------------------------------------------------------------------
(* The executor: open, fan out, release, detach.                             *)

Live(s) == stage[s] = "open"
OnOutput(c) == {s \in Subs : Live(s) /\ connOf[s] = c}

\* prepare_insert.
HasRoom(c) == Cardinality(OnOutput(c)) < PerOutput

\* serve_open_conversation_subscription up to track.  A fresh SubscriptionId is
\* drawn later; it is chosen here.
Open(s, k, c) ==
    /\ exec.op = "idle" /\ stage[s] = "new"
    /\ c \in outputs /\ HasRoom(c)
    /\ watched' = [watched EXCEPT ![k] = @ + 1]
    /\ exec' = [exec EXCEPT !.op = "capture", !.sub = s, !.key = k, !.conn = c]
    /\ keyOf' = [keyOf EXCEPT ![s] = k]
    /\ connOf' = [connOf EXCEPT ![s] = c]
    /\ UNCHANGED <<journal, announced, marking, dirty, edge, freed, outputs, stage, notified, lanes, told>>

\* SemanticDirtyBoard::untrack: the last subscriber takes the mark with it.
Untrack(k) ==
    /\ watched' = [watched EXCEPT ![k] = IF @ = 0 THEN 0 ELSE @ - 1]
    /\ dirty' = IF watched[k] <= 1 THEN [dirty EXCEPT ![k] = 0] ELSE dirty
    /\ UNCHANGED edge

\* Mutant: the refused open keeps its watch.
CaptureFailsTracked ==
    /\ exec.op = "capture"
    /\ stage' = [stage EXCEPT ![exec.sub] = "gone"]
    /\ exec' = Idle
    /\ UNCHANGED <<journal, announced, marking, board, freed, outputs, keyOf, connOf, notified, lanes, told>>

\* The page is refused: untrack and answer.
CaptureFails ==
    /\ exec.op = "capture"
    /\ Untrack(exec.key)
    /\ stage' = [stage EXCEPT ![exec.sub] = "gone"]
    /\ exec' = Idle
    /\ UNCHANGED <<journal, announced, marking, freed, outputs, keyOf, connOf, notified, lanes, told>>

\* serve_conversation reads the page under the journal mutex; the entry is
\* inserted with its high-water and its key reserved.
Capture ==
    LET s == exec.sub IN
    /\ exec.op = "capture" /\ marking = NoKey
    /\ stage' = [stage EXCEPT ![s] = "open"]
    /\ notified' = [notified EXCEPT ![s] = journal[exec.key]]
    /\ told' = [told EXCEPT ![s] = journal[exec.key]]
    /\ exec' = [exec EXCEPT !.op = "metadata"]
    /\ UNCHANGED <<journal, announced, marking, board, freed, outputs, keyOf, connOf, lanes>>

\* The journal's latest sequence is read again.
Metadata ==
    /\ exec.op = "metadata" /\ marking = NoKey
    /\ exec' = [exec EXCEPT !.op = "catch up", !.hw = journal[exec.key]]
    /\ UNCHANGED <<journal, announced, marking, board, freed, outputs, names, notified, lanes, told>>

\* The snapshot of the dirty board that fan_out_conversation_dirty works through.
FanOut == [Idle EXCEPT !.op = "fan",
                       !.todo = [k \in Keys |-> IF watched[k] > 0 THEN dirty[k] ELSE 0]]

\* race_catch_up_high_water: tell the subscription what happened since its page.
CatchUp ==
    LET s == exec.sub
        high == Larger(Larger(notified[s], dirty[exec.key]), exec.hw)
    IN
    /\ exec.op = "catch up"
    /\ IF high > notified[s] /\ ~shut[exec.conn]
       THEN AdmitAll({s}, high)
       ELSE UNCHANGED <<slot, pending, token, notified>>
    /\ exec' = [Idle EXCEPT !.op = "snapshot"]
    /\ UNCHANGED <<journal, announced, marking, board, freed, outputs, names, shut, writer, parked, told>>

\* The executor starts a fan-out: after an open, on a change of the board, or on
\* a freed slot.
StartFanOut ==
    /\ \/ exec.op = "snapshot" /\ UNCHANGED <<edge, freed>>
       \/ exec.op = "idle" /\ edge /\ edge' = FALSE /\ UNCHANGED freed
       \/ exec.op = "idle" /\ freed /\ freed' = FALSE /\ UNCHANGED edge
    /\ exec' = FanOut
    /\ UNCHANGED <<journal, announced, marking, watched, dirty, outputs, names, notified, lanes, told>>

\* Mutant: subscriptions that were told are notified again.
TargetsAgain(k, h) == {s \in Subs : Live(s) /\ keyOf[s] = k /\ notified[s] <= h}

Targets(k, h) == {s \in Subs : Live(s) /\ keyOf[s] = k /\ notified[s] < h}
Reachable(s) == connOf[s] \in outputs /\ ~shut[connOf[s]]

\* One key of the snapshot: every subscription that has not been told.
FanKey(k) ==
    LET h == exec.todo[k]
        targets == Targets(k, h)
    IN
    /\ exec.op = "fan" /\ exec.key = NoKey /\ h > 0
    /\ AdmitAll({s \in targets : Reachable(s)}, h)
    /\ exec' = [exec EXCEPT !.key = k, !.hw = h, !.ok = \A s \in targets : Reachable(s)]
    /\ UNCHANGED <<journal, announced, marking, board, freed, outputs, names, shut, writer, parked, told>>

\* Mutant: the mark is removed without looking at it again.
ClearKeyBlindly ==
    /\ exec.op = "fan" /\ exec.key # NoKey
    /\ dirty' = IF exec.ok THEN [dirty EXCEPT ![exec.key] = 0] ELSE dirty
    /\ exec' = [exec EXCEPT !.key = NoKey, !.hw = 0, !.ok = TRUE, !.todo[exec.key] = 0]
    /\ UNCHANGED <<journal, announced, marking, watched, edge, freed, outputs, names, notified, lanes, told>>

\* clear_if_at_most, only when every target was reached.
ClearKey ==
    /\ exec.op = "fan" /\ exec.key # NoKey
    /\ dirty' = IF exec.ok /\ dirty[exec.key] <= exec.hw
                THEN [dirty EXCEPT ![exec.key] = 0] ELSE dirty
    /\ exec' = [exec EXCEPT !.key = NoKey, !.hw = 0, !.ok = TRUE, !.todo[exec.key] = 0]
    /\ UNCHANGED <<journal, announced, marking, watched, edge, freed, outputs, names, notified, lanes, told>>

EndFanOut ==
    /\ exec.op = "fan" /\ exec.todo = [k \in Keys |-> 0]
    /\ exec' = Idle
    /\ UNCHANGED <<journal, announced, marking, board, freed, outputs, names, notified, lanes, told>>

\* The registry forgets a subscription, untracks its key and frees its slot.
Remove(s) ==
    /\ stage' = [stage EXCEPT ![s] = "gone"]
    /\ Untrack(keyOf[s])
    /\ RemoveKey(s)
    /\ UNCHANGED <<journal, announced, marking, keyOf, connOf, notified, shut, writer, parked, token, told>>

\* serve_release_conversation_subscription.
Release(s) ==
    /\ exec.op = "idle" /\ Live(s)
    /\ Remove(s)
    /\ UNCHANGED <<exec, outputs>>

\* detach_output, rebind_connection and reap_shutdown_outputs.
Detach(c) ==
    /\ exec.op = "idle" /\ c \in outputs
    /\ outputs' = outputs \ {c}
    /\ exec' = [exec EXCEPT !.op = "detach", !.conn = c]
    /\ UNCHANGED <<journal, announced, marking, board, freed, names, notified, lanes, told>>

\* invalidate_conversation_subscriptions_for_output, one subscription at a time.
DetachOne(s) ==
    /\ exec.op = "detach" /\ Live(s) /\ connOf[s] = exec.conn
    /\ Remove(s)
    /\ UNCHANGED <<exec, outputs>>

Detached ==
    /\ exec.op = "detach" /\ OnOutput(exec.conn) = {}
    /\ ShutLane(exec.conn)
    /\ exec' = Idle
    /\ UNCHANGED <<journal, announced, marking, board, freed, outputs, names, notified, writer,
                   parked, told>>

-----------------------------------------------------------------------------
Executor ==
    \/ \E s \in Subs, k \in Keys, c \in Conns : Open(s, k, c)
    \/ CaptureFails \/ Capture \/ Metadata \/ CatchUp
    \/ StartFanOut \/ ClearKey \/ EndFanOut
    \/ \E k \in Keys : FanKey(k)
    \/ \E s \in Subs : Release(s) \/ DetachOne(s)
    \/ \E c \in Conns : Detach(c)
    \/ Detached

Writers ==
    \E c \in Conns : \/ Finish(c) \/ Park(c) \/ Wake(c) \/ Shutdown(c)
                     \/ \E s \in Subs : Take(c, s)

Next == (\E k \in Keys : Record(k) \/ Observe(k)) \/ Mark \/ Executor \/ Writers

Spec == Init /\ [][Next]_vars

\* A producer that recorded marks; the executor and the writers run when they
\* can.  Nobody has to record, open, release or fail.
Fairness ==
    /\ WF_vars(Mark) /\ WF_vars(Capture) /\ WF_vars(Metadata) /\ WF_vars(CatchUp)
    /\ WF_vars(StartFanOut) /\ WF_vars(ClearKey) /\ WF_vars(EndFanOut) /\ WF_vars(Detached)
    /\ \A k \in Keys : WF_vars(FanKey(k))
    /\ \A s \in Subs : WF_vars(DetachOne(s))
    /\ \A c \in Conns : /\ WF_vars(Finish(c)) /\ WF_vars(Park(c)) /\ WF_vars(Wake(c))
                        /\ \A s \in Subs : WF_vars(Take(c, s))

FairSpec == Spec /\ Fairness

-----------------------------------------------------------------------------
(* Properties.                                                               *)

Slot == [phase : {"none", "queued", "inflight"}, rev : Nat, hw : Nat]
Exec == [op : {"idle", "capture", "metadata", "catch up", "snapshot", "fan", "detach"},
         sub : Subs \cup {NoSub}, conn : Conns \cup {NoConn}, key : Keys \cup {NoKey},
         hw : Nat, ok : BOOLEAN, todo : [Keys -> Nat]]

\* The type invariant, with the cap on the subscriptions of one output.
WakeTypeOK ==
    /\ journal \in [Keys -> Nat] /\ announced \in [Keys -> Nat]
    /\ marking \in Keys \cup {NoKey}
    /\ watched \in [Keys -> Nat] /\ dirty \in [Keys -> Nat]
    /\ edge \in BOOLEAN /\ freed \in BOOLEAN
    /\ exec \in Exec
    /\ outputs \subseteq Conns
    /\ stage \in [Subs -> {"new", "open", "gone"}]
    /\ keyOf \in [Subs -> Keys \cup {NoKey}]
    /\ connOf \in [Subs -> Conns \cup {NoConn}]
    /\ notified \in [Subs -> Nat] /\ told \in [Subs -> Nat]
    /\ slot \in [Subs -> Slot] /\ pending \subseteq Subs
    /\ shut \in [Conns -> BOOLEAN]
    /\ writer \in [Conns -> [sub : Subs \cup {NoSub}, rev : Nat, msg : Nat]]
    /\ parked \in [Conns -> BOOLEAN] /\ token \in [Conns -> BOOLEAN]
    /\ \A c \in Conns : Cardinality(OnOutput(c)) <= PerOutput

\* The reference count of a key is the number of its subscriptions, the one being
\* opened included, on every path that opens, fails, releases or detaches (track,
\* untrack).
Watching(k) == {s \in Subs : keyOf[s] = k /\ (Live(s) \/ (exec.op = "capture" /\ exec.sub = s))}
WatchCountsSubscriptions == \A k \in Keys : watched[k] = Cardinality(Watching(k))

\* A slot is pending exactly when it is queued, so that a notice is neither
\* forgotten nor written twice, and a writer never sleeps on a pending notice
\* without a token in its wake channel (admit, take_pending, finish).
NoLostWake ==
    /\ pending = {s \in Subs : slot[s].phase = "queued"}
    /\ \A c \in Conns : parked[c] /\ (\E s \in pending : connOf[s] = c) => token[c]

\* What the registry counts as notified the client was told, or a slot holds it
\* (note_notified, last_notified_high_water).
NotifiedIsOnItsWay(s) ==
    told[s] = notified[s] \/ (slot[s].phase # "none" /\ slot[s].hw = notified[s])

\* What was announced and a subscription was not notified of is on the board, or
\* about to be marked, and the executor has a reason to look at the board.
RecordIsOnItsWay(s) ==
    LET k == keyOf[s] IN
    announced[k] > notified[s] =>
       \/ marking = k
       \/ /\ dirty[k] = announced[k]
          /\ edge \/ exec.op = "snapshot" \/ (exec.op = "fan" /\ exec.todo[k] = dirty[k])

\* No announced record is lost on its way to a reader whose connection lives:
\* whatever interleaving of record, mark, open, fan-out, clear, take, write and
\* requeue happened, and whatever was recorded without a mark meanwhile, the
\* client was told of the last announced record, or of a later one, or the notice
\* is under way (mark, race_catch_up_high_water, clear_if_at_most, finish).
NoLostNotice ==
    \A s \in Subs : (Live(s) /\ Reachable(s)) =>
                       NotifiedIsOnItsWay(s) /\ RecordIsOnItsWay(s)

\* What a writer is about to write is news to the client: no notice repeats or
\* goes back behind an earlier one or behind the page the client opened with,
\* however often the board is fanned out again (note_notified, finish).
NoticeIsNews ==
    \A c \in Conns : writer[c].msg > 0 => writer[c].msg > told[writer[c].sub]

\* Every reader whose connection lives is eventually told of every announced
\* record, or of a later one.
EventuallyTold ==
    \A s \in Subs : []<>((Live(s) /\ Reachable(s)) => told[s] >= announced[keyOf[s]])

\* The same of every record of the journal.  A status, output or terminal-mode
\* event breaks it: nobody is told before the next provider draft.
EveryRecordIsTold ==
    \A s \in Subs : []<>((Live(s) /\ Reachable(s)) => told[s] = journal[keyOf[s]])
=============================================================================
