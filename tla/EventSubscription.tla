------------------------- MODULE EventSubscription -------------------------
(***************************************************************************)
(* The live event feed between the host and one client: the event replay    *)
(* registry and connection outputs of host/connection.rs, the duplex tasks  *)
(* of host/ipc.rs, the unsolicited inbox of client/connection.rs and the    *)
(* caller-driven subscription of client/subscription.rs.                    *)
(*                                                                         *)
(* The single host executor serves requests, control messages and commits.  *)
(* A commit is fanned out event by event to every live subscription, into   *)
(* the bounded durable lane of the connection the subscription is bound to; *)
(* the connection's writer drains that lane behind the critical lane of     *)
(* replies and resync notices, concurrently with the executor.  The client  *)
(* builds its model from a snapshot, closes the race with a frozen replay    *)
(* and then applies live events in the order its inbox delivers them.       *)
(*                                                                         *)
(* An event is its sequence number.  A connection is a number from 1 and a   *)
(* subscription id a number from 1; 0 stands for "none".                    *)
(***************************************************************************)
EXTENDS Integers, Sequences, FiniteSets

CONSTANTS
    MaxEvents,      \* bound: events the host ever commits
    MaxSubs,        \* bound: subscription ids ever issued
    MaxConns,       \* bound: connections the client ever opens
    Batch,          \* bound: events of one commit
    PageItems,      \* events of one replay page
    RegistryCap,    \* MAX_EVENT_REPLAY_SESSIONS
    CriticalCap,    \* permits of the critical lane
    DurableCap,     \* capacity of the durable lane
    ControlCap,     \* capacity of the executor's control channel
    InboxCap,       \* UNSOLICITED_QUEUE_CAPACITY
    RetiredCap      \* MAX_RETIRED_SUBSCRIPTION_IDS

ASSUME SubscriptionAssumption ==
    /\ {MaxEvents, MaxSubs, MaxConns} \subseteq Nat
    /\ {Batch, PageItems, RegistryCap, CriticalCap, DurableCap, ControlCap,
        InboxCap, RetiredCap} \subseteq Nat \ {0}

VARIABLES
    newest,     \* high-water of the durable event log
    nextSub,    \* next subscription id to issue
    registry,   \* EventReplayRegistry
    streams,    \* LiveStreamState of each binding of a subscription to an output
    exec,       \* what the executor is in the middle of
    jobs,       \* HostRequestJob queue
    control,    \* ExecutorControl queue
    outputs,    \* connection outputs the executor knows
    lane,       \* one ConnectionOutput and its duplex task per connection
    client      \* HostClient, its inbox and its ClientSubscription

vars == <<newest, nextSub, registry, streams, exec, jobs, control, outputs,
          lane, client>>

Sequence == 0 .. MaxEvents
Subs     == 1 .. MaxSubs
Conns    == 1 .. MaxConns

None == [kind |-> "none", sub |-> 0, lo |-> 0, hi |-> 0, end |-> 0]

\* A frame: an event is hi, a resync notice names the last delivered sequence
\* lo and the newest one hi, a page covers lo+1..hi of a replay through end.
Frame(kind, sub, lo, hi, end) ==
    [kind |-> kind, sub |-> sub, lo |-> lo, hi |-> hi, end |-> end]

NoEntry == [scope |-> 0, frozen |-> FALSE, through |-> 0, live |-> 0, admitted |-> 0]
NoModel == [last |-> 0, seqs |-> {}, some |-> FALSE]
Model(last, seqs) == [last |-> last, seqs |-> seqs, some |-> TRUE]

\* The elements of a queue at the positions kept, in their order.
Picked(q, kept) ==
    LET upTo[n \in 0 .. Len(q)] ==
          IF n = 0 THEN <<>>
          ELSE IF n \in kept THEN Append(upTo[n - 1], q[n]) ELSE upTo[n - 1]
    IN  upTo[Len(q)]

\* A queue of frames without those of one subscription.
Without(q, s) == Picked(q, {i \in DOMAIN q : q[i].sub # s})

EmptyLane == [critical |-> <<>>, durable |-> <<>>, writing |-> None, wire |-> <<>>,
              answer |-> None, shutdown |-> FALSE, closed |-> FALSE]
IdleExec == [todo |-> {}, now |-> 0, to |-> 0, reply |-> None]

\* ClientSubscription::new on a fresh connection: a fresh inbox as well.  grant is
\* the earlier connection whose grant this one presented.
FreshClient(c, opened) ==
    [conn |-> c, opened |-> opened, grant |-> 0, phase |-> "idle", got |-> None,
     state |-> "Pending", sub |-> 0, model |-> NoModel, building |-> NoModel,
     seen |-> {}, inbox |-> <<>>, retained |-> <<>>, retired |-> {},
     verdict |-> "ok"]

Init ==
    /\ newest = 0
    /\ nextSub = 1
    /\ registry = [s \in Subs |-> NoEntry]
    /\ streams = [b \in Subs \X Conns |-> [written |-> 0, current |-> FALSE]]
    /\ exec = IdleExec
    /\ jobs = <<>>
    /\ control = <<>>
    /\ outputs = {}
    /\ lane = [c \in Conns |-> EmptyLane]
    /\ client = FreshClient(0, 0)

-----------------------------------------------------------------------------
(* The executor: registry, catch-up and control.                             *)

Entries == {s \in Subs : registry[s].scope # 0}
ExecIdle == exec = IdleExec

Least(a, b) == IF a <= b THEN a ELSE b

\* EventReplayRegistry::remove cancels the stream of the entry it drops.
Cancel(sts, s, c) == IF c = 0 THEN sts ELSE [sts EXCEPT ![<<s, c>>].current = FALSE]
Attach(sts, s, c, base) == [sts EXCEPT ![<<s, c>>] = [written |-> base, current |-> TRUE]]

DropEntry(s) ==
    /\ registry' = [registry EXCEPT ![s] = NoEntry]
    /\ streams' = Cancel(streams, s, registry[s].live)

\* A permit is held from admission until the physical write returns.
CriticalPermits(l) ==
    CriticalCap - Len(l.critical)
      - (IF l.writing.kind \in {"none", "event"} THEN 0 ELSE 1)

\* Mutant: a frame that finds no permit is dropped and the connection lives on.
AdmitCriticalLossy(l, frame) ==
    IF l.shutdown \/ CriticalPermits(l) = 0 THEN l
    ELSE [l EXCEPT !.critical = Append(@, frame)]

\* try_enqueue_critical_outbound: exhaustion shuts this connection down.
AdmitCritical(l, frame) ==
    IF l.shutdown THEN l
    ELSE IF CriticalPermits(l) > 0 THEN [l EXCEPT !.critical = Append(@, frame)]
    ELSE [l EXCEPT !.shutdown = TRUE]

CaughtUp(s) == [exec EXCEPT !.todo = @ \ {s}, !.now = 0]

\* A commit and fan_out_live_durable_events: every live tail has to catch up.
Commit ==
    /\ ExecIdle
    /\ \E n \in 1 .. Batch :
         /\ newest + n <= MaxEvents
         /\ newest' = newest + n
    /\ exec' = [exec EXCEPT !.todo = {s \in Entries : registry[s].live # 0}]
    /\ UNCHANGED <<nextSub, registry, streams, jobs, control, outputs, lane, client>>

\* One event of catch_up_subscription: admit it, or force a resync and drop the
\* entry when the durable lane is full, or drop the entry of a dead output.
CatchUp(s) ==
    /\ s \in exec.todo
    /\ exec.now \in {0, s}
    /\ LET e == registry[s]
           l == lane[e.live]
       IN  \/ /\ e.live \notin outputs \/ l.shutdown
              /\ DropEntry(s)
              /\ exec' = CaughtUp(s)
              /\ UNCHANGED lane
           \/ /\ e.live \in outputs /\ ~l.shutdown /\ e.admitted = newest
              /\ exec' = CaughtUp(s)
              /\ UNCHANGED <<registry, streams, lane>>
           \/ /\ e.live \in outputs /\ ~l.shutdown /\ e.admitted < newest
              /\ Len(l.durable) < DurableCap
              /\ lane' = [lane EXCEPT ![e.live].durable =
                            Append(@, Frame("event", s, 0, e.admitted + 1, 0))]
              /\ registry' = [registry EXCEPT ![s].admitted = @ + 1]
              /\ exec' = [exec EXCEPT !.now = s]
              /\ UNCHANGED streams
           \/ /\ e.live \in outputs /\ ~l.shutdown /\ e.admitted < newest
              /\ Len(l.durable) = DurableCap
              /\ lane' = [lane EXCEPT ![e.live] =
                            AdmitCritical(@, Frame("resync", s, streams[<<s, e.live>>].written,
                                                   newest, 0))]
              /\ DropEntry(s)
              /\ exec' = CaughtUp(s)
    /\ UNCHANGED <<newest, nextSub, jobs, control, outputs, client>>

\* session.page: at most PageItems events of the frozen range.
PageAfter(s, after, through) ==
    Frame("page", s, after, Least(after + PageItems, through), through)

Answer(c, frame, todo) == [todo |-> todo, now |-> 0, to |-> c, reply |-> frame]

\* serve_open_event_replay.  A full registry evicts an inactive frozen entry or
\* fails the connection with Busy.
ServeOpen(c, after) ==
    /\ nextSub <= MaxSubs
    /\ LET full == Cardinality(Entries) >= RegistryCap
           idle == {s \in Entries : registry[s].frozen /\ registry[s].live = 0}
           s == nextSub
           page == PageAfter(s, after, newest)
       IN  \/ /\ full /\ idle = {}
              /\ lane' = [lane EXCEPT ![c].shutdown = TRUE]
              /\ UNCHANGED <<nextSub, registry, streams, exec>>
           \/ \E victim \in IF full THEN idle ELSE {0} :
                /\ registry' =
                     [t \in Subs |->
                        IF t = s
                        THEN [scope |-> c, frozen |-> page.hi < newest, through |-> newest,
                              live |-> c, admitted |-> newest]
                        ELSE IF t = victim THEN NoEntry ELSE registry[t]]
                /\ streams' = Attach(streams, s, c, newest)
                /\ nextSub' = nextSub + 1
                /\ exec' = Answer(c, page, {s})
                /\ UNCHANGED lane

\* bind_live_preserving_admitted: an existing tail on this output keeps its
\* cursor, otherwise a fresh tail starts at the frozen baseline.
BindLive(s, c, frozen) ==
    LET e == registry[s] IN
    IF e.live = c
    THEN /\ registry' = [registry EXCEPT ![s].frozen = frozen]
         /\ UNCHANGED streams
    ELSE /\ registry' = [registry EXCEPT ![s].frozen = frozen, ![s].live = c,
                                         ![s].admitted = e.through]
         /\ streams' = Attach(Cancel(streams, s, e.live), s, c, e.through)

\* serve_continue_event_replay: the last page drops the frozen view and
\* catches the live tail up.
ServeContinue(c, s, cursor) ==
    LET e == registry[s]
        page == PageAfter(s, cursor, e.through)
    IN  \/ /\ e.scope # c \/ ~e.frozen
           /\ exec' = Answer(c, Frame("refused", s, 0, 0, 0), {})
           /\ UNCHANGED <<registry, streams>>
        \/ /\ e.scope = c /\ e.frozen
           /\ BindLive(s, c, page.hi < page.end)
           /\ exec' = Answer(c, page, IF page.hi < page.end THEN {} ELSE {s})

\* Mutant: a release drops the frozen view and leaves the live tail.
ServeReleaseFrozen(c, s) ==
    /\ registry' = [registry EXCEPT ![s].frozen = FALSE]
    /\ exec' = Answer(c, Frame("released", s, 0, 0, 0), {})
    /\ UNCHANGED streams

\* serve_release_event_replay: releasing an unknown entry succeeds.
ServeRelease(c, s) ==
    \/ /\ registry[s].scope \notin {0, c}
       /\ exec' = Answer(c, Frame("refused", s, 0, 0, 0), {})
       /\ UNCHANGED <<registry, streams>>
    \/ /\ registry[s].scope \in {0, c}
       /\ DropEntry(s)
       /\ exec' = Answer(c, Frame("released", s, 0, 0, 0), {})

Registering(c) == \E i \in 1 .. Len(control) :
                     control[i].kind = "register" /\ control[i].conn = c

\* The reader of a connection submits its request once its output is registered.
Serve ==
    /\ ExecIdle /\ jobs # <<>>
    /\ LET j == Head(jobs) IN
       /\ ~Registering(j.conn)
       /\ \/ /\ j.kind = "snapshot"
             /\ exec' = Answer(j.conn, Frame("snapshot", 0, 0, newest, 0), {})
             /\ UNCHANGED <<nextSub, registry, streams, lane>>
          \/ /\ j.kind = "open"
             /\ ServeOpen(j.conn, j.arg)
          \/ /\ j.kind = "continue"
             /\ ServeContinue(j.conn, j.sub, j.arg)
             /\ UNCHANGED <<nextSub, lane>>
          \/ /\ j.kind = "release"
             /\ ServeRelease(j.conn, j.sub)
             /\ UNCHANGED <<nextSub, lane>>
    /\ jobs' = Tail(jobs)
    /\ UNCHANGED <<newest, control, outputs, client>>

\* The executor hands the result to the reader of the connection.
Reply ==
    /\ exec.todo = {} /\ exec.reply # None
    /\ exec' = IdleExec
    /\ lane' = [lane EXCEPT ![exec.to].answer = IF lane[exec.to].closed THEN None ELSE exec.reply]
    /\ UNCHANGED <<newest, nextSub, registry, streams, jobs, control, outputs, client>>

\* remove_for_output: an incomplete frozen replay survives without its tail.
Detached(e, c) ==
    IF e.live # c THEN e ELSE IF e.frozen THEN [e EXCEPT !.live = 0] ELSE NoEntry

Detach(c) ==
    /\ outputs' = outputs \ {c}
    /\ registry' = [s \in Subs |-> Detached(registry[s], c)]
    /\ streams' = [b \in Subs \X Conns |->
                     IF b[2] = c /\ registry[b[1]].live = c
                     THEN [streams[b] EXCEPT !.current = FALSE] ELSE streams[b]]
    /\ lane' = [lane EXCEPT ![c].shutdown = TRUE]

\* rebind_output moves every entry of the old connection to the new one; the
\* new stream starts at the last admitted sequence.
Rebound(e, old, c) ==
    IF old = 0 \/ e.scope # old THEN e
    ELSE [e EXCEPT !.scope = c, !.live = IF e.live = 0 THEN 0 ELSE c]

\* RegisterOutput with rebind_connection; a connection task that no longer waits
\* for the acknowledgement is detached at once.
Register(c, old) ==
    LET moved == {s \in Entries : registry[s].scope = old /\ registry[s].live # 0}
        gone == lane[c].closed
        Kept(e) == IF gone THEN Detached(e, c) ELSE e
    IN
    /\ registry' = [s \in Subs |-> Kept(Rebound(registry[s], old, c))]
    /\ streams' = [b \in Subs \X Conns |->
                     IF b[1] \in moved /\ b[2] = c
                     THEN [written |-> registry[b[1]].admitted, current |-> ~gone]
                     ELSE IF b[1] \in moved /\ b[2] = registry[b[1]].live
                     THEN [streams[b] EXCEPT !.current = FALSE] ELSE streams[b]]
    /\ outputs' = (outputs \ {old}) \cup (IF gone THEN {} ELSE {c})
    /\ lane' = [d \in Conns |-> IF d = old /\ old \in outputs
                                THEN [lane[d] EXCEPT !.shutdown = TRUE] ELSE lane[d]]

\* handle_control.
Control ==
    /\ ExecIdle /\ control # <<>>
    /\ LET m == Head(control) IN
         \/ m.kind = "register" /\ Register(m.conn, m.from)
         \/ m.kind = "unregister" /\ Detach(m.conn)
    /\ control' = Tail(control)
    /\ UNCHANGED <<newest, nextSub, exec, jobs, client>>

\* reap_shutdown_outputs makes up for a lost UnregisterOutput.
ReapOutput(c) ==
    /\ ExecIdle
    /\ c \in outputs /\ lane[c].shutdown
    /\ Detach(c)
    /\ UNCHANGED <<newest, nextSub, exec, jobs, control, client>>

\* reap_idle drops an incomplete frozen replay after its TTL.
Reap(s) ==
    /\ ExecIdle
    /\ registry[s].frozen
    /\ DropEntry(s)
    /\ UNCHANGED <<newest, nextSub, exec, jobs, control, outputs, lane, client>>

-----------------------------------------------------------------------------
(* The duplex task of one connection: reply admission, writer, teardown.     *)

AdmitReply(c) ==
    /\ lane[c].answer # None
    /\ lane' = [lane EXCEPT ![c] = [AdmitCritical(@, @.answer) EXCEPT !.answer = None]]
    /\ UNCHANGED <<newest, nextSub, registry, streams, exec, jobs, control, outputs, client>>

\* Mutant: the baseline stays the one known when the notice was queued.
PreparedEarly(f, c) == f

\* prepare_for_write: a resync notice takes its baseline when it is written.
Prepared(f, c) ==
    IF f.kind = "resync" THEN [f EXCEPT !.lo = streams[<<f.sub, c>>].written] ELSE f

\* recv_prioritized and should_write: critical before durable, and a
\* cancelled durable is skipped.
Take(c) ==
    LET l == lane[c] IN
    /\ l.writing = None /\ ~l.shutdown /\ ~l.closed
    /\ \/ /\ l.critical # <<>>
          /\ lane' = [lane EXCEPT ![c].critical = Tail(@),
                                   ![c].writing = Prepared(Head(l.critical), c)]
       \/ /\ l.critical = <<>> /\ l.durable # <<>>
          /\ LET f == Head(l.durable) IN
             lane' = [lane EXCEPT ![c].durable = Tail(@),
                        ![c].writing = IF streams[<<f.sub, c>>].current THEN f ELSE None]
    /\ UNCHANGED <<newest, nextSub, registry, streams, exec, jobs, control, outputs, client>>

\* The write returns; after_successful_write always records a written event.  A
\* write to a pipe the client has left fails and ends the duplex task.
Written(c) ==
    LET f == lane[c].writing IN
    /\ f # None /\ client.conn = c
    /\ lane' = [lane EXCEPT ![c].writing = None, ![c].wire = Append(@, f)]
    /\ streams' = IF f.kind = "event" /\ f.hi > streams[<<f.sub, c>>].written
                  THEN [streams EXCEPT ![<<f.sub, c>>].written = f.hi] ELSE streams
    /\ UNCHANGED <<newest, nextSub, registry, exec, jobs, control, outputs, client>>

\* supervise_duplex_halves: either half ending drops the registration, if it was
\* acknowledged, whose UnregisterOutput is lost when the control channel is full.
\* A request the reader has not submitted yet is lost with it.
HostDrop(c) ==
    /\ ~lane[c].closed
    /\ lane[c].shutdown \/ (c <= client.opened /\ client.conn # c)
    /\ lane' = [lane EXCEPT ![c] = [EmptyLane EXCEPT !.wire = lane[c].wire,
                                      !.shutdown = TRUE, !.closed = TRUE]]
    /\ control' = IF ~Registering(c) /\ Len(control) < ControlCap
                  THEN Append(control, [kind |-> "unregister", conn |-> c, from |-> 0])
                  ELSE control
    /\ jobs' \in {jobs, Picked(jobs, {i \in DOMAIN jobs : jobs[i].conn # c})}
    /\ UNCHANGED <<newest, nextSub, registry, streams, exec, outputs, client>>

-----------------------------------------------------------------------------
(* The client connection: dispatch, inbox, close and reconnect.              *)

\* The connection object is dropped with its inbox; a pending request fails, and
\* observe_recv_transport_failure leaves Ready.
LeaveConnection ==
    /\ client' = [FreshClient(0, client.opened) EXCEPT !.state = "NeedsResync",
                    !.sub = client.sub, !.model = client.model]
    /\ lane' = [lane EXCEPT ![client.conn].wire = <<>>]

\* dispatch_server_message: a reply completes its waiter; push_durable fences
\* retired ids and fails the connection when the inbox is full.
Dispatch ==
    /\ client.conn # 0
    /\ lane[client.conn].wire # <<>>
    /\ LET f == Head(lane[client.conn].wire) IN
         \/ /\ f.kind \notin {"event", "resync"}
            /\ client' = [client EXCEPT !.got = f]
            /\ lane' = [lane EXCEPT ![client.conn].wire = Tail(@)]
         \/ /\ f.kind \in {"event", "resync"}
            /\ f.sub \in client.retired \/ Len(client.inbox) < InboxCap
            /\ client' = IF f.sub \in client.retired THEN client
                         ELSE [client EXCEPT !.inbox = Append(@, f)]
            /\ lane' = [lane EXCEPT ![client.conn].wire = Tail(@)]
         \/ /\ f.kind \in {"event", "resync"}
            /\ f.sub \notin client.retired /\ Len(client.inbox) = InboxCap
            /\ LeaveConnection
    /\ UNCHANGED <<newest, nextSub, registry, streams, exec, jobs, control, outputs>>

\* A response timeout or the caller's disconnect.
Disconnect ==
    /\ client.conn # 0
    /\ LeaveConnection
    /\ UNCHANGED <<newest, nextSub, registry, streams, exec, jobs, control, outputs>>

\* Mutant: only a caller without a pending request notices the closed pipe.
ReadClosedWhenIdle ==
    /\ client.conn # 0 /\ client.phase = "idle"
    /\ lane[client.conn].closed /\ lane[client.conn].wire = <<>>
    /\ LeaveConnection
    /\ UNCHANGED <<newest, nextSub, registry, streams, exec, jobs, control, outputs>>

\* The reader task meets the end of the pipe: close fails every pending waiter.
ReadClosed ==
    /\ client.conn # 0
    /\ lane[client.conn].closed /\ lane[client.conn].wire = <<>>
    /\ LeaveConnection
    /\ UNCHANGED <<newest, nextSub, registry, streams, exec, jobs, control, outputs>>

\* HostClient::reconnect or a fresh connect, with a new subscription object:
\* begin_reconnect_generation and reconnect_and_synchronize both forget the id.  A
\* reconnect presents the grant of the connection before it, if it is still valid.
Connect ==
    /\ client.conn = 0 /\ client.opened < MaxConns
    /\ Len(control) < ControlCap
    /\ \E from \in {0, client.opened} :
         /\ client' = [FreshClient(client.opened + 1, client.opened + 1) EXCEPT !.grant = from]
         /\ control' = Append(control, [kind |-> "register", conn |-> client.opened + 1,
                                        from |-> from])
    /\ UNCHANGED <<newest, nextSub, registry, streams, exec, jobs, outputs, lane>>

-----------------------------------------------------------------------------
(* ClientSubscription.                                                       *)

Send(kind, sub, arg) ==
    jobs' = Append(jobs, [conn |-> client.conn, kind |-> kind, sub |-> sub, arg |-> arg])

\* synchronize, up to its first request.
Synchronize ==
    /\ client.conn # 0 /\ client.phase = "idle"
    /\ client.state \in {"Pending", "NeedsResync"}
    /\ IF client.sub # 0
       THEN /\ client' = [client EXCEPT !.state = "Pending", !.phase = "releasing"]
            /\ Send("release", client.sub, 0)
       ELSE /\ client' = [client EXCEPT !.state = "Pending", !.phase = "snapshot", !.seen = {}]
            /\ Send("snapshot", 0, 0)
    /\ UNCHANGED <<newest, nextSub, registry, streams, exec, control, outputs, lane>>

\* retire_subscription_id under the inbox mutex: mark, then drain the queue and
\* keep the frames of other ids in the retained lane.
Flood ==
    LET kept == Without(client.retained, client.sub) IN
    \/ client.sub \notin client.retired /\ Cardinality(client.retired) >= RetiredCap
    \/ Len(kept) + Len(client.inbox) > 2 * InboxCap

\* Mutant: the release is not fenced at all.
RetireNothing(cl) == cl

Retire(cl) ==
    [cl EXCEPT !.retired = @ \cup {cl.sub},
               !.retained = Without(cl.retained \o cl.inbox, cl.sub),
               !.inbox = <<>>]

\* release_event_replay with its fence.  A flood retires the connection and
\* keeps the id; a refusal keeps the id too.
Released ==
    /\ client.got.kind \in {"released", "refused"}
    /\ client.phase \in {"releasing", "cleanup", "closing"}
    /\ LET cl == [Retire(client) EXCEPT !.got = None] IN
       \/ /\ Flood
          /\ LeaveConnection
          /\ UNCHANGED jobs
       \/ /\ ~Flood /\ client.got.kind = "refused"
          /\ client' = [cl EXCEPT !.phase = "idle", !.state = "NeedsResync"]
          /\ UNCHANGED <<jobs, lane>>
       \/ /\ ~Flood /\ client.got.kind = "released" /\ client.phase = "releasing"
          /\ client' = [cl EXCEPT !.sub = 0, !.seen = {}, !.phase = "snapshot"]
          /\ Send("snapshot", 0, 0)
          /\ UNCHANGED lane
       \/ /\ ~Flood /\ client.got.kind = "released" /\ client.phase = "cleanup"
          /\ client' = [cl EXCEPT !.sub = 0, !.phase = "idle"]
          /\ UNCHANGED <<jobs, lane>>
       \/ /\ ~Flood /\ client.got.kind = "released" /\ client.phase = "closing"
          /\ client' = [cl EXCEPT !.sub = 0, !.phase = "idle", !.state = "Pending",
                                  !.model = NoModel, !.seen = {}]
          /\ UNCHANGED <<jobs, lane>>
    /\ UNCHANGED <<newest, nextSub, registry, streams, exec, control, outputs>>

\* The snapshot pages are complete: open the replay after their sequence.
SnapshotRead ==
    /\ client.phase = "snapshot" /\ client.got.kind = "snapshot"
    /\ client' = [client EXCEPT !.phase = "replay", !.got = None,
                    !.building = Model(client.got.hi, 1 .. client.got.hi)]
    /\ Send("open", 0, client.got.hi)
    /\ UNCHANGED <<newest, nextSub, registry, streams, exec, control, outputs, lane>>

\* One replay page: apply_replay_page refuses one that does not start where the
\* model ends; then continue with the next page, or become Ready.
ReplayPage ==
    LET p == client.got
        b == Model(p.hi, client.building.seqs \cup (p.lo + 1 .. p.hi))
        cl == [client EXCEPT !.got = None, !.sub = p.sub]
        read == [cl EXCEPT !.seen = @ \cup (p.lo + 1 .. p.hi)]
    IN
    /\ client.phase = "replay" /\ p.kind = "page"
    /\ IF p.lo # client.building.last
       THEN /\ client' = [cl EXCEPT !.phase = "cleanup", !.state = "NeedsResync"]
            /\ Send("release", p.sub, 0)
       ELSE IF p.hi < p.end
       THEN /\ client' = [read EXCEPT !.building = b]
            /\ Send("continue", p.sub, p.hi)
       ELSE /\ client' = [read EXCEPT !.phase = "idle", !.state = "Ready",
                                      !.building = NoModel, !.model = b]
            /\ UNCHANGED jobs
    /\ UNCHANGED <<newest, nextSub, registry, streams, exec, control, outputs, lane>>

\* continue_event_replay is refused: the error path releases what is owned.
ReplayRefused ==
    /\ client.phase = "replay" /\ client.got.kind = "refused"
    /\ client' = [client EXCEPT !.got = None, !.phase = "cleanup", !.state = "NeedsResync"]
    /\ Send("release", client.sub, 0)
    /\ UNCHANGED <<newest, nextSub, registry, streams, exec, control, outputs, lane>>

\* Mutant: a resync notice moves the cursor instead of asking for a snapshot.
HandledSkipping(cl, f) ==
    IF f.sub # cl.sub THEN [cl EXCEPT !.state = "NeedsResync", !.verdict = "foreign"]
    ELSE [cl EXCEPT !.model = Model(f.hi, @.seqs \cup {f.hi}), !.verdict = "ok"]

\* handle_unsolicited_message on one frame, and what it answers the caller.
Handled(cl, f) ==
    LET lost(v) == [cl EXCEPT !.state = "NeedsResync", !.verdict = v] IN
    IF f.sub # cl.sub THEN lost("foreign")
    ELSE IF f.kind = "resync"
    THEN IF f.hi < f.lo \/ f.lo # cl.model.last THEN lost("invalid resync") ELSE lost("resync")
    ELSE IF f.hi \in cl.seen THEN [cl EXCEPT !.verdict = "seen"]
    ELSE IF f.hi <= cl.model.last THEN lost("regression")
    ELSE [cl EXCEPT !.seen = @ \cup {f.hi}, !.verdict = "ok",
                    !.model = Model(f.hi, @.seqs \cup {f.hi})]

\* recv_and_apply: the retained lane comes before the durable lane, and frames
\* of retired ids are dropped.
Receive ==
    /\ client.conn # 0 /\ client.phase = "idle" /\ client.state = "Ready"
    /\ \/ /\ client.retained # <<>>
          /\ LET f == Head(client.retained)
                 cl == [client EXCEPT !.retained = Tail(@)]
             IN  client' = IF f.sub \in client.retired THEN cl ELSE Handled(cl, f)
       \/ /\ client.retained = <<>> /\ client.inbox # <<>>
          /\ LET f == Head(client.inbox)
                 cl == [client EXCEPT !.inbox = Tail(@)]
             IN  client' = IF f.sub \in client.retired THEN cl ELSE Handled(cl, f)
    /\ UNCHANGED <<newest, nextSub, registry, streams, exec, jobs, control, outputs, lane>>

\* The presentation queue found a gap: observe_recv_transport_failure.
Gap ==
    /\ client.conn # 0 /\ client.phase = "idle" /\ client.state = "Ready"
    /\ client' = [client EXCEPT !.state = "NeedsResync"]
    /\ UNCHANGED <<newest, nextSub, registry, streams, exec, jobs, control, outputs, lane>>

\* InboxHostController::retire_subscription: release, then a new object.
Close ==
    /\ client.conn # 0 /\ client.phase = "idle" /\ client.state # "Pending"
    /\ IF client.sub # 0
       THEN /\ client' = [client EXCEPT !.phase = "closing"]
            /\ Send("release", client.sub, 0)
       ELSE /\ client' = [client EXCEPT !.state = "Pending", !.model = NoModel, !.seen = {}]
            /\ UNCHANGED jobs
    /\ UNCHANGED <<newest, nextSub, registry, streams, exec, control, outputs, lane>>

-----------------------------------------------------------------------------
Executor == \/ Commit \/ Serve \/ Reply \/ Control
            \/ \E s \in Subs : CatchUp(s) \/ Reap(s)
            \/ \E c \in Conns : ReapOutput(c)
Duplex   == \E c \in Conns : AdmitReply(c) \/ Take(c) \/ Written(c) \/ HostDrop(c)
Caller   == Dispatch \/ Disconnect \/ ReadClosed \/ Connect \/ Synchronize \/ Released \/ SnapshotRead
              \/ ReplayPage \/ ReplayRefused \/ Receive \/ Gap \/ Close

Next == Executor \/ Duplex \/ Caller

Spec == Init /\ [][Next]_vars

\* The executor thread and the tasks of a connection run whenever they can, and
\* the inbox loop of the client reads, reconnects and resynchronizes by itself.
\* Nobody has to commit, disconnect, close, or lose a frozen replay.
Fairness ==
    /\ WF_vars(Serve) /\ WF_vars(Reply) /\ WF_vars(Control)
    /\ \A s \in Subs : WF_vars(CatchUp(s))
    /\ \A c \in Conns : /\ WF_vars(AdmitReply(c)) /\ WF_vars(Take(c))
                        /\ WF_vars(Written(c)) /\ WF_vars(HostDrop(c))
    /\ WF_vars(Dispatch) /\ WF_vars(ReadClosed) /\ WF_vars(Connect)
    /\ WF_vars(Synchronize) /\ WF_vars(Released) /\ WF_vars(SnapshotRead)
    /\ WF_vars(ReplayPage) /\ WF_vars(ReplayRefused) /\ WF_vars(Receive)

FairSpec == Spec /\ Fairness
=============================================================================
