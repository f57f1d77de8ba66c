-------------------- MODULE EventSubscriptionProperties --------------------
(***************************************************************************)
(* What the event subscription guarantees, stated over the composition of    *)
(* executor, connection tasks and client.                                    *)
(***************************************************************************)
EXTENDS EventSubscription

Kinds == {"none", "event", "resync", "snapshot", "page", "released", "refused"}
Frames == [kind : Kinds, sub : 0 .. MaxSubs, lo : Sequence, hi : Sequence, end : Sequence]
Entry == [scope : 0 .. MaxConns, frozen : BOOLEAN, through : Sequence,
          live : 0 .. MaxConns, admitted : Sequence]

\* A queue that never outgrows its channel.
Queue(q, cap) == Len(q) <= cap /\ \A i \in 1 .. Len(q) : q[i] \in Frames

\* The type invariant.  Every bounded channel stays within its capacity, the
\* critical lane with the frame being written counted in.
SubscriptionTypeOK ==
    /\ newest \in Sequence
    /\ nextSub \in 1 .. MaxSubs + 1
    /\ registry \in [Subs -> Entry] /\ Cardinality(Entries) <= RegistryCap
    /\ streams \in [Subs \X Conns -> [written : Sequence, current : BOOLEAN]]
    /\ exec.todo \subseteq Subs /\ exec.now \in exec.todo \cup {0}
    /\ exec.to \in 0 .. MaxConns /\ exec.reply \in Frames
    /\ Len(control) <= ControlCap
    /\ outputs \subseteq Conns
    /\ \A c \in Conns :
         LET l == lane[c] IN
         /\ l.writing \in Frames /\ l.answer \in Frames
         /\ Queue(l.durable, DurableCap)
         /\ Queue(l.critical, CriticalCap - IF l.writing.kind \in {"none", "event"}
                                            THEN 0 ELSE 1)
    /\ client.conn \in {0, client.opened} /\ client.opened \in 0 .. MaxConns
    /\ client.grant \in 0 .. MaxConns
    /\ client.phase \in {"idle", "releasing", "snapshot", "replay", "cleanup", "closing"}
    /\ client.state \in {"Pending", "Ready", "NeedsResync"}
    /\ client.sub \in 0 .. MaxSubs
    /\ Queue(client.inbox, InboxCap) /\ Queue(client.retained, 2 * InboxCap)
    /\ Cardinality(client.retired) <= RetiredCap

\* The client's checks on what arrives never fire: no event comes twice or out
\* of order, and a resync notice always names the sequence the client has
\* reached, although the writer may be in the middle of an event when the notice
\* overtakes the durable lane (prepare_for_write, handle_unsolicited_message).
NoMisdelivery == client.verdict \notin {"regression", "invalid resync", "seen"}

\* A subscription never receives a frame of another one, unless its connection took
\* over the tails of an earlier one with a grant: a tail that was released, evicted
\* or refused on the same connection cannot poison its replacement, nor can one
\* that another connection took over (retire_subscription_id,
\* release_event_replay, remove_for_output, rebind_output).
NoForeignFrame == client.verdict = "foreign" => client.grant # 0

\* Stronger, and not so: whatever a reconnect took over.
NoForeignFrameAtAll == client.verdict # "foreign"

Settled == ExecIdle /\ jobs = <<>> /\ control = <<>>

\* When the host has no work left and the client waits for nothing, the only tail
\* bound to the client's connection is the one the client holds, unless it took over
\* others with a grant: none is leaked by a failed or repeated synchronize
\* (serve_release_event_replay).
NoOrphanTail ==
    (Settled /\ client.conn # 0 /\ client.grant = 0 /\ client.phase = "idle") =>
       \A s \in Entries : registry[s].live = client.conn => s = client.sub

\* Nothing of an event is under way to the client.
Quiet ==
    /\ Settled
    /\ LET l == lane[client.conn] IN
         /\ ~l.shutdown /\ l.answer = None /\ l.writing = None
         /\ l.critical = <<>> /\ l.durable = <<>> /\ l.wire = <<>>
    /\ client.inbox = <<>> /\ client.retained = <<>>

\* A subscription that says Ready and to which nothing is under way has seen every
\* event: losing one always leaves a notice, a closed connection or NeedsResync
\* behind (force_live_resync, fail_live_replay, remove_for_output, reap_idle).
NeverSilentlyStale ==
    (client.conn # 0 /\ client.state = "Ready" /\ client.phase = "idle") =>
       (Quiet => client.model.last = newest)

\* The abstract feed, seen through the client's model.
Feed == INSTANCE EventFeed
          WITH view <- client.model.seqs, held <- client.model.some,
               live <- client.state = "Ready"

\* The subscription implements the feed: its view is a hole-free prefix that
\* grows by the next event while Ready and is only rebased forward after it was
\* given up (synchronize_inner, handle_unsolicited_message).
ImplementsFeed == Feed!FeedSpec

\* The instance has no subscription id or no connection left.
OutOfBounds ==
    \/ jobs # <<>> /\ Head(jobs).kind = "open" /\ nextSub > MaxSubs
    \/ client.conn = 0 /\ client.opened = MaxConns

\* Once commits and failures stop, the client becomes Ready with every event,
\* through every resync, refusal, full queue and reconnect on the way
\* (synchronize, reconnect_and_synchronize, recv_and_apply).
Converges == <>[](OutOfBounds \/ (client.state = "Ready" /\ client.model.last = newest))
=============================================================================
