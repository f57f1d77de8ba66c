----------------------- MODULE EventSubscriptionSafety ----------------------
(***************************************************************************)
(* The event subscription delivers: what is on its way to the client continues*)
(* its model without a hole (flow), a tail the client depends on never ends*)
(* silently (cover), and on a connection that took over no tails every tail *)
(* is the client's own (own).                                              *)
(* From these follow the properties of the runs and the refinement of the  *)
(* abstract feed.                                                          *)
(***************************************************************************)
EXTENDS EventSubscriptionProofs

-----------------------------------------------------------------------------
(* The flow of one subscription's events.                                    *)

\* The flow of every subscription goes on.
FlowStays == \A s \in Subs, T \in Nat : Flow(s, T) => Flow(s, T)'

\* A step that leaves the lane l of the client's connection as the lane m, with
\* the place of s in it: only notices of tails that ended are added.
Steady(s, l, m) ==
    /\ m.wire = l.wire
    /\ m.writing = l.writing \/ (m.writing = None /\ m.shutdown)
    /\ m.durable = l.durable \/ m.shutdown
    /\ l.shutdown => m.shutdown
    /\ WrittenOf(s)' = WrittenOf(s)
    /\ Current(s)' => Current(s) /\ registry'[s].admitted = registry[s].admitted
    /\ \A f \in In(m.critical) :
          f \in In(l.critical) \/ ~IsResync(f, s) \/ (~Current(s)' /\ newest <= f.hi)

\* The columns of a subscription's place on the client's connection.
LEMMA PlaceShape ==
    ASSUME ShapeInv, client.conn # 0, NEW s \in Subs
    PROVE  /\ WrittenOf(s) \in Nat /\ Current(s) \in BOOLEAN /\ Taken(s) \in Nat /\ WrittenOf(s) <= Taken(s)
           /\ registry[s].admitted \in Nat /\ newest \in Nat /\ nextSub \in Nat /\ client.conn \in Conns
           /\ Mine = lane[client.conn] /\ s \in Nat
<1>1. client.conn \in Conns /\ newest \in Nat /\ nextSub \in Nat
  BY ClientShape
<1>2. WrittenOf(s) \in Nat /\ Current(s) \in BOOLEAN /\ registry[s].admitted \in Nat /\ s \in Nat
  BY <1>1, EntryShape DEF WrittenOf, Current
<1>3. Taken(s) \in Nat /\ WrittenOf(s) <= Taken(s)
  BY <1>2 DEF Taken
<1> QED BY <1>1, <1>2, <1>3 DEF Mine

\* The cursors of a tail after a step.
LEMMA PlaceNext ==
    ASSUME ShapeInv', client'.conn # 0, NEW s \in Subs
    PROVE  /\ WrittenOf(s)' \in Nat /\ Current(s)' \in BOOLEAN /\ Taken(s)' \in Nat /\ WrittenOf(s)' <= Taken(s)'
           /\ registry'[s].admitted \in Nat /\ newest' \in Nat /\ nextSub' \in Nat /\ client'.conn \in Conns
           /\ Mine' = lane'[client'.conn] /\ s \in Nat
<1>1. client'.conn \in Conns /\ newest' \in Nat /\ nextSub' \in Nat
  BY ClientNext
<1>2. <<s, client'.conn>> \in Subs \X Conns
  BY <1>1
<1>3. streams'[<<s, client'.conn>>] \in Stream /\ registry'[s] \in EntrySet
  BY <1>2 DEF ShapeInv, Stream
<1>4. WrittenOf(s)' \in Nat /\ Current(s)' \in BOOLEAN /\ registry'[s].admitted \in Nat /\ s \in Nat
  BY <1>3 DEF WrittenOf, Current, Stream, EntrySet, Subs
<1>5. Taken(s)' \in Nat /\ WrittenOf(s)' <= Taken(s)'
  BY <1>4 DEF Taken
<1> QED BY <1>1, <1>4, <1>5 DEF Mine

\* A tail whose frames only move on keeps its flow.
LEMMA FlowKept ==
    ASSUME ShapeInv, ShapeInv', client.conn # 0, client' = client, newest <= newest', nextSub <= nextSub',
           NEW s \in Subs, NEW T \in Nat, Flow(s, T), Steady(s, lane[client.conn], lane'[client.conn])
    PROVE  Flow(s, T)'
<1>1. PICK l, m : l = lane[client.conn] /\ m = lane'[client.conn] /\ l = Mine /\ m = Mine'
  BY DEF Mine
<1>2. Steady(s, l, m)
  BY <1>1
<1>3. /\ WrittenOf(s) \in Nat /\ Taken(s) \in Nat /\ newest \in Nat /\ nextSub \in Nat
      /\ newest' \in Nat /\ nextSub' \in Nat /\ Taken(s)' \in Nat /\ s \in Nat /\ WrittenOf(s)' = WrittenOf(s)
  BY <1>2, PlaceShape, PlaceNext DEF Steady
<1>4. ~IsEvent(None, s) /\ ~IsResync(None, s)
  BY NoneShape DEF IsEvent, IsResync, Tails
<1>5. Taken(s)' <= Taken(s) /\ (m.writing = l.writing => Taken(s)' = Taken(s))
  BY <1>1, <1>2, <1>3, <1>4 DEF Steady, Taken
<1>6. Place(s, T)'
  <2>1. s < nextSub /\ s \notin client.retired /\ T <= WrittenOf(s) /\ Taken(s) <= newest
    BY DEF Flow, Place
  <2>2. \A f \in In(client.retained) : f.kind \in Tails => f.sub # s
    BY DEF Flow, Place
  <2>3. s < nextSub' /\ Taken(s)' <= newest'
    BY <1>3, <1>5, <2>1
  <2> QED BY <1>3, <2>1, <2>2, <2>3 DEF Place
<1>7. Order(s)'
  <2>1. Order(s)
    BY DEF Flow
  <2>2. Across(In(client.inbox) \cup In(l.wire), {None}, s)
    BY <1>4 DEF Across, Precedes
  <2>3. Across(In(client.inbox) \cup In(l.wire), {m.writing}, s)
    BY <1>1, <1>2, <2>1, <2>2 DEF Order, Steady
  <2> QED BY <1>1, <1>2, <2>1, <2>3 DEF Order, Steady
<1>8. Sent(s, T)'
  <2>1. Sent(s, T)
    BY DEF Flow
  <2> QED BY <1>1, <1>2, <1>4, <2>1 DEF Sent, Steady
<1>9. Queued(s)'
  <2> SUFFICES ASSUME Current(s)', ~m.shutdown
               PROVE  /\ InOrder(m.durable, s) /\ Taken(s)' <= registry'[s].admitted
                      /\ Covers(In(m.durable), s, Taken(s)', registry'[s].admitted)
    BY <1>1 DEF Queued
  <2>1. /\ m.durable = l.durable /\ m.writing = l.writing /\ ~l.shutdown
        /\ Current(s) /\ registry'[s].admitted = registry[s].admitted
    BY <1>2 DEF Steady
  <2>2. Queued(s)
    BY DEF Flow
  <2> QED BY <1>1, <1>5, <2>1, <2>2 DEF Queued
<1>10. Notices(s)'
  <2>1. Notices(s) /\ Taken(s) <= newest
    BY DEF Flow, Place
  <2>2. Current(s)' => Current(s)
    BY <1>2 DEF Steady
  <2>3. ASSUME NEW f \in In(client.inbox) \cup In(m.wire) \cup {m.writing}, IsResync(f, s)
        PROVE  ~Current(s)' /\ f.lo = WrittenOf(s)' /\ WrittenOf(s)' <= f.hi
    <3>1. f \in In(client.inbox) \cup In(l.wire) \cup {l.writing}
      BY <1>2, <1>4, <2>3 DEF Steady
    <3> QED BY <1>1, <1>3, <2>1, <2>2, <2>3, <3>1 DEF Notices
  <2>4. ASSUME NEW f \in In(m.critical), IsResync(f, s) PROVE ~Current(s)' /\ Taken(s)' <= f.hi
    <3>0. f.hi \in Nat
      <4>1. f \in FrameSet
        BY <1>1, ClientShape, LaneNext, Queues
      <4> QED BY <4>1, FrameFields
    <3>1. CASE f \in In(l.critical)
      <4>1. ~Current(s) /\ Taken(s) <= f.hi
        BY <1>1, <2>1, <2>4, <3>1 DEF Notices
      <4> QED BY <1>3, <1>5, <2>2, <3>0, <4>1
    <3>2. CASE ~Current(s)' /\ newest <= f.hi
      BY <1>3, <1>5, <2>1, <3>0, <3>2
    <3> QED BY <1>2, <2>4, <3>1, <3>2 DEF Steady
  <2> QED BY <1>1, <2>3, <2>4 DEF Notices
<1> QED BY <1>6, <1>7, <1>8, <1>9, <1>10 DEF Flow

\* What a page or a replay to be continued starts from after a step of the host.
Begins(f) == f \in UnderWay \/ Flow(f.sub, f.end)'
Resumes(s) == \/ Resuming(s) /\ registry'[s].through = registry[s].through
              \/ Flow(s, registry[s].through)'

\* The flow invariant from the flow of each tail.
LEMMA FlowWaits ==
    ASSUME ShapeInv, ShapeInv', FlowInv, client.conn # 0, Waits, FlowStays,
           lane[client.conn].shutdown => lane'[client.conn].shutdown,
           \A f \in UnderWay' : f.kind = "page" => Begins(f),
           \A s \in Subs : Resuming(s)' /\ ~lane'[client.conn].shutdown => Resumes(s)
    PROVE  FlowInv'
<1>0. /\ client'.conn = client.conn /\ client'.phase = client.phase /\ client'.sub = client.sub
      /\ client'.state = client.state /\ client'.model = client.model
  BY DEF Waits
<1>1. client.model.last \in Nat
  BY ModelShape
<1>2. client.state = "Ready" => Flow(client.sub, client.model.last)'
  <2> SUFFICES ASSUME client.state = "Ready" PROVE Flow(client.sub, client.model.last)'
    OBVIOUS
  <2>1. PICK s, T : s = client.sub /\ T = client.model.last
    OBVIOUS
  <2>2. Flow(s, T) /\ s \in Subs /\ T \in Nat
    BY <1>1, <2>1 DEF FlowInv, Flow, Place
  <2>3. Flow(s, T)'
    BY <2>2 DEF FlowStays
  <2> QED BY <1>0, <2>1, <2>3
<1>3. ASSUME NEW f \in UnderWay', f.kind = "page" PROVE Flow(f.sub, f.end)'
  <2>0. f \in FrameSet
    BY <1>0, UnderWayNext
  <2>1. CASE f \in UnderWay
    <3>1. Flow(f.sub, f.end)
      BY <1>3, <2>1 DEF FlowInv
    <3>2. f.sub \in Subs /\ f.end \in Nat
      BY <1>3, <2>0, FrameFields DEF Tails
    <3> QED BY <3>1, <3>2 DEF FlowStays
  <2> QED BY <1>3, <2>1 DEF Begins
<1>4. ASSUME NEW s \in Subs, Resuming(s)', ~Mine'.shutdown PROVE Flow(s, registry[s].through)'
  <2>1. ~lane'[client.conn].shutdown /\ ~Mine.shutdown
    BY <1>0, <1>4 DEF Mine
  <2>2. CASE Resuming(s) /\ registry'[s].through = registry[s].through
    <3>1. PICK T \in Nat : T = registry[s].through
      BY EntryShape
    <3>2. Flow(s, T)
      BY <2>1, <2>2, <3>1 DEF FlowInv
    <3>3. Flow(s, T)'
      BY <3>2 DEF FlowStays
    <3> QED BY <2>2, <3>1, <3>3
  <2> QED BY <1>4, <2>1, <2>2 DEF Resumes
<1> QED BY <1>0, <1>2, <1>3, <1>4 DEF FlowInv

\* The flow invariant is kept when every tail keeps its flow.
LEMMA FlowHost ==
    ASSUME ShapeInv, ShapeInv', FlowInv, client.conn # 0, client' = client, FlowStays,
           lane[client.conn].shutdown => lane'[client.conn].shutdown,
           \A f \in UnderWay' : f.kind = "page" => Begins(f),
           \A s \in Subs : Resuming(s)' /\ ~lane'[client.conn].shutdown => Resumes(s)
    PROVE  FlowInv'
BY FlowWaits DEF Waits

\* The two halves of a steady step: the entry and its tail, and the lane.
TailSteady(s) ==
    /\ WrittenOf(s)' = WrittenOf(s)
    /\ Current(s)' => Current(s) /\ registry'[s].admitted = registry[s].admitted
LaneSteady(l, m) ==
    /\ m.wire = l.wire
    /\ m.writing = l.writing \/ (m.writing = None /\ m.shutdown)
    /\ m.durable = l.durable \/ m.shutdown
    /\ l.shutdown => m.shutdown
    /\ \A f \in In(m.critical) : f \in In(l.critical) \/ f.kind # "resync"

\* A replay that can be continued after the step could be before it.
ResumesAll == \A s \in Subs : Resuming(s)' => Resuming(s) /\ registry'[s].through = registry[s].through

\* A steady lane and steady streams keep the flow.
LEMMA SteadyFlows ==
    ASSUME ShapeInv, ShapeInv', client.conn # 0, client' = client, newest <= newest', nextSub <= nextSub',
           \A s \in Subs : s < nextSub => Steady(s, lane[client.conn], lane'[client.conn])
    PROVE  FlowStays
<1> SUFFICES ASSUME NEW s \in Subs, NEW T \in Nat, Flow(s, T) PROVE Flow(s, T)'
  BY DEF FlowStays
<1>1. s < nextSub
  BY DEF Flow, Place
<1> QED BY <1>1, FlowKept

\* A lane that is unchanged or shut down is steady.
LEMMA LaneSame ==
    ASSUME NEW l, NEW m, m = l \/ Shut(l, m)
    PROVE  LaneSteady(l, m) /\ (l.shutdown => m.shutdown)
BY DEF Shut, LaneSteady

\* Streams and lane may be treated apart.
LEMMA HalvesFlow ==
    ASSUME ShapeInv, ShapeInv', client.conn # 0, client' = client, newest <= newest', nextSub <= nextSub',
           LaneSteady(lane[client.conn], lane'[client.conn]), \A s \in Subs : s < nextSub => TailSteady(s)
    PROVE  FlowStays
<1>1. ASSUME NEW s \in Subs, s < nextSub PROVE Steady(s, lane[client.conn], lane'[client.conn])
  <2>1. TailSteady(s)
    BY <1>1
  <2> QED BY <2>1 DEF TailSteady, LaneSteady, Steady, IsResync
<1> QED BY <1>1, SteadyFlows

\* Streams that do not change are steady.
LEMMA TailsSame ==
    ASSUME client' = client, UNCHANGED <<registry, streams>>
    PROVE  (\A s \in Subs : TailSteady(s)) /\ ResumesAll
<1>1. \A s \in Subs : TailSteady(s)
  BY DEF TailSteady, WrittenOf, Current
<1>2. ResumesAll
  BY DEF ResumesAll, Resuming
<1> QED BY <1>1, <1>2

\* An entry without a live tail has no current stream on the client's connection.
LEMMA DeadTail ==
    ASSUME ShapeInv, RegistryInv', client.conn # 0, client' = client, NEW s \in Subs, registry'[s].live # client.conn
    PROVE  ~Current(s)'
<1>1. client.conn \in Conns
  BY ClientShape
<1>2. EntryOK(s)'
  BY DEF RegistryInv
<1>3. streams'[<<s, client.conn>>].current <=> registry'[s].live = client.conn
  BY <1>1, <1>2 DEF EntryOK
<1> QED BY <1>3 DEF Current

\* Dropping an entry ends its tail and touches no other.
LEMMA TailsDropped ==
    ASSUME ShapeInv, RegistryInv', client.conn # 0, client' = client, NEW s \in Subs, Dropped(s)
    PROVE  (\A t \in Subs : TailSteady(t)) /\ ResumesAll
<1>0. client.conn \in Conns
  BY ClientShape
<1>1. ASSUME NEW t \in Subs PROVE TailSteady(t)
  <2>1. WrittenOf(t)' = WrittenOf(t) /\ (Current(t)' => Current(t))
    BY <1>0 DEF Dropped, WrittenOf, Current
  <2>2. t = s => ~Current(t)'
    BY NoEntryFields, DeadTail DEF Dropped
  <2>3. t # s => registry'[t] = registry[t]
    BY DEF Dropped
  <2> QED BY <2>1, <2>2, <2>3 DEF TailSteady
<1>2. ASSUME NEW t \in Subs, Resuming(t)'
      PROVE  Resuming(t) /\ registry'[t].through = registry[t].through
  <2>1. t # s
    BY <1>2, NoEntryFields DEF Resuming, Dropped
  <2>2. registry'[t] = registry[t]
    BY <2>1 DEF Dropped
  <2> QED BY <1>2, <2>2 DEF Resuming
<1> QED BY <1>1, <1>2 DEF ResumesAll

\* Detaching an output ends the tails bound to it.
LEMMA TailsDetached ==
    ASSUME ShapeInv, RegistryInv', client.conn # 0, client' = client, NEW c \in Conns, Detaches(c)
    PROVE  (\A t \in Subs : TailSteady(t)) /\ ResumesAll
<1>0. client.conn \in Conns
  BY ClientShape
<1>1. ASSUME NEW t \in Subs PROVE TailSteady(t)
  <2>1. WrittenOf(t)' = WrittenOf(t) /\ (Current(t)' => Current(t))
    BY <1>0 DEF Detaches, WrittenOf, Current
  <2>2. registry[t].live = c => ~Current(t)'
    BY NoEntryFields, DeadTail DEF Detaches, EntryDetached
  <2>3. registry[t].live # c => registry'[t] = registry[t]
    BY DEF Detaches, EntryDetached
  <2> QED BY <2>1, <2>2, <2>3 DEF TailSteady
<1>2. ASSUME NEW t \in Subs, Resuming(t)'
      PROVE  Resuming(t) /\ registry'[t].through = registry[t].through
  <2>1. EntryDetached(t, c)
    BY DEF Detaches
  <2>2. registry'[t].frozen /\ registry'[t].scope = client.conn
    BY <1>2 DEF Resuming
  <2>3. registry[t].frozen /\ registry'[t].scope = registry[t].scope /\ registry'[t].through = registry[t].through
    BY <2>1, <2>2, NoEntryFields DEF EntryDetached
  <2> QED BY <1>2, <2>2, <2>3 DEF Resuming
<1> QED BY <1>1, <1>2 DEF ResumesAll

\* Rebinding an output to another connection ends the tails of the old one.
LEMMA TailsMoved ==
    ASSUME ShapeInv, RegistryInv', client.conn # 0, client' = client, NEW c \in Conns, NEW old, Registers(c, old),
           c # client.conn
    PROVE  (\A t \in Subs : TailSteady(t)) /\ ResumesAll
<1>0. client.conn \in Conns
  BY ClientShape
<1>1. ASSUME NEW t \in Subs, old = 0 \/ registry[t].scope # old
      PROVE  registry'[t] = registry[t] /\ WrittenOf(t)' = WrittenOf(t) /\ (Current(t)' => Current(t))
  BY <1>0, <1>1 DEF Registers, TailKept, WrittenOf, Current
<1>2. ASSUME NEW t \in Subs, old # 0, registry[t].scope = old
      PROVE  EntryMoved(t, c) /\ WrittenOf(t)' = WrittenOf(t) /\ (Current(t)' => Current(t))
  <2>1. EntryMoved(t, c) /\ TailMoved(t, c)
    BY <1>2 DEF Registers
  <2> QED BY <1>0, <2>1 DEF TailMoved, WrittenOf, Current
<1>3. ASSUME NEW t \in Subs PROVE TailSteady(t)
  <2>1. CASE old = 0 \/ registry[t].scope # old
    BY <1>1, <2>1 DEF TailSteady
  <2>2. CASE old # 0 /\ registry[t].scope = old
    <3>1. registry'[t] = NoEntry => ~Current(t)'
      BY NoEntryFields, DeadTail
    <3>2. registry'[t] = NoEntry \/ registry'[t].admitted = registry[t].admitted
      BY <1>2, <2>2 DEF EntryMoved
    <3> QED BY <1>2, <2>2, <3>1, <3>2 DEF TailSteady
  <2> QED BY <2>1, <2>2
<1>4. ASSUME NEW t \in Subs, Resuming(t)'
      PROVE  Resuming(t) /\ registry'[t].through = registry[t].through
  <2>1. registry'[t].scope = client.conn /\ registry'[t].frozen
    BY <1>4 DEF Resuming
  <2>2. ~(old # 0 /\ registry[t].scope = old)
    BY <1>2, <2>1, NoEntryFields DEF EntryMoved
  <2>3. registry'[t] = registry[t]
    BY <1>1, <2>2
  <2> QED BY <1>4, <2>3 DEF Resuming
<1> QED BY <1>3, <1>4 DEF ResumesAll

\* A step of the host that brings no new page under way.
LEMMA FlowSteady ==
    ASSUME ShapeInv, ShapeInv', FlowInv, client.conn # 0, client' = client, FlowStays, ResumesAll,
           lane[client.conn].shutdown => lane'[client.conn].shutdown,
           \A f \in UnderWay' : f.kind = "page" => f \in UnderWay
    PROVE  FlowInv'
<1>1. \A f \in UnderWay' : f.kind = "page" => Begins(f)
  BY DEF Begins
<1>2. \A s \in Subs : Resuming(s)' => Resumes(s)
  BY DEF ResumesAll, Resumes
<1> QED BY <1>1, <1>2, FlowHost

\* No new page is under way.
LEMMA StandingPages ==
    ASSUME ShapeInv', client'.conn # 0, Stands
    PROVE  \A f \in UnderWay' : f.kind = "page" => f \in UnderWay
BY UnderWayNext DEF Stands, ReplyFrames, Replies

\* The parts of a flow that do not look at the durable lane.
LEMMA FlowButQueue ==
    ASSUME client' = client, UNCHANGED <<newest, nextSub, streams>>, client.conn \in Conns,
           KeepsAllBut(lane[client.conn], lane'[client.conn], {"durable"}),
           NEW t, NEW T, Flow(t, T), Queued(t)'
    PROVE  Flow(t, T)'
<1>1. PICK l, m : l = lane[client.conn] /\ m = lane'[client.conn] /\ l = Mine /\ m = Mine'
  BY DEF Mine
<1>2. m.critical = l.critical /\ m.writing = l.writing /\ m.wire = l.wire
  BY <1>1 DEF KeepsAllBut
<1>3. WrittenOf(t)' = WrittenOf(t) /\ (Current(t)' => Current(t)) /\ Taken(t)' = Taken(t)
  BY <1>1, <1>2 DEF WrittenOf, Current, Taken
<1>4. Place(t, T)'
  BY <1>3 DEF Flow, Place
<1>5. Order(t)'
  BY <1>1, <1>2 DEF Flow, Order
<1>6. Sent(t, T)'
  BY <1>1, <1>2, <1>3 DEF Flow, Sent
<1>7. Notices(t)'
  BY <1>1, <1>2, <1>3 DEF Flow, Notices
<1> QED BY <1>4, <1>5, <1>6, <1>7 DEF Flow

\* An event that is admitted to the client's own lane continues its queue.
LEMMA AdmitFlow ==
    ASSUME ShapeInv, ShapeInv', KindInv, client.conn # 0, client' = client, NEW s \in Subs, NEW c \in Conns,
           c = client.conn, Admits(s, c), UNCHANGED <<newest, nextSub>>
    PROVE  FlowStays
<1> SUFFICES ASSUME NEW t \in Subs, NEW T \in Nat, Flow(t, T) PROVE Flow(t, T)'
  BY DEF FlowStays
<1>1. PICK l, m : l = lane[c] /\ m = lane'[c] /\ l = Mine /\ m = Mine'
  BY DEF Mine
<1>2. PICK a \in Nat : a = registry[s].admitted
  BY EntryShape
<1>3. PICK g \in FrameSet : g = Frame("event", s, 0, a + 1, 0) /\ g.kind = "event" /\ g.sub = s /\ g.hi = a + 1
  <2>1. "event" \in Kinds /\ s \in 0 .. MaxSubs /\ a + 1 \in Nat /\ 0 \in Nat
    BY <1>2, Bounds DEF Kinds, Subs
  <2> QED BY <2>1, FrameShape
<1>4. /\ KeepsAllBut(l, m, {"durable"}) /\ m.durable = Append(l.durable, g) /\ streams' = streams
      /\ (t # s => registry'[t] = registry[t]) /\ registry'[s].admitted = a + 1
      /\ l.durable \in Seq(FrameSet)
  BY <1>1, <1>2, <1>3, LaneShape DEF Admits
<1>5. In(m.durable) = In(l.durable) \cup {g} /\ \A h \in In(l.durable) : h \in FrameSet /\ h.kind = "event"
  <2>1. In(m.durable) = In(l.durable) \cup {g}
    BY <1>3, <1>4, InAppend
  <2>2. In(l.durable) \subseteq FrameSet
    BY <1>4, Queues
  <2>3. \A h \in In(l.durable) : h.kind = "event"
    BY <1>1 DEF KindInv, LaneKinds
  <2> QED BY <2>1, <2>2, <2>3
<1>6. Queued(t)'
  <2> SUFFICES ASSUME Current(t)', ~m.shutdown
               PROVE  /\ InOrder(m.durable, t) /\ Taken(t)' <= registry'[t].admitted
                      /\ Covers(In(m.durable), t, Taken(t)', registry'[t].admitted)
    BY <1>1 DEF Queued
  <2>1. Current(t) /\ ~l.shutdown /\ Taken(t)' = Taken(t)
    BY <1>1, <1>4 DEF Current, KeepsAllBut, Taken, WrittenOf
  <2>2. /\ InOrder(l.durable, t) /\ Taken(t) <= registry[t].admitted
        /\ Covers(In(l.durable), t, Taken(t), registry[t].admitted)
    BY <1>1, <2>1 DEF Flow, Queued
  <2>3. Taken(t) \in Nat
    BY PlaceShape
  <2>4. CASE t # s
    <3>1. ~IsEvent(g, t)
      BY <1>3, <2>4 DEF IsEvent
    <3>2. \A h \in In(l.durable) : Precedes(h, g, t)
      BY <3>1 DEF Precedes
    <3>3. InOrder(m.durable, t)
      BY <1>4, <2>2, <3>2, OrderAppend
    <3>4. Covers(In(m.durable), t, Taken(t), registry[t].admitted)
      BY <1>5, <2>2, <3>1 DEF Covers
    <3> QED BY <1>4, <2>1, <2>2, <2>4, <3>3, <3>4
  <2>5. CASE t = s
    <3>0. PICK k \in Nat : k = Taken(t)
      BY <2>3
    <3>1. k <= a /\ Covers(In(l.durable), s, k, a)
      BY <1>2, <2>2, <2>5, <3>0
    <3>2. ASSUME NEW h \in In(l.durable) PROVE Precedes(h, g, s)
      <4>1. h.hi \in Nat /\ ~IsResync(h, s)
        BY <1>5, FrameFields DEF IsResync
      <4>2. IsEvent(h, s) => h.hi <= a
        BY <3>1 DEF Covers
      <4> QED BY <1>3, <4>1, <4>2 DEF Precedes
    <3>3. InOrder(m.durable, s)
      BY <1>4, <2>2, <2>5, <3>2, OrderAppend
    <3>4. ASSUME NEW h \in In(m.durable), IsEvent(h, s) PROVE k < h.hi /\ h.hi <= a + 1
      <4>1. CASE h \in In(l.durable)
        <5>1. k < h.hi /\ h.hi <= a /\ h.hi \in Nat
          BY <1>5, <3>1, <3>4, <4>1, FrameFields DEF Covers
        <5> QED BY <5>1
      <4>2. CASE h = g
        BY <1>3, <3>1, <4>2
      <4> QED BY <1>5, <4>1, <4>2
    <3>5. ASSUME NEW n \in k + 1 .. a + 1 PROVE \E h \in In(m.durable) : IsEvent(h, s) /\ h.hi = n
      <4>1. CASE n = a + 1
        BY <1>3, <1>5, <4>1 DEF IsEvent
      <4>2. CASE n # a + 1
        <5>1. n \in k + 1 .. a
          BY <4>2
        <5> QED BY <1>5, <3>1, <5>1 DEF Covers
      <4> QED BY <4>1, <4>2
    <3>6. Covers(In(m.durable), s, k, a + 1)
      BY <3>4, <3>5 DEF Covers
    <3>7. k <= a + 1
      BY <3>1
    <3> QED BY <1>4, <2>1, <2>5, <3>0, <3>3, <3>6, <3>7
  <2> QED BY <2>4, <2>5
<1> QED BY <1>1, <1>4, <1>6, FlowButQueue

\* A notice that is admitted to the client's own lane speaks of a tail that ended.
LEMMA ResyncFlow ==
    ASSUME ShapeInv, ShapeInv', RegistryInv', client.conn # 0, client' = client, NEW s \in Subs, NEW c \in Conns,
           Resyncs(s, c), UNCHANGED <<newest, nextSub>>
    PROVE  FlowStays /\ ResumesAll /\ (lane[client.conn].shutdown => lane'[client.conn].shutdown)
<1>0. client.conn \in Conns /\ newest \in Nat /\ nextSub \in Nat
  BY ClientShape
<1>1. Dropped(s)
  BY DropFacts DEF Resyncs
<1>2. (\A t \in Subs : TailSteady(t)) /\ ResumesAll
  BY <1>1, TailsDropped
<1>3. CASE client.conn # c
  <2>1. lane'[client.conn] = lane[client.conn]
    BY <1>0, <1>3 DEF Resyncs, LanesKept
  <2> QED BY <1>0, <1>2, <2>1, LaneSame, HalvesFlow
<1>4. CASE client.conn = c
  <2>1. PICK f \in FrameSet : /\ f.kind = "resync" /\ f.sub = s /\ f.hi = newest
                              /\ lane'[c] = AdmitCritical(lane[c], f)
    BY DEF Resyncs
  <2>2. AdmitsFrame(c, f) /\ In(lane'[c].critical) \subseteq In(lane[c].critical) \cup {f}
    BY <2>1, AdmitFacts
  <2>3. ~Current(s)'
    BY <1>0, <1>1, NoEntryFields, DeadTail DEF Dropped, Conns
  <2>4. ASSUME NEW t \in Subs PROVE Steady(t, lane[c], lane'[c])
    <3>1. TailSteady(t)
      BY <1>2
    <3>2. \A h \in In(lane'[c].critical) :
             h \in In(lane[c].critical) \/ ~IsResync(h, t) \/ (~Current(t)' /\ newest <= h.hi)
      BY <1>0, <2>1, <2>2, <2>3 DEF IsResync
    <3> QED BY <2>2, <3>1, <3>2 DEF Steady, TailSteady, AdmitsFrame, KeepsAllBut
  <2>5. lane[c].shutdown => lane'[c].shutdown
    BY <2>4 DEF Steady, Resyncs
  <2> QED BY <1>0, <1>2, <1>4, <2>4, <2>5, SteadyFlows
<1> QED BY <1>3, <1>4

\* Catching up keeps the flow: an event is admitted, or a notice takes its place.
LEMMA CatchUpFlow ==
    ASSUME ShapeInv, ShapeInv', RegistryInv, RegistryInv', KindInv, RequestInv, FlowInv, client.conn # 0,
           NEW s \in Subs, NEW c \in Conns, CaughtUpBy(s, c)
    PROVE  FlowInv'
<1>0. /\ client' = client /\ newest' = newest /\ nextSub' = nextSub /\ newest \in Nat /\ nextSub \in Nat
      /\ client.conn \in Conns /\ c = registry[s].live
  BY ClientShape DEF CaughtUpBy
<1>1. \A f \in UnderWay' : f.kind = "page" => f \in UnderWay
  BY <1>0, CatchUpRequest, StandingPages
<1>2. CASE Gone(s, c)
  <2>1. Dropped(s) /\ lane' = lane
    BY <1>2, DropFacts DEF Gone
  <2>2. (\A t \in Subs : TailSteady(t)) /\ ResumesAll
    BY <1>0, <2>1, TailsDropped
  <2>3. FlowStays
    BY <1>0, <2>1, <2>2, LaneSame, HalvesFlow
  <2> QED BY <1>0, <1>1, <2>1, <2>2, <2>3, FlowSteady
<1>3. CASE UNCHANGED <<registry, streams, lane>>
  <2>1. FlowStays /\ ResumesAll
    BY <1>0, <1>3, LaneSame, HalvesFlow, TailsSame
  <2> QED BY <1>0, <1>1, <1>3, <2>1, FlowSteady
<1>4. CASE Resyncs(s, c)
  BY <1>0, <1>1, <1>4, ResyncFlow, FlowSteady
<1>5. CASE Admits(s, c)
  <2>1. ResumesAll
    <3>1. \A t \in Subs : /\ registry'[t].scope = registry[t].scope /\ registry'[t].frozen = registry[t].frozen
                          /\ registry'[t].through = registry[t].through
      BY <1>5 DEF Admits
    <3> QED BY <1>0, <3>1 DEF ResumesAll, Resuming
  <2>2. lane[client.conn].shutdown => lane'[client.conn].shutdown
    BY <1>0, <1>5 DEF Admits, LanesKept, KeepsAllBut
  <2>3. CASE client.conn = c
    <3>1. FlowStays
      BY <1>0, <1>5, <2>3, AdmitFlow
    <3> QED BY <1>0, <1>1, <2>1, <2>2, <3>1, FlowSteady
  <2>4. CASE client.conn # c
    <3>1. lane'[client.conn] = lane[client.conn] /\ registry'[s].live # client.conn
      BY <1>0, <1>5, <2>4 DEF Admits, LanesKept
    <3>2. ~Current(s)'
      BY <1>0, <3>1, DeadTail
    <3>3. ASSUME NEW t \in Subs PROVE TailSteady(t)
      <4>1. streams' = streams /\ (t # s => registry'[t] = registry[t])
        BY <1>5 DEF Admits
      <4>2. WrittenOf(t)' = WrittenOf(t) /\ (Current(t)' => Current(t))
        BY <1>0, <4>1 DEF WrittenOf, Current
      <4> QED BY <3>2, <4>1, <4>2 DEF TailSteady
    <3>4. FlowStays
      BY <1>0, <3>1, <3>3, LaneSame, HalvesFlow
    <3> QED BY <1>0, <1>1, <2>1, <2>2, <3>4, FlowSteady
  <2> QED BY <2>3, <2>4
<1> QED BY <1>2, <1>3, <1>4, <1>5 DEF CaughtUpBy

\* While a request of the client waits to be served, no reply is under way.
LEMMA JobAlone ==
    ASSUME ShapeInv, RequestInv, client.conn # 0, NEW j \in JobSet, j \in In(jobs), j.conn = client.conn
    PROVE  Unanswered /\ JobFits(j)
<1>1. At("job") /\ Places = {"job", "exec", "answer", "critical", "writing", "wire", "got"}
  BY DEF At, Has, JobsOf, Places
<1>2. \A p \in Places : At(p) => p = "job"
  BY <1>1 DEF RequestInv, OneRequest
<1>3. /\ ~At("exec") /\ ~At("answer") /\ ~At("critical") /\ ~At("writing") /\ ~At("wire") /\ ~At("got")
  BY <1>1, <1>2
<1>4. ASSUME NEW f \in UnderWay PROVE f \notin ReplyFrames
  BY <1>3, AtCases, UnderWayCases DEF Has
<1> QED BY <1>4 DEF Unanswered, RequestInv

\* The answer to a request of the client is the only page that comes under way.
LEMMA AnsweredPages ==
    ASSUME ShapeInv', client'.conn # 0, NEW j, Answers(j)
    PROVE  \A f \in UnderWay' : f.kind = "page" =>
               f \in UnderWay \/ (j.conn = client.conn /\ ~Mine.shutdown /\ f = exec'.reply)
BY UnderWayNext DEF Answers, ReplyFrames, Replies

\* A new subscription starts at its baseline, with nothing of it under way.
LEMMA OpenFlow ==
    ASSUME ShapeInv, ShapeInv', FreshInv, client.conn # 0, client' = client, newest' = newest,
           NEW n \in Subs, n = nextSub, nextSub' = n + 1, lane' = lane,
           streams'[<<n, client.conn>>] = [written |-> newest, current |-> TRUE],
           registry'[n].admitted = newest
    PROVE  Flow(n, newest)'
<1>0. client.conn \in Conns /\ newest \in Nat /\ nextSub \in Nat
  BY ClientShape
<1>1. PICK l : l = Mine /\ l = Mine'
  BY DEF Mine
<1>2. WrittenOf(n)' = newest /\ Current(n)'
  BY DEF WrittenOf, Current
<1>3. \A f \in In(client.inbox) \cup In(client.retained) \cup In(l.wire) \cup In(l.durable) \cup In(l.critical)
               \cup {l.writing} : f.kind \in Tails => f.sub # n
  <2>1. \A f \in Abroad : f.kind \in Tails => f.sub < nextSub
    BY DEF FreshInv, Fresh
  <2>2. \A f \in Abroad : f.kind \in Tails => f.sub # n
    BY <1>0, <2>1
  <2> QED BY <1>1, <2>2 DEF Abroad
<1>4. \A f \in In(client.inbox) \cup In(client.retained) \cup In(l.wire) \cup In(l.durable) \cup In(l.critical)
               \cup {l.writing} : ~IsEvent(f, n) /\ ~IsResync(f, n)
  BY <1>3 DEF IsEvent, IsResync, Tails
<1>5. Taken(n)' = newest
  BY <1>1, <1>2, <1>4 DEF Taken
<1>6. \A S : (\A f \in S : ~IsEvent(f, n)) => Covers(S, n, newest, newest)
  <2>1. newest + 1 .. newest = {}
    BY <1>0
  <2> QED BY <2>1 DEF Covers
<1>7. Place(n, newest)'
  <2>1. \A s \in client.retired : s < nextSub
    BY DEF FreshInv
  <2>2. n \notin client.retired /\ n < nextSub' /\ newest <= newest
    BY <1>0, <2>1
  <2>3. \A f \in In(client.retained) : f.kind \in Tails => f.sub # n
    BY <1>3
  <2> QED BY <1>2, <1>5, <2>2, <2>3 DEF Place
<1>8. Order(n)'
  <2>1. \A i \in DOMAIN client.inbox : ~IsEvent(client.inbox[i], n) /\ ~IsResync(client.inbox[i], n)
    BY <1>4 DEF In
  <2>2. \A i \in DOMAIN l.wire : ~IsEvent(l.wire[i], n) /\ ~IsResync(l.wire[i], n)
    BY <1>4 DEF In
  <2>3. InOrder(client.inbox, n) /\ InOrder(l.wire, n)
    BY <2>1, <2>2 DEF InOrder, Precedes
  <2>4. /\ Across(In(client.inbox), In(l.wire), n)
        /\ Across(In(client.inbox) \cup In(l.wire), {l.writing}, n)
    BY <1>4 DEF Across, Precedes
  <2> QED BY <1>1, <2>3, <2>4 DEF Order
<1>9. Sent(n, newest)'
  <2>1. Covers(In(client.inbox) \cup In(l.wire), n, newest, newest)
    BY <1>4, <1>6
  <2> QED BY <1>1, <1>2, <1>4, <2>1 DEF Sent
<1>10. Queued(n)'
  <2>1. \A i \in DOMAIN l.durable : ~IsEvent(l.durable[i], n) /\ ~IsResync(l.durable[i], n)
    BY <1>4 DEF In
  <2>2. InOrder(l.durable, n)
    BY <2>1 DEF InOrder, Precedes
  <2>3. Covers(In(l.durable), n, newest, newest) /\ newest <= newest
    BY <1>0, <1>4, <1>6
  <2> QED BY <1>1, <1>5, <2>2, <2>3 DEF Queued
<1>11. Notices(n)'
  BY <1>1, <1>4 DEF Notices
<1> QED BY <1>7, <1>8, <1>9, <1>10, <1>11 DEF Flow

\* An opened replay starts its tail where the replay ends.
LEMMA OpenedFlow ==
    ASSUME ShapeInv, ShapeInv', RegistryInv, RegistryInv', FreshInv, FlowInv, client.conn # 0,
           NEW j \in JobSet, Serves(j), OpensFor(j), Answers(j)
    PROVE  FlowInv'
<1>0. /\ client' = client /\ newest' = newest /\ newest \in Nat /\ nextSub \in Nat /\ client.conn \in Conns
      /\ j.conn \in Conns /\ j.arg \in Nat
  BY ClientShape DEF Serves
<1>1. PICK n \in Subs, victim \in Subs \cup {0} : n = nextSub /\ Opens(n, j.conn, j.arg, victim)
  BY DEF OpensFor
<1>2. /\ nextSub' = n + 1 /\ lane' = lane /\ n \in Nat
      /\ registry'[n].scope = j.conn /\ registry'[n].admitted = newest
      /\ exec'.reply = PageAfter(n, j.arg, newest)
      /\ \A t \in Subs \ {n} : registry'[t] = registry[t] \/ (t = victim /\ registry'[t] = NoEntry)
  BY <1>1 DEF Opens, Answer, Subs
<1>3. FlowStays
  <2>1. ASSUME NEW t \in Subs, t < nextSub PROVE TailSteady(t)
    <3>1. t # n
      BY <1>0, <1>1, <2>1
    <3>2. WrittenOf(t)' = WrittenOf(t) /\ (Current(t)' => Current(t))
      BY <1>0, <1>1, <3>1 DEF Opens, WrittenOf, Current
    <3>3. registry'[t] = NoEntry => ~Current(t)'
      BY <1>0, NoEntryFields, DeadTail
    <3> QED BY <1>2, <3>1, <3>2, <3>3 DEF TailSteady
  <2>2. nextSub <= nextSub' /\ newest <= newest'
    BY <1>0, <1>1, <1>2
  <2> QED BY <1>0, <1>2, <2>1, <2>2, LaneSame, HalvesFlow
<1>4. ASSUME NEW s \in Subs, Resuming(s)' PROVE Resumes(s)
  <2>1. s = client.sub /\ registry'[s].scope = client.conn /\ registry'[s].frozen
    BY <1>0, <1>4 DEF Resuming
  <2>2. s < nextSub /\ s # n
    BY <1>0, <1>1, <2>1, <1>2 DEF FreshInv
  <2>3. registry'[s] = registry[s]
    BY <1>2, <2>1, <2>2, NoEntryFields
  <2> QED BY <1>0, <1>4, <2>3 DEF Resumes, Resuming
<1>5. ASSUME NEW f \in UnderWay', f.kind = "page" PROVE Begins(f)
  <2>1. CASE f \in UnderWay
    BY <2>1 DEF Begins
  <2>2. CASE j.conn = client.conn /\ f = exec'.reply
    <3>1. f.sub = n /\ f.end = newest
      BY <1>0, <1>2, <2>2, PageShape
    <3>2. streams'[<<n, client.conn>>] = [written |-> newest, current |-> TRUE]
      BY <1>1, <2>2 DEF Opens
    <3>3. Flow(n, newest)'
      BY <1>0, <1>1, <1>2, <3>2, OpenFlow
    <3> QED BY <1>0, <3>1, <3>3 DEF Begins
  <2> QED BY <1>0, <1>5, <2>1, <2>2, AnsweredPages
<1> QED BY <1>0, <1>2, <1>3, <1>4, <1>5, FlowHost

\* A client that waits for nothing and holds no page has no flow to keep.
LEMMA FlowNone ==
    ASSUME client'.state # "Ready", \A f \in UnderWay' : f.kind # "page",
           client'.phase # "replay" \/ Mine'.shutdown
    PROVE  FlowInv'
BY DEF FlowInv, Resuming

\* A continued replay keeps the tail where the replay ends.
LEMMA ContinuedFlow ==
    ASSUME ShapeInv, ShapeInv', RegistryInv, RegistryInv', RequestInv, ViewInv, FlowInv, CoverInv,
           client.conn # 0, NEW j \in JobSet, Serves(j), ContinuesFor(j), Answers(j)
    PROVE  FlowInv'
<1>0. /\ client' = client /\ newest' = newest /\ newest \in Nat /\ nextSub \in Nat /\ client.conn \in Conns
      /\ j.conn \in Conns /\ j.arg \in Nat /\ j \in In(jobs) /\ nextSub' = nextSub /\ lane' = lane /\ j.sub \in Subs
  BY ClientShape DEF Serves, ContinuesFor
<1>1. PICK s \in Subs : s = j.sub
  BY <1>0
<1>2. CASE exec'.reply = Frame("refused", s, 0, 0, 0) /\ UNCHANGED <<registry, streams>>
  <2>1. FlowStays /\ ResumesAll
    BY <1>0, <1>2, LaneSame, HalvesFlow, TailsSame
  <2>2. exec'.reply.kind # "page"
    BY <1>2 DEF Frame
  <2>3. \A f \in UnderWay' : f.kind = "page" => f \in UnderWay
    BY <1>0, <2>2, AnsweredPages
  <2> QED BY <1>0, <2>1, <2>3, FlowSteady
<1>3. CASE /\ registry[s].scope = j.conn /\ registry[s].frozen
           /\ EntryBound(s, j.conn, PageAfter(s, j.arg, registry[s].through).hi < registry[s].through)
           /\ TailBound(s, j.conn)
           /\ exec'.reply = PageAfter(s, j.arg, registry[s].through)
  <2>0. registry[s].live \in {0, j.conn} /\ registry[s].through \in Nat
    BY <1>3, EntryShape DEF RegistryInv, EntryOK
  <2>1. ResumesAll
    <3>1. \A t \in Subs \ {s} : registry'[t] = registry[t]
      BY <1>3 DEF EntryBound
    <3>2. registry'[s].scope = registry[s].scope /\ registry'[s].through = registry[s].through
      BY <1>3 DEF EntryBound
    <3> QED BY <1>0, <1>3, <3>1, <3>2 DEF ResumesAll, Resuming
  <2>2. CASE j.conn # client.conn
    <3>1. ASSUME NEW t \in Subs PROVE TailSteady(t)
      <4>1. WrittenOf(t)' = WrittenOf(t) /\ (Current(t)' => Current(t))
        BY <1>0, <1>3, <2>2 DEF TailBound, WrittenOf, Current
      <4>2. t = s => ~Current(t)'
        BY <1>0, <1>3, <2>2, DeadTail DEF EntryBound
      <4>3. t # s => registry'[t] = registry[t]
        BY <1>3 DEF EntryBound
      <4> QED BY <4>1, <4>2, <4>3 DEF TailSteady
    <3>2. FlowStays
      BY <1>0, <3>1, LaneSame, HalvesFlow
    <3>3. \A f \in UnderWay' : f.kind = "page" => f \in UnderWay
      BY <1>0, <2>2, AnsweredPages
    <3> QED BY <1>0, <2>1, <3>2, <3>3, FlowSteady
  <2>3. CASE j.conn = client.conn
    <3>1. Unanswered /\ JobFits(j)
      BY <1>0, <2>3, JobAlone
    <3>2. client.phase = "replay" /\ client.sub = s /\ s # 0
      BY <1>1, <3>1, Bounds DEF JobFits, ContinuesFor, Subs
    <3>3. Resuming(s)
      BY <1>3, <2>3, <3>2 DEF Resuming
    <3>4. CASE registry[s].live = client.conn
      <4>1. streams' = streams /\ registry'[s].admitted = registry[s].admitted
        BY <1>3, <2>3, <3>4 DEF TailBound, EntryBound
      <4>2. ASSUME NEW t \in Subs PROVE TailSteady(t)
        <5>1. registry'[t].admitted = registry[t].admitted
          BY <1>3, <4>1 DEF EntryBound
        <5> QED BY <1>0, <4>1, <5>1 DEF TailSteady, WrittenOf, Current
      <4>3. FlowStays
        BY <1>0, <4>2, LaneSame, HalvesFlow
      <4>4. ASSUME NEW f \in UnderWay', f.kind = "page" PROVE Begins(f)
        <5>1. CASE f \in UnderWay
          BY <5>1 DEF Begins
        <5>2. CASE ~Mine.shutdown /\ f = exec'.reply
          <6>1. f.sub = s /\ f.end = registry[s].through
            BY <1>0, <1>3, <2>0, <5>2, PageShape
          <6>2. Flow(s, registry[s].through)
            BY <3>3, <5>2 DEF FlowInv
          <6>3. Flow(f.sub, f.end) /\ f.sub \in Subs /\ f.end \in Nat
            BY <2>0, <6>1, <6>2
          <6> QED BY <4>3, <6>3 DEF FlowStays, Begins
        <5> QED BY <1>0, <4>4, <5>1, <5>2, AnsweredPages
      <4>5. \A t \in Subs : Resuming(t)' => Resumes(t)
        BY <2>1 DEF ResumesAll, Resumes
      <4> QED BY <1>0, <4>3, <4>4, <4>5, FlowHost
    <3>5. CASE registry[s].live # client.conn
      <4>1. Mine.shutdown /\ Mine'.shutdown
        BY <1>0, <3>3, <3>5 DEF CoverInv, Mine
      <4>2. client'.state # "Ready"
        BY <1>0, <3>2 DEF ViewInv
      <4>3. \A f \in UnderWay' : f.kind # "page"
        <5> SUFFICES ASSUME NEW f \in UnderWay', f.kind = "page" PROVE FALSE
          OBVIOUS
        <5>1. f \in UnderWay /\ f \in FrameSet
          BY <1>0, <4>1, AnsweredPages, UnderWayNext
        <5> QED BY <3>1, <5>1 DEF Unanswered, ReplyFrames, Replies
      <4> QED BY <4>1, <4>2, <4>3, FlowNone
    <3> QED BY <3>4, <3>5
  <2> QED BY <2>2, <2>3
<1>4. Continues(j.conn, s, j.arg)
  BY <1>1 DEF ContinuesFor
<1> QED BY <1>2, <1>3, <1>4 DEF Continues, Answer

\* Serving a request keeps the flow.
LEMMA ServeFlow ==
    ASSUME ShapeInv, ShapeInv', RegistryInv, RegistryInv', ConnInv, FreshInv, RequestInv, ViewInv, FlowInv, CoverInv,
           client.conn # 0, NEW j \in JobSet, Serves(j)
    PROVE  FlowInv'
<1>0. /\ client' = client /\ newest' = newest /\ newest \in Nat /\ nextSub \in Nat /\ client.conn \in Conns
      /\ j.conn \in Conns
  BY ClientShape DEF Serves
<1>1. Answers(j)
  BY ServeRequest
<1>2. ASSUME nextSub' = nextSub, FlowStays, ResumesAll, exec'.reply.kind # "page",
             lane[client.conn].shutdown => lane'[client.conn].shutdown
      PROVE  FlowInv'
  <2>1. \A f \in UnderWay' : f.kind = "page" => f \in UnderWay
    BY <1>0, <1>1, <1>2, AnsweredPages
  <2> QED BY <1>0, <1>2, <2>1, FlowSteady
<1>3. CASE Snaps(j)
  <2>1. UNCHANGED <<nextSub, registry, streams, lane>> /\ exec'.reply.kind # "page"
    BY <1>3 DEF Snaps, Frame
  <2>2. FlowStays /\ ResumesAll
    BY <1>0, <2>1, LaneSame, HalvesFlow, TailsSame
  <2> QED BY <1>2, <2>1, <2>2
<1>4. CASE Busies(j)
  <2>1. UNCHANGED <<nextSub, registry, streams, exec>>
    BY <1>4 DEF Busies
  <2>2. lane'[client.conn] = lane[client.conn] \/ Shut(lane[client.conn], lane'[client.conn])
    BY <1>0, <1>4 DEF Busies, LanesKept
  <2>3. FlowStays /\ ResumesAll
    BY <1>0, <2>1, <2>2, LaneSame, HalvesFlow, TailsSame
  <2>4. exec'.reply.kind # "page"
    <3>1. exec.to = 0
      BY DEF Serves
    <3>2. exec.reply = None
      BY <3>1 DEF RegistryInv, ExecOK
    <3> QED BY <2>1, <3>2, NoneShape DEF Replies
  <2> QED BY <1>2, <2>1, <2>2, <2>3, <2>4, LaneSame
<1>5. CASE OpensFor(j)
  BY <1>1, <1>5, OpenedFlow
<1>6. CASE ContinuesFor(j)
  BY <1>1, <1>6, ContinuedFlow
<1>7. CASE ReleasesFor(j)
  <2>1. UNCHANGED <<nextSub, lane>> /\ exec'.reply.kind # "page" /\ j.sub \in Subs
    BY <1>7 DEF ReleasesFor, Frame
  <2>2. (\A t \in Subs : TailSteady(t)) /\ ResumesAll
    BY <1>0, <1>7, TailsSame, TailsDropped DEF ReleasesFor
  <2>3. FlowStays
    BY <1>0, <2>1, <2>2, LaneSame, HalvesFlow
  <2> QED BY <1>2, <2>1, <2>2, <2>3
<1> QED BY <1>3, <1>4, <1>5, <1>6, <1>7 DEF Serves

\* A control message keeps the flow.
LEMMA ControlFlow ==
    ASSUME ShapeInv, ShapeInv', RegistryInv, RegistryInv', ConnInv, RequestInv, FlowInv, client.conn # 0, Stands,
           NEW m \in ControlSet, Handles(m)
    PROVE  FlowInv'
<1>0. /\ client' = client /\ newest' = newest /\ newest \in Nat /\ nextSub' = nextSub /\ nextSub \in Nat
      /\ client.conn \in Conns /\ m.conn \in Conns
  BY ClientShape DEF Handles
<1>1. \A f \in UnderWay' : f.kind = "page" => f \in UnderWay
  BY <1>0, StandingPages
<1>2. lane'[client.conn] = lane[client.conn] \/ Shut(lane[client.conn], lane'[client.conn])
  BY <1>0 DEF Handles, Registers, Detaches, LanesKept
<1>3. ASSUME \A t \in Subs : TailSteady(t), ResumesAll PROVE FlowInv'
  <2>1. FlowStays
    BY <1>0, <1>2, <1>3, LaneSame, HalvesFlow
  <2> QED BY <1>0, <1>1, <1>2, <1>3, <2>1, LaneSame, FlowSteady
<1>4. CASE m.kind = "unregister" /\ Detaches(m.conn)
  BY <1>0, <1>3, <1>4, TailsDetached
<1>5. CASE m.kind = "register" /\ Registers(m.conn, m.from) /\ m.conn # client.conn
  BY <1>0, <1>3, <1>5, TailsMoved
<1>6. CASE m.kind = "register" /\ m.conn = client.conn
  <2>1. Registering(client.conn)
    <3>1. m = control[1] /\ 1 \in DOMAIN control /\ control \in Seq(ControlSet)
      BY DEF Handles
    <3>2. 1 \in 1 .. Len(control)
      BY <3>1
    <3> QED BY <1>6, <3>1, <3>2 DEF Registering
  <2>2. client.state # "Ready" /\ client.phase \in {"idle", "snapshot"}
    BY <2>1 DEF RequestInv
  <2>3. \A f \in UnderWay' : f.kind # "page"
    BY <1>1, <2>2 DEF RequestInv, ReplyFits
  <2> QED BY <1>0, <2>2, <2>3, FlowNone
<1> QED BY <1>4, <1>5, <1>6 DEF Handles

\* The executor keeps the flow.
LEMMA ExecutorFlow ==
    ASSUME ShapeInv, ShapeInv', RegistryInv, RegistryInv', ControlInv, ConnInv, FreshInv, KindInv, RequestInv,
           ViewInv, FlowInv, CoverInv, Executor
    PROVE  FlowInv'
<1>0. client' = client
  BY DEF Executor, Commit, Serve, Reply, Control, CatchUp, Reap, ReapOutput
<1> SUFFICES ASSUME client.conn # 0 PROVE FlowInv'
  BY <1>0 DEF FlowInv
<1>a. client.conn \in Conns /\ newest \in Nat /\ nextSub \in Nat
  BY ClientShape
<1>b. ~Serve => Stands
  BY ExecutorRequest
<1>c. ~Serve => \A f \in UnderWay' : f.kind = "page" => f \in UnderWay
  BY <1>0, <1>b, StandingPages
<1>s. ASSUME FlowStays, ResumesAll, lane[client.conn].shutdown => lane'[client.conn].shutdown, ~Serve
      PROVE  FlowInv'
  BY <1>0, <1>c, <1>s, FlowSteady
<1>4. CASE Serve
  BY <1>4, ServeCases, ServeFlow
<1>1. CASE Commit /\ ~Serve
  <2>1. newest <= newest' /\ UNCHANGED <<nextSub, registry, streams, lane>>
    BY <1>1, CommitCases
  <2>2. FlowStays /\ ResumesAll
    BY <1>0, <1>a, <2>1, LaneSame, HalvesFlow, TailsSame
  <2> QED BY <1>1, <1>s, <2>1, <2>2
<1>2. CASE Reply /\ ~Serve
  <2>1. PICK c \in Conns : HandsOver(c)
    BY <1>2, ReplyCases
  <2>2. UNCHANGED <<newest, nextSub, registry, streams>>
    BY <2>1 DEF HandsOver
  <2>3. LaneSteady(lane[client.conn], lane'[client.conn])
    BY <1>a, <2>1, LaneSame DEF HandsOver, LanesKept, KeepsAllBut, LaneSteady
  <2>4. FlowStays /\ ResumesAll
    BY <1>0, <1>a, <2>2, <2>3, HalvesFlow, TailsSame
  <2> QED BY <1>2, <1>s, <2>3, <2>4 DEF LaneSteady
<1>3. CASE Control /\ ~Serve
  BY <1>3, <1>b, ControlCases, ControlFlow
<1>5. ASSUME NEW s \in Subs, CatchUp(s) PROVE FlowInv'
  BY <1>5, CatchUpCases, CatchUpFlow
<1>6. ASSUME NEW s \in Subs, Reap(s), ~Serve PROVE FlowInv'
  <2>1. UNCHANGED <<newest, nextSub, lane>> /\ Dropped(s)
    BY <1>6, DropFacts DEF Reap
  <2>2. (\A t \in Subs : TailSteady(t)) /\ ResumesAll
    BY <1>0, <2>1, TailsDropped
  <2>3. FlowStays
    BY <1>0, <1>a, <2>1, <2>2, LaneSame, HalvesFlow
  <2> QED BY <1>6, <1>s, <2>1, <2>2, <2>3
<1>7. ASSUME NEW c \in Conns, ReapOutput(c), ~Serve PROVE FlowInv'
  <2>1. Detaches(c) /\ UNCHANGED <<newest, nextSub>>
    BY <1>7, DetachFacts DEF ReapOutput
  <2>2. (\A t \in Subs : TailSteady(t)) /\ ResumesAll
    BY <1>0, <2>1, TailsDetached
  <2>3. lane'[client.conn] = lane[client.conn] \/ Shut(lane[client.conn], lane'[client.conn])
    BY <1>a, <2>1 DEF Detaches, LanesKept
  <2>4. FlowStays
    BY <1>0, <1>a, <2>1, <2>2, <2>3, LaneSame, HalvesFlow
  <2> QED BY <1>7, <1>s, <2>2, <2>3, <2>4, LaneSame
<1> QED BY <1>1, <1>2, <1>3, <1>4, <1>5, <1>6, <1>7 DEF Executor

\* The first of a set of frames in order that covers a range is its first event.
LEMMA HeadCovers ==
    ASSUME NEW R \in SUBSET FrameSet, NEW h \in FrameSet, NEW s, NEW a \in Nat, NEW b \in Nat,
           \A g \in R : Precedes(h, g, s), Covers({h} \cup R, s, a, b), IsEvent(h, s)
    PROVE  h.hi = a + 1 /\ a + 1 <= b /\ Covers(R, s, a + 1, b)
<1>0. h.hi \in Nat /\ \A g \in R : g.hi \in Nat
  BY FrameFields
<1>1. a < h.hi /\ h.hi <= b
  BY DEF Covers
<1>2. h.hi = a + 1
  <2>1. a + 1 \in a + 1 .. b
    BY <1>0, <1>1
  <2>2. PICK g \in {h} \cup R : IsEvent(g, s) /\ g.hi = a + 1
    BY <2>1 DEF Covers
  <2>3. CASE g \in R
    <3>1. h.hi < a + 1
      BY <2>2, <2>3 DEF Precedes
    <3> QED BY <1>0, <1>1, <3>1
  <2> QED BY <2>2, <2>3
<1>3. ASSUME NEW f \in R, IsEvent(f, s) PROVE a + 1 < f.hi /\ f.hi <= b
  <2>1. h.hi < f.hi
    BY <1>3 DEF Precedes
  <2>2. f.hi <= b
    BY <1>3 DEF Covers
  <2> QED BY <1>2, <2>1, <2>2
<1>4. ASSUME NEW n \in a + 1 + 1 .. b PROVE \E f \in R : IsEvent(f, s) /\ f.hi = n
  <2>1. n \in a + 1 .. b /\ n # a + 1
    OBVIOUS
  <2>2. PICK g \in {h} \cup R : IsEvent(g, s) /\ g.hi = n
    BY <2>1 DEF Covers
  <2> QED BY <1>2, <2>1, <2>2
<1>5. Covers(R, s, a + 1, b)
  BY <1>3, <1>4 DEF Covers
<1> QED BY <1>0, <1>1, <1>2, <1>5

\* One more event at the end.
LEMMA CoversMore ==
    ASSUME NEW S \in SUBSET FrameSet, NEW w \in FrameSet, NEW s, NEW a \in Nat, NEW b \in Nat, a <= b,
           Covers(S, s, a, b), IsEvent(w, s), w.hi = b + 1
    PROVE  Covers(S \cup {w}, s, a, b + 1)
<1>1. ASSUME NEW h \in S \cup {w}, IsEvent(h, s) PROVE a < h.hi /\ h.hi <= b + 1
  <2>1. CASE h \in S
    <3>1. a < h.hi /\ h.hi <= b /\ h.hi \in Nat
      BY <1>1, <2>1, FrameFields DEF Covers
    <3> QED BY <3>1
  <2> QED BY <1>1, <2>1
<1>2. ASSUME NEW n \in a + 1 .. b + 1 PROVE \E h \in S \cup {w} : IsEvent(h, s) /\ h.hi = n
  <2>1. CASE n = b + 1
    BY <2>1
  <2>2. CASE n # b + 1
    <3>1. n \in a + 1 .. b
      BY <2>2
    <3> QED BY <3>1 DEF Covers
  <2> QED BY <2>1, <2>2
<1> QED BY <1>1, <1>2 DEF Covers

\* The writer takes a critical frame: a notice gets the sequence that was written.
LEMMA TakeCriticalFlow ==
    ASSUME ShapeInv, ShapeInv', KindInv, client.conn # 0, client' = client, NEW c \in Conns, c = client.conn,
           Takes(c), TakesCritical(c), UNCHANGED <<newest, nextSub, registry, streams>>
    PROVE  FlowStays
<1> SUFFICES ASSUME NEW t \in Subs, NEW T \in Nat, Flow(t, T) PROVE Flow(t, T)'
  BY DEF FlowStays
<1>1. PICK l, m : l = lane[c] /\ m = lane'[c] /\ l = Mine /\ m = Mine'
  BY DEF Mine
<1>2. PICK h \in FrameSet : h = Head(l.critical) /\ In(l.critical) = {h} \cup In(m.critical) /\ h \in In(l.critical)
  <2>1. l.critical \in Seq(FrameSet) /\ l.critical # <<>> /\ m.critical = Tail(l.critical)
    BY <1>1, LaneShape DEF TakesCritical
  <2>2. Head(l.critical) \in FrameSet /\ In(l.critical) = {Head(l.critical)} \cup In(m.critical)
    BY <2>1, InTail
  <2> QED BY <2>2
<1>3. /\ l.writing = None /\ m.writing = Prepared(h, c) /\ m.wire = l.wire /\ m.durable = l.durable
      /\ m.shutdown = l.shutdown
  BY <1>1, <1>2 DEF Takes, TakesCritical, KeepsAllBut
<1>4. PICK w : w = m.writing /\ w.kind = h.kind /\ w.sub = h.sub /\ w.hi = h.hi
               /\ (h.kind = "resync" => w.lo = streams[<<h.sub, c>>].written)
  BY <1>2, <1>3, PreparedShape
<1>5. ~IsEvent(w, t) /\ ~IsEvent(None, t) /\ ~IsResync(None, t)
  <2>1. h.kind # "event"
    BY <1>1, <1>2 DEF KindInv, LaneKinds
  <2> QED BY <1>4, <2>1, NoneShape DEF IsEvent, IsResync, Tails
<1>6. /\ WrittenOf(t)' = WrittenOf(t) /\ (Current(t)' => Current(t)) /\ Taken(t)' = WrittenOf(t) /\ Taken(t) = WrittenOf(t)
  BY <1>1, <1>3, <1>4, <1>5 DEF WrittenOf, Current, Taken
<1>7. Place(t, T)'
  BY <1>6 DEF Flow, Place
<1>8. Order(t)'
  <2>1. Across(In(client.inbox) \cup In(l.wire), {w}, t)
    BY <1>5 DEF Across, Precedes
  <2> QED BY <1>1, <1>3, <1>4, <2>1 DEF Flow, Order
<1>9. Sent(t, T)'
  BY <1>1, <1>3, <1>4, <1>5, <1>6 DEF Flow, Sent
<1>10. Queued(t)'
  BY <1>1, <1>3, <1>6 DEF Flow, Queued
<1>11. Notices(t)'
  <2>0. Notices(t)
    BY DEF Flow
  <2>1. ASSUME NEW f \in In(client.inbox) \cup In(m.wire), IsResync(f, t)
        PROVE  ~Current(t)' /\ f.lo = WrittenOf(t)' /\ WrittenOf(t)' <= f.hi
    BY <1>1, <1>3, <1>6, <2>0, <2>1 DEF Notices
  <2>2. ASSUME IsResync(w, t) PROVE ~Current(t)' /\ w.lo = WrittenOf(t)' /\ WrittenOf(t)' <= w.hi
    <3>1. IsResync(h, t)
      BY <1>4, <2>2 DEF IsResync
    <3>2. ~Current(t) /\ Taken(t) <= h.hi
      BY <1>1, <1>2, <2>0, <3>1 DEF Notices
    <3>3. w.lo = WrittenOf(t)
      BY <1>4, <3>1 DEF IsResync, WrittenOf
    <3> QED BY <1>4, <1>6, <3>2, <3>3
  <2>3. ASSUME NEW f \in In(m.critical), IsResync(f, t) PROVE ~Current(t)' /\ Taken(t)' <= f.hi
    BY <1>1, <1>2, <1>6, <2>0, <2>3 DEF Notices
  <2> QED BY <1>1, <1>4, <2>1, <2>2, <2>3 DEF Notices
<1> QED BY <1>7, <1>8, <1>9, <1>10, <1>11 DEF Flow

\* The writer takes the next event, or skips one whose tail was cancelled.
LEMMA TakeDurableFlow ==
    ASSUME ShapeInv, ShapeInv', RegistryInv, KindInv, client.conn # 0, client' = client, NEW c \in Conns,
           c = client.conn, Takes(c), TakesDurable(c), UNCHANGED <<newest, nextSub, registry, streams>>
    PROVE  FlowStays
<1> SUFFICES ASSUME NEW t \in Subs, NEW T \in Nat, Flow(t, T) PROVE Flow(t, T)'
  BY DEF FlowStays
<1>1. PICK l, m : l = lane[c] /\ m = lane'[c] /\ l = Mine /\ m = Mine'
  BY DEF Mine
<1>2. PICK h \in FrameSet : /\ h = Head(l.durable) /\ In(l.durable) = {h} \cup In(m.durable) /\ h.kind = "event"
                            /\ l.durable \in Seq(FrameSet) /\ l.durable # <<>> /\ m.durable = Tail(l.durable)
  <2>1. l.durable \in Seq(FrameSet) /\ l.durable # <<>> /\ m.durable = Tail(l.durable)
    BY <1>1, LaneShape DEF TakesDurable
  <2>2. Head(l.durable) \in FrameSet /\ In(l.durable) = {Head(l.durable)} \cup In(m.durable)
    BY <2>1, InTail
  <2>3. Head(l.durable).kind = "event"
    BY <1>1, <2>2 DEF KindInv, LaneKinds
  <2> QED BY <2>1, <2>2, <2>3
<1>3. /\ l.writing = None /\ m.wire = l.wire /\ m.critical = l.critical /\ l.critical = <<>>
      /\ m.shutdown = l.shutdown /\ ~l.shutdown
      /\ m.writing = IF streams[<<h.sub, c>>].current THEN h ELSE None
  BY <1>1, <1>2 DEF Takes, TakesDurable, KeepsAllBut
<1>4. ~IsEvent(None, t) /\ ~IsResync(None, t) /\ ~IsResync(h, t) /\ In(m.critical) = {}
  BY <1>2, <1>3, NoneShape, InEmpty DEF IsEvent, IsResync, Tails
<1>5. /\ WrittenOf(t)' = WrittenOf(t) /\ (Current(t)' => Current(t)) /\ Taken(t) = WrittenOf(t)
  BY <1>1, <1>3, <1>4 DEF WrittenOf, Current, Taken
<1>6. /\ Place(t, T) /\ Order(t) /\ Sent(t, T) /\ Queued(t) /\ Notices(t)
  BY DEF Flow
<1>7. PICK W \in Nat : W = WrittenOf(t)
  BY PlaceShape
<1>8. PICK a \in Nat : a = registry[t].admitted
  BY EntryShape
<1>9. newest \in Nat /\ a <= newest
  BY <1>8, EntryShape DEF RegistryInv, EntryOK
<1>10. Notices(t)'
  <2>1. ASSUME NEW f \in In(client.inbox) \cup In(m.wire) \cup {m.writing}, IsResync(f, t)
        PROVE  ~Current(t)' /\ f.lo = WrittenOf(t)' /\ WrittenOf(t)' <= f.hi
    <3>1. f \in In(client.inbox) \cup In(l.wire)
      BY <1>3, <1>4, <2>1
    <3> QED BY <1>1, <1>5, <1>6, <2>1, <3>1 DEF Notices
  <2> QED BY <1>1, <1>4, <2>1 DEF Notices
<1>11. CASE h.sub = t /\ Current(t)
  <2>1. m.writing = h /\ IsEvent(h, t)
    BY <1>2, <1>3, <1>11 DEF IsEvent, Current
  <2>2. Taken(t)' = W + 1
    BY <1>1, <1>5, <1>7, <2>1 DEF Taken
  <2>3. InOrder(l.durable, t) /\ W <= a /\ Covers(In(l.durable), t, W, a)
    BY <1>1, <1>3, <1>5, <1>6, <1>7, <1>8, <1>11 DEF Queued
  <2>4. InOrder(m.durable, t) /\ \A g \in In(m.durable) : Precedes(h, g, t)
    BY <1>2, <2>3, OrderTail
  <2>5. In(m.durable) \in SUBSET FrameSet
    BY <1>1, LaneNext, Queues
  <2>6. h.hi = W + 1 /\ W + 1 <= a /\ Covers(In(m.durable), t, W + 1, a)
    <3>1. Covers({h} \cup In(m.durable), t, W, a)
      BY <1>2, <2>3
    <3> QED BY <2>1, <2>4, <2>5, <3>1, HeadCovers
  <2>7. Place(t, T)'
    <3>1. W + 1 <= newest
      BY <1>9, <2>6
    <3> QED BY <1>5, <1>6, <2>2, <3>1 DEF Place
  <2>8. Order(t)'
    <3>1. ASSUME NEW f \in In(client.inbox) \cup In(l.wire) PROVE Precedes(f, h, t)
      <4>1. ~IsResync(f, t)
        BY <1>1, <1>6, <1>11 DEF Notices
      <4>2. f \in FrameSet
        <5>1. l.wire \in Seq(FrameSet) /\ client.inbox \in Seq(FrameSet)
          BY <1>1, LaneShape, ClientShape
        <5> QED BY <5>1, Queues
      <4>3. IsEvent(f, t) => f.hi <= W
        BY <1>1, <1>6, <1>7 DEF Sent, Covers
      <4>4. f.hi \in Nat
        BY <4>2, FrameFields
      <4> QED BY <2>6, <4>1, <4>3, <4>4 DEF Precedes
    <3>2. Across(In(client.inbox) \cup In(l.wire), {h}, t)
      BY <3>1 DEF Across
    <3> QED BY <1>1, <1>3, <1>6, <2>1, <3>2 DEF Order
  <2>9. Sent(t, T)'
    BY <1>1, <1>3, <1>5, <1>6, <1>7, <2>1, <2>6 DEF Sent
  <2>10. Queued(t)'
    BY <1>1, <1>8, <2>2, <2>4, <2>6 DEF Queued
  <2> QED BY <1>10, <2>7, <2>8, <2>9, <2>10 DEF Flow
<1>12. CASE ~(h.sub = t /\ Current(t))
  <2>1. ~IsEvent(m.writing, t)
    BY <1>3, <1>4, <1>12 DEF IsEvent, Current
  <2>2. Taken(t)' = W /\ Taken(t) = W
    BY <1>1, <1>5, <1>7, <2>1 DEF Taken
  <2>3. Place(t, T)'
    BY <1>5, <1>6, <1>7, <2>2 DEF Place
  <2>4. Order(t)'
    <3>1. Across(In(client.inbox) \cup In(l.wire), {m.writing}, t)
      BY <2>1 DEF Across, Precedes
    <3> QED BY <1>1, <1>3, <1>6, <3>1 DEF Order
  <2>5. Sent(t, T)'
    BY <1>1, <1>3, <1>5, <1>6, <2>1 DEF Sent
  <2>6. Queued(t)'
    <3> SUFFICES ASSUME Current(t)', ~m.shutdown
                 PROVE  InOrder(m.durable, t) /\ W <= a /\ Covers(In(m.durable), t, W, a)
      BY <1>1, <1>8, <2>2 DEF Queued
    <3>1. InOrder(l.durable, t) /\ W <= a /\ Covers(In(l.durable), t, W, a)
      BY <1>1, <1>3, <1>5, <1>6, <1>8, <2>2 DEF Queued
    <3>2. InOrder(m.durable, t)
      BY <1>2, <3>1, OrderTail
    <3>3. ~IsEvent(h, t)
      BY <1>5, <1>12 DEF IsEvent
    <3>4. Covers(In(m.durable), t, W, a)
      BY <1>2, <3>1, <3>3 DEF Covers
    <3> QED BY <3>1, <3>2, <3>4
  <2> QED BY <1>10, <2>3, <2>4, <2>5, <2>6 DEF Flow
<1> QED BY <1>11, <1>12

\* A write returns: the event it wrote is the next one of its tail.
LEMMA WriteFlow ==
    ASSUME ShapeInv, ShapeInv', client.conn # 0, client' = client, NEW c \in Conns, c = client.conn,
           Writes(c), UNCHANGED <<newest, nextSub, registry>>
    PROVE  FlowStays
<1> SUFFICES ASSUME NEW t \in Subs, NEW T \in Nat, Flow(t, T) PROVE Flow(t, T)'
  BY DEF FlowStays
<1>1. PICK l, m : l = lane[c] /\ m = lane'[c] /\ l = Mine /\ m = Mine'
  BY DEF Mine
<1>2. PICK w \in FrameSet : w = l.writing
  BY <1>1, LaneShape
<1>3. /\ m.writing = None /\ m.wire = Append(l.wire, w) /\ m.critical = l.critical /\ m.durable = l.durable
      /\ m.shutdown = l.shutdown
  BY <1>1, <1>2 DEF Writes, KeepsAllBut
<1>4. /\ l.wire \in Seq(FrameSet) /\ client.inbox \in Seq(FrameSet) /\ In(m.wire) = In(l.wire) \cup {w}
      /\ In(client.inbox) \cup In(l.wire) \in SUBSET FrameSet
  <2>1. l.wire \in Seq(FrameSet) /\ client.inbox \in Seq(FrameSet)
    BY <1>1, LaneShape, ClientShape
  <2>2. In(m.wire) = In(l.wire) \cup {w}
    BY <1>2, <1>3, <2>1, InAppend
  <2>3. In(client.inbox) \subseteq FrameSet /\ In(l.wire) \subseteq FrameSet
    BY <2>1, Queues
  <2> QED BY <2>1, <2>2, <2>3
<1>5. ~IsEvent(None, t) /\ ~IsResync(None, t)
  BY NoneShape DEF IsEvent, IsResync, Tails
<1>6. /\ Place(t, T) /\ Order(t) /\ Sent(t, T) /\ Queued(t) /\ Notices(t)
  BY DEF Flow
<1>7. PICK W \in Nat : W = WrittenOf(t)
  BY PlaceShape
<1>8. Current(t)' => Current(t)
  BY DEF Writes, Current
<1>9. IsEvent(w, t) => w.hi = W + 1
  BY <1>1, <1>2, <1>6, <1>7 DEF Sent
<1>10. /\ WrittenOf(t)' = (IF IsEvent(w, t) THEN W + 1 ELSE W) /\ Taken(t)' = WrittenOf(t)' /\ Taken(t) = WrittenOf(t)'
  <2>1. WrittenOf(t)' = IF IsEvent(w, t) /\ w.hi > W THEN w.hi ELSE W
    BY <1>1, <1>2, <1>7 DEF Writes, WrittenOf
  <2>2. WrittenOf(t)' = IF IsEvent(w, t) THEN W + 1 ELSE W
    BY <1>7, <1>9, <2>1
  <2> QED BY <1>1, <1>2, <1>3, <1>5, <1>7, <2>2 DEF Taken
<1>11. T <= W /\ T <= WrittenOf(t)'
  <2>1. T <= W
    BY <1>6, <1>7 DEF Place
  <2> QED BY <1>7, <1>10, <2>1
<1>12. Place(t, T)'
  BY <1>6, <1>10, <1>11 DEF Place
<1>13. Order(t)'
  <2>1. /\ InOrder(client.inbox, t) /\ InOrder(l.wire, t) /\ Across(In(client.inbox), In(l.wire), t)
        /\ Across(In(client.inbox) \cup In(l.wire), {w}, t)
    BY <1>1, <1>2, <1>6 DEF Order
  <2>2. InOrder(m.wire, t)
    <3>1. \A g \in In(l.wire) : Precedes(g, w, t)
      BY <2>1 DEF Across
    <3> QED BY <1>3, <1>4, <2>1, <3>1, OrderAppend
  <2>3. Across(In(client.inbox), In(m.wire), t)
    BY <1>4, <2>1 DEF Across
  <2>4. Across(In(client.inbox) \cup In(m.wire), {m.writing}, t)
    BY <1>3, <1>5 DEF Across, Precedes
  <2> QED BY <1>1, <2>1, <2>2, <2>3, <2>4 DEF Order
<1>14. Sent(t, T)'
  <2>1. Covers(In(client.inbox) \cup In(l.wire), t, T, W)
    BY <1>1, <1>6, <1>7 DEF Sent
  <2>2. Covers(In(client.inbox) \cup In(m.wire), t, T, WrittenOf(t)')
    <3>0. PICK S \in SUBSET FrameSet : S = In(client.inbox) \cup In(l.wire) /\ In(client.inbox) \cup In(m.wire) = S \cup {w}
      BY <1>4
    <3>1. CASE IsEvent(w, t)
      <4>1. Covers(S \cup {w}, t, T, W + 1)
        BY <1>9, <1>11, <2>1, <3>0, <3>1, CoversMore
      <4> QED BY <1>10, <3>0, <3>1, <4>1
    <3>2. CASE ~IsEvent(w, t)
      <4>1. Covers(S \cup {w}, t, T, W)
        BY <2>1, <3>0, <3>2 DEF Covers
      <4> QED BY <1>10, <3>0, <3>2, <4>1
    <3> QED BY <3>1, <3>2
  <2> QED BY <1>1, <1>3, <1>5, <2>2 DEF Sent
<1>15. Queued(t)'
  BY <1>1, <1>3, <1>6, <1>8, <1>10 DEF Queued
<1>16. Notices(t)'
  <2>1. ASSUME NEW f \in In(client.inbox) \cup In(m.wire) \cup {m.writing}, IsResync(f, t)
        PROVE  ~Current(t)' /\ f.lo = WrittenOf(t)' /\ WrittenOf(t)' <= f.hi
    <3>1. f \in In(client.inbox) \cup In(l.wire) \cup {w}
      BY <1>3, <1>4, <1>5, <2>1
    <3>2. ~Current(t) /\ f.lo = W /\ W <= f.hi
      BY <1>1, <1>2, <1>6, <1>7, <2>1, <3>1 DEF Notices
    <3>3. ~IsEvent(w, t)
      <4>1. f = w => ~IsEvent(w, t)
        BY <2>1 DEF IsResync, IsEvent
      <4>2. f \in In(client.inbox) \cup In(l.wire) => Precedes(f, w, t)
        BY <1>1, <1>2, <1>6 DEF Order, Across
      <4> QED BY <2>1, <3>1, <4>1, <4>2 DEF Precedes
    <3> QED BY <1>8, <1>10, <3>2, <3>3
  <2>2. ASSUME NEW f \in In(m.critical), IsResync(f, t) PROVE ~Current(t)' /\ Taken(t)' <= f.hi
    BY <1>1, <1>3, <1>6, <1>8, <1>10, <2>2 DEF Notices
  <2> QED BY <1>1, <2>1, <2>2 DEF Notices
<1> QED BY <1>12, <1>13, <1>14, <1>15, <1>16 DEF Flow

\* The tasks of a connection keep the flow.
LEMMA DuplexFlow ==
    ASSUME ShapeInv, ShapeInv', RegistryInv, KindInv, RequestInv, FlowInv, NEW c \in Conns,
           AdmitReply(c) \/ Take(c) \/ Written(c) \/ HostDrop(c)
    PROVE  FlowInv'
<1>0. client' = client /\ UNCHANGED <<newest, nextSub, registry>>
  BY DEF AdmitReply, Take, Written, HostDrop
<1> SUFFICES ASSUME client.conn # 0 PROVE FlowInv'
  BY <1>0 DEF FlowInv
<1>a. client.conn \in Conns /\ newest \in Nat /\ nextSub \in Nat /\ newest <= newest' /\ nextSub <= nextSub'
  BY <1>0, ClientShape
<1>b. \A f \in UnderWay' : f.kind = "page" => f \in UnderWay
  BY <1>0, DuplexRequest, StandingPages
<1>c. ResumesAll
  BY <1>0 DEF ResumesAll, Resuming
<1>d. LanesKept(c) /\ (lane[c].shutdown => lane'[c].shutdown)
  BY AdmitReplyCases, TakeCases, WrittenCases, HostDropCases DEF Admitted, Takes, TakesCritical, TakesDurable, Writes,
     Drops, KeepsAllBut
<1>e. lane[client.conn].shutdown => lane'[client.conn].shutdown
  BY <1>a, <1>d DEF LanesKept
<1>f. ASSUME FlowStays PROVE FlowInv'
  BY <1>0, <1>b, <1>c, <1>e, <1>f, FlowSteady
<1>1. CASE ~Written(c)
  <2>0. streams' = streams
    BY <1>1 DEF AdmitReply, Take, HostDrop
  <2>1. \A s \in Subs : TailSteady(s)
    BY <1>0, <2>0, TailsSame
  <2>2. CASE client.conn # c
    <3>1. lane'[client.conn] = lane[client.conn]
      BY <1>a, <1>d, <2>2 DEF LanesKept
    <3> QED BY <1>0, <1>a, <1>f, <2>1, <3>1, LaneSame, HalvesFlow
  <2>3. CASE client.conn = c /\ HostDrop(c)
    <3>1. LaneSteady(lane[c], lane'[c])
      BY <2>3, HostDropCases, InEmpty DEF Drops, LaneSteady
    <3> QED BY <1>0, <1>a, <1>f, <2>1, <2>3, <3>1, HalvesFlow
  <2>4. CASE client.conn = c /\ AdmitReply(c)
    <3>0. Admitted(c)
      BY <2>4, AdmitReplyCases
    <3>1. lane[c].answer.kind # "resync" /\ lane[c].critical \in Seq(FrameSet) /\ lane[c].answer \in FrameSet
      BY LaneShape DEF KindInv, LaneKinds, Tails
    <3>2. In(Append(lane[c].critical, lane[c].answer)) = In(lane[c].critical) \cup {lane[c].answer}
      BY <3>1, InAppend
    <3>3. \A f \in In(lane'[c].critical) : f \in In(lane[c].critical) \/ f.kind # "resync"
      BY <3>0, <3>1, <3>2 DEF Admitted
    <3>4. LaneSteady(lane[c], lane'[c])
      BY <1>d, <3>0, <3>3 DEF Admitted, KeepsAllBut, LaneSteady
    <3> QED BY <1>0, <1>a, <1>f, <2>1, <2>4, <3>4, HalvesFlow
  <2>5. CASE client.conn = c /\ Take(c)
    BY <1>0, <1>f, <2>0, <2>5, TakeCases, TakeCriticalFlow, TakeDurableFlow DEF Takes
  <2> QED BY <1>1, <2>2, <2>3, <2>4, <2>5
<1>2. CASE Written(c)
  <2>1. Writes(c)
    BY <1>2, WrittenCases
  <2>2. c = client.conn
    BY <2>1 DEF Writes
  <2> QED BY <1>0, <1>f, <2>1, <2>2, WriteFlow
<1> QED BY <1>1, <1>2

\* What the client holds and what is on the wire after a step of the client, seen
\* from the subscription t whose model reaches U.
LEMMA ClientFlow ==
    ASSUME ShapeInv, ShapeInv', HostKept, client.conn # 0, client'.conn = client.conn,
           client'.retired = client.retired, In(client'.retained) \subseteq In(client.retained),
           KeepsAllBut(lane[client.conn], lane'[client.conn], {"wire"}),
           NEW t \in Subs, NEW T \in Nat, NEW U \in Nat, Flow(t, T), U <= WrittenOf(t),
           InOrder(client'.inbox, t), InOrder(lane'[client.conn].wire, t),
           Across(In(client'.inbox), In(lane'[client.conn].wire), t),
           In(client'.inbox) \cup In(lane'[client.conn].wire) \subseteq In(client.inbox) \cup In(lane[client.conn].wire),
           Covers(In(client'.inbox) \cup In(lane'[client.conn].wire), t, U, WrittenOf(t))
    PROVE  Flow(t, U)'
<1>1. PICK l, m : l = lane[client.conn] /\ m = lane'[client.conn] /\ l = Mine /\ m = Mine'
  BY DEF Mine
<1>2. /\ m.writing = l.writing /\ m.critical = l.critical /\ m.durable = l.durable /\ m.shutdown = l.shutdown
  BY <1>1 DEF KeepsAllBut
<1>3. /\ Place(t, T) /\ Order(t) /\ Sent(t, T) /\ Queued(t) /\ Notices(t)
  BY DEF Flow
<1>4. WrittenOf(t)' = WrittenOf(t) /\ (Current(t)' => Current(t)) /\ Taken(t)' = Taken(t)
  BY <1>1, <1>2 DEF HostKept, WrittenOf, Current, Taken
<1>5. Place(t, U)'
  BY <1>3, <1>4 DEF Place, HostKept
<1>6. Order(t)'
  <2>1. Across(In(client'.inbox) \cup In(m.wire), {m.writing}, t)
    BY <1>1, <1>2, <1>3 DEF Order, Across
  <2> QED BY <1>1, <2>1 DEF Order
<1>7. Sent(t, U)'
  BY <1>1, <1>2, <1>3, <1>4 DEF Sent
<1>8. Queued(t)'
  BY <1>1, <1>2, <1>3, <1>4 DEF Queued, HostKept
<1>9. Notices(t)'
  <2>1. ASSUME NEW f \in In(client'.inbox) \cup In(m.wire) \cup {m.writing}, IsResync(f, t)
        PROVE  ~Current(t)' /\ f.lo = WrittenOf(t)' /\ WrittenOf(t)' <= f.hi
    <3>1. f \in In(client.inbox) \cup In(l.wire) \cup {l.writing}
      BY <1>1, <1>2, <2>1
    <3> QED BY <1>1, <1>3, <1>4, <2>1, <3>1 DEF Notices
  <2>2. ASSUME NEW f \in In(m.critical), IsResync(f, t) PROVE ~Current(t)' /\ Taken(t)' <= f.hi
    BY <1>1, <1>2, <1>3, <1>4, <2>2 DEF Notices
  <2> QED BY <1>1, <2>1, <2>2 DEF Notices
<1> QED BY <1>5, <1>6, <1>7, <1>8, <1>9 DEF Flow

\* A step of the client that touches neither its inbox nor the wire.
LEMMA SameFlow ==
    ASSUME ShapeInv, ShapeInv', HostKept, client.conn # 0, client'.conn = client.conn,
           client'.retired = client.retired, client'.retained = client.retained, client'.inbox = client.inbox,
           lane' = lane, NEW t \in Subs, NEW T \in Nat, Flow(t, T)
    PROVE  Flow(t, T)'
<1>1. KeepsAllBut(lane[client.conn], lane'[client.conn], {"wire"})
  BY DEF KeepsAllBut
<1>2. /\ T <= WrittenOf(t) /\ InOrder(client.inbox, t) /\ InOrder(lane[client.conn].wire, t)
      /\ Across(In(client.inbox), In(lane[client.conn].wire), t)
      /\ Covers(In(client.inbox) \cup In(lane[client.conn].wire), t, T, WrittenOf(t))
  BY DEF Flow, Place, Order, Sent, Mine
<1> QED BY <1>1, <1>2, ClientFlow

\* A frame that is not of the subscription leaves the inbox or the retained lane.
LEMMA DropFlow ==
    ASSUME ShapeInv, ShapeInv', HostKept, client.conn # 0, client'.conn = client.conn,
           client'.retired = client.retired, lane' = lane, NEW t \in Subs, NEW T \in Nat, Flow(t, T),
           NEW f \in FrameSet, f.sub # t,
           \/ /\ client.retained # <<>> /\ client'.retained = Tail(client.retained) /\ client'.inbox = client.inbox
           \/ /\ client.inbox # <<>> /\ f = Head(client.inbox)
              /\ client'.inbox = Tail(client.inbox) /\ client'.retained = client.retained
    PROVE  Flow(t, T)'
<1>1. KeepsAllBut(lane[client.conn], lane'[client.conn], {"wire"})
  BY DEF KeepsAllBut
<1>2. PICK l : l = lane[client.conn] /\ l = lane'[client.conn]
  OBVIOUS
<1>3. /\ T <= WrittenOf(t) /\ InOrder(client.inbox, t) /\ InOrder(l.wire, t)
      /\ Across(In(client.inbox), In(l.wire), t)
      /\ Covers(In(client.inbox) \cup In(l.wire), t, T, WrittenOf(t))
  BY <1>2 DEF Flow, Place, Order, Sent, Mine
<1>4. client.inbox \in Seq(FrameSet) /\ client.retained \in Seq(FrameSet)
  BY ClientShape
<1>5. In(client'.retained) \subseteq In(client.retained)
  BY <1>4, InTail
<1>6. CASE client'.inbox = client.inbox
  BY <1>1, <1>2, <1>3, <1>5, <1>6, ClientFlow
<1>7. CASE client.inbox # <<>> /\ f = Head(client.inbox) /\ client'.inbox = Tail(client.inbox)
  <2>1. In(client.inbox) = {f} \cup In(client'.inbox) /\ InOrder(client'.inbox, t)
    BY <1>3, <1>4, <1>7, InTail, OrderTail
  <2>2. ~IsEvent(f, t)
    BY DEF IsEvent
  <2>3. Across(In(client'.inbox), In(l.wire), t)
    BY <1>3, <2>1 DEF Across
  <2>4. Covers(In(client'.inbox) \cup In(l.wire), t, T, WrittenOf(t))
    BY <1>3, <2>1, <2>2 DEF Covers
  <2>5. In(client'.inbox) \cup In(l.wire) \subseteq In(client.inbox) \cup In(l.wire)
    BY <2>1
  <2> QED BY <1>1, <1>2, <1>3, <1>5, <2>1, <2>3, <2>4, <2>5, ClientFlow
<1> QED BY <1>6, <1>7

\* The client applies the next event of its own subscription.
LEMMA ApplyFlow ==
    ASSUME ShapeInv, ShapeInv', HostKept, client.conn # 0, client'.conn = client.conn,
           client'.retired = client.retired, lane' = lane, NEW t \in Subs, NEW T \in Nat, Flow(t, T),
           NEW f \in FrameSet, IsEvent(f, t), client.inbox # <<>>, f = Head(client.inbox),
           client'.inbox = Tail(client.inbox), client'.retained = client.retained
    PROVE  f.hi = T + 1 /\ Flow(t, T + 1)'
<1>1. KeepsAllBut(lane[client.conn], lane'[client.conn], {"wire"})
  BY DEF KeepsAllBut
<1>2. PICK l : l = lane[client.conn] /\ l = lane'[client.conn]
  OBVIOUS
<1>3. /\ T <= WrittenOf(t) /\ InOrder(client.inbox, t) /\ InOrder(l.wire, t)
      /\ Across(In(client.inbox), In(l.wire), t)
      /\ Covers(In(client.inbox) \cup In(l.wire), t, T, WrittenOf(t))
  BY <1>2 DEF Flow, Place, Order, Sent, Mine
<1>4. client.inbox \in Seq(FrameSet) /\ l.wire \in Seq(FrameSet)
  BY <1>2, ClientShape, LaneShape
<1>5. In(client.inbox) = {f} \cup In(client'.inbox) /\ InOrder(client'.inbox, t)
      /\ \A g \in In(client'.inbox) : Precedes(f, g, t)
  BY <1>3, <1>4, InTail, OrderTail
<1>6. PICK R \in SUBSET FrameSet : R = In(client'.inbox) \cup In(l.wire)
  <2>1. In(client.inbox) \subseteq FrameSet /\ In(l.wire) \subseteq FrameSet
    BY <1>4, Queues
  <2> QED BY <1>5, <2>1
<1>7. \A g \in R : Precedes(f, g, t)
  <2>1. \A g \in In(l.wire) : Precedes(f, g, t)
    BY <1>3, <1>5 DEF Across
  <2> QED BY <1>5, <1>6, <2>1
<1>8. PICK W \in Nat : W = WrittenOf(t)
  BY PlaceShape
<1>9. Covers({f} \cup R, t, T, W)
  <2>1. In(client.inbox) \cup In(l.wire) = {f} \cup R
    BY <1>5, <1>6
  <2> QED BY <1>3, <1>8, <2>1
<1>10. f.hi = T + 1 /\ T + 1 <= W /\ Covers(R, t, T + 1, W)
  BY <1>7, <1>9, HeadCovers
<1>11. Across(In(client'.inbox), In(l.wire), t)
  BY <1>3, <1>5 DEF Across
<1>12. In(client'.inbox) \cup In(l.wire) \subseteq In(client.inbox) \cup In(l.wire)
  BY <1>5
<1>13. /\ Covers(In(client'.inbox) \cup In(l.wire), t, T + 1, WrittenOf(t)) /\ T + 1 <= WrittenOf(t) /\ T + 1 \in Nat
       /\ In(client'.retained) \subseteq In(client.retained)
  BY <1>6, <1>8, <1>10
<1>14. Flow(t, T + 1)'
  BY <1>1, <1>2, <1>3, <1>5, <1>11, <1>12, <1>13, ClientFlow
<1> QED BY <1>10, <1>14

\* The reader of the client moves a frame from the wire to where it is wanted.
LEMMA DispatchFlow ==
    ASSUME ShapeInv, ShapeInv', RequestInv, FlowInv, HostKept, NEW f \in FrameSet, Dispatches(f)
    PROVE  FlowInv'
<1>0. /\ client.conn # 0 /\ client.conn \in Conns /\ client'.conn = client.conn
      /\ client'.retired = client.retired /\ client'.retained = client.retained /\ Waits
  BY ClientShape DEF Dispatches, ClientKeeps, Waits
<1>1. PICK l, m : l = lane[client.conn] /\ m = lane'[client.conn] /\ l = Mine /\ m = Mine'
  BY <1>0 DEF Mine
<1>2. /\ l.wire \in Seq(FrameSet) /\ client.inbox \in Seq(FrameSet) /\ l.wire # <<>> /\ f = Head(l.wire)
      /\ m.wire = Tail(l.wire) /\ KeepsAllBut(l, m, {"wire"})
  BY <1>0, <1>1, ClientShape, LaneShape DEF Dispatches
<1>3. In(l.wire) = {f} \cup In(m.wire)
  BY <1>2, InTail
<1>4. ASSUME NEW t \in Subs, NEW T \in Nat, Flow(t, T) PROVE Flow(t, T)'
  <2>1. /\ T <= WrittenOf(t) /\ InOrder(client.inbox, t) /\ InOrder(l.wire, t)
        /\ Across(In(client.inbox), In(l.wire), t)
        /\ Covers(In(client.inbox) \cup In(l.wire), t, T, WrittenOf(t)) /\ t \notin client.retired
    BY <1>1, <1>4 DEF Flow, Place, Order, Sent
  <2>2. InOrder(m.wire, t) /\ \A g \in In(m.wire) : Precedes(f, g, t)
    BY <1>2, <2>1, OrderTail
  <2>3. CASE client'.inbox = client.inbox /\ ~IsEvent(f, t)
    <3>1. Across(In(client.inbox), In(m.wire), t)
      BY <1>3, <2>1 DEF Across
    <3>2. Covers(In(client.inbox) \cup In(m.wire), t, T, WrittenOf(t))
      BY <1>3, <2>1, <2>3 DEF Covers
    <3>3. In(client.inbox) \cup In(m.wire) \subseteq In(client.inbox) \cup In(l.wire)
      BY <1>3
    <3> QED BY <1>0, <1>1, <1>2, <1>4, <2>1, <2>2, <2>3, <3>1, <3>2, <3>3, ClientFlow
  <2>4. CASE client'.inbox = Append(client.inbox, f)
    <3>1. In(client'.inbox) = In(client.inbox) \cup {f}
      BY <1>2, <2>4, InAppend
    <3>2. \A g \in In(client.inbox) : Precedes(g, f, t)
      BY <1>3, <2>1 DEF Across
    <3>3. InOrder(client'.inbox, t)
      BY <1>2, <2>1, <2>4, <3>2, OrderAppend
    <3>4. Across(In(client'.inbox), In(m.wire), t)
      BY <1>3, <2>1, <2>2, <3>1 DEF Across
    <3>5. In(client'.inbox) \cup In(m.wire) = In(client.inbox) \cup In(l.wire)
      BY <1>3, <3>1
    <3> QED BY <1>0, <1>1, <1>2, <1>4, <2>1, <2>2, <3>3, <3>4, <3>5, ClientFlow
  <2>5. \/ client'.inbox = client.inbox /\ ~IsEvent(f, t)
        \/ client'.inbox = Append(client.inbox, f)
    BY <2>1 DEF Dispatches, ClientKeeps, IsEvent, Tails
  <2> QED BY <2>3, <2>4, <2>5
<1>5. FlowStays
  BY <1>4 DEF FlowStays
<1>6. \A g \in UnderWay' : g.kind = "page" => Begins(g)
  BY DispatchRequest DEF Begins
<1>7. \A s \in Subs : Resuming(s)' => Resumes(s)
  BY <1>0 DEF Resuming, Resumes, HostKept, Waits
<1>8. lane[client.conn].shutdown => lane'[client.conn].shutdown
  BY <1>1, <1>2 DEF KeepsAllBut
<1> QED BY <1>0, <1>5, <1>6, <1>7, <1>8, FlowWaits

\* A client with no reply under way.
LEMMA FlowQuiet ==
    ASSUME ShapeInv', client'.conn # 0, Unanswered',
           client'.state = "Ready" => Flow(client.sub, client.model.last)',
           \A s \in Subs : Resuming(s)' => Flow(s, registry[s].through)'
    PROVE  FlowInv'
<1>1. \A f \in UnderWay' : f.kind # "page"
  BY UnderWayNext DEF Unanswered, ReplyFrames, Replies
<1> QED BY <1>1 DEF FlowInv

\* A page read to its end leaves the tail where the model ends.
LEMMA ReadFlow ==
    ASSUME ShapeInv, ShapeInv', ViewInv, FlowInv, CoverInv, HostKept, Unanswered', NEW p \in FrameSet, ReadsPage(p)
    PROVE  FlowInv'
<1>0. /\ client.conn # 0 /\ client'.conn = client.conn /\ lane' = lane /\ p \in UnderWay /\ p.kind = "page"
      /\ p.sub \in Subs /\ p.end \in Nat /\ client.phase = "replay" /\ client'.sub = p.sub
      /\ client'.retired = client.retired /\ client'.retained = client.retained /\ client'.inbox = client.inbox
  BY FrameFields DEF ReadsPage, ClientKeeps
<1>1. Flow(p.sub, p.end)
  BY <1>0 DEF FlowInv
<1>2. PICK t \in Subs, T \in Nat : t = p.sub /\ T = p.end
  BY <1>0
<1>3. Flow(t, T)'
  BY <1>0, <1>1, <1>2, SameFlow
<1>4. client'.state = "Ready" => Flow(client.sub, client.model.last)'
  <2> SUFFICES ASSUME client'.state = "Ready" PROVE Flow(client.sub, client.model.last)'
    OBVIOUS
  <2>1. client.state # "Ready"
    BY <1>0 DEF ViewInv
  <2>2. p.hi = p.end /\ client'.model = Model(p.hi, client.building.seqs \cup (p.lo + 1 .. p.hi))
    BY <2>1 DEF ReadsPage, ClientKeeps
  <2>3. client'.sub = t /\ client'.model.last = T
    BY <1>0, <1>2, <2>2 DEF Model
  <2> QED BY <1>3, <2>3
<1>5. ASSUME NEW s \in Subs, Resuming(s)' PROVE Flow(s, registry[s].through)'
  <2>1. s = t /\ registry[s].scope = client.conn /\ registry[s].frozen
    BY <1>0, <1>2, <1>5 DEF Resuming, HostKept
  <2>2. registry[t].through = T
    BY <1>0, <1>2, <2>1 DEF CoverInv
  <2>3. registry'[s].through = T
    BY <2>1, <2>2 DEF HostKept
  <2> QED BY <1>3, <2>1, <2>3
<1> QED BY <1>0, <1>4, <1>5, FlowQuiet

\* Receiving a frame keeps the flow.
LEMMA ReceiveFlow ==
    ASSUME ShapeInv, ShapeInv', KindInv, ViewInv, FlowInv, HostKept, Unanswered', NEW f \in FrameSet, Receives(f)
    PROVE  FlowInv'
<1>0. /\ client.conn # 0 /\ client'.conn = client.conn /\ lane' = lane /\ client.state = "Ready"
      /\ client'.phase = "idle" /\ client'.sub = client.sub /\ client'.retired = client.retired
  BY DEF Receives, ClientKeeps
<1>1. PICK t \in Subs, T \in Nat : t = client.sub /\ T = client.model.last
  BY <1>0, ModelShape DEF ViewInv
<1>2. Flow(t, T)
  BY <1>0, <1>1 DEF FlowInv
<1>3. \A s \in Subs : ~Resuming(s)'
  BY <1>0 DEF Resuming
<1>4. CASE client'.state # "Ready"
  BY <1>0, <1>3, <1>4, FlowQuiet
<1>5. CASE f.sub \in client.retired /\ ClientKeeps({"retained", "inbox"})
  <2>1. f.sub # t
    BY <1>2, <1>5 DEF Flow, Place
  <2>2. Flow(t, T)'
    BY <1>0, <1>2, <2>1, DropFlow DEF Receives
  <2>3. client'.model = client.model
    BY <1>5 DEF ClientKeeps
  <2>4. Flow(client.sub, client.model.last)'
    BY <1>0, <1>1, <2>2, <2>3
  <2> QED BY <1>0, <1>3, <2>4, FlowQuiet
<1>6. CASE /\ f.sub \notin client.retired /\ f.sub = client.sub /\ f.kind # "resync" /\ client'.state = "Ready"
           /\ f.hi \in client.seen \/ client'.model = Model(f.hi, client.model.seqs \cup {f.hi})
  <2>1. Follows(f) /\ f.kind = "event"
    BY <1>6, HeadFlow DEF Tails
  <2>2. IsEvent(f, t)
    BY <1>1, <1>6, <2>1 DEF IsEvent
  <2>3. f.hi = T + 1 /\ Flow(t, T + 1)'
    BY <1>0, <1>2, <2>1, <2>2, ApplyFlow DEF Follows
  <2>4. f.hi \notin client.seen
    <3>1. \A n \in client.seen : n <= T
      BY <1>0, <1>1 DEF ViewInv
    <3> QED BY <2>3, <3>1
  <2>5. client'.sub = t /\ client'.model.last = T + 1
    BY <1>0, <1>1, <1>6, <2>3, <2>4 DEF Model
  <2>6. Flow(client.sub, client.model.last)'
    BY <2>3, <2>5
  <2> QED BY <1>0, <1>3, <2>6, FlowQuiet
<1> QED BY <1>0, <1>4, <1>5, <1>6 DEF Receives, ClientKeeps

\* A turn of the caller keeps the flow.
LEMMA TurnsFlow ==
    ASSUME ShapeInv, ShapeInv', KindInv, ViewInv, FlowInv, CoverInv, HostKept, Unanswered', Turns
    PROVE  FlowInv'
<1>0. lane' = lane /\ client.conn # 0 /\ client'.conn = client.conn
  BY TurnsStay
<1>1. ASSUME client'.state # "Ready", client'.phase # "replay" \/ client'.sub = 0 PROVE FlowInv'
  <2>1. \A s \in Subs : ~Resuming(s)'
    BY <1>1 DEF Resuming
  <2> QED BY <1>0, <1>1, <2>1, FlowQuiet
<1>2. CASE Synchronizes
  BY <1>1, <1>2 DEF Synchronizes
<1>3. CASE Releases
  <2>1. client.phase # "closing" => client.state # "Ready"
    BY <1>3 DEF ViewInv, Releases
  <2>2. client'.state # "Ready" /\ client'.phase # "replay"
    BY <1>3, <2>1 DEF Releases
  <2> QED BY <1>1, <2>2
<1>4. CASE ReadsSnapshot
  <2>1. client.state # "Ready" /\ client.sub = 0
    BY <1>4 DEF ViewInv, ReadsSnapshot
  <2> QED BY <1>1, <1>4, <2>1 DEF ReadsSnapshot, ClientKeeps
<1>5. CASE IsRefused
  BY <1>1, <1>5 DEF IsRefused
<1>6. CASE Gaps
  BY <1>1, <1>6 DEF Gaps, ClientKeeps
<1>7. CASE Closes
  <2>1. CASE client'.state # "Ready"
    BY <1>1, <1>7, <2>1 DEF Closes, ClientKeeps
  <2>2. CASE client'.state = "Ready"
    <3>1. ClientKeeps({"phase"}) /\ client'.phase = "closing"
      BY <1>7, <2>2 DEF Closes
    <3>2. client.state = "Ready" /\ client'.sub = client.sub /\ client'.model = client.model
          /\ client'.retired = client.retired /\ client'.retained = client.retained /\ client'.inbox = client.inbox
      BY <2>2, <3>1 DEF ClientKeeps
    <3>3. PICK t \in Subs, T \in Nat : t = client.sub /\ T = client.model.last
      BY <3>2, ModelShape DEF ViewInv
    <3>4. Flow(t, T)
      BY <1>0, <3>2, <3>3 DEF FlowInv
    <3>5. Flow(t, T)'
      BY <1>0, <3>2, <3>4, SameFlow
    <3>6. Flow(client.sub, client.model.last)'
      BY <3>2, <3>3, <3>5
    <3>7. \A s \in Subs : ~Resuming(s)'
      BY <3>1 DEF Resuming
    <3> QED BY <1>0, <3>6, <3>7, FlowQuiet
  <2> QED BY <2>1, <2>2
<1> QED BY <1>2, <1>3, <1>4, <1>5, <1>6, <1>7, ReadFlow, ReceiveFlow DEF Turns

\* The caller keeps the flow.
LEMMA CallerFlow ==
    ASSUME ShapeInv, ShapeInv', ConnInv, KindInv, RequestInv, ViewInv, FlowInv, CoverInv, HostKept, CallerDoes
    PROVE  FlowInv'
<1>1. CASE Leaves
  <2>1. client'.conn = 0
    BY <1>1, LeaveShape DEF Leaves
  <2> QED BY <2>1 DEF FlowInv
<1>2. ASSUME NEW c \in Conns, Connects(c) PROVE FlowInv'
  <2>1. UnderWay' = {None} /\ None.kind # "page"
    BY <1>2, ConnectRequest, NoneShape DEF Replies
  <2> QED BY <1>2, <2>1, FlowNone DEF Connects
<1>3. ASSUME NEW f \in FrameSet, Dispatches(f) PROVE FlowInv'
  BY <1>3, DispatchFlow
<1>4. CASE Turns
  BY <1>4, TurnsRequest, TurnsFlow
<1> QED BY <1>1, <1>2, <1>3, <1>4, CallerTurns

-----------------------------------------------------------------------------
(* What holds a subscription.                                                *)

Frozen(s) == registry[s].scope = client.conn /\ registry[s].frozen
Attached(s) == Mine.shutdown \/ registry[s].live = client.conn
Covered(f) ==
    /\ Frozen(f.sub) => registry[f.sub].through = f.end /\ Attached(f.sub)
    /\ f.hi = f.end => Held(f.sub) /\ ~registry[f.sub].frozen

\* What the entry s promises after a step of the host.
CoverKept(s) ==
    /\ Held(s) /\ ~registry[s].frozen => Held(s)' /\ ~registry'[s].frozen
    /\ Frozen(s)' => Frozen(s) /\ registry'[s].through = registry[s].through /\ (Attached(s) => Attached(s)')

\* A tail stays held when the client stands still and its entry or a notice remains.
LEMMA CoverHost ==
    ASSUME ShapeInv, ShapeInv', FreshInv, ViewInv, CoverInv, client.conn # 0, client' = client,
           lane[client.conn].shutdown => lane'[client.conn].shutdown,
           \A s \in Subs : s < nextSub => CoverKept(s),
           \A f \in UnderWay' : f.kind = "page" => f \in UnderWay \/ Covered(f)'
    PROVE  CoverInv'
<1>0. Mine.shutdown => Mine'.shutdown
  BY DEF Mine
<1>1. client.sub < nextSub
  BY DEF FreshInv
<1>2. ASSUME client.state = "Ready", client.phase = "idle" PROVE Held(client.sub)' /\ ~registry'[client.sub].frozen
  <2>1. PICK s \in Subs : s = client.sub
    BY <1>2 DEF ViewInv
  <2>2. Held(s) /\ ~registry[s].frozen
    BY <1>2, <2>1 DEF CoverInv
  <2>3. Held(s)' /\ ~registry'[s].frozen
    BY <1>1, <2>1, <2>2 DEF CoverKept
  <2> QED BY <2>1, <2>3
<1>3. ASSUME NEW f \in UnderWay', f.kind = "page" PROVE Covered(f)'
  <2>1. CASE f \in UnderWay
    <3>1. PICK s \in Subs : s = f.sub /\ s < nextSub
      <4>1. f \in FrameSet
        BY <2>1, UnderWayShape
      <4>2. f \in Abroad
        BY <2>1, UnderWayCases DEF Abroad
      <4> QED BY <1>3, <4>1, <4>2, FrameFields DEF FreshInv, Fresh
    <3>2. /\ Frozen(s) => registry[s].through = f.end /\ Attached(s)
          /\ f.hi = f.end => Held(s) /\ ~registry[s].frozen
      BY <1>3, <2>1, <3>1 DEF CoverInv, Frozen, Attached
    <3>3. CoverKept(s)
      BY <3>1
    <3>4. /\ Frozen(s)' => registry'[s].through = f.end /\ Attached(s)'
          /\ f.hi = f.end => Held(s)' /\ ~registry'[s].frozen
      BY <3>2, <3>3 DEF CoverKept
    <3> QED BY <3>1, <3>4 DEF Covered
  <2> QED BY <1>3, <2>1
<1>4. ASSUME NEW s \in Subs, Resuming(s)'
      PROVE  Attached(s)' /\ (~Mine'.shutdown => client'.building.last <= registry'[s].through)
  <2>1. s < nextSub /\ Frozen(s)' /\ client.phase = "replay" /\ client.sub = s /\ s # 0
    BY <1>1, <1>4 DEF Resuming, Frozen
  <2>2. Frozen(s) /\ registry'[s].through = registry[s].through /\ (Attached(s) => Attached(s)')
    BY <2>1 DEF CoverKept
  <2>3. Resuming(s)
    BY <2>1, <2>2 DEF Resuming, Frozen
  <2>4. Attached(s) /\ (~Mine.shutdown => client.building.last <= registry[s].through)
    BY <2>3 DEF CoverInv, Attached
  <2> QED BY <1>0, <2>2, <2>4
<1> QED BY <1>2, <1>3, <1>4 DEF CoverInv, Covered, Frozen, Attached

\* The client waits for a release, or for nothing, and holds no page.
LEMMA CoverNone ==
    ASSUME \A f \in UnderWay' : f.kind # "page", client'.phase # "replay",
           client'.state # "Ready" \/ client'.phase # "idle"
    PROVE  CoverInv'
BY DEF CoverInv, Resuming

\* A notice is where it was, or one place further.
LaneNotes(l, m) ==
    \/ m.shutdown
    \/ \A f \in In(l.wire) \cup {l.writing} \cup In(l.critical) :
          f.kind = "resync" =>
             \E g \in In(m.wire) \cup {m.writing} \cup In(m.critical) : g.kind = "resync" /\ g.sub = f.sub

\* A lane that is unchanged loses no notice.
LEMMA NotesSame ==
    ASSUME NEW l, NEW m, m = l \/ Shut(l, m)
    PROVE  LaneNotes(l, m)
BY DEF LaneNotes, Shut

\* A notice on its way stays on its way.
LEMMA NoticeKept ==
    ASSUME client' = client, LaneNotes(lane[client.conn], lane'[client.conn]), NEW s, Noticed(s)
    PROVE  Noticed(s)' \/ lane'[client.conn].shutdown
<1>1. PICK l, m : l = lane[client.conn] /\ m = lane'[client.conn] /\ l = Mine /\ m = Mine'
  BY DEF Mine
<1>2. PICK f \in In(client.inbox) \cup In(l.wire) \cup {l.writing} \cup In(l.critical) : IsResync(f, s)
  BY <1>1 DEF Noticed
<1>3. CASE f \in In(client.inbox)
  BY <1>2, <1>3 DEF Noticed
<1>4. CASE f \in In(l.wire) \cup {l.writing} \cup In(l.critical)
  BY <1>1, <1>2, <1>4 DEF Noticed, LaneNotes, IsResync
<1> QED BY <1>2, <1>3, <1>4

\* An entry that the step leaves alone.
LEMMA CoverSame ==
    ASSUME client' = client, LaneNotes(lane[client.conn], lane'[client.conn]),
           lane[client.conn].shutdown => lane'[client.conn].shutdown, NEW s \in Subs,
           registry'[s].scope = registry[s].scope, registry'[s].frozen = registry[s].frozen,
           registry'[s].live = registry[s].live, registry'[s].through = registry[s].through
    PROVE  CoverKept(s)
<1>1. Held(s) => Held(s)'
  BY NoticeKept DEF Held, Mine
<1>2. Attached(s) => Attached(s)'
  BY DEF Attached, Mine
<1> QED BY <1>1, <1>2 DEF CoverKept, Frozen

\* An entry of another connection is dropped or moved.
LEMMA CoverForeign ==
    ASSUME client' = client, LaneNotes(lane[client.conn], lane'[client.conn]),
           lane[client.conn].shutdown => lane'[client.conn].shutdown, NEW s \in Subs,
           registry[s].live # client.conn \/ lane'[client.conn].shutdown,
           registry[s].frozen \/ ~registry'[s].frozen,
           registry'[s].scope # client.conn \/ ~registry'[s].frozen
    PROVE  CoverKept(s)
<1>1. Held(s) => Held(s)'
  BY NoticeKept DEF Held, Mine
<1>2. ~Frozen(s)'
  BY DEF Frozen
<1> QED BY <1>1, <1>2 DEF CoverKept

\* A live tail of the client's connection has an output, unless the connection ends.
LEMMA LiveOutput ==
    ASSUME ShapeInv, RegistryInv, ControlInv, ConnInv, client.conn # 0, NEW s \in Subs,
           registry[s].live = client.conn
    PROVE  client.conn \in outputs \/ lane[client.conn].shutdown
<1>1. registry[s].scope = client.conn
  BY DEF RegistryInv, EntryOK
<1>2. ~Registering(client.conn)
  <2> SUFFICES ASSUME NEW i \in 1 .. Len(control), control[i].kind = "register", control[i].conn = client.conn
               PROVE FALSE
    BY DEF Registering
  <2>1. i \in DOMAIN control
    BY DEF ShapeInv
  <2>2. RegisterOK(i)
    BY <2>1 DEF ControlInv
  <2> QED BY <1>1, <2>2 DEF RegisterOK
<1> QED BY <1>2 DEF ConnInv

\* A frame that is admitted keeps the notices of the lane.
LEMMA AdmitNotes ==
    ASSUME NEW l, NEW m, NEW f \in FrameSet, l.critical \in Seq(FrameSet), m.wire = l.wire, m.writing = l.writing,
           m.shutdown \/ m.critical = Append(l.critical, f)
    PROVE  LaneNotes(l, m) /\ (m.shutdown \/ f \in In(m.critical))
<1>1. CASE m.shutdown
  BY <1>1 DEF LaneNotes
<1>2. CASE m.critical = Append(l.critical, f)
  <2>1. In(m.critical) = In(l.critical) \cup {f}
    BY <1>2, InAppend
  <2> QED BY <2>1 DEF LaneNotes
<1> QED BY <1>1, <1>2

\* A step that only drops the entry s.
LEMMA DropCover ==
    ASSUME client' = client, LaneNotes(lane[client.conn], lane'[client.conn]),
           lane[client.conn].shutdown => lane'[client.conn].shutdown, NEW s \in Subs, Dropped(s),
           registry[s].live # client.conn \/ lane'[client.conn].shutdown \/ registry[s].frozen
             \/ Noticed(s)', NEW t \in Subs
    PROVE  CoverKept(t)
<1>1. CASE t # s
  BY <1>1, CoverSame DEF Dropped
<1>2. CASE t = s
  <2>1. ~Frozen(s)' /\ ~registry'[s].frozen
    BY NoEntryFields DEF Dropped, Frozen
  <2>2. CASE registry[s].live # client.conn \/ lane'[client.conn].shutdown
    BY <1>2, <2>1, <2>2, CoverForeign
  <2>3. CASE registry[s].frozen
    BY <1>2, <2>1, <2>3 DEF CoverKept
  <2>4. CASE Noticed(s)'
    BY <1>2, <2>1, <2>4 DEF CoverKept, Held
  <2> QED BY <2>2, <2>3, <2>4
<1> QED BY <1>1, <1>2

\* Catching up leaves the tail, a notice or a shut connection.
LEMMA CatchUpCover ==
    ASSUME ShapeInv, ShapeInv', RegistryInv, ControlInv, ConnInv, FreshInv, RequestInv, ViewInv, CoverInv,
           client.conn # 0, NEW s \in Subs, NEW c \in Conns, CaughtUpBy(s, c)
    PROVE  CoverInv'
<1>0. client' = client /\ c = registry[s].live /\ client.conn \in Conns
  BY ClientShape DEF CaughtUpBy
<1>1. \A f \in UnderWay' : f.kind = "page" => f \in UnderWay
  BY <1>0, CatchUpRequest, StandingPages
<1>2. ASSUME lane[client.conn].shutdown => lane'[client.conn].shutdown, \A t \in Subs : CoverKept(t)
      PROVE  CoverInv'
  BY <1>0, <1>1, <1>2, CoverHost
<1>3. CASE Gone(s, c)
  <2>1. Dropped(s) /\ lane' = lane
    BY <1>3, DropFacts DEF Gone
  <2>2. registry[s].live # client.conn \/ lane'[client.conn].shutdown
    BY <1>0, <1>3, <2>1, LiveOutput DEF Gone
  <2>3. LaneNotes(lane[client.conn], lane'[client.conn])
    BY <2>1, NotesSame
  <2> QED BY <1>0, <1>2, <2>1, <2>2, <2>3, DropCover
<1>4. CASE UNCHANGED <<registry, streams, lane>>
  BY <1>0, <1>2, <1>4, NotesSame, CoverSame
<1>5. CASE Admits(s, c)
  <2>1. LaneNotes(lane[client.conn], lane'[client.conn])
    <3>1. CASE c = client.conn
      BY <1>5, <3>1 DEF Admits, KeepsAllBut, LaneNotes
    <3>2. CASE c # client.conn
      BY <1>0, <1>5, <3>2, NotesSame DEF Admits, LanesKept
    <3> QED BY <3>1, <3>2
  <2>2. lane[client.conn].shutdown => lane'[client.conn].shutdown
    BY <1>0, <1>5 DEF Admits, LanesKept, KeepsAllBut
  <2>3. ASSUME NEW t \in Subs PROVE CoverKept(t)
    <3>1. /\ registry'[t].scope = registry[t].scope /\ registry'[t].frozen = registry[t].frozen
          /\ registry'[t].live = registry[t].live /\ registry'[t].through = registry[t].through
      BY <1>5 DEF Admits
    <3> QED BY <1>0, <2>1, <2>2, <3>1, CoverSame
  <2> QED BY <1>2, <2>2, <2>3
<1>6. CASE Resyncs(s, c)
  <2>1. Dropped(s) /\ LanesKept(c) /\ lane[client.conn].critical \in Seq(FrameSet)
    BY <1>0, <1>6, DropFacts, LaneShape DEF Resyncs
  <2>2. PICK f \in FrameSet : f.kind = "resync" /\ f.sub = s /\ lane'[c] = AdmitCritical(lane[c], f)
    BY <1>6 DEF Resyncs
  <2>3. AdmitsFrame(c, f)
    BY <2>2, AdmitFacts
  <2>4. CASE c = client.conn
    <3>1. LaneNotes(lane[c], lane'[c]) /\ (lane'[c].shutdown \/ f \in In(lane'[c].critical))
      BY <2>1, <2>3, <2>4, AdmitNotes DEF AdmitsFrame, KeepsAllBut
    <3>2. lane[c].shutdown => lane'[c].shutdown
      BY <2>3 DEF AdmitsFrame
    <3>3. lane'[client.conn].shutdown \/ Noticed(s)'
      BY <1>0, <2>2, <2>4, <3>1 DEF Noticed, IsResync, Mine
    <3> QED BY <1>0, <1>2, <2>1, <2>4, <3>1, <3>2, <3>3, DropCover
  <2>5. CASE c # client.conn
    <3>1. lane'[client.conn] = lane[client.conn]
      BY <1>0, <2>1, <2>5 DEF LanesKept
    <3>2. LaneNotes(lane[client.conn], lane'[client.conn])
      BY <3>1, NotesSame
    <3> QED BY <1>0, <1>2, <2>1, <2>5, <3>1, <3>2, DropCover
  <2> QED BY <2>4, <2>5
<1> QED BY <1>3, <1>4, <1>5, <1>6 DEF CaughtUpBy

\* The page that answers an open covers its replay.
LEMMA OpenedCover ==
    ASSUME ShapeInv, ShapeInv', RegistryInv, ConnInv, FreshInv, ViewInv, CoverInv, client.conn # 0,
           NEW j \in JobSet, Serves(j), OpensFor(j), Answers(j)
    PROVE  CoverInv'
<1>0. /\ client' = client /\ newest' = newest /\ newest \in Nat /\ nextSub \in Nat /\ client.conn \in Conns
      /\ j.conn \in Conns /\ j.arg \in Nat
  BY ClientShape DEF Serves
<1>1. PICK n \in Subs, victim \in Subs \cup {0} : n = nextSub /\ Opens(n, j.conn, j.arg, victim)
  BY DEF OpensFor
<1>2. PICK p : p = PageAfter(n, j.arg, newest)
  OBVIOUS
<1>3. /\ lane' = lane /\ exec'.reply = p
      /\ registry'[n].scope = j.conn /\ registry'[n].frozen = (p.hi < newest) /\ registry'[n].through = newest
      /\ registry'[n].live = j.conn
  BY <1>1, <1>2 DEF Opens, Answer
<1>4. p.sub = n /\ p.end = newest
  BY <1>0, <1>2, PageShape
<1>5. LaneNotes(lane[client.conn], lane'[client.conn])
  BY <1>3, NotesSame
<1>6. ASSUME NEW t \in Subs, t < nextSub PROVE CoverKept(t)
  <2>1. t # n /\ registry'[t] = IF t = victim THEN NoEntry ELSE registry[t]
    BY <1>0, <1>1, <1>6, EntryShape DEF Opens
  <2>2. CASE t # victim
    BY <1>0, <1>3, <1>5, <2>1, <2>2, CoverSame
  <2>3. CASE t = victim
    <3>1. registry[t].live = 0 /\ t # 0
      BY <1>1, <2>3, EntryShape DEF Opens, Subs
    <3>2. registry[t].live # client.conn /\ ~registry'[t].frozen
      BY <1>0, <2>1, <2>3, <3>1, NoEntryFields
    <3> QED BY <1>0, <1>3, <1>5, <3>2, CoverForeign
  <2> QED BY <2>2, <2>3
<1>7. ASSUME NEW f \in UnderWay', f.kind = "page" PROVE f \in UnderWay \/ Covered(f)'
  <2>1. CASE f \in UnderWay
    BY <2>1
  <2>2. CASE j.conn = client.conn /\ f = exec'.reply
    <3>1. f = p /\ f.sub = n /\ f.end = newest
      BY <1>3, <1>4, <2>2
    <3>a. registry'[n].frozen => p.hi < newest
      BY <1>3
    <3>b. f.hi = f.end => ~registry'[n].frozen
      BY <1>0, <3>1, <3>a
    <3>2. registry'[n].live = client'.conn /\ registry'[n].through = f.end /\ (f.hi = f.end => ~registry'[n].frozen)
      BY <1>0, <1>3, <2>2, <3>1, <3>b
    <3>3. Attached(n)' /\ Held(n)'
      BY <3>2 DEF Attached, Held
    <3> QED BY <3>1, <3>2, <3>3 DEF Covered
  <2> QED BY <1>0, <1>7, <2>1, <2>2, AnsweredPages
<1> QED BY <1>0, <1>3, <1>6, <1>7, CoverHost

\* A continued replay keeps its tail.
LEMMA ContinuedCover ==
    ASSUME ShapeInv, ShapeInv', RegistryInv, ConnInv, FreshInv, RequestInv, ViewInv, CoverInv, client.conn # 0,
           NEW j \in JobSet, Serves(j), ContinuesFor(j), Answers(j)
    PROVE  CoverInv'
<1>0. /\ client' = client /\ newest' = newest /\ newest \in Nat /\ nextSub \in Nat /\ client.conn \in Conns
      /\ j.conn \in Conns /\ j.arg \in Nat /\ j \in In(jobs) /\ nextSub' = nextSub /\ lane' = lane /\ j.sub \in Subs
  BY ClientShape DEF Serves, ContinuesFor
<1>1. PICK s \in Subs : s = j.sub
  BY <1>0
<1>n. LaneNotes(lane[client.conn], lane'[client.conn])
  BY <1>0, NotesSame
<1>2. CASE exec'.reply = Frame("refused", s, 0, 0, 0) /\ UNCHANGED <<registry, streams>>
  <2>1. \A t \in Subs : CoverKept(t)
    BY <1>0, <1>2, <1>n, CoverSame
  <2>2. exec'.reply.kind # "page"
    BY <1>2 DEF Frame
  <2>3. \A f \in UnderWay' : f.kind = "page" => f \in UnderWay
    BY <1>0, <2>2, AnsweredPages
  <2> QED BY <1>0, <2>1, <2>3, CoverHost
<1>3. CASE /\ registry[s].scope = j.conn /\ registry[s].frozen
           /\ EntryBound(s, j.conn, PageAfter(s, j.arg, registry[s].through).hi < registry[s].through)
           /\ exec'.reply = PageAfter(s, j.arg, registry[s].through)
  <2>0. PICK p : p = PageAfter(s, j.arg, registry[s].through)
    OBVIOUS
  <2>1. /\ registry'[s].scope = j.conn /\ registry'[s].through = registry[s].through /\ registry'[s].live = j.conn
        /\ registry'[s].frozen = (p.hi < registry[s].through) /\ registry[s].through \in Nat /\ exec'.reply = p
    BY <1>3, <2>0, EntryShape DEF EntryBound
  <2>2. p.sub = s /\ p.end = registry[s].through
    BY <1>0, <2>0, <2>1, PageShape
  <2>3. ASSUME NEW t \in Subs PROVE CoverKept(t)
    <3>1. CASE t # s
      <4>1. registry'[t] = registry[t]
        BY <1>3, <3>1 DEF EntryBound
      <4> QED BY <1>0, <1>n, <4>1, CoverSame
    <3>2. CASE t = s /\ j.conn = client.conn
      <4>1. Attached(s)'
        BY <1>0, <2>1, <3>2 DEF Attached
      <4>2. Frozen(s) /\ registry[s].frozen
        BY <1>3, <3>2 DEF Frozen
      <4> QED BY <2>1, <3>2, <4>1, <4>2 DEF CoverKept
    <3>3. CASE t = s /\ j.conn # client.conn
      <4>1. ~Frozen(s)' /\ registry[s].frozen
        BY <1>0, <1>3, <2>1, <3>3 DEF Frozen
      <4> QED BY <3>3, <4>1 DEF CoverKept
    <3> QED BY <3>1, <3>2, <3>3
  <2>4. ASSUME NEW f \in UnderWay', f.kind = "page" PROVE f \in UnderWay \/ Covered(f)'
    <3>1. CASE f \in UnderWay
      BY <3>1
    <3>2. CASE j.conn = client.conn /\ f = exec'.reply
      <4>1. f = p /\ f.sub = s /\ f.end = registry[s].through
        BY <2>1, <2>2, <3>2
      <4>a. registry'[s].frozen => p.hi < registry[s].through
        BY <2>1
      <4>b. f.hi = f.end => ~registry'[s].frozen
        BY <2>1, <4>1, <4>a
      <4>2. registry'[s].live = client'.conn /\ registry'[s].through = f.end /\ (f.hi = f.end => ~registry'[s].frozen)
        BY <1>0, <2>1, <3>2, <4>1, <4>b
      <4>3. Attached(s)' /\ Held(s)'
        BY <4>2 DEF Attached, Held
      <4> QED BY <4>1, <4>2, <4>3 DEF Covered
    <3> QED BY <1>0, <2>4, <3>1, <3>2, AnsweredPages
  <2> QED BY <1>0, <2>3, <2>4, CoverHost
<1>4. Continues(j.conn, s, j.arg)
  BY <1>1 DEF ContinuesFor
<1> QED BY <1>2, <1>3, <1>4 DEF Continues, Answer

\* Serving a request keeps the tail held.
LEMMA ServeCover ==
    ASSUME ShapeInv, ShapeInv', RegistryInv, ConnInv, FreshInv, RequestInv, ViewInv, CoverInv, client.conn # 0,
           NEW j \in JobSet, Serves(j)
    PROVE  CoverInv'
<1>0. client' = client /\ client.conn \in Conns /\ j.conn \in Conns /\ j \in In(jobs)
  BY ClientShape DEF Serves
<1>1. Answers(j)
  BY ServeRequest
<1>2. ASSUME exec'.reply.kind # "page", \A t \in Subs : CoverKept(t),
             lane[client.conn].shutdown => lane'[client.conn].shutdown
      PROVE  CoverInv'
  <2>1. \A f \in UnderWay' : f.kind = "page" => f \in UnderWay
    BY <1>0, <1>1, <1>2, AnsweredPages
  <2> QED BY <1>0, <1>2, <2>1, CoverHost
<1>3. CASE Snaps(j)
  <2>1. UNCHANGED <<registry, lane>> /\ exec'.reply.kind # "page"
    BY <1>3 DEF Snaps, Frame
  <2> QED BY <1>0, <1>2, <2>1, NotesSame, CoverSame
<1>4. CASE Busies(j)
  <2>1. UNCHANGED <<registry, exec>>
    BY <1>4 DEF Busies
  <2>2. lane'[client.conn] = lane[client.conn] \/ Shut(lane[client.conn], lane'[client.conn])
    BY <1>0, <1>4 DEF Busies, LanesKept
  <2>3. exec'.reply.kind # "page"
    <3>1. exec.to = 0
      BY DEF Serves
    <3>2. exec.reply = None
      BY <3>1 DEF RegistryInv, ExecOK
    <3> QED BY <2>1, <3>2, NoneShape DEF Replies
  <2>4. lane[client.conn].shutdown => lane'[client.conn].shutdown
    BY <2>2 DEF Shut
  <2> QED BY <1>0, <1>2, <2>1, <2>2, <2>3, <2>4, NotesSame, CoverSame
<1>5. CASE OpensFor(j)
  BY <1>1, <1>5, OpenedCover
<1>6. CASE ContinuesFor(j)
  BY <1>1, <1>6, ContinuedCover
<1>7. CASE ReleasesFor(j)
  <2>1. lane' = lane /\ exec'.reply.kind # "page" /\ j.sub \in Subs
    BY <1>7 DEF ReleasesFor, Frame
  <2>2. CASE UNCHANGED registry
    BY <1>0, <1>2, <2>1, <2>2, NotesSame, CoverSame
  <2>3. CASE Dropped(j.sub) /\ registry[j.sub].scope \in {0, j.conn} /\ j.conn # client.conn
    <3>1. registry[j.sub].live # client.conn
      BY <1>0, <2>1, <2>3 DEF RegistryInv, EntryOK
    <3>2. \A t \in Subs : CoverKept(t)
      BY <1>0, <2>1, <2>3, <3>1, NotesSame, DropCover
    <3> QED BY <1>2, <2>1, <3>2
  <2>4. CASE j.conn = client.conn
    <3>1. Unanswered /\ JobFits(j)
      BY <1>0, <2>4, JobAlone
    <3>2. Releasing
      BY <1>7, <3>1 DEF JobFits, ReleasesFor
    <3>3. client'.phase # "replay" /\ client'.phase # "idle"
      BY <1>0, <3>2 DEF Releasing
    <3>4. ASSUME NEW f \in UnderWay' PROVE f.kind # "page"
      <4>1. f \in FrameSet
        BY <1>0, UnderWayNext
      <4> QED BY <1>0, <1>1, <2>1, <3>1, <4>1, AnsweredPages DEF Unanswered, ReplyFrames, Replies
    <3> QED BY <3>3, <3>4, CoverNone
  <2> QED BY <1>7, <2>2, <2>3, <2>4 DEF ReleasesFor
<1> QED BY <1>3, <1>4, <1>5, <1>6, <1>7 DEF Serves

\* Detaching an output shuts the connection down.
LEMMA DetachCover ==
    ASSUME ShapeInv, RegistryInv, client.conn # 0, client' = client, NEW c \in Conns, Detaches(c), NEW t \in Subs
    PROVE  CoverKept(t)
<1>0. client.conn \in Conns /\ EntryDetached(t, c)
  BY ClientShape DEF Detaches
<1>1. lane'[client.conn] = lane[client.conn] \/ Shut(lane[client.conn], lane'[client.conn])
  BY <1>0 DEF Detaches, LanesKept
<1>2. /\ LaneNotes(lane[client.conn], lane'[client.conn])
      /\ lane[client.conn].shutdown => lane'[client.conn].shutdown
  BY <1>1, NotesSame DEF Shut
<1>3. CASE registry[t].live # c
  BY <1>0, <1>2, <1>3, CoverSame DEF EntryDetached
<1>4. CASE registry[t].live = c /\ c # client.conn
  <2>1. registry[t].scope = c
    BY <1>4, EntryShape DEF RegistryInv, EntryOK
  <2>2. /\ registry[t].live # client.conn
        /\ registry[t].frozen \/ ~registry'[t].frozen
        /\ registry'[t].scope # client.conn \/ ~registry'[t].frozen
    BY <1>0, <1>4, <2>1, NoEntryFields DEF EntryDetached
  <2> QED BY <1>2, <2>2, CoverForeign
<1>5. CASE registry[t].live = c /\ c = client.conn
  <2>1. lane'[client.conn].shutdown
    BY <1>5 DEF Detaches, Shut
  <2>2. CASE registry'[t] = NoEntry
    <3>1. ~registry'[t].frozen
      BY <2>2, NoEntryFields
    <3> QED BY <1>2, <2>1, <3>1, CoverForeign
  <2>3. CASE /\ registry[t].frozen /\ registry'[t].scope = registry[t].scope
             /\ registry'[t].through = registry[t].through
    <3>1. Attached(t)'
      BY <2>1 DEF Attached, Mine
    <3> QED BY <2>3, <3>1 DEF CoverKept, Frozen
  <2> QED BY <1>0, <1>5, <2>2, <2>3 DEF EntryDetached
<1> QED BY <1>3, <1>4, <1>5

\* Rebinding shuts the old connection down.
LEMMA MovedCover ==
    ASSUME ShapeInv, RegistryInv, ConnInv, client.conn # 0, client' = client, NEW c \in Conns, NEW old,
           Registers(c, old), c <= client.opened, c # client.conn, NEW t \in Subs
    PROVE  CoverKept(t)
<1>a. client.conn \in Conns /\ client.conn = client.opened /\ old \in 0 .. MaxConns /\ old < c
  BY ClientShape DEF ConnInv, Registers
<1>b. client.conn \in Nat /\ c \in Nat /\ old \in Nat
  BY <1>a, Bounds DEF Conns
<1>0. /\ client.conn \in Conns /\ client.conn = client.opened /\ old < c
      /\ client.conn \in Nat /\ c \in Nat /\ old \in Nat
  BY <1>a, <1>b
<1>1. old # client.conn
  BY <1>0
<1>2. lane'[client.conn] = lane[client.conn]
  BY <1>0, <1>1 DEF Registers
<1>3. CASE old = 0 \/ registry[t].scope # old
  BY <1>2, <1>3, NotesSame, CoverSame DEF Registers
<1>4. CASE old # 0 /\ registry[t].scope = old
  <2>1. EntryMoved(t, c)
    BY <1>4 DEF Registers
  <2>2. registry[t].live # client.conn
    BY <1>1, <1>4 DEF RegistryInv, EntryOK
  <2>3. /\ registry[t].frozen \/ ~registry'[t].frozen
        /\ registry'[t].scope # client.conn \/ ~registry'[t].frozen
    BY <2>1, NoEntryFields DEF EntryMoved
  <2> QED BY <1>2, <2>2, <2>3, NotesSame, CoverForeign
<1> QED BY <1>3, <1>4

\* A control message keeps the tail held.
LEMMA ControlCover ==
    ASSUME ShapeInv, ShapeInv', RegistryInv, ConnInv, FreshInv, RequestInv, ViewInv, CoverInv, client.conn # 0, Stands,
           NEW m \in ControlSet, Handles(m)
    PROVE  CoverInv'
<1>0. client' = client /\ client.conn \in Conns /\ m.conn \in Conns /\ m.conn <= client.opened
  BY ClientShape DEF Handles
<1>1. \A f \in UnderWay' : f.kind = "page" => f \in UnderWay
  BY <1>0, StandingPages
<1>2. lane'[client.conn] = lane[client.conn] \/ Shut(lane[client.conn], lane'[client.conn])
  BY <1>0 DEF Handles, Registers, Detaches, LanesKept
<1>3. ASSUME \A t \in Subs : CoverKept(t) PROVE CoverInv'
  BY <1>0, <1>1, <1>2, <1>3, CoverHost DEF Shut
<1>4. CASE m.kind = "unregister" /\ Detaches(m.conn)
  BY <1>0, <1>3, <1>4, DetachCover
<1>5. CASE m.kind = "register" /\ Registers(m.conn, m.from) /\ m.conn # client.conn
  BY <1>0, <1>3, <1>5, MovedCover
<1>6. CASE m.kind = "register" /\ m.conn = client.conn
  <2>1. Registering(client.conn)
    <3>1. m = control[1] /\ 1 \in DOMAIN control /\ control \in Seq(ControlSet)
      BY DEF Handles
    <3>2. 1 \in 1 .. Len(control)
      BY <3>1
    <3> QED BY <1>6, <3>1, <3>2 DEF Registering
  <2>2. client.state # "Ready" /\ client.phase \in {"idle", "snapshot"}
    BY <2>1 DEF RequestInv
  <2>3. \A f \in UnderWay' : f.kind # "page"
    BY <1>1, <2>2 DEF RequestInv, ReplyFits
  <2> QED BY <1>0, <2>2, <2>3, CoverNone
<1> QED BY <1>4, <1>5, <1>6 DEF Handles

\* The executor keeps the tail held.
LEMMA ExecutorCover ==
    ASSUME ShapeInv, ShapeInv', RegistryInv, ControlInv, ConnInv, FreshInv, RequestInv, ViewInv, CoverInv, Executor
    PROVE  CoverInv'
<1>0. client' = client
  BY DEF Executor, Commit, Serve, Reply, Control, CatchUp, Reap, ReapOutput
<1> SUFFICES ASSUME client.conn # 0 PROVE CoverInv'
  BY <1>0 DEF CoverInv
<1>a. client.conn \in Conns
  BY ClientShape
<1>b. ~Serve => Stands
  BY ExecutorRequest
<1>c. ~Serve => \A f \in UnderWay' : f.kind = "page" => f \in UnderWay
  BY <1>0, <1>b, StandingPages
<1>s. ASSUME \A t \in Subs : CoverKept(t), lane[client.conn].shutdown => lane'[client.conn].shutdown, ~Serve
      PROVE  CoverInv'
  BY <1>0, <1>c, <1>s, CoverHost
<1>4. CASE Serve
  BY <1>4, ServeCases, ServeCover
<1>1. CASE Commit /\ ~Serve
  <2>1. UNCHANGED <<registry, lane>>
    BY <1>1, CommitCases
  <2> QED BY <1>0, <1>1, <1>s, <2>1, NotesSame, CoverSame
<1>2. CASE Reply /\ ~Serve
  <2>1. PICK c \in Conns : HandsOver(c)
    BY <1>2, ReplyCases
  <2>2. UNCHANGED registry
    BY <2>1 DEF HandsOver
  <2>3. /\ LaneNotes(lane[client.conn], lane'[client.conn])
        /\ lane[client.conn].shutdown => lane'[client.conn].shutdown
    BY <1>a, <2>1, NotesSame DEF HandsOver, LanesKept, KeepsAllBut, LaneNotes
  <2> QED BY <1>0, <1>2, <1>s, <2>2, <2>3, CoverSame
<1>3. CASE Control /\ ~Serve
  BY <1>3, <1>b, ControlCases, ControlCover
<1>5. ASSUME NEW s \in Subs, CatchUp(s) PROVE CoverInv'
  BY <1>5, CatchUpCases, CatchUpCover
<1>6. ASSUME NEW s \in Subs, Reap(s), ~Serve PROVE CoverInv'
  <2>1. lane' = lane /\ Dropped(s) /\ registry[s].frozen
    BY <1>6, DropFacts DEF Reap
  <2>2. \A t \in Subs : CoverKept(t)
    BY <1>0, <2>1, NotesSame, DropCover
  <2> QED BY <1>6, <1>s, <2>1, <2>2
<1>7. ASSUME NEW c \in Conns, ReapOutput(c), ~Serve PROVE CoverInv'
  <2>1. Detaches(c)
    BY <1>7, DetachFacts DEF ReapOutput
  <2>2. \A t \in Subs : CoverKept(t)
    BY <1>0, <2>1, DetachCover
  <2>3. lane[client.conn].shutdown => lane'[client.conn].shutdown
    BY <1>a, <2>1 DEF Detaches, LanesKept, Shut
  <2> QED BY <1>7, <1>s, <2>2, <2>3
<1> QED BY <1>1, <1>2, <1>3, <1>4, <1>5, <1>6, <1>7 DEF Executor

\* The tasks of a connection keep the tail held.
LEMMA DuplexCover ==
    ASSUME ShapeInv, ShapeInv', KindInv, FreshInv, RequestInv, ViewInv, CoverInv, NEW c \in Conns,
           AdmitReply(c) \/ Take(c) \/ Written(c) \/ HostDrop(c)
    PROVE  CoverInv'
<1>0. client' = client /\ registry' = registry
  BY DEF AdmitReply, Take, Written, HostDrop
<1> SUFFICES ASSUME client.conn # 0 PROVE CoverInv'
  BY <1>0 DEF CoverInv
<1>1. client.conn \in Conns
  BY ClientShape
<1>2. \A f \in UnderWay' : f.kind = "page" => f \in UnderWay
  BY <1>0, DuplexRequest, StandingPages
<1>3. ASSUME LaneNotes(lane[client.conn], lane'[client.conn]),
             lane[client.conn].shutdown => lane'[client.conn].shutdown
      PROVE  CoverInv'
  BY <1>0, <1>2, <1>3, CoverSame, CoverHost
<1>4. CASE LanesKept(c) /\ c # client.conn
  <2>1. lane'[client.conn] = lane[client.conn]
    BY <1>1, <1>4 DEF LanesKept
  <2> QED BY <1>3, <2>1, NotesSame
<1>5. LanesKept(c)
  BY AdmitReplyCases, TakeCases, WrittenCases, HostDropCases DEF Admitted, Takes, Writes, Drops
<1>6. CASE c = client.conn
  <2>0. PICK l, m : l = lane[c] /\ m = lane'[c]
    OBVIOUS
  <2>1. /\ l.critical \in Seq(FrameSet) /\ l.wire \in Seq(FrameSet) /\ l.writing \in FrameSet
        /\ l.answer \in FrameSet
    BY <2>0, LaneShape
  <2>2. CASE AdmitReply(c)
    <3>1. Admitted(c)
      BY <2>2, AdmitReplyCases
    <3>2. LaneNotes(l, m) /\ (l.shutdown => m.shutdown)
      BY <2>0, <2>1, <3>1, AdmitNotes DEF Admitted, KeepsAllBut
    <3> QED BY <1>3, <1>6, <2>0, <3>2
  <2>3. CASE Take(c)
    <3>1. Takes(c)
      BY <2>3, TakeCases
    <3>2. CASE TakesCritical(c)
      <4>1. /\ l.critical # <<>> /\ m.critical = Tail(l.critical) /\ m.wire = l.wire /\ m.shutdown = l.shutdown
            /\ m.writing = Prepared(Head(l.critical), c) /\ l.writing = None
        BY <2>0, <3>1, <3>2 DEF Takes, TakesCritical, KeepsAllBut
      <4>2. In(l.critical) = {Head(l.critical)} \cup In(m.critical) /\ Head(l.critical) \in FrameSet
        BY <2>1, <4>1, InTail
      <4>3. m.writing.kind = Head(l.critical).kind /\ m.writing.sub = Head(l.critical).sub
        BY <4>1, <4>2, PreparedShape
      <4>4. LaneNotes(l, m)
        BY <4>1, <4>2, <4>3, NoneShape DEF LaneNotes, Tails
      <4> QED BY <1>3, <1>6, <2>0, <4>1, <4>4
    <3>3. CASE TakesDurable(c)
      <4>1. /\ m.critical = l.critical /\ m.wire = l.wire /\ m.shutdown = l.shutdown /\ l.writing = None
        BY <2>0, <3>1, <3>3 DEF Takes, TakesDurable, KeepsAllBut
      <4>2. LaneNotes(l, m)
        BY <4>1, NoneShape DEF LaneNotes, Tails
      <4> QED BY <1>3, <1>6, <2>0, <4>1, <4>2
    <3> QED BY <3>1, <3>2, <3>3 DEF Takes
  <2>4. CASE Written(c)
    <3>1. Writes(c)
      BY <2>4, WrittenCases
    <3>2. m.critical = l.critical /\ m.shutdown = l.shutdown /\ m.wire = Append(l.wire, l.writing)
      BY <2>0, <3>1 DEF Writes, KeepsAllBut
    <3>3. In(m.wire) = In(l.wire) \cup {l.writing}
      BY <2>1, <3>2, InAppend
    <3>4. LaneNotes(l, m)
      BY <3>2, <3>3 DEF LaneNotes
    <3> QED BY <1>3, <1>6, <2>0, <3>2, <3>4
  <2>5. CASE HostDrop(c)
    <3>1. m.shutdown
      BY <2>0, <2>5, HostDropCases DEF Drops
    <3> QED BY <1>3, <1>6, <2>0, <3>1 DEF LaneNotes
  <2> QED BY <2>2, <2>3, <2>4, <2>5
<1> QED BY <1>4, <1>5, <1>6

\* The reader of the client never drops a notice of a subscription in use.
LEMMA DispatchCover ==
    ASSUME ShapeInv, ShapeInv', RequestInv, ViewInv, FlowInv, CoverInv, HostKept, NEW f \in FrameSet, Dispatches(f)
    PROVE  CoverInv'
<1>0. client.conn # 0 /\ client.conn \in Conns /\ client'.conn = client.conn /\ Waits /\ registry' = registry
  BY ClientShape DEF Dispatches, ClientKeeps, Waits, HostKept
<1>1. PICK l, m : l = lane[client.conn] /\ m = lane'[client.conn] /\ l = Mine /\ m = Mine'
  BY <1>0 DEF Mine
<1>2. /\ l.wire \in Seq(FrameSet) /\ client.inbox \in Seq(FrameSet) /\ l.wire # <<>> /\ f = Head(l.wire)
      /\ m.wire = Tail(l.wire) /\ KeepsAllBut(l, m, {"wire"})
  BY <1>0, <1>1, ClientShape, LaneShape DEF Dispatches
<1>3. In(l.wire) = {f} \cup In(m.wire)
  BY <1>2, InTail
<1>4. ASSUME NEW s, s \notin client.retired, Noticed(s) PROVE Noticed(s)'
  <2>1. PICK g \in In(client.inbox) \cup In(l.wire) \cup {l.writing} \cup In(l.critical) : IsResync(g, s)
    BY <1>1, <1>4 DEF Noticed
  <2>2. m.writing = l.writing /\ m.critical = l.critical
    BY <1>2 DEF KeepsAllBut
  <2>3. CASE client'.inbox = Append(client.inbox, f)
    <3>1. In(client'.inbox) = In(client.inbox) \cup {f}
      BY <1>2, <2>3, InAppend
    <3> QED BY <1>1, <1>3, <2>1, <2>2, <3>1 DEF Noticed
  <2>4. CASE client'.inbox = client.inbox /\ ~IsResync(f, s)
    BY <1>1, <1>3, <2>1, <2>2, <2>4 DEF Noticed
  <2>5. \/ client'.inbox = client.inbox /\ ~IsResync(f, s)
        \/ client'.inbox = Append(client.inbox, f)
    BY <1>4 DEF Dispatches, ClientKeeps, IsResync, Tails
  <2> QED BY <2>3, <2>4, <2>5
<1>5. m.shutdown = l.shutdown
  BY <1>2 DEF KeepsAllBut
<1>6. ASSUME NEW s, NEW T, Flow(s, T), Held(s) PROVE Held(s)'
  <2>1. s \notin client.retired
    BY <1>6 DEF Flow, Place
  <2> QED BY <1>0, <1>1, <1>4, <1>5, <1>6, <2>1 DEF Held
<1>7. ASSUME client'.state = "Ready", client'.phase = "idle" PROVE Held(client.sub)' /\ ~registry'[client'.sub].frozen
  <2>1. client.state = "Ready" /\ client.phase = "idle" /\ client'.sub = client.sub
    BY <1>0, <1>7 DEF Waits
  <2>2. PICK s : s = client.sub
    OBVIOUS
  <2>3. Held(s) /\ ~registry[s].frozen /\ Flow(s, client.model.last)
    BY <1>0, <2>1, <2>2 DEF CoverInv, FlowInv
  <2>4. Held(s)' /\ ~registry'[s].frozen
    BY <1>0, <1>6, <2>3
  <2> QED BY <2>1, <2>2, <2>4
<1>8. ASSUME NEW g \in UnderWay', g.kind = "page" PROVE Covered(g)'
  <2>1. g \in UnderWay
    BY DispatchRequest
  <2>2. PICK s, T : s = g.sub /\ T = g.end
    OBVIOUS
  <2>3. /\ Frozen(s) => registry[s].through = g.end /\ Attached(s)
        /\ g.hi = g.end => Held(s) /\ ~registry[s].frozen
    BY <1>0, <1>8, <2>1, <2>2 DEF CoverInv, Frozen, Attached
  <2>4. Flow(s, T)
    BY <1>0, <1>8, <2>1, <2>2 DEF FlowInv
  <2>5. (Frozen(s)' => Frozen(s)) /\ (Attached(s) => Attached(s)')
    BY <1>0, <1>1, <1>5 DEF Frozen, Attached
  <2>6. /\ Frozen(s)' => registry'[s].through = g.end /\ Attached(s)'
        /\ g.hi = g.end => Held(s)' /\ ~registry'[s].frozen
    BY <1>0, <1>6, <2>3, <2>4, <2>5
  <2> QED BY <2>2, <2>6 DEF Covered
<1>9. ASSUME NEW s \in Subs, Resuming(s)'
      PROVE  Attached(s)' /\ (~Mine'.shutdown => client'.building.last <= registry'[s].through)
  <2>1. Resuming(s)
    BY <1>0, <1>9 DEF Resuming, Waits
  <2>2. Attached(s) /\ (~Mine.shutdown => client.building.last <= registry[s].through)
    BY <1>0, <2>1 DEF CoverInv, Attached
  <2> QED BY <1>0, <1>1, <1>5, <2>2 DEF Attached, Waits
<1> QED BY <1>7, <1>8, <1>9 DEF CoverInv, Covered, Frozen, Attached

\* A client with no reply under way.
LEMMA CoverQuiet ==
    ASSUME ShapeInv', client'.conn # 0, Unanswered',
           client'.state = "Ready" /\ client'.phase = "idle" => Held(client.sub)' /\ ~registry'[client'.sub].frozen,
           \A s \in Subs : Resuming(s)' =>
               Attached(s)' /\ (~Mine'.shutdown => client'.building.last <= registry'[s].through)
    PROVE  CoverInv'
<1>1. \A f \in UnderWay' : f.kind # "page"
  BY UnderWayNext DEF Unanswered, ReplyFrames, Replies
<1> QED BY <1>1 DEF CoverInv, Attached

\* The tail is held when the last page is read.
LEMMA ReadCover ==
    ASSUME ShapeInv, ShapeInv', ViewInv, CoverInv, HostKept, Unanswered', NEW p \in FrameSet, ReadsPage(p)
    PROVE  CoverInv'
<1>0. /\ client.conn # 0 /\ client'.conn = client.conn /\ lane' = lane /\ p \in UnderWay /\ p.kind = "page"
      /\ p.sub \in Subs /\ p.end \in Nat /\ p.hi \in Nat /\ client.phase = "replay" /\ client'.sub = p.sub
      /\ client'.inbox = client.inbox /\ registry' = registry
  BY FrameFields DEF ReadsPage, ClientKeeps, HostKept
<1>1. PICK s \in Subs : s = p.sub
  BY <1>0
<1>2. /\ Frozen(s) => registry[s].through = p.end /\ Attached(s)
      /\ p.hi = p.end => Held(s) /\ ~registry[s].frozen
  BY <1>0, <1>1 DEF CoverInv, Frozen, Attached
<1>3. (Held(s) => Held(s)') /\ (Frozen(s)' => Frozen(s)) /\ (Attached(s) => Attached(s)')
  BY <1>0 DEF Held, Noticed, Mine, Frozen, Attached
<1>4. client'.state = "Ready" /\ client'.phase = "idle" => Held(client.sub)' /\ ~registry'[client'.sub].frozen
  <2> SUFFICES ASSUME client'.state = "Ready", client'.phase = "idle"
               PROVE  Held(client.sub)' /\ ~registry'[client'.sub].frozen
    OBVIOUS
  <2>1. p.hi = p.end
    BY <1>0 DEF ReadsPage, ClientKeeps
  <2>2. Held(s)' /\ ~registry'[s].frozen
    BY <1>0, <1>2, <1>3, <2>1
  <2>3. client'.sub = s
    BY <1>0, <1>1
  <2> QED BY <2>2, <2>3
<1>5. ASSUME NEW t \in Subs, Resuming(t)'
      PROVE  Attached(t)' /\ (~Mine'.shutdown => client'.building.last <= registry'[t].through)
  <2>1. t = s /\ Frozen(s)' /\ client'.phase = "replay"
    BY <1>0, <1>1, <1>5 DEF Resuming, Frozen
  <2>2. registry[s].through = p.end /\ Attached(s)'
    BY <1>2, <1>3, <2>1
  <2>3. p.hi < p.end /\ client'.building.last = p.hi
    BY <2>1 DEF ReadsPage, Model
  <2> QED BY <1>0, <2>1, <2>2, <2>3
<1> QED BY <1>0, <1>4, <1>5, CoverQuiet

\* Receiving a frame keeps the tail held, or ends Ready.
LEMMA ReceiveCover ==
    ASSUME ShapeInv, ShapeInv', KindInv, ViewInv, FlowInv, CoverInv, HostKept, Unanswered', NEW f \in FrameSet, Receives(f)
    PROVE  CoverInv'
<1>0. /\ client.conn # 0 /\ client'.conn = client.conn /\ lane' = lane /\ client.state = "Ready"
      /\ client.phase = "idle" /\ client'.phase = "idle" /\ client'.sub = client.sub /\ client'.retired = client.retired
      /\ registry' = registry
  BY DEF Receives, ClientKeeps, HostKept
<1>1. PICK s : s = client.sub
  OBVIOUS
<1>2. Held(s) /\ ~registry[s].frozen /\ s \notin client.retired
  BY <1>0, <1>1 DEF CoverInv, FlowInv, Flow, Place
<1>3. ASSUME client'.state = "Ready" PROVE Held(s)'
  <2>1. ~IsResync(f, s)
    BY <1>1, <1>2, <1>3 DEF Receives, IsResync
  <2>2. ASSUME NEW g, g \in In(client.inbox), IsResync(g, s) PROVE g \in In(client'.inbox)
    <3>1. CASE client'.inbox = client.inbox
      BY <2>2, <3>1
    <3>2. CASE client.inbox # <<>> /\ f = Head(client.inbox) /\ client'.inbox = Tail(client.inbox)
      <4>1. client.inbox \in Seq(FrameSet)
        BY ClientShape
      <4>2. In(client.inbox) = {f} \cup In(client'.inbox)
        BY <3>2, <4>1, InTail
      <4> QED BY <2>1, <2>2, <4>2
    <3> QED BY <3>1, <3>2 DEF Receives
  <2>3. Noticed(s) => Noticed(s)'
    BY <1>0, <2>2 DEF Noticed, Mine
  <2> QED BY <1>0, <1>2, <2>3 DEF Held, Mine
<1>4. client'.state = "Ready" => Held(client.sub)' /\ ~registry'[client'.sub].frozen
  <2>1. ~registry'[client'.sub].frozen /\ client'.sub = s
    BY <1>0, <1>1, <1>2
  <2> QED BY <1>3, <2>1
<1>5. \A t \in Subs : ~Resuming(t)'
  BY <1>0 DEF Resuming
<1> QED BY <1>0, <1>4, <1>5, CoverQuiet

\* A turn of the caller keeps the tail held.
LEMMA TurnsCover ==
    ASSUME ShapeInv, ShapeInv', KindInv, ViewInv, FlowInv, CoverInv, HostKept, Unanswered', Turns
    PROVE  CoverInv'
<1>0. lane' = lane /\ client.conn # 0 /\ client'.conn = client.conn
  BY TurnsStay
<1>1. ASSUME client'.state # "Ready" \/ client'.phase # "idle", client'.phase # "replay" \/ client'.sub = 0
      PROVE  CoverInv'
  <2>1. \A s \in Subs : ~Resuming(s)'
    BY <1>1 DEF Resuming
  <2> QED BY <1>0, <1>1, <2>1, CoverQuiet
<1>2. CASE Synchronizes
  BY <1>1, <1>2 DEF Synchronizes
<1>3. CASE Releases
  <2>1. client.phase # "closing" => client.state # "Ready"
    BY <1>3 DEF ViewInv, Releases
  <2>2. client'.state # "Ready" /\ client'.phase # "replay"
    BY <1>3, <2>1 DEF Releases
  <2> QED BY <1>1, <2>2
<1>4. CASE ReadsSnapshot
  <2>1. client.state # "Ready" /\ client.sub = 0
    BY <1>4 DEF ViewInv, ReadsSnapshot
  <2> QED BY <1>1, <1>4, <2>1 DEF ReadsSnapshot, ClientKeeps
<1>5. CASE IsRefused
  BY <1>1, <1>5 DEF IsRefused
<1>6. CASE Gaps
  BY <1>1, <1>6 DEF Gaps, ClientKeeps
<1>7. CASE Closes
  BY <1>1, <1>7 DEF Closes, ClientKeeps
<1> QED BY <1>2, <1>3, <1>4, <1>5, <1>6, <1>7, ReadCover, ReceiveCover DEF Turns

\* The caller keeps the tail held.
LEMMA CallerCover ==
    ASSUME ShapeInv, ShapeInv', ConnInv, KindInv, RequestInv, ViewInv, FlowInv, CoverInv, HostKept, CallerDoes
    PROVE  CoverInv'
<1>1. CASE Leaves
  <2>1. client'.conn = 0
    BY <1>1, LeaveShape DEF Leaves
  <2> QED BY <2>1 DEF CoverInv
<1>2. ASSUME NEW c \in Conns, Connects(c) PROVE CoverInv'
  <2>1. UnderWay' = {None} /\ None.kind # "page"
    BY <1>2, ConnectRequest, NoneShape DEF Replies
  <2> QED BY <1>2, <2>1, CoverNone DEF Connects
<1>3. ASSUME NEW f \in FrameSet, Dispatches(f) PROVE CoverInv'
  BY <1>3, DispatchCover
<1>4. CASE Turns
  BY <1>4, TurnsRequest, TurnsCover
<1> QED BY <1>1, <1>2, <1>3, <1>4, CallerTurns

-----------------------------------------------------------------------------
(* The inductive invariant.                                                  *)

IInv ==
    /\ ShapeInv /\ RegistryInv /\ ControlInv /\ ConnInv /\ FreshInv /\ KindInv
    /\ RequestInv /\ ViewInv /\ FlowInv /\ CoverInv

\* The inductive invariant holds initially.
LEMMA InitHolds == Init => IInv
<1> SUFFICES ASSUME Init PROVE IInv
  OBVIOUS
<1>1. ShapeInv
  BY InitShape
<1>2. /\ newest = 0 /\ nextSub = 1 /\ exec = IdleExec /\ jobs = <<>> /\ control = <<>>
      /\ client.conn = 0 /\ client.opened = 0 /\ client.phase = "idle" /\ client.state = "Pending"
      /\ client.inbox = <<>> /\ client.retained = <<>> /\ client.model = NoModel
      /\ \A s \in Subs : registry[s] = NoEntry
      /\ \A s \in Subs, c \in Conns : streams[<<s, c>>].current = FALSE
      /\ \A c \in Conns : lane[c] = EmptyLane
  BY DEF Init, FreshClient
<1>3. IdleExec.to = 0 /\ IdleExec.reply = None /\ IdleExec.todo = {} /\ None.kind = "none"
  BY DEF IdleExec, None
<1>4. RegistryInv
  <2>1. ASSUME NEW s \in Subs PROVE EntryOK(s)
    <3>1. /\ registry[s] = NoEntry /\ exec.todo = {} /\ newest = 0 /\ client.opened = 0
          /\ \A c \in Conns : c # 0 /\ streams[<<s, c>>].current = FALSE
      BY <1>1, <1>2, <1>3, EntryShape
    <3>2. \A c \in Conns : streams[<<s, c>>].current <=> registry[s].live = c
      BY <3>1, NoEntryFields
    <3> QED BY <3>1, <3>2, NoEntryFields DEF EntryOK
  <2> QED BY <1>2, <1>3, <2>1 DEF RegistryInv, ExecOK
<1>5. ControlInv
  BY <1>2 DEF ControlInv
<1>6. ConnInv
  <2>1. In(jobs) = {}
    BY <1>2, InEmpty
  <2>2. EmptyLane.closed = FALSE
    BY DEF EmptyLane
  <2>3. \A c \in Conns : c # 0
    BY DEF Conns
  <2> QED BY <1>2, <1>3, <2>1, <2>2, <2>3 DEF ConnInv
<1>7. FreshInv
  BY <1>2, <1>3 DEF FreshInv, Fresh, Tails
<1>8. KindInv
  <2>1. EmptyLane.durable = <<>> /\ EmptyLane.critical = <<>> /\ EmptyLane.answer = None
    BY DEF EmptyLane
  <2>2. LaneKinds(EmptyLane)
    BY <1>3, <2>1, InEmpty DEF LaneKinds, Tails
  <2> QED BY <1>2, <2>2, InEmpty DEF KindInv
<1>9. ViewInv
  BY <1>2, NoModelKnown DEF ViewInv
<1> QED BY <1>1, <1>2, <1>4, <1>5, <1>6, <1>7, <1>8, <1>9 DEF IInv, RequestInv, FlowInv, CoverInv

\* Every step of the executor keeps the inductive invariant.
LEMMA ExecutorHolds ==
    ASSUME IInv, Executor
    PROVE  IInv' /\ client' = client /\ newest <= newest'
<1>1. ShapeInv'
  BY ExecutorShape DEF IInv
<1>2. client' = client
  BY DEF Executor, Commit, Serve, Reply, Control, CatchUp, Reap, ReapOutput
<1>3. newest' \in Nat /\ newest \in Nat
  BY <1>1 DEF IInv, ShapeInv
<1>4. newest <= newest'
  <2>1. CASE Commit
    BY <1>3, <2>1, CommitCases DEF IInv
  <2>2. CASE ~Commit
    <3>1. newest' = newest
      BY <2>2 DEF Executor, Serve, Reply, Control, CatchUp, Reap, ReapOutput
    <3> QED BY <1>3, <3>1
  <2> QED BY <2>1, <2>2
<1>5. RegistryInv'
  BY ExecutorRegistry DEF IInv
<1>6. ControlInv' /\ ConnInv' /\ FreshInv' /\ KindInv'
  BY ExecutorControl, ExecutorConn, ExecutorFresh, ExecutorKind DEF IInv
<1>7. RequestInv'
  BY <1>1, ExecutorRequest DEF IInv
<1>8. ViewInv'
  BY <1>2, <1>3, <1>4, ViewHost DEF IInv
<1>9. FlowInv'
  BY <1>1, <1>5, ExecutorFlow DEF IInv
<1>10. CoverInv'
  BY <1>1, ExecutorCover DEF IInv
<1> QED BY <1>1, <1>2, <1>4, <1>5, <1>6, <1>7, <1>8, <1>9, <1>10 DEF IInv

\* Every step of a connection's tasks keeps the inductive invariant.
LEMMA DuplexHolds ==
    ASSUME IInv, Duplex
    PROVE  IInv' /\ client' = client /\ newest' = newest
<1>0. PICK c \in Conns : AdmitReply(c) \/ Take(c) \/ Written(c) \/ HostDrop(c)
  BY DEF Duplex
<1>1. ShapeInv'
  BY <1>0, DuplexShape DEF IInv
<1>2. client' = client /\ newest' = newest
  BY <1>0 DEF AdmitReply, Take, Written, HostDrop
<1>3. RegistryInv' /\ ControlInv' /\ ConnInv' /\ FreshInv' /\ KindInv'
  BY <1>0, DuplexRegistry, DuplexControl, DuplexConn, DuplexFresh, DuplexKind DEF IInv
<1>4. RequestInv'
  BY <1>0, <1>1, DuplexRequest DEF IInv
<1>5. newest \in Nat /\ newest <= newest'
  BY <1>2 DEF IInv, ShapeInv
<1>6. ViewInv'
  BY <1>2, <1>5, ViewHost DEF IInv
<1>7. FlowInv'
  BY <1>0, <1>1, DuplexFlow DEF IInv
<1>8. CoverInv'
  BY <1>0, <1>1, DuplexCover DEF IInv
<1> QED BY <1>1, <1>2, <1>3, <1>4, <1>6, <1>7, <1>8 DEF IInv

\* Every step of the caller keeps the inductive invariant.
LEMMA CallerHolds ==
    ASSUME IInv, Caller
    PROVE  IInv' /\ HostKept /\ CallerDoes
<1>0. HostKept /\ CallerDoes
  BY CallerCases DEF IInv
<1>1. ShapeInv'
  BY CallerShape DEF IInv
<1>2. RegistryInv' /\ ControlInv' /\ ConnInv' /\ FreshInv' /\ KindInv'
  BY <1>0, CallerRegistry, CallerControl, CallerConn, CallerFresh, CallerKind DEF IInv
<1>3. RequestInv'
  BY <1>0, <1>1, CallerRequest DEF IInv
<1>4. ViewInv'
  BY <1>0, <1>1, CallerView DEF IInv
<1>5. FlowInv'
  BY <1>0, <1>1, CallerFlow DEF IInv
<1>6. CoverInv'
  BY <1>0, <1>1, CallerCover DEF IInv
<1> QED BY <1>0, <1>1, <1>2, <1>3, <1>4, <1>5, <1>6 DEF IInv

\* A stuttering step keeps the inductive invariant.
LEMMA StutterHolds ==
    ASSUME IInv, UNCHANGED vars
    PROVE  IInv'
<1> USE DEF vars
<1>1. ShapeInv'
  BY DEF IInv, ShapeInv
<1>2. RegistryInv'
  BY DEF IInv, RegistryInv, EntryOK, ExecOK
<1>3. ControlInv' /\ ConnInv' /\ FreshInv' /\ KindInv'
  BY DEF IInv, ControlInv, RegisterOK, ConnInv, Registering, FreshInv, Fresh, Abroad, Mine, KindInv
<1>4. UnderWay' = UnderWay /\ Mine' = Mine
  BY DEF UnderWay, Arriving, Waiting, Mine
<1>5. RequestInv'
  BY <1>4 DEF IInv, RequestInv, OneRequest, At, JobFits, ReplyFits, Registering, Releasing
<1>6. ViewInv'
  BY DEF IInv, ViewInv, Known
<1>7. \A s, T : Flow(s, T) => Flow(s, T)'
  BY <1>4 DEF Flow, Place, Order, Sent, Queued, Notices, WrittenOf, Current, Taken
<1>8. \A s : (Resuming(s)' => Resuming(s)) /\ (Held(s) => Held(s)')
  BY <1>4 DEF Resuming, Held, Noticed
<1>9. FlowInv'
  BY <1>4, <1>7, <1>8 DEF IInv, FlowInv
<1>10. CoverInv'
  BY <1>4, <1>8 DEF IInv, CoverInv
<1> QED BY <1>1, <1>2, <1>3, <1>5, <1>6, <1>9, <1>10 DEF IInv

\* The inductive invariant of the subscription: one request is outstanding, the
\* model is a prefix of the log, what is on its way to the client continues it
\* without a hole, and a tail that ends leaves a notice or a closed connection.
THEOREM Inductive == Spec => []IInv
<1>1. Init => IInv
  BY InitHolds
<1>2. IInv /\ [Next]_vars => IInv'
  BY ExecutorHolds, DuplexHolds, CallerHolds, StutterHolds DEF Next
<1> QED BY <1>1, <1>2, PTL DEF Spec

-----------------------------------------------------------------------------
(* What the invariant gives.                                                 *)

\* What the client makes of a frame.
Skips == client'.state = client.state /\ client'.model = client.model /\ client'.verdict = client.verdict
Loses == client'.state = "NeedsResync" /\ client'.model = client.model /\ client'.verdict \in {"foreign", "resync"}
Applies ==
    /\ client'.state = client.state /\ client'.verdict = "ok"
    /\ client.model.last + 1 <= newest /\ client.model.seqs = 1 .. client.model.last
    /\ client'.model = Model(client.model.last + 1, 1 .. client.model.last + 1)

\* Receiving a frame skips a retired one, loses the subscription or applies an event.
LEMMA Received ==
    ASSUME IInv, NEW f \in FrameSet, Receives(f)
    PROVE  Skips \/ Loses \/ Applies
<1>0. f.hi \in Nat /\ f.lo \in Nat /\ client.model.last \in Nat /\ newest \in Nat /\ client.state = "Ready"
  BY FrameFields, ModelShape DEF IInv, Receives
<1>1. CASE f.sub \in client.retired /\ ClientKeeps({"retained", "inbox"})
  BY <1>1 DEF Skips, ClientKeeps
<1>2. CASE f.sub # client.sub /\ client'.verdict = "foreign" /\ client'.state = "NeedsResync"
           /\ ClientKeeps({"retained", "inbox", "state", "verdict"})
  BY <1>2 DEF Loses, ClientKeeps
<1>3. CASE f.sub \notin client.retired /\ f.sub = client.sub
  <2>1. Follows(f)
    BY <1>3, HeadFlow DEF IInv
  <2>2. CASE f.kind = "resync"
    <3>1. f.lo = client.model.last /\ f.lo <= f.hi
      BY <2>1, <2>2 DEF Follows
    <3>2. ~(f.hi < f.lo \/ f.lo # client.model.last)
      BY <1>0, <3>1
    <3>3. /\ client'.verdict = "resync" /\ client'.state = "NeedsResync"
          /\ ClientKeeps({"retained", "inbox", "state", "verdict"})
      BY <1>3, <2>2, <3>2 DEF Receives
    <3> QED BY <3>3 DEF Loses, ClientKeeps
  <2>3. CASE f.kind # "resync"
    <3>0. f.kind = "event"
      BY <1>3, <2>3, HeadFlow DEF IInv, Tails
    <3>1. f.hi = client.model.last + 1 /\ f.hi <= newest
      BY <2>1, <3>0 DEF Follows
    <3>2. (\A n \in client.seen : n <= client.model.last) /\ client.model.seqs = 1 .. client.model.last
      BY <1>0 DEF IInv, ViewInv, Known
    <3>3. f.hi \notin client.seen /\ ~(f.hi <= client.model.last)
      BY <1>0, <3>1, <3>2
    <3>4. /\ client'.verdict = "ok" /\ client'.state = client.state
          /\ client'.model = Model(f.hi, client.model.seqs \cup {f.hi})
      BY <1>3, <2>3, <3>3 DEF Receives
    <3>5. client.model.seqs \cup {f.hi} = 1 .. client.model.last + 1
      BY <1>0, <3>1, <3>2
    <3> QED BY <3>1, <3>2, <3>4, <3>5 DEF Applies
  <2> QED BY <2>2, <2>3
<1> QED BY <1>1, <1>2, <1>3 DEF Receives

\* On a connection only a frame that is received changes what the caller is told.
LEMMA VerdictKept ==
    ASSUME IInv, CallerDoes, \A f \in FrameSet : ~Receives(f)
    PROVE  client'.verdict = "ok" \/ (client'.verdict = client.verdict /\ client'.grant = client.grant)
<1>1. CASE Leaves
  BY <1>1, LeaveShape DEF Leaves, IInv
<1>2. CASE Releases \/ (\E f \in FrameSet : ReadsPage(f)) \/ (\E f \in FrameSet : Dispatches(f))
  BY <1>2 DEF Releases, ReadsPage, Dispatches, ClientKeeps
<1>3. CASE Synchronizes \/ ReadsSnapshot \/ IsRefused \/ Gaps \/ Closes \/ (\E c \in Conns : Connects(c))
  BY <1>3 DEF Synchronizes, ReadsSnapshot, IsRefused, Gaps, Closes, Connects, ClientKeeps
<1> QED BY <1>1, <1>2, <1>3 DEF CallerDoes

\* No event reaches the client twice or out of order, and a resync notice names
\* the sequence the client has reached, for every number of connections,
\* subscriptions and events and every capacity (prepare_for_write,
\* handle_unsolicited_message).
THEOREM NeverMisdelivers == Spec => []NoMisdelivery
<1>1. Init => NoMisdelivery
  BY DEF Init, FreshClient, NoMisdelivery
<1>2. IInv /\ NoMisdelivery /\ [Next]_vars => NoMisdelivery'
  <2> SUFFICES ASSUME IInv, NoMisdelivery, [Next]_vars PROVE NoMisdelivery'
    OBVIOUS
  <2>1. CASE client' = client
    BY <2>1 DEF NoMisdelivery
  <2>2. CASE Caller
    <3>1. CallerDoes
      BY <2>2, CallerHolds
    <3>2. CASE \A f \in FrameSet : ~Receives(f)
      BY <3>1, <3>2, VerdictKept DEF NoMisdelivery
    <3>3. ASSUME NEW f \in FrameSet, Receives(f) PROVE NoMisdelivery'
      BY <3>3, Received DEF Skips, Loses, Applies, NoMisdelivery
    <3> QED BY <3>2, <3>3
  <2> QED BY <2>1, <2>2, ExecutorHolds, DuplexHolds DEF Next, vars
<1> QED BY <1>1, <1>2, Inductive, PTL DEF Spec

\* When nothing is under way, the chain from model to log has no link left.
LEMMA NothingMissing ==
    ASSUME IInv
    PROVE  NeverSilentlyStale
<1> SUFFICES ASSUME client.conn # 0, client.state = "Ready", client.phase = "idle", Quiet
             PROVE  client.model.last = newest
  BY DEF NeverSilentlyStale
<1>1. PICK l : l = lane[client.conn] /\ l = Mine
  BY DEF Mine
<1>2. /\ exec = IdleExec /\ ~l.shutdown /\ l.writing = None /\ l.critical = <<>> /\ l.durable = <<>> /\ l.wire = <<>>
      /\ client.inbox = <<>>
  BY <1>1 DEF Quiet, Settled, ExecIdle
<1>3. exec.todo = {} /\ None.kind = "none"
  BY <1>2 DEF IdleExec, None
<1>4. PICK s \in Subs, T \in Nat : s = client.sub /\ T = client.model.last
  BY ModelShape DEF IInv, ViewInv
<1>5. Held(s) /\ ~registry[s].frozen /\ Flow(s, T)
  BY <1>4 DEF IInv, CoverInv, FlowInv
<1>6. ~Noticed(s)
  BY <1>1, <1>2, <1>3, InEmpty DEF Noticed, IsResync
<1>7. registry[s].live = client.conn /\ client.conn \in Conns
  BY <1>1, <1>2, <1>5, <1>6, ClientShape DEF Held, IInv
<1>8. registry[s].admitted = newest /\ Current(s)
  BY <1>3, <1>5, <1>7 DEF IInv, RegistryInv, EntryOK, Current
<1>9. WrittenOf(s) \in Nat /\ newest \in Nat
  BY PlaceShape DEF IInv
<1>10. Taken(s) = WrittenOf(s)
  BY <1>1, <1>2, <1>3 DEF Taken, IsEvent
<1>11. T <= WrittenOf(s) /\ Covers({}, s, T, WrittenOf(s))
  BY <1>1, <1>2, <1>5, InEmpty DEF Flow, Place, Sent
<1>12. WrittenOf(s) <= newest /\ Covers({}, s, WrittenOf(s), newest)
  BY <1>1, <1>2, <1>5, <1>8, <1>10, InEmpty DEF Flow, Queued
<1>13. \A a, b \in Nat : a <= b /\ Covers({}, s, a, b) => a = b
  BY DEF Covers
<1> QED BY <1>4, <1>9, <1>11, <1>12, <1>13

\* A Ready subscription to which nothing is under way has every event
\* (force_live_resync, fail_live_replay, remove_for_output, reap_idle).
THEOREM NeverStale == Spec => []NeverSilentlyStale
BY Inductive, NothingMissing, PTL

-----------------------------------------------------------------------------
(* The subscription implements the feed.                                     *)

\* What a step of the client does to its model and its claim to be live.
ModelStays == client'.model = client.model /\ client'.state = client.state
ModelLost == client'.model = client.model /\ client'.state # "Ready"
ModelForgotten == client'.model = NoModel /\ client'.state # "Ready"
ModelRebased(n) ==
    /\ client.state # "Ready" /\ client'.state = "Ready" /\ client.model.last <= n /\ n <= newest
    /\ client'.model = Model(n, 1 .. n)
ModelMoves ==
    \/ ModelStays \/ ModelLost \/ ModelForgotten
    \/ \E n \in Nat : ModelRebased(n)
    \/ Applies /\ client.state = "Ready"

\* The last page of a replay completes the model on top of the snapshot.
LEMMA PageRebases ==
    ASSUME IInv, NEW p \in FrameSet, ReadsPage(p)
    PROVE  ModelMoves
<1>0. /\ p.lo \in Nat /\ p.hi \in Nat /\ p.end \in Nat /\ newest \in Nat /\ client.model.last \in Nat
      /\ client.building.last \in Nat /\ client.phase = "replay" /\ p.kind = "page" /\ ReplyFits(p)
  BY FrameFields, ModelShape DEF IInv, ReadsPage
<1>1. CASE p.hi < p.end /\ ClientKeeps({"got", "sub", "seen", "building"})
  BY <1>1 DEF ModelMoves, ModelStays, ClientKeeps
<1>2. CASE /\ p.hi = p.end /\ client'.state = "Ready"
           /\ client'.model = Model(p.hi, client.building.seqs \cup (p.lo + 1 .. p.hi))
  <2>1. p.lo = client.building.last /\ p.lo <= p.hi /\ p.hi <= newest
    BY <1>0, <1>2 DEF ReplyFits
  <2>2. client.building.seqs = 1 .. client.building.last /\ client.model.last <= client.building.last
    BY <1>0 DEF IInv, ViewInv, Known
  <2>3. client.building.seqs \cup (p.lo + 1 .. p.hi) = 1 .. p.hi
    BY <1>0, <2>1, <2>2
  <2>4. client.state # "Ready" /\ client.model.last <= p.hi
    BY <1>0, <2>1, <2>2 DEF IInv, ViewInv
  <2>5. ModelRebased(p.hi)
    BY <1>2, <2>1, <2>3, <2>4 DEF ModelRebased
  <2> QED BY <1>0, <2>5 DEF ModelMoves
<1> QED BY <1>1, <1>2 DEF ReadsPage

\* What a step of the caller does to the model.
LEMMA CallerMoves ==
    ASSUME IInv, CallerDoes
    PROVE  ModelMoves
<1>1. CASE Leaves
  <2>1. client'.model = client.model /\ client'.state = "NeedsResync"
    BY <1>1, LeaveShape DEF Leaves, IInv
  <2> QED BY <2>1 DEF ModelMoves, ModelLost
<1>2. ASSUME NEW c \in Conns, Connects(c) PROVE ModelMoves
  BY <1>2 DEF Connects, ModelMoves, ModelForgotten
<1>3. ASSUME NEW f \in FrameSet, Dispatches(f) PROVE ModelMoves
  BY <1>3 DEF Dispatches, ClientKeeps, ModelMoves, ModelStays
<1>4. CASE Synchronizes
  BY <1>4 DEF Synchronizes, ClientKeeps, ModelMoves, ModelLost
<1>5. CASE Releases
  BY <1>5 DEF Releases, ModelMoves, ModelLost, ModelForgotten, ModelStays
<1>6. CASE ReadsSnapshot
  BY <1>6 DEF ReadsSnapshot, ClientKeeps, ModelMoves, ModelStays
<1>7. CASE IsRefused \/ Gaps
  BY <1>7 DEF IsRefused, Gaps, ClientKeeps, ModelMoves, ModelLost
<1>8. CASE Closes
  BY <1>8 DEF Closes, ClientKeeps, ModelMoves, ModelStays, ModelForgotten
<1>9. ASSUME NEW f \in FrameSet, Receives(f) PROVE ModelMoves
  <2>1. client.state = "Ready"
    BY <1>9 DEF Receives
  <2> QED BY <1>9, <2>1, Received DEF Skips, Loses, ModelMoves, ModelStays, ModelLost
<1> QED BY <1>1, <1>2, <1>3, <1>4, <1>5, <1>6, <1>7, <1>8, <1>9, PageRebases DEF CallerDoes

\* Every such step is a step of the feed.
LEMMA MovesFeed ==
    ASSUME IInv, newest' = newest, ModelMoves
    PROVE  [Feed!FeedNext]_Feed!feed
<1>0. /\ newest \in Nat /\ client.model.last \in Nat /\ client.model.seqs = 1 .. client.model.last
      /\ NoModel.seqs = {} /\ NoModel.some = FALSE
  BY ModelShape DEF IInv, ViewInv, Known, NoModel
<1>1. CASE ModelStays
  BY <1>1 DEF ModelStays, Feed!feed
<1>2. CASE ModelLost
  <2>1. Feed!Lose
    BY <1>2 DEF ModelLost, Feed!Lose
  <2> QED BY <2>1 DEF Feed!FeedNext
<1>3. CASE ModelForgotten
  <2>1. Feed!Forget
    BY <1>0, <1>3 DEF ModelForgotten, Feed!Forget
  <2> QED BY <2>1 DEF Feed!FeedNext
<1>4. ASSUME NEW n \in Nat, ModelRebased(n) PROVE Feed!Rebase
  <2>1. client'.model.seqs = 1 .. n /\ client'.model.some = TRUE
    BY <1>4 DEF ModelRebased, Model
  <2>2. n \in 0 .. newest /\ client.model.seqs \subseteq 1 .. n
    BY <1>0, <1>4 DEF ModelRebased
  <2> QED BY <1>4, <2>1, <2>2 DEF ModelRebased, Feed!Rebase
<1>5. CASE Applies /\ client.state = "Ready"
  <2>1. client'.model.seqs = 1 .. client.model.last + 1 /\ client'.model.some = TRUE /\ client.model.some = TRUE
    BY <1>5, ModelShape DEF Applies, Model, IInv, ViewInv
  <2>2. PICK n \in 1 .. newest : n = client.model.last + 1
    BY <1>0, <1>5 DEF Applies
  <2>3. client.model.seqs = 1 .. (n - 1) /\ client'.model.seqs = 1 .. n
    BY <1>0, <2>1, <2>2
  <2>4. client'.state = client.state
    BY <1>5 DEF Applies
  <2>5. Feed!Deliver
    BY <1>5, <2>1, <2>3, <2>4 DEF Feed!Deliver
  <2> QED BY <2>5 DEF Feed!FeedNext
<1> QED BY <1>1, <1>2, <1>3, <1>4, <1>5 DEF ModelMoves, Feed!FeedNext

\* Every step is a step of the abstract feed or leaves it alone.
LEMMA StepFeed ==
    ASSUME IInv, [Next]_vars
    PROVE  [Feed!FeedNext]_Feed!feed
<1>1. CASE Commit
  <2>1. newest' \in Nat /\ newest \in Nat /\ client' = client
    BY <1>1, CommitCases DEF IInv
  <2>2. newest' \in newest + 1 .. MaxEvents
    BY <1>1, <2>1, Bounds DEF Commit
  <2>3. Feed!Publish
    BY <2>1, <2>2 DEF Feed!Publish
  <2> QED BY <2>3 DEF Feed!FeedNext
<1>2. CASE newest' = newest /\ client' = client
  BY <1>2 DEF Feed!feed
<1>3. CASE Executor /\ ~Commit
  BY <1>2, <1>3 DEF Executor, Serve, Reply, Control, CatchUp, Reap, ReapOutput
<1>4. CASE Caller
  <2>1. CallerDoes /\ newest' = newest
    BY <1>4, CallerHolds DEF HostKept
  <2> QED BY <2>1, CallerMoves, MovesFeed
<1>5. CASE UNCHANGED vars
  BY <1>2, <1>5 DEF vars
<1> QED BY <1>1, <1>2, <1>3, <1>4, <1>5, DuplexHolds DEF Next

\* The subscription implements the abstract feed: its view is a prefix without
\* holes that grows by the next event while Ready and is rebased only forward
\* (synchronize_inner, handle_unsolicited_message).
THEOREM SubscriptionImplementsFeed == Spec => ImplementsFeed
<1>1. Init => Feed!FeedInit
  BY DEF Init, FreshClient, NoModel, Feed!FeedInit
<1>2. IInv /\ [Next]_vars => [Feed!FeedNext]_Feed!feed
  BY StepFeed
<1> QED BY <1>1, <1>2, Inductive, PTL DEF Spec, ImplementsFeed, Feed!FeedSpec

-----------------------------------------------------------------------------
(* Who owns a subscription, on a connection that presented no grant.         *)

\* The conditions on a reply under way.
Rightful(f) ==
    /\ f.kind = "released" /\ client.sub # 0 => registry[client.sub].scope = 0
    /\ f.kind = "refused" => client.phase = "replay"
    /\ f.kind = "page" => registry[f.sub].scope \in {0, client.conn}

\* An entry keeps its scope, is dropped, or moves between other connections; a new
\* one is not the client's.
Elsewhere(s) == registry[s].scope \notin {0, client.conn} /\ registry'[s].scope # client.conn
ScopesKept ==
    \A s \in Subs : /\ s < nextSub => registry'[s].scope \in {0, registry[s].scope} \/ Elsewhere(s)
                    /\ s >= nextSub => registry'[s].scope # client.conn
Unmoved == \A i \in DOMAIN control : control[i].conn = client.conn => control[i].from = 0
\* The tails on the way to the client after a step.
Expected(f) == \/ \E g \in OnTheWay : g.kind \in Tails /\ g.sub = f.sub
               \/ f.sub \in Subs /\ registry[f.sub].scope = client.conn

\* What the client owns it still owns when its state stands still.
LEMMA OwnedKept ==
    ASSUME client'.conn = client.conn, client'.phase = client.phase, client'.sub = client.sub,
           In(jobs') \subseteq In(jobs),
           \A f \in UnderWay' : f.kind = "page" => f \in UnderWay \/ client.sub # 0,
           NEW s, Owned(s)
    PROVE  Owned(s)'
BY DEF Owned, Claimed

\* Ownership is kept when the client stands still and no entry becomes its own.
LEMMA OwnHost ==
    ASSUME ShapeInv, ShapeInv', FreshInv, OwnInv, client.conn # 0, client.grant = 0, client' = client, Unmoved',
           ScopesKept,
           In(jobs') \subseteq In(jobs),
           \A f \in UnderWay' : f \in UnderWay \/ (Rightful(f)' /\ (f.kind = "page" => client.sub # 0)),
           \A f \in OnTheWay' : f.kind \in Tails => Expected(f)
    PROVE  OwnInv'
<1>0. client.sub < nextSub /\ client.sub \in 0 .. MaxSubs /\ nextSub \in Nat
  BY ClientShape DEF FreshInv
<1>1. \A s : Owned(s) => Owned(s)'
  BY OwnedKept
<1>2. ASSUME NEW s \in Subs, registry'[s].scope = client'.conn PROVE Owned(s)'
  <2>1. s < nextSub
    BY <1>2, EntryShape DEF ScopesKept
  <2>2. registry[s].scope = client.conn
    BY <1>2, <2>1 DEF ScopesKept, Elsewhere
  <2> QED BY <1>1, <2>2 DEF OwnInv
<1>3. client.sub # 0 => registry'[client.sub].scope \in {0, registry[client.sub].scope}
  <2> SUFFICES ASSUME client.sub # 0 PROVE registry'[client.sub].scope \in {0, registry[client.sub].scope}
    OBVIOUS
  <2>1. registry[client.sub].scope \in {0, client.conn}
    BY DEF OwnInv
  <2> QED BY <1>0, <2>1, ClientShape DEF ScopesKept, Elsewhere
<1>4. ASSUME NEW f \in UnderWay' PROVE Rightful(f)'
  <2>1. CASE f \in UnderWay
    <3>1. Rightful(f)
      BY <2>1 DEF OwnInv, Rightful
    <3>2. f.kind = "page" => registry'[f.sub].scope \in {0, client.conn}
      <4> SUFFICES ASSUME f.kind = "page" PROVE registry'[f.sub].scope \in {0, client.conn}
        OBVIOUS
      <4>1. PICK s \in Subs : s = f.sub /\ s < nextSub
        <5>1. f \in FrameSet /\ f \in Abroad
          BY <2>1, UnderWayShape, UnderWayCases DEF Abroad
        <5> QED BY <5>1, FrameFields DEF FreshInv, Fresh
      <4> QED BY <3>1, <4>1 DEF Rightful, ScopesKept, Elsewhere
    <3>3. f.kind = "released" /\ client.sub # 0 => registry'[client.sub].scope = 0
      BY <1>3, <3>1 DEF Rightful
    <3> QED BY <3>1, <3>2, <3>3 DEF Rightful
  <2> QED BY <2>1
<1>5. ASSUME NEW f \in OnTheWay', f.kind \in Tails PROVE f.sub \in client'.retired \/ Owned(f.sub)'
  <2>1. f.sub \in client.retired \/ Owned(f.sub)
    BY <1>5 DEF Expected, OwnInv
  <2>2. PICK s : s = f.sub
    OBVIOUS
  <2>3. s \in client.retired \/ Owned(s)'
    BY <1>1, <2>1, <2>2
  <2> QED BY <2>2, <2>3
<1> QED BY <1>2, <1>3, <1>4, <1>5 DEF OwnInv, Unmoved, Rightful

\* The tails on their way after a step are frames.
LEMMA OnTheWayNext ==
    ASSUME ShapeInv', client'.conn # 0
    PROVE  OnTheWay' \subseteq FrameSet
<1>1. client'.conn \in Conns /\ client'.inbox \in Seq(FrameSet) /\ client'.retained \in Seq(FrameSet)
  BY ClientNext
<1>2. PICK c \in Conns : c = client'.conn
  BY <1>1
<1>l. PICK l : l = lane'[c] /\ l = Mine'
  BY <1>2 DEF Mine
<1>3. /\ l.critical \in Seq(FrameSet) /\ l.durable \in Seq(FrameSet) /\ l.wire \in Seq(FrameSet)
      /\ l.writing \in FrameSet
  BY <1>l, LaneNext
<1>4. /\ In(l.wire) \subseteq FrameSet /\ In(l.critical) \subseteq FrameSet /\ In(l.durable) \subseteq FrameSet
  BY <1>3, Queues
<1>5. In(client'.inbox) \subseteq FrameSet /\ In(client'.retained) \subseteq FrameSet
  BY <1>1, Queues
<1> QED BY <1>l, <1>3, <1>4, <1>5 DEF OnTheWay

\* A step of the executor other than serving a request: no reply comes under way.
LEMMA OwnSteady ==
    ASSUME ShapeInv, ShapeInv', FreshInv, OwnInv, client.conn # 0, client.grant = 0, client' = client, Unmoved',
           ScopesKept,
           In(jobs') \subseteq In(jobs), Stands, \A f \in OnTheWay' : f.kind \in Tails => Expected(f)
    PROVE  OwnInv'
<1>1. ASSUME NEW f \in UnderWay' PROVE f \in UnderWay \/ (Rightful(f)' /\ (f.kind = "page" => client.sub # 0))
  <2>1. CASE f \in UnderWay
    BY <2>1
  <2>2. CASE f \notin ReplyFrames
    <3>1. f \in FrameSet
      BY UnderWayNext
    <3>2. f.kind \notin Replies
      BY <2>2, <3>1 DEF ReplyFrames
    <3> QED BY <3>2 DEF Replies, Rightful
  <2> QED BY <2>1, <2>2 DEF Stands
<1> QED BY <1>1, OwnHost

\* The lane of the client brings no new tail.
LaneTails(l, m) ==
    \A f \in In(m.wire) \cup {m.writing} \cup In(m.durable) \cup In(m.critical) :
       f.kind \in Tails =>
          \E g \in In(l.wire) \cup {l.writing} \cup In(l.durable) \cup In(l.critical) : g.kind \in Tails /\ g.sub = f.sub

\* A lane that is unchanged or shut down brings no new tail.
LEMMA TailsOf ==
    ASSUME NEW l, NEW m, m = l \/ Shut(l, m)
    PROVE  LaneTails(l, m)
BY DEF LaneTails, Shut

\* Then every tail on the way is one the client expects.
LEMMA TailsExpected ==
    ASSUME client' = client, LaneTails(lane[client.conn], lane'[client.conn])
    PROVE  \A f \in OnTheWay' : f.kind \in Tails => Expected(f)
<1> SUFFICES ASSUME NEW f \in OnTheWay', f.kind \in Tails PROVE Expected(f)
  OBVIOUS
<1>1. PICK l, m : l = lane[client.conn] /\ m = lane'[client.conn] /\ l = Mine /\ m = Mine'
  BY DEF Mine
<1>2. CASE f \in In(client.inbox) \cup In(client.retained)
  BY <1>2 DEF OnTheWay, Expected
<1>3. CASE f \in In(m.wire) \cup {m.writing} \cup In(m.durable) \cup In(m.critical)
  BY <1>1, <1>3 DEF OnTheWay, Expected, LaneTails
<1> QED BY <1>1, <1>2, <1>3 DEF OnTheWay

\* Dropping an entry changes no other scope.
LEMMA DropsScopes ==
    ASSUME ShapeInv, RegistryInv, client.conn # 0, NEW s \in Subs, Dropped(s)
    PROVE  ScopesKept
<1> SUFFICES ASSUME NEW t \in Subs
             PROVE  /\ t < nextSub => registry'[t].scope \in {0, registry[t].scope}
                    /\ t >= nextSub => registry'[t].scope # client.conn
  BY DEF ScopesKept
<1>1. registry'[t].scope \in {0, registry[t].scope}
  BY DropScopes
<1>2. t >= nextSub => registry[t].scope = 0
  BY NoEntryFields DEF RegistryInv, EntryOK
<1> QED BY <1>1, <1>2

\* Entries that are kept or dropped keep their scopes.
LEMMA SameScopes ==
    ASSUME ShapeInv, RegistryInv, client.conn # 0, \A s \in Subs : registry'[s].scope \in {0, registry[s].scope}
    PROVE  ScopesKept
<1>1. \A s \in Subs : s >= nextSub => registry[s].scope = 0
  BY NoEntryFields DEF RegistryInv, EntryOK
<1> QED BY <1>1 DEF ScopesKept

\* A registration of another connection moves no entry to or from the client's.
LEMMA MovedElsewhere ==
    ASSUME ShapeInv, RegistryInv, ControlInv, ConnInv, client.conn # 0, NEW m \in ControlSet, Handles(m),
           Registers(m.conn, m.from), m.from # 0, m.conn # client.conn
    PROVE  ScopesKept
<1>1. PICK old \in 0 .. MaxConns, c \in Conns : old = m.from /\ c = m.conn /\ Registers(c, old) /\ old # 0
  BY DEF ControlSet
<1>2. old \notin {0, client.conn} /\ c # client.conn
  <2>1. client.conn = client.opened /\ c <= client.opened /\ old < c
    BY <1>1 DEF ConnInv, Handles, Registers
  <2> QED BY <1>1, <2>1, ClientShape, Bounds DEF Conns
<1> SUFFICES ASSUME NEW t \in Subs
             PROVE  /\ registry'[t].scope \in {0, registry[t].scope} \/ Elsewhere(t)
                    /\ t >= nextSub => registry'[t].scope # client.conn
  BY DEF ScopesKept
<1>3. t >= nextSub => registry[t].scope = 0
  BY NoEntryFields DEF RegistryInv, EntryOK
<1>4. CASE registry[t].scope = old
  <2>1. registry'[t].scope \in {0, c}
    BY <1>1, <1>4, NoEntryFields DEF Registers, EntryMoved
  <2> QED BY <1>1, <1>2, <1>3, <1>4, <2>1 DEF Elsewhere
<1>5. CASE registry[t].scope # old
  BY <1>1, <1>3, <1>5 DEF Registers
<1> QED BY <1>4, <1>5

\* Catching up sends tails of the client's own entries only.
LEMMA CatchUpOwn ==
    ASSUME ShapeInv, ShapeInv', RegistryInv, FreshInv, RequestInv, OwnInv, client.conn # 0, client.grant = 0,
           NEW s \in Subs, NEW c \in Conns, CaughtUpBy(s, c)
    PROVE  OwnInv'
<1>0. /\ client' = client /\ c = registry[s].live /\ client.conn \in Conns /\ control' = control
      /\ In(jobs') \subseteq In(jobs)
  BY ClientShape, InSame DEF CaughtUpBy
<1>1. Stands
  BY CatchUpRequest
<1>2. Unmoved'
  BY <1>0 DEF OwnInv, Unmoved
<1>3. ScopesKept
  BY CatchUpScopes, SameScopes
<1>4. ASSUME \A f \in OnTheWay' : f.kind \in Tails => Expected(f) PROVE OwnInv'
  BY <1>0, <1>1, <1>2, <1>3, <1>4, OwnSteady
<1>5. CASE lane'[client.conn] = lane[client.conn]
  BY <1>0, <1>4, <1>5, TailsOf, TailsExpected
<1>6. c = client.conn => registry[s].scope = client.conn
  BY <1>0 DEF RegistryInv, EntryOK
<1>7. ASSUME c = client.conn, NEW f \in FrameSet, f.sub = s,
             \A g \in OnTheWay' : g \in OnTheWay \/ g = f
      PROVE  OwnInv'
  BY <1>4, <1>6, <1>7 DEF Expected
<1>8. PICK l, m : l = lane[client.conn] /\ m = lane'[client.conn] /\ l = Mine /\ m = Mine'
  BY <1>0 DEF Mine
<1>9. l.durable \in Seq(FrameSet) /\ l.critical \in Seq(FrameSet)
  BY <1>0, <1>8, LaneShape
<1>10. CASE Admits(s, c) /\ c = client.conn
  <2>1. PICK f : f = Frame("event", s, 0, registry[s].admitted + 1, 0)
    OBVIOUS
  <2>a. registry[s].admitted + 1 \in Nat /\ s \in 0 .. MaxSubs /\ "event" \in Kinds
    BY EntryShape, Bounds DEF Subs, Kinds
  <2>2. f \in FrameSet /\ f.sub = s
    BY <2>1, <2>a, FrameShape
  <2>3. KeepsAllBut(l, m, {"durable"}) /\ m.durable = Append(l.durable, f)
    BY <1>8, <1>10, <2>1 DEF Admits
  <2>4. In(m.durable) = In(l.durable) \cup {f}
    BY <1>9, <2>2, <2>3, InAppend
  <2>5. \A g \in OnTheWay' : g \in OnTheWay \/ g = f
    BY <1>0, <1>8, <2>3, <2>4 DEF OnTheWay, KeepsAllBut
  <2> QED BY <1>7, <1>10, <2>2, <2>5
<1>11. CASE Resyncs(s, c) /\ c = client.conn
  <2>1. PICK f \in FrameSet : f.kind = "resync" /\ f.sub = s /\ lane'[c] = AdmitCritical(lane[c], f)
    BY <1>11 DEF Resyncs
  <2>2. AdmitsFrame(c, f) /\ In(lane'[c].critical) \subseteq In(lane[c].critical) \cup {f}
    BY <2>1, AdmitFacts
  <2>3. KeepsAllBut(l, m, {"critical", "shutdown"}) /\ In(m.critical) \subseteq In(l.critical) \cup {f}
    BY <1>8, <1>11, <2>2 DEF AdmitsFrame
  <2>4. \A g \in OnTheWay' : g \in OnTheWay \/ g = f
    BY <1>0, <1>8, <2>3 DEF OnTheWay, KeepsAllBut
  <2> QED BY <1>7, <1>11, <2>1, <2>4
<1> QED BY <1>0, <1>5, <1>10, <1>11 DEF CaughtUpBy, Gone, Admits, Resyncs, LanesKept

\* A subscription opened for another connection is not the client's.
LEMMA OpenedOther ==
    ASSUME ShapeInv, RegistryInv, client.conn # 0, NEW j \in JobSet, Serves(j), OpensFor(j), j.conn # client.conn
    PROVE  ScopesKept
<1>1. PICK n \in Subs, victim \in Subs \cup {0} : n = nextSub /\ Opens(n, j.conn, j.arg, victim)
  BY DEF OpensFor
<1>2. registry'[n].scope = j.conn
  BY <1>1 DEF Opens
<1> SUFFICES ASSUME NEW t \in Subs
             PROVE  /\ t < nextSub => registry'[t].scope \in {0, registry[t].scope}
                    /\ t >= nextSub => registry'[t].scope # client.conn
  BY DEF ScopesKept
<1>3. t # n => registry'[t].scope \in {0, registry[t].scope}
  BY <1>1, NoEntryFields DEF Opens
<1>4. t >= nextSub => registry[t].scope = 0
  BY NoEntryFields DEF RegistryInv, EntryOK
<1>5. t < nextSub => t # n
  BY <1>1, EntryShape
<1> QED BY <1>2, <1>3, <1>4, <1>5

\* Before its open is served the client owns nothing; then it owns the answer.
LEMMA OpenedOwn ==
    ASSUME ShapeInv, ShapeInv', RegistryInv, FreshInv, RequestInv, OwnInv, client.conn # 0, client.grant = 0, Unmoved',
           NEW j \in JobSet, Serves(j), OpensFor(j), Answers(j), j.conn = client.conn, In(jobs) = {j} \cup In(jobs'),
           \A f \in OnTheWay' : f.kind \in Tails => Expected(f)
    PROVE  OwnInv'
<1>0. /\ client' = client /\ client.conn \in Conns /\ j \in In(jobs) /\ jobs \in Seq(JobSet) /\ jobs # <<>>
      /\ jobs' = Tail(jobs) /\ j = Head(jobs) /\ j.arg \in Nat /\ newest \in Nat /\ j.kind = "open"
  BY ClientShape DEF Serves, OpensFor
<1>1. PICK n \in Subs, victim \in Subs \cup {0} : n = nextSub /\ Opens(n, j.conn, j.arg, victim)
  BY DEF OpensFor
<1>2. Unanswered /\ client.phase = "replay" /\ client.sub = 0
  BY <1>0, JobAlone DEF JobFits
<1>3. \A s \in Subs : ~Owned(s)
  BY <1>0, <1>2, Bounds DEF Owned, Claimed, Subs
<1>4. \A s \in Subs : registry[s].scope # client.conn
  BY <1>3 DEF OwnInv
<1>5. ASSUME NEW g \in In(jobs'), g.conn = client'.conn PROVE FALSE
  <2>1. Single(jobs, JobsOf(client.conn))
    BY DEF RequestInv, OneRequest
  <2>2. ~(j \in JobsOf(client.conn) /\ Has(jobs', JobsOf(client.conn)))
    BY <1>0, <2>1, SingleTail
  <2>3. g \in JobSet
    BY <1>0, <1>5, Queues
  <2> QED BY <1>0, <1>5, <2>2, <2>3 DEF JobsOf, Has
<1>6. PICK p : p = PageAfter(n, j.arg, newest)
  OBVIOUS
<1>7. exec'.reply = p /\ p.sub = n /\ p.kind = "page"
  BY <1>1, <1>6 DEF Opens, Answer, PageAfter, Frame
<1>8. ASSUME NEW f \in UnderWay', f.kind \in Replies PROVE f = p
  <2>1. f \in FrameSet
    BY <1>0, UnderWayNext
  <2> QED BY <1>2, <1>7, <1>8, <2>1 DEF Answers, Unanswered, ReplyFrames
<1>9. Owned(n)'
  <2>1. \A f \in UnderWay' : f.kind = "page" => f.sub = n
    BY <1>7, <1>8 DEF Replies
  <2>2. \A g \in In(jobs') : g.conn = client'.conn => g.kind # "open"
    BY <1>5
  <2>3. client'.phase = "replay" /\ client'.sub = 0
    BY <1>0, <1>2
  <2> QED BY <2>1, <2>2, <2>3 DEF Owned, Claimed
<1>10. ASSUME NEW s \in Subs, registry'[s].scope = client'.conn PROVE Owned(s)'
  <2>1. s # n => registry'[s].scope \in {0, registry[s].scope}
    BY <1>1, NoEntryFields DEF Opens
  <2>2. s = n
    BY <1>0, <1>4, <1>10, <2>1
  <2> QED BY <1>9, <2>2
<1>11. \A f \in UnderWay' : Rightful(f)'
  <2> SUFFICES ASSUME NEW f \in UnderWay' PROVE Rightful(f)'
    OBVIOUS
  <2>1. registry'[n].scope = client'.conn
    BY <1>0, <1>1 DEF Opens
  <2> QED BY <1>7, <1>8, <2>1 DEF Rightful, Replies
<1>12. ASSUME NEW f \in OnTheWay', f.kind \in Tails PROVE f.sub \in client'.retired
  <2>1. f.sub \in client.retired \/ Owned(f.sub)
    BY <1>4, <1>12 DEF Expected, OwnInv
  <2>2. f.sub \in Subs
    <3>1. f \in FrameSet
      BY <1>0, <1>12, OnTheWayNext
    <3> QED BY <1>12, <3>1, FrameFields
  <2> QED BY <1>0, <1>3, <2>1, <2>2
<1> QED BY <1>0, <1>2, <1>10, <1>11, <1>12 DEF OwnInv, Unmoved, Rightful

\* A request of the client is served for the client alone.
LEMMA ServeOwn ==
    ASSUME ShapeInv, ShapeInv', RegistryInv, ConnInv, FreshInv, RequestInv, ViewInv, CoverInv, OwnInv, client.conn # 0,
           client.grant = 0, NEW j \in JobSet, Serves(j)
    PROVE  OwnInv'
<1>0. /\ client' = client /\ client.conn \in Conns /\ j.conn \in Conns /\ j.conn # 0 /\ j \in In(jobs) /\ control' = control
      /\ jobs \in Seq(JobSet) /\ jobs # <<>> /\ jobs' = Tail(jobs) /\ j = Head(jobs) /\ j.arg \in Nat /\ newest \in Nat
  BY ClientShape DEF Serves, Conns
<1>1. Answers(j)
  BY ServeRequest
<1>2. Unmoved'
  BY <1>0 DEF OwnInv, Unmoved
<1>3. In(jobs) = {j} \cup In(jobs')
  BY <1>0, InTail
<1>4. lane'[client.conn] = lane[client.conn] \/ Shut(lane[client.conn], lane'[client.conn])
  <2>1. CASE Busies(j)
    BY <1>0, <2>1 DEF Busies, LanesKept
  <2>2. CASE ~Busies(j)
    BY <2>2 DEF Serves, Snaps, OpensFor, Opens, ContinuesFor, ReleasesFor
  <2> QED BY <2>1, <2>2
<1>5. \A f \in OnTheWay' : f.kind \in Tails => Expected(f)
  BY <1>0, <1>4, TailsOf, TailsExpected
<1>6. ASSUME NEW f \in UnderWay'
      PROVE  \/ f \in UnderWay
             \/ f.kind \notin {"page", "released", "refused"}
             \/ j.conn = client.conn /\ f = exec'.reply
  <2>1. f \in FrameSet
    BY <1>0, UnderWayNext
  <2>2. f \notin ReplyFrames => f.kind \notin {"page", "released", "refused"}
    BY <2>1 DEF ReplyFrames, Replies
  <2> QED BY <1>1, <1>6, <2>2 DEF Answers
<1>7. ASSUME ScopesKept,
             \A f : f = exec'.reply /\ j.conn = client.conn => Rightful(f)' /\ (f.kind = "page" => client.sub # 0)
      PROVE  OwnInv'
  <2>1. ASSUME NEW f \in UnderWay' PROVE f \in UnderWay \/ (Rightful(f)' /\ (f.kind = "page" => client.sub # 0))
    <3>1. f.kind \notin {"page", "released", "refused"} => Rightful(f)'
      BY DEF Rightful
    <3> QED BY <1>6, <1>7, <2>1, <3>1
  <2> QED BY <1>0, <1>2, <1>3, <1>5, <1>7, <2>1, OwnHost
<1>8. ASSUME registry' = registry, exec'.reply.kind \notin {"page", "released", "refused"} PROVE OwnInv'
  <2>1. ScopesKept
    BY <1>8, SameScopes
  <2> QED BY <1>7, <1>8, <2>1 DEF Rightful
<1>9. CASE Snaps(j)
  BY <1>8, <1>9 DEF Snaps, Frame
<1>10. CASE Busies(j)
  <2>1. exec'.reply = None
    BY <1>10 DEF Busies, Serves, RegistryInv, ExecOK
  <2> QED BY <1>8, <1>10, <2>1, NoneShape DEF Busies, Replies
<1>11. CASE OpensFor(j)
  BY <1>11, <1>1, <1>2, <1>3, <1>5, <1>7, OpenedOwn, OpenedOther
<1>12. CASE ContinuesFor(j)
  <2>1. PICK s \in Subs : s = j.sub /\ Continues(j.conn, s, j.arg)
    BY <1>12 DEF ContinuesFor
  <2>2. \A t \in Subs : registry'[t].scope = registry[t].scope
    BY <2>1 DEF Continues, EntryBound
  <2>3. ScopesKept
    BY <2>2, SameScopes
  <2>4. ASSUME NEW f, f = exec'.reply, j.conn = client.conn
        PROVE  Rightful(f)' /\ (f.kind = "page" => client.sub # 0)
    <3>1. client.phase = "replay" /\ client.sub # 0
      BY <1>0, <1>12, <2>4, JobAlone DEF JobFits, ContinuesFor
    <3>2. CASE f = Frame("refused", s, 0, 0, 0)
      BY <1>0, <3>1, <3>2 DEF Frame, Rightful
    <3>3. CASE registry[s].scope = j.conn /\ f = PageAfter(s, j.arg, registry[s].through)
      <4>1. f.kind = "page" /\ f.sub = s
        BY <3>3 DEF PageAfter, Frame
      <4>2. registry'[s].scope = client'.conn
        BY <1>0, <2>2, <2>4, <3>3
      <4> QED BY <3>1, <4>1, <4>2 DEF Rightful
    <3> QED BY <2>1, <2>4, <3>2, <3>3 DEF Continues, Answer
  <2> QED BY <1>7, <2>3, <2>4
<1>13. CASE ReleasesFor(j)
  <2>0. j.sub \in Subs
    BY <1>13 DEF ReleasesFor
  <2>1. ScopesKept
    BY <1>13, <2>0, SameScopes, DropsScopes DEF ReleasesFor
  <2>2. ASSUME NEW f, f = exec'.reply, j.conn = client.conn
        PROVE  Rightful(f)' /\ (f.kind = "page" => client.sub # 0)
    <3>1. j.sub = client.sub /\ client.sub # 0
      BY <1>0, <1>13, <2>2, JobAlone DEF JobFits, ReleasesFor
    <3>2. registry[j.sub].scope \in {0, j.conn}
      BY <2>2, <3>1 DEF OwnInv
    <3>3. f = Frame("released", j.sub, 0, 0, 0) /\ Dropped(j.sub)
      BY <1>13, <2>2, <3>2 DEF ReleasesFor
    <3>4. registry'[client.sub].scope = 0
      BY <3>1, <3>3, NoEntryFields DEF Dropped
    <3> QED BY <1>0, <3>1, <3>3, <3>4 DEF Frame, Rightful
  <2> QED BY <1>7, <2>1, <2>2
<1> QED BY <1>9, <1>10, <1>11, <1>12, <1>13 DEF Serves

\* Taking a control message leaves no rebind behind.
LEMMA UnmovedTail ==
    ASSUME ShapeInv, Unmoved, control # <<>>, control' = Tail(control), client' = client
    PROVE  Unmoved'
<1>1. control \in Seq(ControlSet)
  BY DEF ShapeInv
<1>2. \A i \in DOMAIN Tail(control) : Tail(control)[i] = control[i + 1] /\ i + 1 \in DOMAIN control
  BY <1>1, Queues
<1> QED BY <1>2 DEF Unmoved

\* A control message without a rebind adds none.
LEMMA UnmovedAppend ==
    ASSUME ShapeInv, NEW m \in ControlSet, m.from = 0, control' = Append(control, m),
           \A i \in DOMAIN control : control[i].conn = client'.conn => control[i].from = 0
    PROVE  Unmoved'
<1>1. control \in Seq(ControlSet)
  BY DEF ShapeInv
<1>2. /\ DOMAIN control' = 1 .. Len(control) + 1 /\ control'[Len(control) + 1] = m
      /\ \A i \in DOMAIN control : control'[i] = control[i]
      /\ DOMAIN control = 1 .. Len(control) /\ Len(control) \in Nat
  BY <1>1, Appended
<1>3. ASSUME NEW i \in DOMAIN control', control'[i].conn = client'.conn PROVE control'[i].from = 0
  <2>1. i \in DOMAIN control \/ i = Len(control) + 1
    BY <1>2
  <2> QED BY <1>2, <1>3, <2>1
<1> QED BY <1>3 DEF Unmoved

\* The executor keeps the ownership.
LEMMA ExecutorOwn ==
    ASSUME ShapeInv, ShapeInv', RegistryInv, ControlInv, ConnInv, FreshInv, RequestInv, ViewInv, CoverInv, OwnInv, Executor
    PROVE  OwnInv'
<1>0. client' = client
  BY DEF Executor, Commit, Serve, Reply, Control, CatchUp, Reap, ReapOutput
<1> SUFFICES ASSUME client.conn # 0, client.grant = 0 PROVE OwnInv'
  BY <1>0 DEF OwnInv
<1>u. Unmoved'
  <2>1. CASE Control
    <3>1. control # <<>> /\ control' = Tail(control)
      BY <2>1 DEF Control
    <3> QED BY <1>0, <3>1, UnmovedTail DEF OwnInv, Unmoved
  <2>2. CASE ~Control
    <3>1. control' = control
      BY <2>2 DEF Executor, Commit, Serve, Reply, CatchUp, Reap, ReapOutput
    <3> QED BY <1>0, <3>1 DEF OwnInv, Unmoved
  <2> QED BY <2>1, <2>2
<1>a. client.conn \in Conns
  BY ClientShape
<1>b. ~Serve => Stands
  BY ExecutorRequest
<1>s. ASSUME ~Serve, jobs' = jobs, LaneTails(lane[client.conn], lane'[client.conn]), ScopesKept
      PROVE  OwnInv'
  BY <1>0, <1>b, <1>s, <1>u, InSame, TailsExpected, OwnSteady
<1>4. CASE Serve
  BY <1>4, ServeCases, ServeOwn
<1>1. CASE Commit /\ ~Serve
  <2>1. UNCHANGED <<registry, lane, jobs>>
    BY <1>1, CommitCases
  <2> QED BY <1>1, <1>s, <2>1, TailsOf, SameScopes
<1>2. CASE Reply /\ ~Serve
  <2>1. PICK c \in Conns : HandsOver(c)
    BY <1>2, ReplyCases
  <2>2. UNCHANGED <<registry, jobs>>
    BY <2>1 DEF HandsOver
  <2>3. LaneTails(lane[client.conn], lane'[client.conn])
    BY <1>a, <2>1, TailsOf DEF HandsOver, LanesKept, KeepsAllBut, LaneTails
  <2> QED BY <1>2, <1>s, <2>2, <2>3, SameScopes
<1>d. ASSUME NEW c \in Conns, Detaches(c), jobs' = jobs, ~Serve PROVE OwnInv'
  <2>1. \A s \in Subs : registry'[s].scope \in {0, registry[s].scope}
    BY <1>d, NoEntryFields DEF Detaches, EntryDetached
  <2>2. lane'[client.conn] = lane[client.conn] \/ Shut(lane[client.conn], lane'[client.conn])
    BY <1>a, <1>d DEF Detaches, LanesKept
  <2> QED BY <1>d, <1>s, <2>1, <2>2, TailsOf, SameScopes
<1>3. CASE Control /\ ~Serve
  <2>1. PICK m \in ControlSet : Handles(m)
    BY <1>3, ControlCases
  <2>2. m.conn \in Conns /\ jobs' = jobs /\ (m.conn = client.conn => m.from = 0)
    BY <2>1 DEF Handles, OwnInv
  <2>3. CASE Detaches(m.conn)
    BY <1>3, <1>d, <2>2, <2>3
  <2>4. CASE Registers(m.conn, m.from)
    <3>1. ScopesKept
      <4>1. CASE m.from = 0
        BY <2>4, <4>1, SameScopes DEF Registers
      <4>2. CASE m.from # 0
        BY <2>1, <2>2, <2>4, <4>2, MovedElsewhere
      <4> QED BY <4>1, <4>2
    <3>2. lane'[client.conn] = lane[client.conn] \/ Shut(lane[client.conn], lane'[client.conn])
      BY <1>a, <2>4 DEF Registers
    <3> QED BY <1>3, <1>s, <2>2, <3>1, <3>2, TailsOf
  <2> QED BY <2>1, <2>3, <2>4 DEF Handles
<1>5. ASSUME NEW s \in Subs, CatchUp(s) PROVE OwnInv'
  BY <1>5, CatchUpCases, CatchUpOwn
<1>6. ASSUME NEW s \in Subs, Reap(s), ~Serve PROVE OwnInv'
  <2>1. UNCHANGED <<lane, jobs>> /\ Dropped(s)
    BY <1>6, DropFacts DEF Reap
  <2> QED BY <1>6, <1>s, <2>1, TailsOf, DropsScopes
<1>7. ASSUME NEW c \in Conns, ReapOutput(c), ~Serve PROVE OwnInv'
  <2>1. Detaches(c) /\ jobs' = jobs
    BY <1>7, DetachFacts DEF ReapOutput
  <2> QED BY <1>7, <1>d, <2>1
<1> QED BY <1>1, <1>2, <1>3, <1>4, <1>5, <1>6, <1>7 DEF Executor

\* The tasks of a connection keep the ownership.
LEMMA DuplexOwn ==
    ASSUME ShapeInv, ShapeInv', RegistryInv, KindInv, FreshInv, RequestInv, OwnInv, NEW c \in Conns,
           AdmitReply(c) \/ Take(c) \/ Written(c) \/ HostDrop(c)
    PROVE  OwnInv'
<1>0. client' = client /\ registry' = registry
  BY DEF AdmitReply, Take, Written, HostDrop
<1> SUFFICES ASSUME client.conn # 0, client.grant = 0 PROVE OwnInv'
  BY <1>0 DEF OwnInv
<1>u. Unmoved'
  <2>1. CASE control' = control
    BY <1>0, <2>1 DEF OwnInv, Unmoved
  <2>2. CASE control' = Append(control, [kind |-> "unregister", conn |-> c, from |-> 0])
    <3>1. PICK m : m = [kind |-> "unregister", conn |-> c, from |-> 0]
      OBVIOUS
    <3>2. m \in ControlSet /\ m.from = 0
      BY <3>1, Bounds DEF ControlSet
    <3>3. \A i \in DOMAIN control : control[i].conn = client'.conn => control[i].from = 0
      BY <1>0 DEF OwnInv
    <3> QED BY <2>2, <3>1, <3>2, <3>3, UnmovedAppend
  <2> QED BY <2>1, <2>2 DEF AdmitReply, Take, Written, HostDrop
<1>1. client.conn \in Conns
  BY ClientShape
<1>2. Stands
  BY DuplexRequest
<1>3. In(jobs') \subseteq In(jobs)
  <2>1. jobs \in Seq(JobSet)
    BY DEF ShapeInv
  <2> QED BY <2>1, PickedKeeps, AdmitReplyCases, TakeCases, WrittenCases, HostDropCases DEF Drops
<1>4. ScopesKept
  BY <1>0, SameScopes
<1>5. ASSUME LaneTails(lane[client.conn], lane'[client.conn]) PROVE OwnInv'
  BY <1>0, <1>2, <1>3, <1>4, <1>5, <1>u, TailsExpected, OwnSteady
<1>6. LanesKept(c)
  BY AdmitReplyCases, TakeCases, WrittenCases, HostDropCases DEF Admitted, Takes, Writes, Drops
<1>7. CASE c # client.conn
  <2>1. lane'[client.conn] = lane[client.conn]
    BY <1>1, <1>6, <1>7 DEF LanesKept
  <2> QED BY <1>5, <2>1, TailsOf
<1>8. CASE c = client.conn
  <2>0. PICK l, m : l = lane[c] /\ m = lane'[c]
    OBVIOUS
  <2>1. /\ l.critical \in Seq(FrameSet) /\ l.wire \in Seq(FrameSet) /\ l.writing \in FrameSet
        /\ l.answer \in FrameSet /\ l.durable \in Seq(FrameSet) /\ None.kind \notin Tails
    BY <2>0, LaneShape, NoneShape
  <2>2. CASE AdmitReply(c)
    <3>1. Admitted(c)
      BY <2>2, AdmitReplyCases
    <3>2. l.answer.kind \notin Tails
      BY <2>0 DEF KindInv, LaneKinds
    <3>3. \A f \in In(m.critical) : f \in In(l.critical) \/ f = l.answer
      <4>1. In(Append(l.critical, l.answer)) = In(l.critical) \cup {l.answer}
        BY <2>1, InAppend
      <4> QED BY <2>0, <3>1, <4>1 DEF Admitted
    <3>4. m.wire = l.wire /\ m.writing = l.writing /\ m.durable = l.durable
      BY <2>0, <3>1 DEF Admitted, KeepsAllBut
    <3>5. LaneTails(l, m)
      BY <3>2, <3>3, <3>4 DEF LaneTails
    <3> QED BY <1>5, <1>8, <2>0, <3>5
  <2>3. CASE Take(c)
    <3>1. Takes(c)
      BY <2>3, TakeCases
    <3>2. CASE TakesCritical(c)
      <4>1. /\ l.critical # <<>> /\ m.critical = Tail(l.critical) /\ m.wire = l.wire /\ m.durable = l.durable
            /\ m.writing = Prepared(Head(l.critical), c)
        BY <2>0, <3>1, <3>2 DEF TakesCritical, KeepsAllBut
      <4>2. In(l.critical) = {Head(l.critical)} \cup In(m.critical) /\ Head(l.critical) \in FrameSet
        BY <2>1, <4>1, InTail
      <4>3. m.writing.kind = Head(l.critical).kind /\ m.writing.sub = Head(l.critical).sub
        <5>1. PICK h \in FrameSet : h = Head(l.critical)
          BY <4>2
        <5>2. Prepared(h, c).kind = h.kind /\ Prepared(h, c).sub = h.sub
          BY PreparedShape
        <5> QED BY <4>1, <5>1, <5>2
      <4>4. LaneTails(l, m)
        BY <4>1, <4>2, <4>3 DEF LaneTails
      <4> QED BY <1>5, <1>8, <2>0, <4>4
    <3>3. CASE TakesDurable(c)
      <4>1. /\ l.durable # <<>> /\ m.durable = Tail(l.durable) /\ m.critical = l.critical /\ m.wire = l.wire
            /\ m.writing \in {Head(l.durable), None}
        BY <2>0, <3>1, <3>3 DEF TakesDurable, KeepsAllBut
      <4>2. In(l.durable) = {Head(l.durable)} \cup In(m.durable)
        BY <2>1, <4>1, InTail
      <4>3. LaneTails(l, m)
        BY <2>1, <4>1, <4>2 DEF LaneTails
      <4> QED BY <1>5, <1>8, <2>0, <4>3
    <3> QED BY <3>1, <3>2, <3>3 DEF Takes
  <2>4. CASE Written(c)
    <3>1. Writes(c)
      BY <2>4, WrittenCases
    <3>2. m.critical = l.critical /\ m.durable = l.durable /\ m.wire = Append(l.wire, l.writing) /\ m.writing = None
      BY <2>0, <3>1 DEF Writes, KeepsAllBut
    <3>3. In(m.wire) = In(l.wire) \cup {l.writing}
      BY <2>1, <3>2, InAppend
    <3>4. LaneTails(l, m)
      BY <2>1, <3>2, <3>3 DEF LaneTails
    <3> QED BY <1>5, <1>8, <2>0, <3>4
  <2>5. CASE HostDrop(c)
    <3>1. m.critical = <<>> /\ m.durable = <<>> /\ m.writing = None /\ m.wire = l.wire
      BY <2>0, <2>5, HostDropCases DEF Drops
    <3>2. LaneTails(l, m)
      BY <2>1, <3>1, InEmpty DEF LaneTails
    <3> QED BY <1>5, <1>8, <2>0, <3>2
  <2> QED BY <2>2, <2>3, <2>4, <2>5
<1> QED BY <1>7, <1>8

\* A step of the caller on the connection it has: what it owned it still owns,
\* or has retired with the host's entry gone.
Keeps(s) == Owned(s)' \/ (s \in client'.retired /\ registry[s].scope # client.conn)

\* A turn keeps the ownership.
LEMMA TurnOwn ==
    ASSUME ShapeInv, ShapeInv', OwnInv, HostKept, client.conn # 0, client.grant = 0, lane' = lane,
           client'.conn = client.conn, control' = control,
           Unanswered', client.retired \subseteq client'.retired,
           In(client'.inbox) \cup In(client'.retained) \subseteq In(client.inbox) \cup In(client.retained),
           \A s \in Subs : Owned(s) => Keeps(s),
           client'.sub # 0 => registry[client'.sub].scope \in {0, client.conn}
    PROVE  OwnInv'
<1>0. registry' = registry /\ client.conn \in Conns
  BY ClientShape DEF HostKept
<1>1. Unmoved'
  BY DEF OwnInv, Unmoved
<1>2. ASSUME NEW s \in Subs, registry'[s].scope = client'.conn PROVE Owned(s)'
  BY <1>0, <1>2 DEF OwnInv, Keeps
<1>3. ASSUME NEW f \in UnderWay'
      PROVE  f.kind \notin Replies
  <2>1. f \in FrameSet
    BY UnderWayNext
  <2> QED BY <2>1 DEF Unanswered, ReplyFrames
<1>4. ASSUME NEW f \in OnTheWay', f.kind \in Tails PROVE f.sub \in client'.retired \/ Owned(f.sub)'
  <2>1. f \in OnTheWay
    BY <1>4 DEF OnTheWay, Mine
  <2>2. PICK l : l = lane[client.conn] /\ l = Mine
    BY DEF Mine
  <2>3. /\ In(l.wire) \subseteq FrameSet /\ In(l.critical) \subseteq FrameSet /\ In(l.durable) \subseteq FrameSet
        /\ l.writing \in FrameSet /\ In(client.inbox) \subseteq FrameSet /\ In(client.retained) \subseteq FrameSet
    <3>1. /\ l.wire \in Seq(FrameSet) /\ l.critical \in Seq(FrameSet) /\ l.durable \in Seq(FrameSet)
          /\ l.writing \in FrameSet /\ client.inbox \in Seq(FrameSet) /\ client.retained \in Seq(FrameSet)
      BY <1>0, <2>2, LaneShape, ClientShape
    <3> QED BY <3>1, Queues DEF In
  <2>4. f \in FrameSet
    BY <2>1, <2>2, <2>3 DEF OnTheWay
  <2>5. PICK s \in Subs : s = f.sub
    BY <1>4, <2>4 DEF FrameSet
  <2>6. s \in client.retired \/ Owned(s)
    BY <1>4, <2>1, <2>5 DEF OwnInv
  <2> QED BY <2>5, <2>6 DEF Keeps
<1> QED BY <1>0, <1>1, <1>2, <1>3, <1>4 DEF OwnInv, Unmoved, Replies

\* Outside a replay the client owns the id it holds and no other.
LEMMA IdleOwns ==
    ASSUME NEW s, Owned(s), client.phase # "replay"
    PROVE  s = client.sub
BY DEF Owned, Claimed

\* While the client waits for nothing, or gives nothing up, it owns one id.
LEMMA SameOwn ==
    ASSUME ShapeInv, ShapeInv', OwnInv, HostKept, client.conn # 0, client.grant = 0, lane' = lane,
           client'.conn = client.conn, control' = control,
           Unanswered', client'.retired = client.retired,
           In(client'.inbox) \cup In(client'.retained) \subseteq In(client.inbox) \cup In(client.retained),
           client'.sub = client.sub, \A s \in Subs : Owned(s) => s = client.sub
    PROVE  OwnInv'
<1>1. \A s \in Subs : Owned(s) => Keeps(s)
  BY DEF Keeps, Owned
<1>2. client'.sub # 0 => registry[client'.sub].scope \in {0, client.conn}
  BY DEF OwnInv
<1> QED BY <1>1, <1>2, TurnOwn

\* Every turn of the caller keeps the ownership.
LEMMA TurnsOwn ==
    ASSUME ShapeInv, ShapeInv', ConnInv, RequestInv, ViewInv, OwnInv, HostKept, client.grant = 0, Turns
    PROVE  OwnInv'
<1>0. lane' = lane /\ client.conn # 0 /\ client'.conn = client.conn /\ control' = control
  BY TurnsStay
<1>1. Unanswered'
  BY TurnsRequest
<1>i. client.inbox \in Seq(FrameSet) /\ client.retained \in Seq(FrameSet)
  BY ClientShape
<1>s. ASSUME client.phase # "replay" \/ client.sub # 0, client'.retired = client.retired, client'.sub = client.sub,
             In(client'.inbox) \cup In(client'.retained) \subseteq In(client.inbox) \cup In(client.retained)
      PROVE  OwnInv'
  <2>1. \A s \in Subs : Owned(s) => s = client.sub
    BY <1>s DEF Owned, Claimed
  <2> QED BY <1>0, <1>1, <1>s, <2>1, SameOwn
<1>2. CASE Synchronizes \/ Gaps \/ Closes \/ ReadsSnapshot
  <2>1. /\ client.phase # "replay" /\ client'.retired = client.retired /\ client'.sub = client.sub
        /\ client'.inbox = client.inbox /\ client'.retained = client.retained
    BY <1>2 DEF Synchronizes, Gaps, Closes, ReadsSnapshot, ClientKeeps
  <2> QED BY <1>s, <2>1
<1>3. CASE IsRefused
  <2>1. /\ client.sub \in Subs /\ client'.retired = client.retired /\ client'.sub = client.sub
        /\ client'.inbox = client.inbox /\ client'.retained = client.retained
    BY <1>3 DEF IsRefused, ClientKeeps
  <2>2. client.sub # 0
    BY <2>1, Bounds DEF Subs
  <2> QED BY <1>s, <2>1, <2>2
<1>4. ASSUME NEW f \in FrameSet, Receives(f) PROVE OwnInv'
  <2>1. /\ client.phase # "replay" /\ client'.retired = client.retired /\ client'.sub = client.sub
    BY <1>4 DEF Receives, ClientKeeps
  <2>2. \/ client.retained # <<>> /\ client'.retained = Tail(client.retained) /\ client'.inbox = client.inbox
        \/ client.inbox # <<>> /\ client'.inbox = Tail(client.inbox) /\ client'.retained = client.retained
    BY <1>4 DEF Receives
  <2>3. client.retained # <<>> => In(Tail(client.retained)) \subseteq In(client.retained)
    BY <1>i, InTail
  <2>4. client.inbox # <<>> => In(Tail(client.inbox)) \subseteq In(client.inbox)
    BY <1>i, InTail
  <2>5. In(client'.inbox) \cup In(client'.retained) \subseteq In(client.inbox) \cup In(client.retained)
    BY <2>2, <2>3, <2>4
  <2> QED BY <1>s, <2>1, <2>5
<1>5. CASE Releases
  <2>0. PICK s : s = client.sub
    OBVIOUS
  <2>1. /\ client'.retired = client.retired \cup {s} /\ client'.inbox = <<>> /\ client.phase # "replay"
        /\ client'.retained = Without(client.retained \o client.inbox, client.sub)
        /\ client.got.kind \in {"released", "refused"} /\ client.got \in UnderWay
    BY <1>5, <2>0 DEF Releases, UnderWay, Arriving
  <2>2. client.got.kind = "released"
    BY <1>0, <2>1 DEF OwnInv
  <2>3. client'.sub = 0
    BY <1>5, <2>2 DEF Releases
  <2>4. s # 0 => registry[s].scope = 0
    BY <1>0, <2>0, <2>1, <2>2 DEF OwnInv
  <2>5. \A t \in Subs : t # 0
    BY Bounds DEF Subs
  <2>6. \A t \in Subs : Owned(t) => Keeps(t)
    BY <1>0, <2>0, <2>1, <2>4, <2>5, IdleOwns DEF Keeps
  <2>7. In(client'.inbox) \cup In(client'.retained) \subseteq In(client.inbox) \cup In(client.retained)
    BY <2>1, RetireShape, InEmpty
  <2> QED BY <1>0, <1>1, <2>1, <2>3, <2>6, <2>7, TurnOwn
<1>6. ASSUME NEW p \in FrameSet, ReadsPage(p) PROVE OwnInv'
  <2>1. /\ client'.sub = p.sub /\ ReplyFits(p) /\ p \in UnderWay /\ p.sub \in Subs /\ p.kind = "page"
        /\ client'.inbox = client.inbox /\ client'.retained = client.retained /\ client'.retired = client.retired
    BY <1>6 DEF ReadsPage, ClientKeeps
  <2>2. client.sub \in {0, p.sub} /\ registry[p.sub].scope \in {0, client.conn}
    BY <1>0, <2>1 DEF ReplyFits, OwnInv
  <2>3. \A t \in Subs : t # 0
    BY Bounds DEF Subs
  <2>4. \A t \in Subs : Owned(t) => t = p.sub
    BY <2>1, <2>2, <2>3 DEF Owned, Claimed
  <2>5. \A t \in Subs : Owned(t) => Keeps(t)
    BY <2>1, <2>4 DEF Keeps, Owned
  <2> QED BY <1>0, <1>1, <2>1, <2>2, <2>5, TurnOwn
<1> QED BY <1>2, <1>3, <1>4, <1>5, <1>6 DEF Turns

\* A fresh connection owns nothing.
LEMMA ConnectOwn ==
    ASSUME ShapeInv, ShapeInv', RegistryInv, ControlInv, ConnInv, HostKept, client'.grant = 0, NEW c \in Conns, Connects(c)
    PROVE  OwnInv'
<1>0. /\ registry' = registry /\ lane' = lane /\ client'.conn = c /\ client'.sub = 0 /\ c = client.opened + 1
      /\ client'.inbox = <<>> /\ client'.retained = <<>>
  BY DEF Connects, HostKept
<1>2. c > client.opened /\ client.opened \in Nat
  BY <1>0, ClientShape, Bounds
<1>1. Unmoved'
  <2>1. PICK m \in ControlSet : m.from = 0 /\ control' = Append(control, m)
    BY DEF Connects
  <2>2. \A i \in DOMAIN control : control[i].conn # c
    <3> SUFFICES ASSUME NEW i \in DOMAIN control PROVE control[i].conn # c
      OBVIOUS
    <3>1. control[i].conn <= client.opened
      BY DEF ControlInv
    <3> QED BY <1>0, <1>2, <3>1
  <2> QED BY <1>0, <2>1, <2>2, UnmovedAppend
<1>3. \A s \in Subs : registry'[s].scope # client'.conn
  <2> SUFFICES ASSUME NEW s \in Subs PROVE registry[s].scope # c
    BY <1>0
  <2>1. registry[s].scope <= client.opened
    BY DEF RegistryInv, EntryOK
  <2> QED BY <1>0, <1>2, <2>1
<1>4. UnderWay' = {None} /\ None.kind = "none"
  BY ConnectRequest, NoneShape DEF None
<1>5. lane'[client'.conn] = EmptyLane
  BY <1>0, <1>2 DEF ConnInv
<1>6. OnTheWay' = {None}
  BY <1>0, <1>5, InEmpty DEF OnTheWay, Mine, EmptyLane
<1> QED BY <1>0, <1>1, <1>3, <1>4, <1>6 DEF OwnInv, Unmoved, Tails

\* A dispatched frame changes nobody's ownership.
LEMMA DispatchOwn ==
    ASSUME ShapeInv, ShapeInv', RequestInv, OwnInv, HostKept, client.grant = 0, NEW f \in FrameSet, Dispatches(f)
    PROVE  OwnInv'
<1>0. /\ registry' = registry /\ jobs' = jobs /\ control' = control /\ client.conn # 0 /\ client.conn \in Conns
  BY ClientShape DEF Dispatches, HostKept
<1>1. /\ client'.conn = client.conn /\ client'.phase = client.phase /\ client'.sub = client.sub
      /\ client'.retired = client.retired /\ client'.retained = client.retained
  BY DEF Dispatches, ClientKeeps
<1>2. UnderWay' \subseteq UnderWay
  BY DispatchRequest
<1>3. \A s : Owned(s) => Owned(s)'
  BY <1>0, <1>1, <1>2, OwnedKept
<1>4. PICK l, m : l = lane[client.conn] /\ m = lane'[client.conn] /\ l = Mine /\ m = Mine'
  BY <1>1 DEF Mine
<1>5. /\ l.wire \in Seq(FrameSet) /\ client.inbox \in Seq(FrameSet) /\ l.wire # <<>> /\ f = Head(l.wire)
      /\ m.wire = Tail(l.wire) /\ KeepsAllBut(l, m, {"wire"})
  BY <1>0, <1>4, ClientShape, LaneShape DEF Dispatches
<1>6. In(l.wire) = {f} \cup In(m.wire)
  BY <1>5, InTail
<1>7. In(Append(client.inbox, f)) = In(client.inbox) \cup {f}
  BY <1>5, InAppend
<1>8. In(client'.inbox) \subseteq In(client.inbox) \cup {f}
  BY <1>7 DEF Dispatches, ClientKeeps
<1>9. m.writing = l.writing /\ m.durable = l.durable /\ m.critical = l.critical
  BY <1>5 DEF KeepsAllBut
<1>10. OnTheWay' \subseteq OnTheWay
  BY <1>1, <1>4, <1>6, <1>8, <1>9 DEF OnTheWay
<1>11. Unmoved'
  BY <1>0, <1>1 DEF OwnInv, Unmoved
<1>12. \A s \in Subs : registry'[s].scope = client'.conn => Owned(s)'
  BY <1>0, <1>1, <1>3 DEF OwnInv
<1>13. client'.sub # 0 => registry'[client'.sub].scope \in {0, client'.conn}
  BY <1>0, <1>1 DEF OwnInv
<1>14. ASSUME NEW g \in UnderWay' PROVE Rightful(g)'
  BY <1>0, <1>1, <1>2 DEF OwnInv, Rightful
<1>15. ASSUME NEW g \in OnTheWay', g.kind \in Tails PROVE g.sub \in client'.retired \/ Owned(g.sub)'
  BY <1>0, <1>1, <1>3, <1>10, <1>15 DEF OwnInv
<1> QED BY <1>11, <1>12, <1>13, <1>14, <1>15 DEF OwnInv, Unmoved, Rightful

\* Only a reconnect presents a grant.
LEMMA TurnsGrant ==
    ASSUME Turns
    PROVE  client'.grant = client.grant
<1>1. CASE Releases \/ (\E f \in FrameSet : ReadsPage(f)) \/ (\E f \in FrameSet : Receives(f))
  BY <1>1 DEF Releases, ReadsPage, Receives, ClientKeeps
<1>2. CASE Synchronizes \/ ReadsSnapshot \/ IsRefused \/ Gaps \/ Closes
  BY <1>2 DEF Synchronizes, ReadsSnapshot, IsRefused, Gaps, Closes, ClientKeeps
<1> QED BY <1>1, <1>2 DEF Turns

\* The caller keeps the ownership.
LEMMA CallerOwn ==
    ASSUME IInv, IInv', OwnInv, HostKept, CallerDoes
    PROVE  OwnInv'
<1> SUFFICES ASSUME client'.grant = 0 PROVE OwnInv'
  BY DEF OwnInv
<1>1. CASE Leaves
  <2>1. client'.conn = 0
    BY <1>1, LeaveShape DEF Leaves, IInv
  <2> QED BY <2>1 DEF OwnInv
<1>2. ASSUME NEW c \in Conns, Connects(c) PROVE OwnInv'
  BY <1>2, ConnectOwn DEF IInv
<1>3. ASSUME NEW f \in FrameSet, Dispatches(f) PROVE OwnInv'
  <2>1. client'.grant = client.grant
    BY <1>3 DEF Dispatches, ClientKeeps
  <2> QED BY <1>3, <2>1, DispatchOwn DEF IInv
<1>4. CASE Turns
  <2>1. client'.grant = client.grant
    BY <1>4, TurnsGrant
  <2> QED BY <1>4, <2>1, TurnsOwn DEF IInv
<1> QED BY <1>1, <1>2, <1>3, <1>4, CallerTurns

\* On a connection that took over no tails, a tail that is under way to the client is
\* of the id it holds, of an id it has retired, or of the one its open is about to
\* answer, whatever other connections took over meanwhile (rebind_output).
THEOREM TailsAreOwned == Spec => []OwnInv
<1>1. Init => OwnInv
  <2> SUFFICES ASSUME Init PROVE OwnInv
    OBVIOUS
  <2>1. client.conn = 0
    BY DEF Init, FreshClient
  <2> QED BY <2>1 DEF OwnInv
<1>2. IInv /\ OwnInv /\ [Next]_vars => OwnInv'
  <2> SUFFICES ASSUME IInv, OwnInv, [Next]_vars PROVE OwnInv'
    OBVIOUS
  <2>1. CASE Executor
    <3>1. IInv'
      BY <2>1, ExecutorHolds
    <3> QED BY <2>1, <3>1, ExecutorOwn DEF IInv
  <2>2. CASE Duplex
    <3>1. IInv'
      BY <2>2, DuplexHolds
    <3> QED BY <2>2, <3>1, DuplexOwn DEF IInv, Duplex
  <2>3. CASE Caller
    BY <2>3, CallerHolds, CallerOwn
  <2>4. CASE UNCHANGED vars
    <3>1. /\ UNCHANGED <<registry, exec, jobs, control, lane, client>>
      BY <2>4 DEF vars
    <3>2. Mine' = Mine
      BY <3>1 DEF Mine
    <3>3. UnderWay' = UnderWay /\ OnTheWay' = OnTheWay
      BY <3>1, <3>2 DEF UnderWay, Arriving, Waiting, OnTheWay
    <3> QED BY <3>1, <3>3 DEF OwnInv, Owned, Claimed
  <2> QED BY <2>1, <2>2, <2>3, <2>4 DEF Next
<1> QED BY <1>1, <1>2, Inductive, PTL DEF Spec

\* The frame the caller receives is of its own id or of a retired one.
LEMMA NothingForeign ==
    ASSUME IInv, OwnInv, client.grant = 0, NEW f \in FrameSet, Receives(f)
    PROVE  f.sub \in client.retired \/ f.sub = client.sub
<1>1. f \in In(client.inbox) \cup In(client.retained)
  <2>1. client.inbox \in Seq(FrameSet) /\ client.retained \in Seq(FrameSet)
    BY ClientShape DEF IInv
  <2>2. client.inbox # <<>> => Head(client.inbox) \in In(client.inbox)
    BY <2>1, Queues
  <2>3. client.retained # <<>> => Head(client.retained) \in In(client.retained)
    BY <2>1, Queues
  <2> QED BY <2>2, <2>3 DEF Receives
<1>2. f.kind \in Tails /\ f \in OnTheWay
  BY <1>1 DEF IInv, KindInv, OnTheWay
<1>3. client.conn # 0 /\ client.phase = "idle"
  BY DEF Receives
<1> QED BY <1>2, <1>3, IdleOwns DEF OwnInv

\* A subscription whose connection took over no tails never receives a frame of
\* another one that it has not retired (retire_subscription_id,
\* release_event_replay, remove_for_output, rebind_output).
THEOREM NeverForeign == Spec => []NoForeignFrame
<1>1. Init => NoForeignFrame
  BY DEF Init, FreshClient, NoForeignFrame
<1>2. IInv /\ OwnInv /\ NoForeignFrame /\ [Next]_vars => NoForeignFrame'
  <2> SUFFICES ASSUME IInv, OwnInv, NoForeignFrame, [Next]_vars PROVE NoForeignFrame'
    OBVIOUS
  <2>1. CASE client' = client
    BY <2>1 DEF NoForeignFrame
  <2>2. CASE Caller
    <3>1. CallerDoes
      BY <2>2, CallerHolds
    <3>2. CASE \A f \in FrameSet : ~Receives(f)
      BY <3>1, <3>2, VerdictKept DEF NoForeignFrame
    <3>3. ASSUME NEW f \in FrameSet, Receives(f) PROVE NoForeignFrame'
      <4>1. client.grant = 0 => f.sub \in client.retired \/ f.sub = client.sub
        BY <3>3, NothingForeign
      <4>2. client'.grant = client.grant
        BY <3>3 DEF Receives, ClientKeeps
      <4> QED BY <3>3, <4>1, <4>2 DEF Receives, ClientKeeps, NoForeignFrame
    <3> QED BY <3>2, <3>3
  <2> QED BY <2>1, <2>2, ExecutorHolds, DuplexHolds DEF Next, vars
<1> QED BY <1>1, <1>2, Inductive, TailsAreOwned, PTL DEF Spec

\* The only tail bound to a connection that took over none is the one the client
\* holds, when the client waits for nothing (serve_release_event_replay).
THEOREM NeverOrphaned == Spec => []NoOrphanTail
<1>1. IInv /\ OwnInv => NoOrphanTail
  <2> SUFFICES ASSUME IInv, OwnInv, client.conn # 0, client.grant = 0, client.phase = "idle", NEW s \in Entries, registry[s].live = client.conn
               PROVE  s = client.sub
    BY DEF NoOrphanTail
  <2>1. s \in Subs
    BY DEF Entries
  <2>2. registry[s].live \in {0, registry[s].scope}
    BY <2>1 DEF IInv, RegistryInv, EntryOK
  <2>3. Owned(s)
    BY <2>1, <2>2 DEF OwnInv
  <2> QED BY <2>3, IdleOwns
<1> QED BY <1>1, Inductive, TailsAreOwned, PTL
=============================================================================
