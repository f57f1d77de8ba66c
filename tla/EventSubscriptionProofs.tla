----------------------- MODULE EventSubscriptionProofs ----------------------
(***************************************************************************)
(* The inductive invariant of the event subscription, and the proof that   *)
(* executor, connection tasks and client keep the parts of it that concern *)
(* the host's tables, the outstanding request and the client's model.      *)
(*                                                                         *)
(* The actions are first brought into a form that names what they change   *)
(* (the ...Cases lemmas); each part of the invariant is then kept by the   *)
(* executor, by the duplex tasks and by the caller.                        *)
(***************************************************************************)
EXTENDS EventSubscriptionProperties, TLAPS, WellFoundedInduction

\* The kinds of replies to a request and of unsolicited frames.
Replies == {"snapshot", "page", "released", "refused"}
Tails == {"event", "resync"}

IsEvent(f, s) == f.kind = "event" /\ f.sub = s
IsResync(f, s) == f.kind = "resync" /\ f.sub = s

\* The elements of a queue.
In(q) == {q[i] : i \in DOMAIN q}

\* The sets the variables range over, without the bounds of the channels.
FrameSet == {f \in [kind : Kinds, sub : 0 .. MaxSubs, lo : Nat, hi : Nat, end : Nat] :
                f.kind \in Tails \cup {"page"} => f.sub \in Subs}
EntrySet == [scope : 0 .. MaxConns, frozen : BOOLEAN, through : Nat, live : 0 .. MaxConns,
             admitted : Nat]
ExecSet == [todo : SUBSET Subs, now : 0 .. MaxSubs, to : 0 .. MaxConns, reply : FrameSet]
JobSet == {j \in [conn : Conns, kind : {"snapshot", "open", "continue", "release"},
                  sub : 0 .. MaxSubs, arg : Nat] : j.kind \in {"continue", "release"} => j.sub \in Subs}
ControlSet == [kind : {"register", "unregister"}, conn : Conns, from : 0 .. MaxConns]
LaneSet == [critical : Seq(FrameSet), durable : Seq(FrameSet), writing : FrameSet,
            wire : Seq(FrameSet), answer : FrameSet, shutdown : BOOLEAN, closed : BOOLEAN]
ModelSet == [last : Nat, seqs : SUBSET Nat, some : BOOLEAN]
ClientSet == [conn : 0 .. MaxConns, opened : 0 .. MaxConns, grant : 0 .. MaxConns,
              phase : {"idle", "releasing", "snapshot", "replay", "cleanup", "closing"},
              got : FrameSet, state : {"Pending", "Ready", "NeedsResync"}, sub : 0 .. MaxSubs,
              model : ModelSet, building : ModelSet, seen : SUBSET Nat,
              inbox : Seq(FrameSet), retained : Seq(FrameSet), retired : SUBSET (0 .. MaxSubs),
              verdict : {"ok", "foreign", "invalid resync", "resync", "seen", "regression"}]

\* The shape of the state.
ShapeInv ==
    /\ newest \in Nat /\ nextSub \in Nat \ {0}
    /\ registry \in [Subs -> EntrySet]
    /\ streams \in [Subs \X Conns -> [written : Nat, current : BOOLEAN]]
    /\ exec \in ExecSet
    /\ jobs \in Seq(JobSet)
    /\ control \in Seq(ControlSet)
    /\ outputs \subseteq Conns
    /\ lane \in [Conns -> LaneSet]
    /\ client \in ClientSet

\* The registry: an entry belongs to a connection that was opened, its stream is
\* current exactly on the output it is bound to, and unless it has to catch up a
\* live tail has admitted everything.
EntryOK(s) ==
    /\ registry[s].live \in {0, registry[s].scope}
    /\ registry[s].scope <= client.opened
    /\ registry[s].admitted <= newest /\ registry[s].through <= newest
    /\ s >= nextSub => registry[s] = NoEntry
    /\ registry[s].scope = 0 => registry[s] = NoEntry
    /\ (registry[s].live # 0 /\ ~registry[s].frozen /\ s \notin exec.todo) => registry[s].admitted = newest
    /\ s \in exec.todo => registry[s].live # 0
    /\ \A c \in Conns : streams[<<s, c>>].current <=> registry[s].live = c

\* The executor has a reply exactly when it has someone to give it to.
ExecOK ==
    /\ exec.reply = None <=> exec.to = 0
    /\ exec.to # 0 => exec.reply.kind \in Replies

RegistryInv == (\A s \in Subs : EntryOK(s)) /\ ExecOK

\* A registration under way: its connection owns no entry yet.
RegisterOK(i) ==
    /\ control[i].from < control[i].conn
    /\ \A s \in Subs : registry[s].scope # control[i].conn
    /\ \A j \in DOMAIN control :
          control[j].kind = "register" /\ control[j].conn = control[i].conn => j = i

\* The control queue.
ControlInv ==
    \A i \in DOMAIN control : /\ control[i].conn <= client.opened
                              /\ control[i].kind = "register" => RegisterOK(i)

\* The connections: those not yet opened are untouched, and the client's output is
\* known, shut down or about to be registered.
ConnInv ==
    /\ client.conn \in {0, client.opened}
    /\ client.conn = 0 => client.phase = "idle"
    /\ \A c \in Conns : c > client.opened =>
          lane[c] = EmptyLane /\ exec.to # c /\ \A j \in In(jobs) : j.conn # c
    /\ client.conn # 0 => \/ client.conn \in outputs \/ lane[client.conn].shutdown
                          \/ Registering(client.conn)
    /\ \A c \in Conns : lane[c].closed => lane[c].shutdown

\* The lane of the client's connection and the frames on their way to the client.
Mine == lane[client.conn]
Abroad == In(client.inbox) \cup In(client.retained) \cup In(Mine.wire) \cup In(Mine.durable)
            \cup In(Mine.critical) \cup {Mine.writing, Mine.answer, client.got, exec.reply}
Fresh(f) == f.kind \in Tails \cup {"page"} => f.sub < nextSub

\* Nothing carries a subscription id that was not issued.
FreshInv ==
    /\ Fresh(exec.reply)
    /\ client.conn # 0 =>
         /\ \A f \in Abroad : Fresh(f)
         /\ \A s \in client.retired : s < nextSub
         /\ client.sub < nextSub

\* The request of the client: in one of the places it passes, and in one only.
ReplyFrames == {f \in FrameSet : f.kind \in Replies}
JobsOf(c) == {j \in JobSet : j.conn = c}
Has(q, X) == \E f \in In(q) : f \in X
Single(q, X) == \A i, j \in DOMAIN q : q[i] \in X /\ q[j] \in X => i = j

Places == {"job", "exec", "answer", "critical", "writing", "wire", "got"}
At(p) == \/ p = "job" /\ Has(jobs, JobsOf(client.conn))
         \/ p = "exec" /\ exec.to = client.conn
         \/ p = "answer" /\ Mine.answer \in ReplyFrames
         \/ p = "critical" /\ Has(Mine.critical, ReplyFrames)
         \/ p = "writing" /\ Mine.writing \in ReplyFrames
         \/ p = "wire" /\ Has(Mine.wire, ReplyFrames)
         \/ p = "got" /\ client.got \in ReplyFrames

OneRequest ==
    /\ Single(jobs, JobsOf(client.conn))
    /\ Single(Mine.critical, ReplyFrames) /\ Single(Mine.wire, ReplyFrames)
    /\ \A p, r \in Places : At(p) /\ At(r) => p = r
    /\ client.phase = "idle" => \A p \in Places : ~At(p)
    /\ Registering(client.conn) => \A p \in Places : At(p) => p = "job"

Releasing == client.phase \in {"releasing", "cleanup", "closing"}

\* A request and a reply fit the phase the caller is in.
JobFits(j) ==
    /\ j.kind = "snapshot" => client.phase = "snapshot"
    /\ j.kind = "open" => client.phase = "replay" /\ client.sub = 0 /\ j.arg = client.building.last
    /\ j.kind = "continue" =>
          client.phase = "replay" /\ client.sub # 0 /\ j.sub = client.sub /\ j.arg = client.building.last
    /\ j.kind = "release" => Releasing /\ j.sub = client.sub /\ client.sub # 0

ReplyFits(f) ==
    /\ f.kind = "snapshot" => client.phase = "snapshot" /\ client.model.last <= f.hi /\ f.hi <= newest
    /\ f.kind = "page" => /\ client.phase = "replay" /\ f.lo = client.building.last
                          /\ f.lo <= f.hi /\ f.hi <= f.end /\ f.end <= newest
                          /\ client.sub \in {0, f.sub}
    /\ f.kind = "refused" => Releasing \/ (client.phase = "replay" /\ client.sub # 0)
    /\ f.kind = "released" => Releasing

\* The replies that still reach the client.
Arriving == {client.got, Mine.writing} \cup In(Mine.wire)
Waiting == {Mine.answer} \cup In(Mine.critical) \cup (IF exec.to = client.conn THEN {exec.reply} ELSE {})
UnderWay == Arriving \cup (IF Mine.shutdown THEN {} ELSE Waiting)

\* The caller has at most one request outstanding, and what comes back fits it.
RequestInv ==
    client.conn # 0 =>
      /\ OneRequest
      /\ \A j \in In(jobs) : j.conn = client.conn => JobFits(j)
      /\ \A f \in UnderWay : ReplyFits(f)
      /\ Registering(client.conn) =>
            client.sub = 0 /\ client.state # "Ready" /\ client.phase \in {"idle", "snapshot"}

\* A model without holes.
Known(m) == m.last <= newest /\ m.seqs = 1 .. m.last

\* The model, the one being built and the ids seen.
ViewInv ==
    /\ Known(client.model)
    /\ ~client.model.some => client.model = NoModel
    /\ client.phase = "replay" =>
          /\ Known(client.building) /\ client.model.last <= client.building.last
          /\ \A n \in client.seen : n <= client.building.last
    /\ client.phase = "snapshot" => client.seen = {} /\ client.sub = 0
    /\ client.state = "Ready" =>
          /\ client.model.some /\ client.conn # 0 /\ client.sub \in Subs
          /\ client.phase \in {"idle", "closing"}
          /\ \A n \in client.seen : n <= client.model.last

\* The order of the frames of one tail: events ascend and nothing follows a notice.
Precedes(f, g, s) ==
    /\ IsEvent(f, s) /\ IsEvent(g, s) => f.hi < g.hi
    /\ IsResync(f, s) => ~IsEvent(g, s)
InOrder(q, s) == \A i, j \in DOMAIN q : i < j => Precedes(q[i], q[j], s)
Across(S, T, s) == \A f \in S, g \in T : Precedes(f, g, s)

\* The events of a tail among some frames are exactly those after a up to b.
Covers(S, s, a, b) ==
    /\ \A f \in S : IsEvent(f, s) => a < f.hi /\ f.hi <= b
    /\ \A n \in a + 1 .. b : \E f \in S : IsEvent(f, s) /\ f.hi = n

\* The stream of a tail on the client's connection, with the event being written
\* counted in.
WrittenOf(s) == streams[<<s, client.conn>>].written
Current(s) == streams[<<s, client.conn>>].current
Taken(s) == IF IsEvent(Mine.writing, s) THEN WrittenOf(s) + 1 ELSE WrittenOf(s)

\* The flow of a tail the client has up to T: what is in the inbox and on the pipe
\* is exactly T+1..written, what is queued is exactly the rest up to admitted, and
\* a notice names what was written once it is sent.
Place(s, T) ==
    /\ s \in Subs /\ s < nextSub /\ s \notin client.retired
    /\ T <= WrittenOf(s) /\ Taken(s) <= newest
    /\ \A f \in In(client.retained) : f.kind \in Tails => f.sub # s

Order(s) ==
    /\ InOrder(client.inbox, s) /\ InOrder(Mine.wire, s)
    /\ Across(In(client.inbox), In(Mine.wire), s)
    /\ Across(In(client.inbox) \cup In(Mine.wire), {Mine.writing}, s)

Sent(s, T) ==
    /\ Covers(In(client.inbox) \cup In(Mine.wire), s, T, WrittenOf(s))
    /\ IsEvent(Mine.writing, s) => Mine.writing.hi = WrittenOf(s) + 1

Queued(s) ==
    Current(s) /\ ~Mine.shutdown =>
        /\ InOrder(Mine.durable, s)
        /\ Taken(s) <= registry[s].admitted
        /\ Covers(In(Mine.durable), s, Taken(s), registry[s].admitted)

Notices(s) ==
    /\ \A f \in In(client.inbox) \cup In(Mine.wire) \cup {Mine.writing} :
          IsResync(f, s) => ~Current(s) /\ f.lo = WrittenOf(s) /\ WrittenOf(s) <= f.hi
    /\ \A f \in In(Mine.critical) : IsResync(f, s) => ~Current(s) /\ Taken(s) <= f.hi

Flow(s, T) == Place(s, T) /\ Order(s) /\ Sent(s, T) /\ Queued(s) /\ Notices(s)

\* The client is between two pages of a frozen replay.
Resuming(s) == /\ client.phase = "replay" /\ client.sub = s /\ s # 0
               /\ registry[s].scope = client.conn /\ registry[s].frozen

\* Every tail the client depends on flows from where the client is, or will be.
FlowInv ==
    client.conn # 0 =>
      /\ client.state = "Ready" => Flow(client.sub, client.model.last)
      /\ \A f \in UnderWay : f.kind = "page" => Flow(f.sub, f.end)
      /\ \A s \in Subs : Resuming(s) /\ ~Mine.shutdown => Flow(s, registry[s].through)

\* A tail the client depends on is bound, or its end is announced or enforced.
Noticed(s) == \E f \in In(client.inbox) \cup In(Mine.wire) \cup {Mine.writing} \cup In(Mine.critical) :
                 IsResync(f, s)
Held(s) == Mine.shutdown \/ registry[s].live = client.conn \/ Noticed(s)

\* A tail the client depends on does not end silently.
CoverInv ==
    client.conn # 0 =>
      /\ client.state = "Ready" /\ client.phase = "idle" => Held(client.sub) /\ ~registry[client.sub].frozen
      /\ \A f \in UnderWay : f.kind = "page" =>
            /\ registry[f.sub].scope = client.conn /\ registry[f.sub].frozen =>
                   registry[f.sub].through = f.end /\ (Mine.shutdown \/ registry[f.sub].live = client.conn)
            /\ f.hi = f.end => Held(f.sub) /\ ~registry[f.sub].frozen
      /\ \A s \in Subs : Resuming(s) => /\ Mine.shutdown \/ registry[s].live = client.conn
                                        /\ ~Mine.shutdown => client.building.last <= registry[s].through

\* The subscription the client owns: the one it holds, or the one its open made.
Claimed(s) ==
    /\ client.phase = "replay" /\ client.sub = 0
    /\ \A f \in UnderWay : f.kind = "page" => f.sub = s
    /\ \A j \in In(jobs) : j.conn = client.conn => j.kind # "open"
Owned(s) == s = client.sub \/ Claimed(s)

\* The tails on their way to the client.
OnTheWay == In(client.inbox) \cup In(client.retained) \cup In(Mine.wire) \cup {Mine.writing}
              \cup In(Mine.durable) \cup In(Mine.critical)

\* On a connection that presented no grant the host's entries of the connection, and
\* the tails on their way, are the client's own or retired; its registration, if it
\* is still to come, moves nothing to it.
OwnInv ==
    client.conn # 0 /\ client.grant = 0 =>
         /\ \A i \in DOMAIN control : control[i].conn = client.conn => control[i].from = 0
         /\ \A s \in Subs : registry[s].scope = client.conn => Owned(s)
         /\ client.sub # 0 => registry[client.sub].scope \in {0, client.conn}
         /\ \A f \in UnderWay : /\ f.kind = "released" /\ client.sub # 0 => registry[client.sub].scope = 0
                                /\ f.kind = "refused" => client.phase = "replay"
                                /\ f.kind = "page" => registry[f.sub].scope \in {0, client.conn}
         /\ \A f \in OnTheWay : f.kind \in Tails => f.sub \in client.retired \/ Owned(f.sub)

\* Induction over the naturals, with the set of good numbers as a parameter.
LEMMA NatSetInduction ==
    ASSUME NEW S, 0 \in S, \A n \in Nat : n \in S => n + 1 \in S
    PROVE  Nat \subseteq S
<1> DEFINE T == Nat \ S
<1> SUFFICES ASSUME T # {} PROVE FALSE
  OBVIOUS
<1>1. \E x \in T : \A y \in T : ~(<<y, x>> \in OpToRel(<, Nat))
  BY NatLessThanWellFounded, WFMin
<1>2. PICK x \in T : \A y \in T : ~(<<y, x>> \in OpToRel(<, Nat))
  BY <1>1
<1>3. \A y \in T : ~(y < x)
  BY <1>2 DEF OpToRel
<1> QED BY <1>3

Grows(g, q, kept, n) ==
    /\ g[0] = <<>>
    /\ \A i \in 1 .. n : g[i] = IF i \in kept THEN Append(g[i - 1], q[i]) ELSE g[i - 1]

Comes(r, q, kept, n) ==
    /\ \A k \in DOMAIN r : \E i \in 1 .. n : i \in kept /\ r[k] = q[i]
    /\ \A k, l \in DOMAIN r : k < l =>
          \E i, j \in 1 .. n : i < j /\ i \in kept /\ j \in kept /\ r[k] = q[i] /\ r[l] = q[j]

\* The recursive function of Picked exists.
LEMMA GrowsExists ==
    ASSUME NEW S, NEW q \in Seq(S), NEW kept, NEW n \in Nat
    PROVE  \E g : g = [i \in 0 .. n |-> g[i]] /\ Grows(g, q, kept, n)
<1> DEFINE T == {k \in Nat : \E g : g = [i \in 0 .. k |-> g[i]] /\ Grows(g, q, kept, k)}
<1>1. 0 \in T
  <2> DEFINE g == [i \in 0 .. 0 |-> <<>>]
  <2>1. g = [i \in 0 .. 0 |-> g[i]] /\ Grows(g, q, kept, 0)
    BY DEF Grows
  <2> QED BY <2>1
<1>2. ASSUME NEW k \in Nat, k \in T PROVE k + 1 \in T
  <2>1. PICK g : g = [i \in 0 .. k |-> g[i]] /\ Grows(g, q, kept, k)
    BY <1>2
  <2> DEFINE last == IF k + 1 \in kept THEN Append(g[k], q[k + 1]) ELSE g[k]
             h == [i \in 0 .. k + 1 |-> IF i = k + 1 THEN last ELSE g[i]]
  <2>2. h = [i \in 0 .. k + 1 |-> h[i]]
    OBVIOUS
  <2>3. h[0] = <<>> /\ h[k + 1] = last /\ \A i \in 0 .. k : h[i] = g[i]
    BY <2>1 DEF Grows
  <2> HIDE DEF h
  <2>4. ASSUME NEW i \in 1 .. k + 1
        PROVE  h[i] = IF i \in kept THEN Append(h[i - 1], q[i]) ELSE h[i - 1]
    <3>1. CASE i = k + 1
      BY <2>3, <3>1
    <3>2. CASE i # k + 1
      <4>1. i \in 1 .. k /\ i \in 0 .. k /\ i - 1 \in 0 .. k
        BY <3>2
      <4> QED BY <2>1, <2>3, <4>1 DEF Grows
    <3> QED BY <3>1, <3>2
  <2>5. Grows(h, q, kept, k + 1)
    BY <2>3, <2>4 DEF Grows
  <2> QED BY <2>2, <2>5
<1>3. Nat \subseteq T
  BY <1>1, <1>2, NatSetInduction
<1> QED BY <1>3

\* What it has collected comes from the positions kept, in their order.
LEMMA GrowsComes ==
    ASSUME NEW S, NEW q \in Seq(S), NEW kept, NEW g, NEW m \in Nat, m <= Len(q), Grows(g, q, kept, m)
    PROVE  g[m] \in Seq(S) /\ Comes(g[m], q, kept, m)
<1> DEFINE T == {k \in Nat : k <= m => g[k] \in Seq(S) /\ Comes(g[k], q, kept, k)}
<1>1. 0 \in T
  <2>1. g[0] = <<>> /\ DOMAIN <<>> = {}
    BY DEF Grows
  <2>2. <<>> \in Seq(S) /\ Comes(<<>>, q, kept, 0)
    BY <2>1 DEF Comes
  <2> QED BY <2>1, <2>2
<1>2. ASSUME NEW k \in Nat, k \in T PROVE k + 1 \in T
  <2> SUFFICES ASSUME k + 1 <= m PROVE g[k + 1] \in Seq(S) /\ Comes(g[k + 1], q, kept, k + 1)
    OBVIOUS
  <2>1. g[k] \in Seq(S) /\ Comes(g[k], q, kept, k)
    BY <1>2
  <2>2. g[k + 1] = IF k + 1 \in kept THEN Append(g[k], q[k + 1]) ELSE g[k]
    BY DEF Grows
  <2>3. CASE k + 1 \notin kept
    <3>1. g[k + 1] = g[k] /\ 1 .. k \subseteq 1 .. k + 1
      BY <2>2, <2>3
    <3>2. Comes(g[k], q, kept, k + 1)
      <4>1. ASSUME NEW a \in DOMAIN g[k] PROVE \E i \in 1 .. k + 1 : i \in kept /\ g[k][a] = q[i]
        BY <2>1, <3>1 DEF Comes
      <4>2. ASSUME NEW a \in DOMAIN g[k], NEW b \in DOMAIN g[k], a < b
            PROVE  \E i, j \in 1 .. k + 1 : /\ i < j /\ i \in kept /\ j \in kept
                                             /\ g[k][a] = q[i] /\ g[k][b] = q[j]
        <5>1. PICK i, j \in 1 .. k : /\ i < j /\ i \in kept /\ j \in kept
                                     /\ g[k][a] = q[i] /\ g[k][b] = q[j]
          BY <2>1, <4>2 DEF Comes
        <5> QED BY <3>1, <5>1
      <4> QED BY <4>1, <4>2 DEF Comes
    <3> QED BY <2>1, <3>1, <3>2
  <2>4. CASE k + 1 \in kept
    <3> DEFINE r == g[k + 1]
    <3>1. r = Append(g[k], q[k + 1]) /\ k + 1 \in DOMAIN q /\ q[k + 1] \in S
      BY <2>2, <2>4
    <3>2. r \in Seq(S) /\ DOMAIN r = 1 .. Len(g[k]) + 1 /\ DOMAIN g[k] = 1 .. Len(g[k]) /\ Len(g[k]) \in Nat
      BY <2>1, <3>1
    <3>3. r[Len(g[k]) + 1] = q[k + 1] /\ \A i \in 1 .. Len(g[k]) : r[i] = g[k][i]
      BY <2>1, <3>1
    <3> HIDE DEF r
    <3>4. ASSUME NEW a \in DOMAIN r PROVE \E i \in 1 .. k + 1 : i \in kept /\ r[a] = q[i]
      BY <2>1, <2>4, <3>1, <3>2, <3>3 DEF Comes
    <3>5. ASSUME NEW a \in DOMAIN r, NEW b \in DOMAIN r, a < b
          PROVE  \E i, j \in 1 .. k + 1 : /\ i < j /\ i \in kept /\ j \in kept
                                           /\ r[a] = q[i] /\ r[b] = q[j]
      <4>1. CASE b = Len(g[k]) + 1
        <5>0. a \in DOMAIN g[k]
          BY <3>2, <3>5, <4>1
        <5>1. PICK i \in 1 .. k : i \in kept /\ g[k][a] = q[i]
          BY <2>1, <5>0 DEF Comes
        <5> QED BY <2>4, <3>1, <3>2, <3>3, <3>5, <4>1, <5>1
      <4>2. CASE b # Len(g[k]) + 1
        <5>0. a \in DOMAIN g[k] /\ b \in DOMAIN g[k]
          BY <3>2, <3>5, <4>2
        <5>1. PICK i, j \in 1 .. k : /\ i < j /\ i \in kept /\ j \in kept
                                     /\ g[k][a] = q[i] /\ g[k][b] = q[j]
          BY <2>1, <3>5, <5>0 DEF Comes
        <5> QED BY <3>2, <3>3, <5>0, <5>1
      <4> QED BY <4>1, <4>2
    <3> QED BY <3>2, <3>4, <3>5 DEF Comes, r
  <2> QED BY <2>3, <2>4
<1>3. Nat \subseteq T
  BY <1>1, <1>2, NatSetInduction
<1> QED BY <1>3

\* The elements Picked returns are elements of the queue, in their order.
LEMMA PickedFacts ==
    ASSUME NEW S, NEW q \in Seq(S), NEW kept
    PROVE  Picked(q, kept) \in Seq(S) /\ Comes(Picked(q, kept), q, kept, Len(q))
<1> DEFINE Def(g) == [n \in 0 .. Len(q) |-> IF n = 0 THEN <<>>
          ELSE IF n \in kept THEN Append(g[n - 1], q[n]) ELSE g[n - 1]]
           up == CHOOSE g : g = Def(g)
<1>0. Picked(q, kept) = up[Len(q)]
  BY DEF Picked
<1>a. Len(q) \in Nat
  OBVIOUS
<1>1. PICK g : g = [i \in 0 .. Len(q) |-> g[i]] /\ Grows(g, q, kept, Len(q))
  BY <1>a, GrowsExists
<1>2. g = Def(g)
  BY <1>1 DEF Grows
<1>3. up = Def(up)
  BY <1>2
<1> HIDE DEF up
<1>4. \A n \in 0 .. Len(q) : up[n] = IF n = 0 THEN <<>>
          ELSE IF n \in kept THEN Append(up[n - 1], q[n]) ELSE up[n - 1]
  BY <1>3
<1>5. Grows(up, q, kept, Len(q))
  <2>1. up[0] = <<>>
    BY <1>a, <1>4
  <2>2. ASSUME NEW i \in 1 .. Len(q)
        PROVE  up[i] = IF i \in kept THEN Append(up[i - 1], q[i]) ELSE up[i - 1]
    BY <1>a, <1>4
  <2> QED BY <2>1, <2>2 DEF Grows
<1> QED BY <1>a, <1>0, <1>5, GrowsComes

-----------------------------------------------------------------------------
(* Queues.                                                                   *)

\* The first element of a queue, and the rest.
LEMMA Queues ==
    ASSUME NEW S, NEW q \in Seq(S)
    PROVE  /\ DOMAIN q = 1 .. Len(q) /\ Len(q) \in Nat /\ In(q) \subseteq S
           /\ \A i \in DOMAIN q : q[i] \in S /\ q[i] \in In(q)
           /\ q # <<>> => /\ Head(q) = q[1] /\ 1 \in DOMAIN q /\ Tail(q) \in Seq(S)
                          /\ Head(q) \in S /\ Head(q) \in In(q)
                          /\ DOMAIN Tail(q) = 1 .. Len(q) - 1 /\ Len(Tail(q)) = Len(q) - 1
                          /\ \A i \in DOMAIN Tail(q) : Tail(q)[i] = q[i + 1] /\ i + 1 \in DOMAIN q
<1>1. DOMAIN q = 1 .. Len(q) /\ Len(q) \in Nat /\ \A i \in DOMAIN q : q[i] \in S
  OBVIOUS
<1>2. In(q) \subseteq S /\ \A i \in DOMAIN q : q[i] \in In(q)
  BY <1>1 DEF In
<1>3. ASSUME q # <<>> PROVE Len(q) > 0 /\ Head(q) = q[1] /\ Tail(q) \in Seq(S) /\ Len(Tail(q)) = Len(q) - 1
  BY <1>3
<1>4. ASSUME q # <<>>
      PROVE  /\ DOMAIN Tail(q) = 1 .. Len(q) - 1
             /\ \A i \in DOMAIN Tail(q) : Tail(q)[i] = q[i + 1] /\ i + 1 \in DOMAIN q
  BY <1>1, <1>3, <1>4
<1> QED BY <1>1, <1>2, <1>3, <1>4

\* An empty queue has no element.
LEMMA InEmpty == In(<<>>) = {}
BY DEF In

\* The elements of a queue are its head and those of its tail.
LEMMA InTail ==
    ASSUME NEW S, NEW q \in Seq(S), q # <<>>
    PROVE  In(q) = {Head(q)} \cup In(Tail(q)) /\ Tail(q) \in Seq(S) /\ Head(q) \in S
<1> USE Queues
<1>1. ASSUME NEW x \in In(q), x # Head(q) PROVE x \in In(Tail(q))
  <2>1. PICK i \in DOMAIN q : x = q[i]
    BY DEF In
  <2>2. i - 1 \in DOMAIN Tail(q) /\ Tail(q)[i - 1] = q[i]
    BY <1>1, <2>1
  <2> QED BY <2>1, <2>2 DEF In
<1>2. ASSUME NEW x \in In(Tail(q)) PROVE x \in In(q)
  <2>1. PICK i \in DOMAIN Tail(q) : x = Tail(q)[i]
    BY DEF In
  <2> QED BY <2>1 DEF In
<1> QED BY <1>1, <1>2

\* The positions of a queue after an append.
LEMMA Appended ==
    ASSUME NEW S, NEW q \in Seq(S), NEW f \in S
    PROVE  /\ Append(q, f) \in Seq(S) /\ DOMAIN Append(q, f) = 1 .. Len(q) + 1
           /\ Append(q, f)[Len(q) + 1] = f /\ \A i \in DOMAIN q : Append(q, f)[i] = q[i]
           /\ DOMAIN q = 1 .. Len(q) /\ Len(q) \in Nat
OBVIOUS

\* The elements of a queue after an append.
LEMMA InAppend ==
    ASSUME NEW S, NEW q \in Seq(S), NEW f \in S
    PROVE  In(Append(q, f)) = In(q) \cup {f} /\ Append(q, f) \in Seq(S)
<1> DEFINE a == Append(q, f)
<1>1. /\ a \in Seq(S) /\ DOMAIN a = 1 .. Len(q) + 1
      /\ a[Len(q) + 1] = f /\ \A i \in DOMAIN q : a[i] = q[i]
      /\ DOMAIN q = 1 .. Len(q) /\ Len(q) \in Nat
  BY Appended
<1> HIDE DEF a
<1>2. ASSUME NEW x \in In(a) PROVE x \in In(q) \cup {f}
  <2>1. PICK i \in DOMAIN a : x = a[i]
    BY DEF In
  <2> QED BY <1>1, <2>1 DEF In
<1>3. ASSUME NEW x \in In(q) PROVE x \in In(a)
  <2>1. PICK i \in DOMAIN q : x = q[i]
    BY DEF In
  <2>2. i \in DOMAIN a
    BY <1>1, <2>1
  <2> QED BY <1>1, <2>1, <2>2 DEF In
<1>4. f \in In(a)
  <2>1. Len(q) + 1 \in DOMAIN a
    BY <1>1
  <2> QED BY <1>1, <2>1 DEF In
<1>5. In(a) = In(q) \cup {f} /\ a \in Seq(S)
  BY <1>1, <1>2, <1>3, <1>4
<1> QED BY <1>5 DEF a

\* At most one element of a kind: kept by the rest, and by an element that is
\* not of the kind or is the first one.
LEMMA SingleTail ==
    ASSUME NEW S, NEW q \in Seq(S), NEW X, Single(q, X), q # <<>>
    PROVE  Single(Tail(q), X) /\ ~(Head(q) \in X /\ Has(Tail(q), X))
<1> USE Queues
<1>1. ASSUME NEW i \in DOMAIN Tail(q), NEW j \in DOMAIN Tail(q), Tail(q)[i] \in X, Tail(q)[j] \in X
      PROVE  i = j
  <2>1. i + 1 = j + 1
    BY <1>1 DEF Single
  <2> QED BY <2>1
<1>2. ASSUME Head(q) \in X, NEW f \in In(Tail(q)), f \in X PROVE FALSE
  <2>1. PICK i \in DOMAIN Tail(q) : f = Tail(q)[i]
    BY DEF In
  <2>2. i + 1 = 1
    BY <1>2, <2>1 DEF Single
  <2> QED BY <2>1, <2>2
<1> QED BY <1>1, <1>2 DEF Single, Has

\* A queue with at most one element of a set keeps that when another is appended.
LEMMA SingleAppend ==
    ASSUME NEW S, NEW q \in Seq(S), NEW f \in S, NEW X, Single(q, X), ~(f \in X /\ Has(q, X))
    PROVE  Single(Append(q, f), X)
<1> DEFINE a == Append(q, f)
<1>1. /\ DOMAIN a = 1 .. Len(q) + 1
      /\ a[Len(q) + 1] = f /\ \A i \in DOMAIN q : a[i] = q[i]
      /\ DOMAIN q = 1 .. Len(q) /\ Len(q) \in Nat
  BY Appended
<1>2. \A i \in DOMAIN q : q[i] \in In(q)
  BY Queues
<1> HIDE DEF a
<1>3. ASSUME NEW i \in DOMAIN a, NEW j \in DOMAIN a, a[i] \in X, a[j] \in X PROVE i = j
  <2>1. CASE i \in DOMAIN q /\ j \in DOMAIN q
    BY <1>1, <1>3, <2>1 DEF Single
  <2>2. CASE i \in DOMAIN q /\ j \notin DOMAIN q
    BY <1>1, <1>2, <1>3, <2>2 DEF Has
  <2>3. CASE i \notin DOMAIN q /\ j \in DOMAIN q
    BY <1>1, <1>2, <1>3, <2>3 DEF Has
  <2>4. CASE i \notin DOMAIN q /\ j \notin DOMAIN q
    BY <1>1, <2>4
  <2> QED BY <2>1, <2>2, <2>3, <2>4
<1>4. Single(a, X)
  BY <1>3 DEF Single
<1> QED BY <1>4 DEF a

\* The order of a queue.
LEMMA OrderTail ==
    ASSUME NEW S, NEW q \in Seq(S), NEW s, InOrder(q, s), q # <<>>
    PROVE  InOrder(Tail(q), s) /\ \A g \in In(Tail(q)) : Precedes(Head(q), g, s)
<1> USE Queues
<1>1. ASSUME NEW i \in DOMAIN Tail(q), NEW j \in DOMAIN Tail(q), i < j
      PROVE  Precedes(Tail(q)[i], Tail(q)[j], s)
  <2>1. i + 1 < j + 1
    BY <1>1
  <2> QED BY <2>1 DEF InOrder
<1>2. ASSUME NEW g \in In(Tail(q)) PROVE Precedes(Head(q), g, s)
  <2>1. PICK i \in DOMAIN Tail(q) : g = Tail(q)[i]
    BY DEF In
  <2>2. 1 < i + 1
    BY <2>1
  <2> QED BY <2>1, <2>2 DEF InOrder
<1> QED BY <1>1, <1>2 DEF InOrder

\* A queue in delivery order stays in order when a later frame is appended.
LEMMA OrderAppend ==
    ASSUME NEW S, NEW q \in Seq(S), NEW f \in S, NEW s, InOrder(q, s),
           \A g \in In(q) : Precedes(g, f, s)
    PROVE  InOrder(Append(q, f), s)
<1> DEFINE a == Append(q, f)
<1>1. /\ DOMAIN a = 1 .. Len(q) + 1
      /\ a[Len(q) + 1] = f /\ \A i \in DOMAIN q : a[i] = q[i]
      /\ DOMAIN q = 1 .. Len(q) /\ Len(q) \in Nat
  BY Appended
<1>2. \A i \in DOMAIN q : q[i] \in In(q)
  BY Queues
<1> HIDE DEF a
<1>3. ASSUME NEW i \in DOMAIN a, NEW j \in DOMAIN a, i < j PROVE Precedes(a[i], a[j], s)
  <2>1. CASE j \in DOMAIN q
    BY <1>1, <1>3, <2>1 DEF InOrder
  <2>2. CASE j \notin DOMAIN q
    <3>1. i \in DOMAIN q /\ j = Len(q) + 1
      BY <1>1, <1>3, <2>2
    <3> QED BY <1>1, <1>2, <3>1
  <2> QED BY <2>1, <2>2
<1>4. InOrder(a, s)
  BY <1>3 DEF InOrder
<1> QED BY <1>4 DEF a


\* Picking keeps what was rare rare, and drops what is not kept.
LEMMA PickedKeeps ==
    ASSUME NEW S, NEW q \in Seq(S), NEW kept
    PROVE  /\ Picked(q, kept) \in Seq(S) /\ In(Picked(q, kept)) \subseteq In(q)
           /\ \A f \in In(Picked(q, kept)) : \E i \in kept : i \in DOMAIN q /\ f = q[i]
           /\ \A X : Single(q, X) => Single(Picked(q, kept), X)
<1> DEFINE r == Picked(q, kept)
<1>1. r \in Seq(S) /\ Comes(r, q, kept, Len(q))
  BY PickedFacts
<1> HIDE DEF r
<1>0. DOMAIN q = 1 .. Len(q) /\ DOMAIN r = 1 .. Len(r) /\ Len(r) \in Nat
  BY <1>1
<1>2. ASSUME NEW f \in In(r) PROVE \E i \in kept : i \in DOMAIN q /\ f = q[i]
  <2>1. PICK k \in DOMAIN r : f = r[k]
    BY DEF In
  <2> QED BY <1>0, <1>1, <2>1 DEF Comes
<1>3. In(r) \subseteq In(q)
  BY <1>2 DEF In
<1>4. ASSUME NEW X, Single(q, X), NEW k \in DOMAIN r, NEW l \in DOMAIN r, r[k] \in X, r[l] \in X, k < l
      PROVE  FALSE
  <2>1. PICK i, j \in 1 .. Len(q) : i < j /\ r[k] = q[i] /\ r[l] = q[j]
    BY <1>1, <1>4 DEF Comes
  <2>2. i = j
    BY <1>0, <1>4, <2>1 DEF Single
  <2> QED BY <2>1, <2>2
<1>5. ASSUME NEW X, Single(q, X) PROVE Single(r, X)
  <2>1. ASSUME NEW k \in DOMAIN r, NEW l \in DOMAIN r, r[k] \in X, r[l] \in X PROVE k = l
    <3>1. ~(k < l)
      BY <1>4, <1>5, <2>1
    <3>2. ~(l < k)
      BY <1>4, <1>5, <2>1
    <3> QED BY <1>0, <3>1, <3>2
  <2> QED BY <2>1 DEF Single
<1> QED BY <1>1, <1>2, <1>3, <1>5 DEF r

\* The constants are natural numbers.
LEMMA Bounds ==
    /\ MaxEvents \in Nat /\ MaxSubs \in Nat /\ MaxConns \in Nat
    /\ Batch \in Nat \ {0} /\ PageItems \in Nat \ {0} /\ CriticalCap \in Nat \ {0}
    /\ DurableCap \in Nat \ {0} /\ ControlCap \in Nat \ {0} /\ InboxCap \in Nat \ {0}
BY SubscriptionAssumption

\* The frames the host and the client write.
LEMMA FrameShape ==
    ASSUME NEW kind \in Kinds, NEW s \in 0 .. MaxSubs, NEW lo \in Nat, NEW hi \in Nat, NEW end \in Nat,
           kind \in Tails \cup {"page"} => s \in Subs
    PROVE  /\ Frame(kind, s, lo, hi, end) \in FrameSet
           /\ Frame(kind, s, lo, hi, end).kind = kind /\ Frame(kind, s, lo, hi, end).sub = s
           /\ Frame(kind, s, lo, hi, end).lo = lo /\ Frame(kind, s, lo, hi, end).hi = hi
           /\ Frame(kind, s, lo, hi, end).end = end
BY DEF Frame, FrameSet

\* No frame is neither a reply nor a tail.
LEMMA NoneShape == None \in FrameSet /\ None.kind = "none" /\ None.kind \notin Replies /\ None.kind \notin Tails
<1>1. 0 \in 0 .. MaxSubs
  BY Bounds
<1> QED BY <1>1 DEF None, FrameSet, Kinds, Tails, Replies

\* A page of a replay that has not reached its end.
LEMMA PageShape ==
    ASSUME NEW s \in Subs, NEW after \in Nat, NEW through \in Nat
    PROVE  LET p == PageAfter(s, after, through) IN
           /\ p \in FrameSet /\ p.kind = "page" /\ p.sub = s /\ p.lo = after /\ p.end = through
           /\ p.hi <= through /\ (after <= through => after <= p.hi)
<1> DEFINE hi == Least(after + PageItems, through)
<1>1. hi \in Nat /\ hi <= through /\ (after <= through => after <= hi)
  BY Bounds DEF Least
<1>2. "page" \in Kinds /\ s \in 0 .. MaxSubs
  BY Bounds DEF Kinds, Subs
<1> HIDE DEF hi
<1>3. Frame("page", s, after, hi, through) \in FrameSet /\ PageAfter(s, after, through) = Frame("page", s, after, hi, through)
  BY <1>1, <1>2, FrameShape DEF PageAfter, hi
<1> QED BY <1>1, <1>2, <1>3, FrameShape

\* The initial state has the shape.
LEMMA InitShape == Init => ShapeInv
<1> SUFFICES ASSUME Init PROVE ShapeInv
  OBVIOUS
<1> USE Bounds
<1>1. NoModel \in ModelSet
  BY DEF NoModel, ModelSet
<1>2. FreshClient(0, 0) \in ClientSet
  BY <1>1, NoneShape DEF FreshClient, ClientSet
<1>3. IdleExec \in ExecSet
  BY NoneShape DEF IdleExec, ExecSet
<1>4. EmptyLane \in LaneSet
  BY NoneShape DEF EmptyLane, LaneSet
<1>5. NoEntry \in EntrySet
  BY DEF NoEntry, EntrySet
<1> QED BY <1>2, <1>3, <1>4, <1>5 DEF Init, ShapeInv
\* What admitting a critical frame does to a connection.
LEMMA AdmitShape ==
    ASSUME NEW l \in LaneSet, NEW f \in FrameSet
    PROVE  LET m == AdmitCritical(l, f) IN
           /\ m \in LaneSet
           /\ m.durable = l.durable /\ m.writing = l.writing /\ m.wire = l.wire
           /\ m.answer = l.answer /\ m.closed = l.closed
           /\ \/ ~l.shutdown /\ ~m.shutdown /\ m.critical = Append(l.critical, f)
              \/ m.shutdown /\ m.critical = l.critical
<1>1. CASE l.shutdown
  BY <1>1 DEF AdmitCritical, LaneSet
<1>2. CASE ~l.shutdown /\ CriticalPermits(l) > 0
  <2>1. Append(l.critical, f) \in Seq(FrameSet)
    BY DEF LaneSet
  <2>2. AdmitCritical(l, f) = [l EXCEPT !.critical = Append(l.critical, f)]
    BY <1>2 DEF AdmitCritical
  <2> QED BY <1>2, <2>1, <2>2 DEF LaneSet
<1>3. CASE ~l.shutdown /\ ~(CriticalPermits(l) > 0)
  BY <1>3 DEF AdmitCritical, LaneSet
<1> QED BY <1>1, <1>2, <1>3

Stream == [written : Nat, current : BOOLEAN]

\* A new tail starts at its baseline.
LEMMA AttachShape ==
    ASSUME NEW sts \in [Subs \X Conns -> Stream], NEW s \in Subs, NEW c \in Conns, NEW base \in Nat
    PROVE  /\ Attach(sts, s, c, base) \in [Subs \X Conns -> Stream]
           /\ Attach(sts, s, c, base)[<<s, c>>].written = base
           /\ Attach(sts, s, c, base)[<<s, c>>].current = TRUE
           /\ \A t \in Subs, d \in Conns :
                 ~(t = s /\ d = c) => Attach(sts, s, c, base)[<<t, d>>] = sts[<<t, d>>]
<1>1. <<s, c>> \in Subs \X Conns
  OBVIOUS
<1>2. Attach(sts, s, c, base) = [sts EXCEPT ![<<s, c>>] = [written |-> base, current |-> TRUE]]
  BY DEF Attach
<1>3. [written |-> base, current |-> TRUE] \in Stream
  BY DEF Stream
<1>4. ASSUME NEW t \in Subs, NEW d \in Conns, ~(t = s /\ d = c)
      PROVE  Attach(sts, s, c, base)[<<t, d>>] = sts[<<t, d>>]
  <2>1. <<t, d>> \in Subs \X Conns /\ <<t, d>> # <<s, c>>
    BY <1>4
  <2> QED BY <1>2, <2>1
<1> QED BY <1>1, <1>2, <1>3, <1>4

\* A cancelled stream keeps its position.
LEMMA CancelShape ==
    ASSUME NEW sts \in [Subs \X Conns -> Stream], NEW s \in Subs, NEW c \in 0 .. MaxConns
    PROVE  /\ Cancel(sts, s, c) \in [Subs \X Conns -> Stream]
           /\ \A t \in Subs, d \in Conns :
                 /\ Cancel(sts, s, c)[<<t, d>>].written = sts[<<t, d>>].written
                 /\ Cancel(sts, s, c)[<<t, d>>].current <=>
                       sts[<<t, d>>].current /\ ~(t = s /\ d = c)
<1>1. CASE c = 0
  <2>1. \A d \in Conns : d # c
    BY <1>1 DEF Conns
  <2> QED BY <1>1, <2>1 DEF Cancel
<1>2. CASE c # 0
  <2>1. <<s, c>> \in Subs \X Conns
    BY Bounds, <1>2 DEF Conns
  <2>2. Cancel(sts, s, c) = [sts EXCEPT ![<<s, c>>].current = FALSE]
    BY <1>2 DEF Cancel
  <2>3. Cancel(sts, s, c) \in [Subs \X Conns -> Stream]
    BY <2>1, <2>2 DEF Stream
  <2>4. ASSUME NEW t \in Subs, NEW d \in Conns
        PROVE  /\ Cancel(sts, s, c)[<<t, d>>].written = sts[<<t, d>>].written
               /\ Cancel(sts, s, c)[<<t, d>>].current <=> sts[<<t, d>>].current /\ ~(t = s /\ d = c)
    <3>1. CASE t = s /\ d = c
      BY <2>1, <2>2, <3>1 DEF Stream
    <3>2. CASE ~(t = s /\ d = c)
      <4>1. <<t, d>> \in Subs \X Conns /\ <<t, d>> # <<s, c>>
        BY <3>2
      <4> QED BY <2>2, <3>2, <4>1
    <3> QED BY <3>1, <3>2
  <2> QED BY <2>3, <2>4
<1> QED BY <1>1, <1>2

\* Dropping an entry clears it and cancels its stream.
LEMMA DropShape ==
    ASSUME ShapeInv, NEW s \in Subs, DropEntry(s)
    PROVE  /\ registry' \in [Subs -> EntrySet] /\ registry'[s] = NoEntry
           /\ \A t \in Subs \ {s} : registry'[t] = registry[t]
           /\ streams' \in [Subs \X Conns -> Stream]
           /\ \A t \in Subs, c \in Conns :
                 /\ streams'[<<t, c>>].written = streams[<<t, c>>].written
                 /\ streams'[<<t, c>>].current <=>
                       streams[<<t, c>>].current /\ ~(t = s /\ c = registry[s].live)
<1>1. NoEntry \in EntrySet
  BY Bounds DEF NoEntry, EntrySet
<1>2. /\ registry' \in [Subs -> EntrySet] /\ registry'[s] = NoEntry
      /\ \A t \in Subs \ {s} : registry'[t] = registry[t]
  BY <1>1 DEF ShapeInv, DropEntry
<1>3. registry[s].live \in 0 .. MaxConns /\ streams \in [Subs \X Conns -> Stream]
  BY DEF ShapeInv, EntrySet, Stream
<1>4. streams' = Cancel(streams, s, registry[s].live)
  BY DEF DropEntry
<1> DEFINE cut == Cancel(streams, s, registry[s].live)
<1>5. /\ cut \in [Subs \X Conns -> Stream]
      /\ \A t \in Subs, c \in Conns :
            /\ cut[<<t, c>>].written = streams[<<t, c>>].written
            /\ cut[<<t, c>>].current <=> streams[<<t, c>>].current /\ ~(t = s /\ c = registry[s].live)
  BY <1>3, CancelShape
<1> HIDE DEF cut
<1> QED BY <1>2, <1>4, <1>5 DEF cut

\* The entry s and its tail after they were bound to the connection c.
EntryBound(s, c, frozen) ==
    /\ \A t \in Subs \ {s} : registry'[t] = registry[t]
    /\ registry'[s].scope = registry[s].scope /\ registry'[s].through = registry[s].through
    /\ registry'[s].frozen = frozen /\ registry'[s].live = c
    /\ registry'[s].admitted = IF registry[s].live = c THEN registry[s].admitted ELSE registry[s].through

TailBound(s, c) ==
    /\ registry[s].live = c => streams' = streams
    /\ \A t \in Subs, d \in Conns : ~(t = s /\ d = c) => streams'[<<t, d>>] = streams[<<t, d>>]
    /\ registry[s].live # c => streams'[<<s, c>>] = [written |-> registry[s].through, current |-> TRUE]

\* Binding keeps the cursor of an existing tail; a new one starts at the baseline.
LEMMA BindShape ==
    ASSUME ShapeInv, NEW s \in Subs, NEW c \in Conns, NEW frozen \in BOOLEAN, BindLive(s, c, frozen),
           registry[s].live \in {0, c}
    PROVE  /\ registry' \in [Subs -> EntrySet] /\ streams' \in [Subs \X Conns -> Stream]
           /\ EntryBound(s, c, frozen) /\ TailBound(s, c)
<1>0. /\ registry[s] \in EntrySet /\ registry[s].live \in 0 .. MaxConns
      /\ registry[s].through \in Nat /\ streams \in [Subs \X Conns -> Stream] /\ c \in 0 .. MaxConns
  BY Bounds DEF ShapeInv, EntrySet, Stream, Conns
<1>1. CASE registry[s].live = c
  <2>1. registry' = [registry EXCEPT ![s].frozen = frozen] /\ streams' = streams
    BY <1>1 DEF BindLive
  <2>2. registry' \in [Subs -> EntrySet] /\ EntryBound(s, c, frozen)
    BY <1>0, <1>1, <2>1 DEF ShapeInv, EntrySet, EntryBound
  <2> QED BY <1>0, <1>1, <2>1, <2>2 DEF TailBound
<1>2. CASE registry[s].live # c
  <2>1. /\ registry' = [registry EXCEPT ![s].frozen = frozen, ![s].live = c,
                                        ![s].admitted = registry[s].through]
        /\ streams' = [streams EXCEPT ![<<s, c>>] = [written |-> registry[s].through, current |-> TRUE]]
    BY <1>2 DEF BindLive, Attach, Cancel
  <2>2. /\ registry' \in [Subs -> EntrySet]
        /\ \A t \in Subs \ {s} : registry'[t] = registry[t]
        /\ registry'[s].scope = registry[s].scope /\ registry'[s].through = registry[s].through
        /\ registry'[s].frozen = frozen /\ registry'[s].live = c
        /\ registry'[s].admitted = registry[s].through
    BY <1>0, <2>1 DEF ShapeInv, EntrySet
  <2>3. [written |-> registry[s].through, current |-> TRUE] \in Stream /\ <<s, c>> \in Subs \X Conns
    BY <1>0 DEF Stream
  <2>4. ASSUME NEW t \in Subs, NEW d \in Conns, ~(t = s /\ d = c)
        PROVE  streams'[<<t, d>>] = streams[<<t, d>>]
    <3>1. <<t, d>> \in Subs \X Conns /\ <<t, d>> # <<s, c>>
      BY <2>4
    <3> QED BY <1>0, <2>1, <3>1
  <2>5. streams' \in [Subs \X Conns -> Stream]
        /\ streams'[<<s, c>>] = [written |-> registry[s].through, current |-> TRUE]
    BY <1>0, <2>1, <2>3
  <2>6. EntryBound(s, c, frozen) /\ TailBound(s, c)
    BY <1>2, <2>2, <2>4, <2>5 DEF EntryBound, TailBound
  <2> QED BY <2>2, <2>5, <2>6
<1> QED BY <1>1, <1>2

\* The new entry s on the connection c, and the entry evicted for it, if any.
Opens(s, c, after, victim) ==
    /\ victim = 0 \/ (registry[victim].frozen /\ registry[victim].live = 0)
    /\ registry' \in [Subs -> EntrySet]
    /\ registry'[s] = [scope |-> c, frozen |-> PageAfter(s, after, newest).hi < newest,
                       through |-> newest, live |-> c, admitted |-> newest]
    /\ \A t \in Subs \ {s} : registry'[t] = IF t = victim THEN NoEntry ELSE registry[t]
    /\ streams' \in [Subs \X Conns -> Stream]
    /\ streams'[<<s, c>>] = [written |-> newest, current |-> TRUE]
    /\ \A t \in Subs, d \in Conns : ~(t = s /\ d = c) => streams'[<<t, d>>] = streams[<<t, d>>]
    /\ nextSub' = s + 1 /\ lane' = lane
    /\ exec' = Answer(c, PageAfter(s, after, newest), {s})

\* A new entry takes the next id and a fresh tail on its connection.
LEMMA OpenShape ==
    ASSUME ShapeInv, NEW c \in Conns, NEW after \in Nat, ServeOpen(c, after)
    PROVE  /\ nextSub \in Subs
           /\ \/ /\ lane' = [lane EXCEPT ![c].shutdown = TRUE]
                 /\ UNCHANGED <<nextSub, registry, streams, exec>>
              \/ \E victim \in Subs \cup {0} : Opens(nextSub, c, after, victim)
<1>0. nextSub \in Subs /\ newest \in Nat /\ c \in 0 .. MaxConns /\ streams \in [Subs \X Conns -> Stream]
  BY Bounds DEF ShapeInv, ServeOpen, Subs, Conns, Stream
<1> DEFINE page == PageAfter(nextSub, after, newest)
<1>1. CASE /\ lane' = [lane EXCEPT ![c].shutdown = TRUE]
           /\ UNCHANGED <<nextSub, registry, streams, exec>>
  BY <1>0, <1>1
<1>2. ASSUME NEW victim \in Subs \cup {0},
             victim = 0 \/ (registry[victim].frozen /\ registry[victim].live = 0),
             registry' = [t \in Subs |->
                IF t = nextSub
                THEN [scope |-> c, frozen |-> page.hi < newest, through |-> newest,
                      live |-> c, admitted |-> newest]
                ELSE IF t = victim THEN NoEntry ELSE registry[t]],
             streams' = Attach(streams, nextSub, c, newest),
             nextSub' = nextSub + 1, exec' = Answer(c, page, {nextSub}), lane' = lane
      PROVE  Opens(nextSub, c, after, victim)
  <2>1. NoEntry \in EntrySet
    BY Bounds DEF NoEntry, EntrySet
  <2>2. [scope |-> c, frozen |-> page.hi < newest, through |-> newest, live |-> c, admitted |-> newest]
           \in EntrySet
    BY <1>0 DEF EntrySet
  <2> HIDE DEF page
  <2>3. /\ registry' \in [Subs -> EntrySet]
        /\ registry'[nextSub] = [scope |-> c, frozen |-> page.hi < newest, through |-> newest,
                                 live |-> c, admitted |-> newest]
        /\ \A t \in Subs \ {nextSub} : registry'[t] = IF t = victim THEN NoEntry ELSE registry[t]
    BY <1>0, <1>2, <2>1, <2>2 DEF ShapeInv
  <2>4. [written |-> newest, current |-> TRUE] \in Stream /\ <<nextSub, c>> \in Subs \X Conns
    BY <1>0 DEF Stream
  <2>5. streams' = [streams EXCEPT ![<<nextSub, c>>] = [written |-> newest, current |-> TRUE]]
    BY <1>2 DEF Attach
  <2>6. ASSUME NEW t \in Subs, NEW d \in Conns, ~(t = nextSub /\ d = c)
        PROVE  streams'[<<t, d>>] = streams[<<t, d>>]
    <3>1. <<t, d>> \in Subs \X Conns /\ <<t, d>> # <<nextSub, c>>
      BY <2>6
    <3> QED BY <1>0, <2>5, <3>1
  <2>7. /\ streams' \in [Subs \X Conns -> Stream]
        /\ streams'[<<nextSub, c>>] = [written |-> newest, current |-> TRUE]
    BY <1>0, <2>4, <2>5
  <2>8. exec' = Answer(c, PageAfter(nextSub, after, newest), {nextSub})
    BY <1>2 DEF page
  <2> QED BY <1>2, <2>3, <2>6, <2>7, <2>8 DEF page, Opens
<1> QED
  <2>1. CASE ~(/\ lane' = [lane EXCEPT ![c].shutdown = TRUE]
               /\ UNCHANGED <<nextSub, registry, streams, exec>>)
    <3>1. \E victim \in Subs \cup {0} :
             /\ victim = 0 \/ (registry[victim].frozen /\ registry[victim].live = 0)
             /\ registry' = [t \in Subs |->
                  IF t = nextSub
                  THEN [scope |-> c, frozen |-> page.hi < newest, through |-> newest,
                        live |-> c, admitted |-> newest]
                  ELSE IF t = victim THEN NoEntry ELSE registry[t]]
             /\ streams' = Attach(streams, nextSub, c, newest)
             /\ nextSub' = nextSub + 1 /\ exec' = Answer(c, page, {nextSub}) /\ lane' = lane
      <4> HIDE DEF page
      <4> QED BY <2>1 DEF ServeOpen, page, Entries
    <3> QED BY <1>0, <1>2, <3>1
  <2> QED BY <1>1, <2>1

\* A lane that is shut down keeps what is in it.
Shut(l, m) ==
    /\ m.critical = l.critical /\ m.durable = l.durable /\ m.writing = l.writing
    /\ m.wire = l.wire /\ m.answer = l.answer /\ m.closed = l.closed /\ m.shutdown = TRUE

\* What happens to an entry when the output c is detached.
EntryDetached(s, c) ==
    /\ registry[s].live # c => registry'[s] = registry[s]
    /\ registry[s].live = c =>
          \/ registry'[s] = NoEntry /\ ~registry[s].frozen
          \/ /\ registry[s].frozen /\ registry'[s].frozen = TRUE /\ registry'[s].live = 0
             /\ registry'[s].scope = registry[s].scope
             /\ registry'[s].through = registry[s].through
             /\ registry'[s].admitted = registry[s].admitted

\* What happens to an entry of a connection when the connection c takes its place.
EntryMoved(s, c) ==
    \/ registry'[s] = NoEntry /\ lane[c].closed /\ registry[s].live # 0
    \/ /\ registry'[s].scope = c /\ registry'[s].through = registry[s].through
       /\ registry'[s].live = IF registry[s].live = 0 \/ lane[c].closed THEN 0 ELSE c
       /\ registry'[s].frozen = registry[s].frozen
       /\ registry'[s].admitted = registry[s].admitted

TailMoved(s, c) ==
    /\ \A d \in Conns \ {c} : /\ streams'[<<s, d>>].written = streams[<<s, d>>].written
                              /\ streams'[<<s, d>>].current <=>
                                    (streams[<<s, d>>].current /\ d # registry[s].live)
    /\ registry[s].live # 0 =>
          streams'[<<s, c>>] = [written |-> registry[s].admitted, current |-> ~lane[c].closed]
    /\ registry[s].live = 0 => streams'[<<s, c>>] = streams[<<s, c>>]

TailKept(s) == \A d \in Conns : streams'[<<s, d>>] = streams[<<s, d>>]

\* What a detached output does to the entries bound to it.
LEMMA DetachShape ==
    ASSUME ShapeInv, NEW c \in Conns, Detach(c)
    PROVE  /\ registry' \in [Subs -> EntrySet]
           /\ \A s \in Subs : EntryDetached(s, c)
           /\ streams' \in [Subs \X Conns -> Stream]
           /\ \A t \in Subs, d \in Conns :
                 /\ streams'[<<t, d>>].written = streams[<<t, d>>].written
                 /\ streams'[<<t, d>>].current <=>
                       streams[<<t, d>>].current /\ ~(d = c /\ registry[t].live = c)
           /\ lane' \in [Conns -> LaneSet] /\ Shut(lane[c], lane'[c])
           /\ \A d \in Conns \ {c} : lane'[d] = lane[d]
           /\ outputs' = outputs \ {c}
<1>0. NoEntry \in EntrySet /\ 0 \in 0 .. MaxConns
  BY Bounds DEF NoEntry, EntrySet
<1>1. ASSUME NEW s \in Subs
      PROVE  /\ registry'[s] \in EntrySet
             /\ EntryDetached(s, c)
  <2>1. registry[s] \in EntrySet /\ registry'[s] = Detached(registry[s], c)
    BY DEF ShapeInv, Detach
  <2>2. CASE registry[s].live = c /\ registry[s].frozen
    <3>1. registry'[s] = [registry[s] EXCEPT !.live = 0]
      BY <2>1, <2>2 DEF Detached
    <3> QED BY <1>0, <2>1, <2>2, <3>1 DEF EntrySet, EntryDetached
  <2>3. CASE registry[s].live # c \/ ~registry[s].frozen
    BY <1>0, <2>1, <2>3 DEF Detached, EntryDetached
  <2> QED BY <2>2, <2>3
<1>2. registry' \in [Subs -> EntrySet]
  BY <1>1 DEF Detach
<1>3. ASSUME NEW b \in Subs \X Conns
      PROVE  /\ streams'[b] \in Stream
             /\ streams'[b].written = streams[b].written
             /\ streams'[b].current <=> streams[b].current /\ ~(b[2] = c /\ registry[b[1]].live = c)
  <2>1. streams[b] \in Stream
    BY DEF ShapeInv, Stream
  <2>2. CASE b[2] = c /\ registry[b[1]].live = c
    <3>1. streams'[b] = [streams[b] EXCEPT !.current = FALSE]
      BY <2>2 DEF Detach
    <3> QED BY <2>1, <2>2, <3>1 DEF Stream
  <2>3. CASE ~(b[2] = c /\ registry[b[1]].live = c)
    <3>1. streams'[b] = streams[b]
      BY <2>3 DEF Detach
    <3> QED BY <2>1, <2>3, <3>1
  <2> QED BY <2>2, <2>3
<1>4. streams' \in [Subs \X Conns -> Stream]
  BY <1>3 DEF Detach
<1>5. ASSUME NEW t \in Subs, NEW d \in Conns
      PROVE  /\ streams'[<<t, d>>].written = streams[<<t, d>>].written
             /\ streams'[<<t, d>>].current <=>
                       streams[<<t, d>>].current /\ ~(d = c /\ registry[t].live = c)
  <2>1. <<t, d>> \in Subs \X Conns /\ <<t, d>>[1] = t /\ <<t, d>>[2] = d
    OBVIOUS
  <2> QED BY <1>3, <2>1
<1>6. /\ lane' \in [Conns -> LaneSet] /\ Shut(lane[c], lane'[c])
      /\ \A d \in Conns \ {c} : lane'[d] = lane[d]
  BY DEF ShapeInv, Detach, LaneSet, Shut
<1>7. outputs' = outputs \ {c}
  BY DEF Detach
<1> QED BY <1>1, <1>2, <1>4, <1>5, <1>6, <1>7

\* What the registration of a connection does to the entries of the one it replaces.
LEMMA RegisterShape ==
    ASSUME ShapeInv, NEW c \in Conns, NEW old \in 0 .. MaxConns, old # c, Register(c, old),
           \A s \in Subs : /\ registry[s].scope # c /\ registry[s].live \in {0, registry[s].scope}
                           /\ registry[s].scope = 0 => registry[s] = NoEntry
    PROVE  /\ registry' \in [Subs -> EntrySet]
           /\ streams' \in [Subs \X Conns -> Stream]
           /\ \A s \in Subs : old = 0 \/ registry[s].scope # old => registry'[s] = registry[s] /\ TailKept(s)
           /\ \A s \in Subs : old # 0 /\ registry[s].scope = old => EntryMoved(s, c) /\ TailMoved(s, c)
           /\ lane' \in [Conns -> LaneSet]
           /\ \A d \in Conns : \/ lane'[d] = lane[d]
                               \/ d = old /\ Shut(lane[d], lane'[d])
           /\ outputs' \subseteq Conns /\ outputs \ {old} \subseteq outputs'
           /\ ~lane[c].closed => c \in outputs'
<1>0. NoEntry \in EntrySet /\ 0 \in 0 .. MaxConns /\ c \in 0 .. MaxConns /\ c # 0
  BY Bounds DEF NoEntry, EntrySet, Conns
<1> DEFINE Kept(e) == IF lane[c].closed THEN Detached(e, c) ELSE e
           Moved == {s \in Entries : registry[s].scope = old /\ registry[s].live # 0}
<1>1. \A s \in Subs : registry'[s] = Kept(Rebound(registry[s], old, c))
  BY DEF Register
<1>2. \A b \in Subs \X Conns : streams'[b] =
                     IF b[1] \in Moved /\ b[2] = c
                     THEN [written |-> registry[b[1]].admitted, current |-> ~lane[c].closed]
                     ELSE IF b[1] \in Moved /\ b[2] = registry[b[1]].live
                     THEN [streams[b] EXCEPT !.current = FALSE] ELSE streams[b]
  BY DEF Register
<1>3. ASSUME NEW s \in Subs PROVE s \in Moved <=> old # 0 /\ registry[s].scope = old /\ registry[s].live # 0
  BY DEF Entries, NoEntry
<1> HIDE DEF Moved
<1>4. ASSUME NEW s \in Subs, old = 0 \/ registry[s].scope # old PROVE registry'[s] = registry[s]
  BY <1>0, <1>1, <1>4 DEF Rebound, Detached
<1>5. ASSUME NEW s \in Subs, old # 0, registry[s].scope = old
      PROVE  /\ registry'[s] \in EntrySet
             /\ EntryMoved(s, c)
  <2>0. registry[s] \in EntrySet
    BY DEF ShapeInv
  <2> DEFINE e == Rebound(registry[s], old, c)
  <2>1. /\ e \in EntrySet /\ e.scope = c /\ e.through = registry[s].through
        /\ e.live = (IF registry[s].live = 0 THEN 0 ELSE c)
        /\ e.frozen = registry[s].frozen /\ e.admitted = registry[s].admitted
    BY <1>0, <1>5, <2>0 DEF Rebound, EntrySet
  <2> HIDE DEF e
  <2>2. registry'[s] = Kept(e)
    BY <1>1 DEF e
  <2>3. CASE ~lane[c].closed \/ e.live # c
    <3>1. registry'[s] = e
      BY <2>2, <2>3 DEF Detached
    <3> QED BY <1>0, <2>1, <2>3, <3>1 DEF EntryMoved
  <2>4. CASE lane[c].closed /\ e.live = c /\ ~e.frozen
    <3>1. registry'[s] = NoEntry
      BY <2>2, <2>4 DEF Detached
    <3> QED BY <1>0, <2>1, <2>4, <3>1 DEF EntryMoved
  <2>5. CASE lane[c].closed /\ e.live = c /\ e.frozen
    <3>1. registry'[s] = [e EXCEPT !.live = 0]
      BY <2>2, <2>5 DEF Detached
    <3>2. /\ registry'[s] \in EntrySet /\ registry'[s].scope = c /\ registry'[s].live = 0
          /\ registry'[s].through = e.through /\ registry'[s].frozen = e.frozen
          /\ registry'[s].admitted = e.admitted
      BY <1>0, <2>1, <3>1 DEF EntrySet
    <3> QED BY <1>0, <2>1, <2>5, <3>2 DEF EntryMoved
  <2> QED BY <2>3, <2>4, <2>5
<1>6. registry' \in [Subs -> EntrySet]
  <2>1. \A s \in Subs : registry'[s] \in EntrySet
    BY <1>4, <1>5 DEF ShapeInv
  <2> QED BY <2>1 DEF Register
<1>7. ASSUME NEW s \in Subs, NEW d \in Conns
      PROVE  /\ streams'[<<s, d>>] \in Stream
             /\ s \notin Moved => streams'[<<s, d>>] = streams[<<s, d>>]
             /\ s \in Moved /\ d = c =>
                   streams'[<<s, d>>] = [written |-> registry[s].admitted, current |-> ~lane[c].closed]
             /\ s \in Moved /\ d # c => streams'[<<s, d>>].written = streams[<<s, d>>].written
             /\ s \in Moved /\ d # c => (streams'[<<s, d>>].current <=>
                       (streams[<<s, d>>].current /\ d # registry[s].live))
  <2>1. <<s, d>> \in Subs \X Conns /\ <<s, d>>[1] = s /\ <<s, d>>[2] = d
    OBVIOUS
  <2>2. streams[<<s, d>>] \in Stream /\ registry[s].admitted \in Nat /\ lane[c].closed \in BOOLEAN
    BY <2>1 DEF ShapeInv, Stream, EntrySet, LaneSet
  <2>3. streams'[<<s, d>>] =
          IF s \in Moved /\ d = c
          THEN [written |-> registry[s].admitted, current |-> ~lane[c].closed]
          ELSE IF s \in Moved /\ d = registry[s].live
          THEN [streams[<<s, d>>] EXCEPT !.current = FALSE] ELSE streams[<<s, d>>]
    BY <1>2, <2>1
  <2>4. CASE s \in Moved /\ d # c /\ d = registry[s].live
    <3>1. streams'[<<s, d>>] = [streams[<<s, d>>] EXCEPT !.current = FALSE]
      BY <2>3, <2>4
    <3> QED BY <2>2, <2>4, <3>1 DEF Stream
  <2>5. CASE ~(s \in Moved /\ d # c /\ d = registry[s].live)
    BY <2>2, <2>3, <2>5 DEF Stream
  <2> QED BY <2>4, <2>5
<1>7a. ASSUME NEW s \in Subs, s \notin Moved, NEW d \in Conns PROVE streams'[<<s, d>>] = streams[<<s, d>>]
  <2>1. <<s, d>> \in Subs \X Conns /\ <<s, d>>[1] = s /\ <<s, d>>[2] = d
    OBVIOUS
  <2> QED BY <1>2, <1>7a, <2>1
<1>7b. ASSUME NEW s \in Subs, s \in Moved, NEW d \in Conns, d # c
       PROVE  /\ streams'[<<s, d>>].written = streams[<<s, d>>].written
              /\ streams'[<<s, d>>].current <=> (streams[<<s, d>>].current /\ d # registry[s].live)
  <2>1. <<s, d>> \in Subs \X Conns /\ <<s, d>>[1] = s /\ <<s, d>>[2] = d
    OBVIOUS
  <2>2. streams[<<s, d>>] \in Stream
    BY <2>1 DEF ShapeInv, Stream
  <2>3. CASE d = registry[s].live
    <3>1. streams'[<<s, d>>] = [streams[<<s, d>>] EXCEPT !.current = FALSE]
      BY <1>2, <1>7b, <2>1, <2>3
    <3> QED BY <2>2, <2>3, <3>1 DEF Stream
  <2>4. CASE d # registry[s].live
    BY <1>2, <1>7b, <2>1, <2>4
  <2> QED BY <2>3, <2>4
<1>8. streams' \in [Subs \X Conns -> Stream]
  <2>1. ASSUME NEW b \in Subs \X Conns PROVE streams'[b] \in Stream
    <3>1. PICK t \in Subs, d \in Conns : b = <<t, d>>
      OBVIOUS
    <3> QED BY <1>7, <3>1
  <2> QED BY <2>1 DEF Register
<1>9. ASSUME NEW d \in Conns PROVE /\ lane'[d] \in LaneSet
                                  /\ \/ lane'[d] = lane[d]
                                     \/ d = old /\ Shut(lane[d], lane'[d])
  <2>1. lane[d] \in LaneSet
    BY DEF ShapeInv
  <2>2. CASE d = old /\ old \in outputs
    <3>1. lane'[d] = [lane[d] EXCEPT !.shutdown = TRUE]
      BY <2>2 DEF Register
    <3> QED BY <2>1, <2>2, <3>1 DEF LaneSet, Shut
  <2>3. CASE ~(d = old /\ old \in outputs)
    BY <2>1, <2>3 DEF Register
  <2> QED BY <2>2, <2>3
<1>10. lane' \in [Conns -> LaneSet]
  BY <1>9 DEF Register
<1>11. /\ outputs' \subseteq Conns /\ outputs \ {old} \subseteq outputs'
       /\ ~lane[c].closed => c \in outputs'
  BY DEF ShapeInv, Register
<1>12. ASSUME NEW s \in Subs, old # 0, registry[s].scope = old PROVE TailMoved(s, c)
  <2>1. CASE registry[s].live = 0
    <3>1. \A d \in Conns : d # 0
      BY DEF Conns
    <3>2. s \notin Moved
      BY <1>3, <2>1
    <3>3. ASSUME NEW d \in Conns PROVE streams'[<<s, d>>] = streams[<<s, d>>]
      BY <1>7a, <3>2
    <3> QED BY <2>1, <3>1, <3>3 DEF TailMoved
  <2>2. CASE registry[s].live # 0
    <3>2. s \in Moved
      BY <1>3, <1>12, <2>2
    <3>3. ASSUME NEW d \in Conns \ {c} PROVE streams'[<<s, d>>].written = streams[<<s, d>>].written
      BY <1>7b, <3>2
    <3>4. \A d \in Conns \ {c} : streams'[<<s, d>>].current <=>
                                    (streams[<<s, d>>].current /\ d # registry[s].live)
      BY <1>7, <3>2
    <3>5. streams'[<<s, c>>] = [written |-> registry[s].admitted, current |-> ~lane[c].closed]
      BY <1>7, <3>2
    <3> QED BY <2>2, <3>3, <3>4, <3>5 DEF TailMoved
  <2> QED BY <2>1, <2>2
<1>13. ASSUME NEW t \in Subs, old = 0 \/ registry[t].scope # old
       PROVE  TailKept(t)
  <2>1. t \notin Moved
    BY <1>3, <1>13
  <2>2. ASSUME NEW d \in Conns PROVE streams'[<<t, d>>] = streams[<<t, d>>]
    <3>1. <<t, d>> \in Subs \X Conns /\ <<t, d>>[1] = t
      OBVIOUS
    <3> QED BY <1>2, <2>1, <3>1
  <2> QED BY <2>2 DEF TailKept
<1> QED BY <1>4, <1>5, <1>6, <1>8, <1>9, <1>10, <1>11, <1>12, <1>13

\* The columns of a connection and of the client, one by one.
LEMMA LaneShape ==
    ASSUME ShapeInv, NEW c \in Conns
    PROVE  /\ lane[c] \in LaneSet /\ lane[c].critical \in Seq(FrameSet) /\ lane[c].durable \in Seq(FrameSet)
           /\ lane[c].writing \in FrameSet /\ lane[c].wire \in Seq(FrameSet) /\ lane[c].answer \in FrameSet
           /\ lane[c].shutdown \in BOOLEAN /\ lane[c].closed \in BOOLEAN
BY DEF ShapeInv, LaneSet

\* The fields of the client, and the counters.
LEMMA ClientShape ==
    ASSUME ShapeInv
    PROVE  /\ client \in ClientSet /\ client.conn \in 0 .. MaxConns /\ client.opened \in 0 .. MaxConns
           /\ client.got \in FrameSet /\ client.sub \in 0 .. MaxSubs
           /\ client.inbox \in Seq(FrameSet) /\ client.retained \in Seq(FrameSet)
           /\ client.model \in ModelSet /\ client.building \in ModelSet
           /\ client.conn # 0 => client.conn \in Conns
           /\ client.sub # 0 => client.sub \in Subs
           /\ newest \in Nat /\ nextSub \in Nat \ {0}
<1>1. client \in ClientSet /\ newest \in Nat /\ nextSub \in Nat \ {0}
  BY DEF ShapeInv
<1>2. /\ client.conn \in 0 .. MaxConns /\ client.opened \in 0 .. MaxConns
      /\ client.got \in FrameSet /\ client.sub \in 0 .. MaxSubs
      /\ client.inbox \in Seq(FrameSet) /\ client.retained \in Seq(FrameSet)
      /\ client.model \in ModelSet /\ client.building \in ModelSet
  BY <1>1 DEF ClientSet
<1>3. /\ client.conn # 0 => client.conn \in Conns
      /\ client.sub # 0 => client.sub \in Subs
  BY <1>2, Bounds DEF Conns, Subs
<1> QED BY <1>1, <1>2, <1>3

\* A frame has natural numbers, and a tail frame names a subscription.
LEMMA FrameFields ==
    ASSUME NEW f \in FrameSet
    PROVE  /\ f.kind \in Kinds /\ f.sub \in 0 .. MaxSubs /\ f.lo \in Nat /\ f.hi \in Nat /\ f.end \in Nat
           /\ f.kind \in Tails \cup {"page"} => f.sub \in Subs
BY DEF FrameSet

\* Leaving a connection keeps the model and the id, and drops the wire.
LEMMA LeaveShape ==
    ASSUME ShapeInv, client.conn # 0, LeaveConnection
    PROVE  /\ client' \in ClientSet /\ lane' \in [Conns -> LaneSet]
           /\ client'.conn = 0 /\ client'.opened = client.opened /\ client'.phase = "idle"
           /\ client'.got = None /\ client'.state = "NeedsResync" /\ client'.sub = client.sub
           /\ client'.model = client.model /\ client'.verdict = "ok" /\ client'.grant = 0
           /\ client'.inbox = <<>> /\ client'.retained = <<>> /\ client'.retired = {} /\ client'.seen = {}
           /\ \A d \in Conns : /\ lane'[d].shutdown = lane[d].shutdown
                               /\ lane'[d].closed = lane[d].closed
                               /\ d # client.conn => lane'[d] = lane[d]
<1>0. client \in ClientSet /\ client.conn \in Conns /\ <<>> \in Seq(FrameSet) /\ 0 \in 0 .. MaxConns /\ 0 \in 0 .. MaxSubs
  BY ClientShape, Bounds
<1>1. NoModel \in ModelSet
  BY DEF NoModel, ModelSet
<1>2. lane' = [lane EXCEPT ![client.conn].wire = <<>>]
  BY DEF LeaveConnection
<1>3. /\ lane' \in [Conns -> LaneSet]
      /\ \A d \in Conns : /\ lane'[d].shutdown = lane[d].shutdown
                          /\ lane'[d].closed = lane[d].closed
                          /\ d # client.conn => lane'[d] = lane[d]
  BY <1>0, <1>2 DEF ShapeInv, LaneSet
<1>4. client' = [conn |-> 0, opened |-> client.opened, grant |-> 0, phase |-> "idle", got |-> None,
                 state |-> "NeedsResync", sub |-> client.sub, model |-> client.model, building |-> NoModel,
                 seen |-> {}, inbox |-> <<>>, retained |-> <<>>, retired |-> {},
                 verdict |-> "ok"]
  BY DEF LeaveConnection, FreshClient
<1>5. client' \in ClientSet
  BY <1>0, <1>1, <1>4, NoneShape DEF ClientSet
<1> QED BY <1>3, <1>4, <1>5

\* A request of the client.
LEMMA SendShape ==
    ASSUME ShapeInv, client.conn # 0, NEW kind \in {"snapshot", "open", "continue", "release"},
           NEW s \in 0 .. MaxSubs, NEW arg \in Nat, kind \in {"continue", "release"} => s \in Subs,
           Send(kind, s, arg)
    PROVE  LET j == [conn |-> client.conn, kind |-> kind, sub |-> s, arg |-> arg] IN
           j \in JobSet /\ jobs' = Append(jobs, j) /\ jobs' \in Seq(JobSet) /\ In(jobs') = In(jobs) \cup {j}
<1> DEFINE j == [conn |-> client.conn, kind |-> kind, sub |-> s, arg |-> arg]
<1>1. client.conn \in Conns
  BY ClientShape
<1>2. j \in JobSet
  BY <1>1 DEF JobSet
<1>3. jobs' = Append(jobs, j) /\ jobs \in Seq(JobSet)
  BY DEF Send, ShapeInv
<1> HIDE DEF j
<1>4. jobs' \in Seq(JobSet) /\ In(jobs') = In(jobs) \cup {j}
  BY <1>2, <1>3, InAppend
<1> QED BY <1>2, <1>3, <1>4 DEF j

\* The elements of a concatenation.
LEMMA InConcat ==
    ASSUME NEW S, NEW p \in Seq(S), NEW q \in Seq(S)
    PROVE  p \o q \in Seq(S) /\ In(p \o q) \subseteq In(p) \cup In(q)
<1>1. /\ DOMAIN p = 1 .. Len(p) /\ DOMAIN q = 1 .. Len(q) /\ Len(p) \in Nat /\ Len(q) \in Nat
      /\ Len(p \o q) = Len(p) + Len(q) /\ p \o q \in Seq(S)
      /\ DOMAIN (p \o q) = 1 .. Len(p) + Len(q)
  OBVIOUS
<1>2. \A i \in 1 .. Len(p) + Len(q) : (p \o q)[i] = IF i <= Len(p) THEN p[i] ELSE q[i - Len(p)]
  OBVIOUS
<1>3. ASSUME NEW f \in In(p \o q) PROVE f \in In(p) \cup In(q)
  <2>1. PICK i \in 1 .. Len(p) + Len(q) : f = (p \o q)[i]
    BY <1>1 DEF In
  <2>2. CASE i <= Len(p)
    <3>1. i \in DOMAIN p /\ f = p[i]
      BY <1>1, <1>2, <2>1, <2>2
    <3> QED BY <3>1 DEF In
  <2>3. CASE ~(i <= Len(p))
    <3>1. i - Len(p) \in DOMAIN q /\ f = q[i - Len(p)]
      BY <1>1, <1>2, <2>1, <2>3
    <3> QED BY <3>1 DEF In
  <2> QED BY <2>2, <2>3
<1> QED BY <1>1, <1>3

\* Retiring an id leaves an empty inbox and what else was retained or queued.
LEMMA RetireShape ==
    ASSUME ShapeInv
    PROVE  /\ Without(client.retained \o client.inbox, client.sub) \in Seq(FrameSet)
           /\ In(Without(client.retained \o client.inbox, client.sub))
                 \subseteq In(client.retained) \cup In(client.inbox)
<1> DEFINE q == client.retained \o client.inbox
<1>1. client.retained \in Seq(FrameSet) /\ client.inbox \in Seq(FrameSet)
  BY ClientShape
<1>2. q \in Seq(FrameSet) /\ In(q) \subseteq In(client.retained) \cup In(client.inbox)
  BY <1>1, InConcat
<1> HIDE DEF q
<1>3. Without(q, client.sub) \in Seq(FrameSet) /\ In(Without(q, client.sub)) \subseteq In(q)
  BY <1>2, PickedKeeps DEF Without
<1> QED BY <1>2, <1>3 DEF q

\* The streams are records of what was written.
LEMMA StreamsShape == ShapeInv => streams \in [Subs \X Conns -> Stream]
BY DEF ShapeInv, Stream

\* The executor keeps the shapes.
LEMMA CatchUpShape ==
    ASSUME ShapeInv, RegistryInv, NEW s \in Subs, CatchUp(s)
    PROVE  ShapeInv'
<1> DEFINE c == registry[s].live
<1>0. /\ c \in Conns /\ lane[c] \in LaneSet /\ lane[c].durable \in Seq(FrameSet)
      /\ newest \in Nat /\ registry[s] \in EntrySet /\ registry[s].admitted \in Nat
      /\ exec \in ExecSet /\ s \in 0 .. MaxSubs /\ 0 \in 0 .. MaxSubs
  <2>1. registry[s] \in EntrySet /\ newest \in Nat /\ exec \in ExecSet
    BY DEF ShapeInv
  <2>2. c \in 0 .. MaxConns /\ registry[s].admitted \in Nat
    BY <2>1 DEF EntrySet
  <2>3. c \in Conns
    BY <2>2, Bounds DEF RegistryInv, EntryOK, CatchUp, Conns
  <2>4. lane[c] \in LaneSet /\ lane[c].durable \in Seq(FrameSet)
    BY <2>3, LaneShape
  <2> QED BY <2>1, <2>2, <2>3, <2>4, Bounds DEF Subs
<1> HIDE DEF c
<1>1. /\ UNCHANGED <<newest, nextSub, jobs, control, outputs, client>>
      /\ exec' = CaughtUp(s) \/ exec' = [exec EXCEPT !.now = s]
  BY DEF CatchUp
<1>2. exec' \in ExecSet
  BY <1>0, <1>1 DEF ExecSet, CaughtUp
<1>3. CASE DropEntry(s) /\ UNCHANGED lane
  BY <1>1, <1>2, <1>3, DropShape DEF ShapeInv, Stream
<1>4. CASE UNCHANGED <<registry, streams, lane>>
  BY <1>1, <1>2, <1>4 DEF ShapeInv
<1>5. CASE /\ lane' = [lane EXCEPT ![c].durable = Append(@, Frame("event", s, 0, registry[s].admitted + 1, 0))]
           /\ registry' = [registry EXCEPT ![s].admitted = @ + 1] /\ UNCHANGED streams
  <2> DEFINE f == Frame("event", s, 0, registry[s].admitted + 1, 0)
  <2>1. f \in FrameSet
    <3>1. registry[s].admitted + 1 \in Nat
      BY <1>0
    <3> QED BY <1>0, <3>1, FrameShape DEF Kinds, Tails
  <2> HIDE DEF f
  <2>2. Append(lane[c].durable, f) \in Seq(FrameSet)
    BY <1>0, <2>1
  <2>3. lane' = [lane EXCEPT ![c].durable = Append(lane[c].durable, f)]
    BY <1>0, <1>5 DEF ShapeInv, f
  <2>4. lane' \in [Conns -> LaneSet]
    BY <1>0, <2>2, <2>3 DEF ShapeInv, LaneSet
  <2>5. registry' \in [Subs -> EntrySet]
    <3>1. registry' = [registry EXCEPT ![s] = [registry[s] EXCEPT !.admitted = registry[s].admitted + 1]]
      BY <1>5 DEF ShapeInv
    <3>2. [registry[s] EXCEPT !.admitted = registry[s].admitted + 1] \in EntrySet
      BY <1>0 DEF EntrySet
    <3> QED BY <3>1, <3>2 DEF ShapeInv
  <2> QED BY <1>1, <1>2, <1>5, <2>4, <2>5 DEF ShapeInv
<1>6. CASE /\ lane' = [lane EXCEPT ![c] = AdmitCritical(@, Frame("resync", s, streams[<<s, c>>].written, newest, 0))]
           /\ DropEntry(s)
  <2> DEFINE f == Frame("resync", s, streams[<<s, c>>].written, newest, 0)
  <2>1. <<s, c>> \in Subs \X Conns /\ streams[<<s, c>>].written \in Nat
    BY <1>0 DEF ShapeInv
  <2>2. f \in FrameSet
    BY <1>0, <2>1, FrameShape DEF Kinds, Tails
  <2> HIDE DEF f
  <2>3. AdmitCritical(lane[c], f) \in LaneSet
    BY <1>0, <2>2, AdmitShape
  <2>4. lane' \in [Conns -> LaneSet]
    BY <1>0, <1>6, <2>3 DEF ShapeInv, f
  <2> QED BY <1>1, <1>2, <1>6, <2>4, DropShape DEF ShapeInv, Stream
<1> QED BY <1>3, <1>4, <1>5, <1>6 DEF CatchUp, c

\* The page of a continuation is a frame.
LEMMA ContinueShape ==
    ASSUME ShapeInv, NEW s \in Subs, NEW cursor \in Nat
    PROVE  LET p == PageAfter(s, cursor, registry[s].through) IN
           /\ p \in FrameSet /\ p.kind = "page" /\ p.sub = s /\ p.lo = cursor /\ p.end = registry[s].through
           /\ p.hi <= registry[s].through /\ (cursor <= registry[s].through => cursor <= p.hi)
<1>1. registry[s].through \in Nat
  BY DEF ShapeInv, EntrySet
<1> QED BY <1>1, PageShape

\* Handing out an answer keeps the shape of the executor.
LEMMA AnswerShape ==
    ASSUME NEW c \in Conns, NEW f \in FrameSet, NEW todo \in SUBSET Subs
    PROVE  Answer(c, f, todo) \in ExecSet
<1>1. c \in 0 .. MaxConns /\ 0 \in 0 .. MaxSubs
  BY Bounds DEF Conns
<1> QED BY <1>1 DEF Answer, ExecSet

\* Serving a request keeps the shape.
LEMMA ServeShape ==
    ASSUME ShapeInv, RegistryInv, Serve
    PROVE  ShapeInv'
<1> DEFINE j == Head(jobs)
<1>0. jobs \in Seq(JobSet) /\ jobs # <<>>
  BY DEF ShapeInv, Serve
<1>1. /\ j \in JobSet /\ Tail(jobs) \in Seq(JobSet)
  BY <1>0, InTail
<1> HIDE DEF j
<1>2. /\ j.conn \in Conns /\ j.sub \in 0 .. MaxSubs /\ j.arg \in Nat
      /\ (j.kind \in {"continue", "release"} => j.sub \in Subs)
  BY <1>1 DEF JobSet
<1>3. UNCHANGED <<newest, control, outputs, client>> /\ jobs' \in Seq(JobSet)
  BY <1>1 DEF Serve
<1>4. CASE /\ exec' = Answer(j.conn, Frame("snapshot", 0, 0, newest, 0), {})
           /\ UNCHANGED <<nextSub, registry, streams, lane>>
  <2>1. Frame("snapshot", 0, 0, newest, 0) \in FrameSet
    BY Bounds, FrameShape DEF ShapeInv, Kinds, Tails
  <2>2. exec' \in ExecSet
    BY <1>2, <1>4, <2>1, AnswerShape
  <2> QED BY <1>3, <1>4, <2>2 DEF ShapeInv
<1>5. CASE ServeOpen(j.conn, j.arg)
  <2>1. CASE /\ lane' = [lane EXCEPT ![j.conn].shutdown = TRUE]
             /\ UNCHANGED <<nextSub, registry, streams, exec>>
    <3>1. lane' \in [Conns -> LaneSet]
      BY <1>2, <2>1 DEF ShapeInv, LaneSet
    <3> QED BY <1>3, <2>1, <3>1 DEF ShapeInv
  <2>2. CASE ~(/\ lane' = [lane EXCEPT ![j.conn].shutdown = TRUE]
               /\ UNCHANGED <<nextSub, registry, streams, exec>>)
    <3>1. nextSub \in Subs /\ \E victim \in Subs \cup {0} : Opens(nextSub, j.conn, j.arg, victim)
      BY <1>2, <1>5, <2>2, OpenShape
    <3>2. PICK victim \in Subs \cup {0} : Opens(nextSub, j.conn, j.arg, victim)
      BY <3>1
    <3>3. PageAfter(nextSub, j.arg, newest) \in FrameSet
      BY <1>2, <3>1, PageShape DEF ShapeInv
    <3>4. exec' \in ExecSet
      BY <1>2, <3>1, <3>2, <3>3, AnswerShape DEF Opens
    <3> QED BY <1>3, <3>2, <3>4 DEF ShapeInv, Stream, Opens
  <2> QED BY <2>1, <2>2
<1>6. CASE j.kind = "continue" /\ ServeContinue(j.conn, j.sub, j.arg) /\ UNCHANGED <<nextSub, lane>>
  <2> DEFINE page == PageAfter(j.sub, j.arg, registry[j.sub].through)
  <2>0. j.sub \in Subs /\ page \in FrameSet
    BY <1>2, <1>6, ContinueShape
  <2>1. CASE exec' = Answer(j.conn, Frame("refused", j.sub, 0, 0, 0), {}) /\ UNCHANGED <<registry, streams>>
    <3>1. Frame("refused", j.sub, 0, 0, 0) \in FrameSet
      BY <1>2, FrameShape DEF Kinds, Tails
    <3>2. exec' \in ExecSet
      BY <1>2, <2>1, <3>1, AnswerShape
    <3> QED BY <1>3, <1>6, <2>1, <3>2 DEF ShapeInv
  <2>2. CASE /\ registry[j.sub].scope = j.conn /\ BindLive(j.sub, j.conn, page.hi < page.end)
             /\ exec' = Answer(j.conn, page, IF page.hi < page.end THEN {} ELSE {j.sub})
    <3>1. registry[j.sub].live \in {0, j.conn}
      BY <2>0, <2>2 DEF RegistryInv, EntryOK
    <3> DEFINE frozen == page.hi < page.end
    <3>2. frozen \in BOOLEAN
      OBVIOUS
    <3>3. BindLive(j.sub, j.conn, frozen)
      BY <2>2
    <3>4. exec' \in ExecSet
      BY <1>2, <2>0, <2>2, AnswerShape
    <3> HIDE DEF page, frozen
    <3>5. registry' \in [Subs -> EntrySet] /\ streams' \in [Subs \X Conns -> Stream]
      BY <1>2, <2>0, <3>1, <3>2, <3>3, BindShape
    <3> QED BY <1>3, <1>6, <3>4, <3>5 DEF ShapeInv, Stream
  <2> QED BY <1>6, <2>1, <2>2 DEF ServeContinue
<1>7. CASE j.kind = "release" /\ ServeRelease(j.conn, j.sub) /\ UNCHANGED <<nextSub, lane>>
  <2>0. j.sub \in Subs
    BY <1>2, <1>7
  <2>1. CASE exec' = Answer(j.conn, Frame("refused", j.sub, 0, 0, 0), {}) /\ UNCHANGED <<registry, streams>>
    <3>1. Frame("refused", j.sub, 0, 0, 0) \in FrameSet
      BY <1>2, FrameShape DEF Kinds, Tails
    <3>2. exec' \in ExecSet
      BY <1>2, <2>1, <3>1, AnswerShape
    <3> QED BY <1>3, <1>7, <2>1, <3>2 DEF ShapeInv
  <2>2. CASE exec' = Answer(j.conn, Frame("released", j.sub, 0, 0, 0), {}) /\ DropEntry(j.sub)
    <3>1. Frame("released", j.sub, 0, 0, 0) \in FrameSet
      BY <1>2, FrameShape DEF Kinds, Tails
    <3>2. exec' \in ExecSet
      BY <1>2, <2>2, <3>1, AnswerShape
    <3>3. registry' \in [Subs -> EntrySet] /\ streams' \in [Subs \X Conns -> Stream]
      BY <2>0, <2>2, DropShape
    <3> QED BY <1>3, <1>7, <3>2, <3>3 DEF ShapeInv, Stream
  <2> QED BY <1>7, <2>1, <2>2 DEF ServeRelease
<1> QED BY <1>4, <1>5, <1>6, <1>7 DEF Serve, j

\* A control message keeps the shape.
LEMMA ControlShape ==
    ASSUME ShapeInv, RegistryInv, ControlInv, Control
    PROVE  ShapeInv'
<1> DEFINE m == Head(control)
<1>0. control \in Seq(ControlSet) /\ control # <<>>
  BY DEF ShapeInv, Control
<1>1. m \in ControlSet /\ Tail(control) \in Seq(ControlSet) /\ m = control[1] /\ 1 \in DOMAIN control
  BY <1>0, InTail, Queues
<1> HIDE DEF m
<1>2. m.conn \in Conns /\ m.from \in 0 .. MaxConns /\ m.from \in Int /\ m.conn \in Int
  BY <1>1, Bounds DEF ControlSet, Conns
<1>3. UNCHANGED <<newest, nextSub, exec, jobs, client>> /\ control' \in Seq(ControlSet)
  BY <1>1 DEF Control
<1>4. CASE m.kind = "register" /\ Register(m.conn, m.from)
  <2>1. m.from < m.conn /\ \A s \in Subs : registry[s].scope # m.conn
    BY <1>1, <1>4 DEF ControlInv, RegisterOK
  <2>2. m.from # m.conn
    BY <1>2, <2>1
  <2>3. \A s \in Subs : /\ registry[s].scope # m.conn /\ registry[s].live \in {0, registry[s].scope}
                        /\ registry[s].scope = 0 => registry[s] = NoEntry
    BY <2>1 DEF RegistryInv, EntryOK
  <2>4. /\ registry' \in [Subs -> EntrySet] /\ streams' \in [Subs \X Conns -> Stream]
        /\ lane' \in [Conns -> LaneSet] /\ outputs' \subseteq Conns
    BY <1>2, <1>4, <2>2, <2>3, RegisterShape
  <2> QED BY <1>3, <2>4 DEF ShapeInv, Stream
<1>5. CASE Detach(m.conn)
  <2>1. /\ registry' \in [Subs -> EntrySet] /\ streams' \in [Subs \X Conns -> Stream]
        /\ lane' \in [Conns -> LaneSet] /\ outputs' = outputs \ {m.conn}
    BY <1>2, <1>5, DetachShape
  <2> QED BY <1>3, <2>1 DEF ShapeInv, Stream
<1> QED BY <1>4, <1>5 DEF Control, m

\* Every step of the executor keeps the shape.
LEMMA ExecutorShape ==
    ASSUME ShapeInv, RegistryInv, ControlInv, Executor
    PROVE  ShapeInv'
<1>1. CASE Commit
  <2>1. newest' \in Nat
    BY <1>1, Bounds DEF Commit, ShapeInv
  <2>2. exec' \in ExecSet
    BY <1>1 DEF Commit, ShapeInv, ExecSet, Entries
  <2> QED BY <1>1, <2>1, <2>2 DEF Commit, ShapeInv
<1>2. CASE Reply
  <2>1. exec.to \in Conns /\ exec.reply \in FrameSet
    BY <1>2, Bounds DEF Reply, ShapeInv, ExecSet, RegistryInv, ExecOK, Conns
  <2>2. IdleExec \in ExecSet
    BY NoneShape, Bounds DEF IdleExec, ExecSet
  <2>3. lane' \in [Conns -> LaneSet]
    <3> DEFINE f == IF lane[exec.to].closed THEN None ELSE exec.reply
    <3>1. f \in FrameSet
      BY <2>1, NoneShape
    <3>2. lane' = [lane EXCEPT ![exec.to].answer = f]
      BY <1>2 DEF Reply
    <3> HIDE DEF f
    <3> QED BY <2>1, <3>1, <3>2 DEF ShapeInv, LaneSet
  <2> QED BY <1>2, <2>2, <2>3 DEF Reply, ShapeInv
<1>3. ASSUME NEW s \in Subs, Reap(s) PROVE ShapeInv'
  BY <1>3, DropShape DEF Reap, ShapeInv, Stream
<1>4. ASSUME NEW c \in Conns, ReapOutput(c) PROVE ShapeInv'
  <2>1. Detach(c) /\ UNCHANGED <<newest, nextSub, exec, jobs, control, client>>
    BY <1>4 DEF ReapOutput
  <2>2. /\ registry' \in [Subs -> EntrySet] /\ streams' \in [Subs \X Conns -> Stream]
        /\ lane' \in [Conns -> LaneSet] /\ outputs' = outputs \ {c}
    BY <2>1, DetachShape
  <2> QED BY <2>1, <2>2 DEF ShapeInv, Stream
<1> QED BY <1>1, <1>2, <1>3, <1>4, CatchUpShape, ServeShape, ControlShape DEF Executor

\* A notice that is prepared for its write is still that notice.
LEMMA PreparedShape ==
    ASSUME ShapeInv, NEW f \in FrameSet, NEW c \in Conns
    PROVE  /\ Prepared(f, c) \in FrameSet /\ Prepared(f, c).kind = f.kind /\ Prepared(f, c).sub = f.sub
           /\ Prepared(f, c).hi = f.hi
           /\ f.kind = "resync" => Prepared(f, c).lo = streams[<<f.sub, c>>].written
           /\ f.kind # "resync" => Prepared(f, c) = f
<1>1. CASE f.kind = "resync"
  <2>1. f.sub \in Subs
    BY <1>1, FrameFields DEF Tails
  <2>2. <<f.sub, c>> \in Subs \X Conns /\ streams[<<f.sub, c>>].written \in Nat
    BY <2>1 DEF ShapeInv
  <2>3. Prepared(f, c) = [f EXCEPT !.lo = streams[<<f.sub, c>>].written]
    BY <1>1 DEF Prepared
  <2> QED BY <1>1, <2>2, <2>3 DEF FrameSet
<1>2. CASE f.kind # "resync"
  BY <1>2 DEF Prepared
<1> QED BY <1>1, <1>2

\* The tasks of a connection keep the shapes.
LEMMA DuplexShape ==
    ASSUME ShapeInv, NEW c \in Conns, AdmitReply(c) \/ Take(c) \/ Written(c) \/ HostDrop(c)
    PROVE  ShapeInv'
<1>0. /\ lane[c] \in LaneSet /\ lane[c].critical \in Seq(FrameSet) /\ lane[c].durable \in Seq(FrameSet)
      /\ lane[c].writing \in FrameSet /\ lane[c].wire \in Seq(FrameSet) /\ lane[c].answer \in FrameSet
      /\ lane \in [Conns -> LaneSet]
  BY LaneShape DEF ShapeInv
<1>1. CASE AdmitReply(c)
  <2> DEFINE m == AdmitCritical(lane[c], lane[c].answer)
  <2>1. m \in LaneSet
    BY <1>0, AdmitShape
  <2>2. lane' = [lane EXCEPT ![c] = [m EXCEPT !.answer = None]]
    BY <1>0, <1>1 DEF AdmitReply
  <2> HIDE DEF m
  <2>3. lane' \in [Conns -> LaneSet]
    BY <1>0, <2>1, <2>2, NoneShape DEF LaneSet
  <2> QED BY <1>1, <2>3 DEF AdmitReply, ShapeInv
<1>2. CASE Take(c)
  <2>1. UNCHANGED <<newest, nextSub, registry, streams, exec, jobs, control, outputs, client>>
    BY <1>2 DEF Take
  <2>2. CASE /\ lane[c].critical # <<>>
             /\ lane' = [lane EXCEPT ![c].critical = Tail(@), ![c].writing = Prepared(Head(lane[c].critical), c)]
    <3>1. Head(lane[c].critical) \in FrameSet /\ Tail(lane[c].critical) \in Seq(FrameSet)
      BY <1>0, <2>2, InTail
    <3>2. Prepared(Head(lane[c].critical), c) \in FrameSet
      BY <3>1, PreparedShape
    <3>3. lane' \in [Conns -> LaneSet]
      BY <1>0, <2>2, <3>1, <3>2 DEF LaneSet
    <3> QED BY <2>1, <3>3 DEF ShapeInv
  <2>3. CASE /\ lane[c].durable # <<>>
             /\ lane' = [lane EXCEPT ![c].durable = Tail(@),
                        ![c].writing = IF streams[<<Head(lane[c].durable).sub, c>>].current
                                       THEN Head(lane[c].durable) ELSE None]
    <3> DEFINE w == IF streams[<<Head(lane[c].durable).sub, c>>].current
                                       THEN Head(lane[c].durable) ELSE None
    <3>1. Head(lane[c].durable) \in FrameSet /\ Tail(lane[c].durable) \in Seq(FrameSet)
      BY <1>0, <2>3, InTail
    <3>2. w \in FrameSet
      BY <3>1, NoneShape
    <3>3. lane' = [lane EXCEPT ![c].durable = Tail(@), ![c].writing = w]
      BY <2>3
    <3> HIDE DEF w
    <3>4. lane' \in [Conns -> LaneSet]
      BY <1>0, <3>1, <3>2, <3>3 DEF LaneSet
    <3> QED BY <2>1, <3>4 DEF ShapeInv
  <2> QED BY <1>2, <2>2, <2>3 DEF Take
<1>3. CASE Written(c)
  <2> DEFINE f == lane[c].writing
  <2>1. UNCHANGED <<newest, nextSub, registry, exec, jobs, control, outputs, client>>
    BY <1>3 DEF Written
  <2>2. Append(lane[c].wire, f) \in Seq(FrameSet)
    BY <1>0
  <2>3. lane' = [lane EXCEPT ![c].writing = None, ![c].wire = Append(@, f)]
    BY <1>3 DEF Written
  <2>4. lane' \in [Conns -> LaneSet]
    BY <1>0, <2>2, <2>3, NoneShape DEF LaneSet
  <2>5. streams' \in [Subs \X Conns -> [written : Nat, current : BOOLEAN]]
    <3>1. CASE streams' = streams
      BY <3>1 DEF ShapeInv
    <3>2. CASE f.kind = "event" /\ streams' = [streams EXCEPT ![<<f.sub, c>>].written = f.hi]
      <4>1. f.sub \in Subs /\ f.hi \in Nat
        BY <1>0, <3>2, FrameFields DEF Tails
      <4> QED BY <3>2, <4>1 DEF ShapeInv
    <3> QED BY <1>3, <3>1, <3>2 DEF Written
  <2> QED BY <2>1, <2>4, <2>5 DEF ShapeInv
<1>4. CASE HostDrop(c)
  <2>1. UNCHANGED <<newest, nextSub, registry, streams, exec, outputs, client>>
    BY <1>4 DEF HostDrop
  <2>2. [EmptyLane EXCEPT !.wire = lane[c].wire, !.shutdown = TRUE, !.closed = TRUE] \in LaneSet
    <3>1. EmptyLane \in LaneSet
      BY NoneShape DEF EmptyLane, LaneSet
    <3> QED BY <1>0, <3>1 DEF LaneSet
  <2>3. lane' \in [Conns -> LaneSet]
    BY <1>0, <1>4, <2>2 DEF HostDrop
  <2>4. control' \in Seq(ControlSet)
    <3>1. [kind |-> "unregister", conn |-> c, from |-> 0] \in ControlSet
      BY Bounds DEF ControlSet
    <3> QED BY <1>4, <3>1 DEF HostDrop, ShapeInv
  <2>5. jobs' \in Seq(JobSet)
    BY <1>4, PickedKeeps DEF HostDrop, ShapeInv
  <2> QED BY <2>1, <2>3, <2>4, <2>5 DEF ShapeInv
<1> QED BY <1>1, <1>2, <1>3, <1>4

\* Handling a frame moves the model, or says that the place is lost.
LEMMA HandledShape ==
    ASSUME NEW cl \in ClientSet, NEW f \in FrameSet
    PROVE  Handled(cl, f) \in ClientSet
<1>1. /\ f.hi \in Nat /\ cl.model \in ModelSet /\ cl.model.seqs \in SUBSET Nat /\ cl.seen \in SUBSET Nat
  BY FrameFields DEF ClientSet, ModelSet
<1>2. Model(f.hi, cl.model.seqs \cup {f.hi}) \in ModelSet
  BY <1>1 DEF Model, ModelSet
<1>3. \A v \in {"foreign", "invalid resync", "resync", "regression"} :
         [cl EXCEPT !.state = "NeedsResync", !.verdict = v] \in ClientSet
  BY DEF ClientSet
<1>4. [cl EXCEPT !.verdict = "seen"] \in ClientSet
  BY DEF ClientSet
<1>5. [cl EXCEPT !.seen = @ \cup {f.hi}, !.verdict = "ok",
                    !.model = Model(f.hi, @.seqs \cup {f.hi})] \in ClientSet
  BY <1>1, <1>2 DEF ClientSet
<1> QED BY <1>3, <1>4, <1>5 DEF Handled

\* The client keeps the shapes.
LEMMA CallerShape ==
    ASSUME ShapeInv, ConnInv, RequestInv, Caller
    PROVE  ShapeInv'
<1>0. /\ client \in ClientSet /\ client.conn \in 0 .. MaxConns /\ client.opened \in 0 .. MaxConns
      /\ client.got \in FrameSet /\ client.sub \in 0 .. MaxSubs
      /\ client.inbox \in Seq(FrameSet) /\ client.retained \in Seq(FrameSet)
      /\ client.building \in ModelSet
      /\ client.conn # 0 => client.conn \in Conns
      /\ client.sub # 0 => client.sub \in Subs
      /\ 0 \in 0 .. MaxSubs /\ <<>> \in Seq(FrameSet)
  BY ClientShape, Bounds
<1>1. ASSUME client.conn # 0, LeaveConnection,
             UNCHANGED <<newest, nextSub, registry, streams, exec, jobs, control, outputs>>
      PROVE  ShapeInv'
  BY <1>1, LeaveShape DEF ShapeInv
<1>2. CASE Disconnect \/ ReadClosed
  BY <1>1, <1>2 DEF Disconnect, ReadClosed
<1>3. CASE Dispatch
  <2> DEFINE q == lane[client.conn].wire
  <2>1. client.conn \in Conns /\ q \in Seq(FrameSet) /\ q # <<>>
    BY <1>0, <1>3, LaneShape DEF Dispatch
  <2>2. Head(q) \in FrameSet /\ Tail(q) \in Seq(FrameSet)
    BY <2>1, InTail
  <2>3. CASE LeaveConnection
    BY <1>1, <1>3, <2>3 DEF Dispatch
  <2>4. CASE ~LeaveConnection
    <3>1. lane' = [lane EXCEPT ![client.conn].wire = Tail(@)]
      BY <1>3, <2>4 DEF Dispatch
    <3>2. lane' \in [Conns -> LaneSet]
      BY <2>1, <2>2, <3>1 DEF ShapeInv, LaneSet
    <3>3. \/ client' = client \/ client' = [client EXCEPT !.got = Head(q)]
          \/ client' = [client EXCEPT !.inbox = Append(client.inbox, Head(q))]
      BY <1>3, <2>4 DEF Dispatch
    <3>4. Append(client.inbox, Head(q)) \in Seq(FrameSet)
      BY <1>0, <2>2
    <3>5. client' \in ClientSet
      BY <1>0, <2>2, <3>3, <3>4 DEF ClientSet
    <3> QED BY <1>3, <3>2, <3>5 DEF Dispatch, ShapeInv
  <2> QED BY <2>3, <2>4
<1>4. CASE Connect
  <2>1. client.opened + 1 \in Conns /\ client.opened + 1 \in 0 .. MaxConns
    <3>1. client.opened \in 0 .. MaxConns /\ client.opened < MaxConns /\ MaxConns \in Nat
      BY <1>0, <1>4, Bounds DEF Connect
    <3> QED BY <3>1 DEF Conns
  <2>2. NoModel \in ModelSet
    BY DEF NoModel, ModelSet
  <2>5. PICK from \in 0 .. MaxConns :
           /\ client' = [FreshClient(client.opened + 1, client.opened + 1) EXCEPT !.grant = from]
           /\ control' = Append(control, [kind |-> "register", conn |-> client.opened + 1, from |-> from])
    <3>1. 0 \in 0 .. MaxConns /\ client.opened \in 0 .. MaxConns
      BY <1>0, Bounds
    <3> QED BY <1>4, <3>1 DEF Connect
  <2>3. client' = [conn |-> client.opened + 1, opened |-> client.opened + 1, grant |-> from, phase |-> "idle",
                   got |-> None, state |-> "Pending", sub |-> 0, model |-> NoModel, building |-> NoModel,
                   seen |-> {}, inbox |-> <<>>, retained |-> <<>>, retired |-> {}, verdict |-> "ok"]
    BY <2>5 DEF FreshClient
  <2>4. client' \in ClientSet
    BY <1>0, <2>1, <2>2, <2>3, NoneShape DEF ClientSet
  <2>6. [kind |-> "register", conn |-> client.opened + 1, from |-> from] \in ControlSet
    BY <2>1 DEF ControlSet
  <2>7. control' \in Seq(ControlSet)
    BY <2>5, <2>6 DEF ShapeInv
  <2> QED BY <1>4, <2>4, <2>7 DEF Connect, ShapeInv
<1>5. ASSUME NEW kind \in {"snapshot", "open", "continue", "release"}, NEW s \in 0 .. MaxSubs, NEW arg \in Nat,
             kind \in {"continue", "release"} => s \in Subs, client.conn # 0, Send(kind, s, arg)
      PROVE  jobs' \in Seq(JobSet)
  BY <1>5, SendShape
<1>6. ASSUME client' \in ClientSet, jobs' \in Seq(JobSet),
             UNCHANGED <<newest, nextSub, registry, streams, exec, control, outputs, lane>>
      PROVE  ShapeInv'
  BY <1>6 DEF ShapeInv
<1>7. CASE Synchronize
  <2>1. client' \in ClientSet
    <3>1. \/ client' = [client EXCEPT !.state = "Pending", !.phase = "releasing"]
          \/ client' = [client EXCEPT !.state = "Pending", !.phase = "snapshot", !.seen = {}]
      BY <1>7 DEF Synchronize
    <3>2. CASE client' = [client EXCEPT !.state = "Pending", !.phase = "releasing"]
      BY <1>0, <3>2 DEF ClientSet
    <3>3. CASE client' = [client EXCEPT !.state = "Pending", !.phase = "snapshot", !.seen = {}]
      BY <1>0, <3>3 DEF ClientSet
    <3> QED BY <3>1, <3>2, <3>3
  <2>2. jobs' \in Seq(JobSet)
    BY <1>0, <1>5, <1>7 DEF Synchronize
  <2> QED BY <1>6, <1>7, <2>1, <2>2 DEF Synchronize
<1>8. CASE Released
  <2>0. client.conn # 0
    BY <1>8 DEF Released, ConnInv
  <2>1. CASE LeaveConnection /\ UNCHANGED jobs
    BY <1>1, <1>8, <2>0, <2>1 DEF Released
  <2>2. CASE ~(LeaveConnection /\ UNCHANGED jobs)
    <3> DEFINE r == Without(client.retained \o client.inbox, client.sub)
               cl == [client EXCEPT !.retired = @ \cup {client.sub}, !.retained = r, !.inbox = <<>>, !.got = None]
    <3>1. r \in Seq(FrameSet)
      BY RetireShape
    <3> HIDE DEF r
    <3>2. cl \in ClientSet
      BY <1>0, <3>1, NoneShape DEF ClientSet
    <3>3. [Retire(client) EXCEPT !.got = None] = cl
      BY DEF Retire, r
    <3> HIDE DEF cl
    <3>4. NoModel \in ModelSet
      BY DEF NoModel, ModelSet
    <3>5. /\ \/ client' = [cl EXCEPT !.phase = "idle", !.state = "NeedsResync"]
             \/ client' = [cl EXCEPT !.sub = 0, !.seen = {}, !.phase = "snapshot"]
             \/ client' = [cl EXCEPT !.sub = 0, !.phase = "idle"]
             \/ client' = [cl EXCEPT !.sub = 0, !.phase = "idle", !.state = "Pending",
                                  !.model = NoModel, !.seen = {}]
          /\ UNCHANGED jobs \/ Send("snapshot", 0, 0)
          /\ UNCHANGED <<newest, nextSub, registry, streams, exec, control, outputs, lane>>
      BY <1>8, <2>2, <3>3 DEF Released
    <3>6. client' \in ClientSet
      <4>1. [cl EXCEPT !.phase = "idle", !.state = "NeedsResync"] \in ClientSet
        BY <3>2 DEF ClientSet
      <4>2. [cl EXCEPT !.sub = 0, !.seen = {}, !.phase = "snapshot"] \in ClientSet
        BY <1>0, <3>2 DEF ClientSet
      <4>3. [cl EXCEPT !.sub = 0, !.phase = "idle"] \in ClientSet
        BY <1>0, <3>2 DEF ClientSet
      <4>4. [cl EXCEPT !.sub = 0, !.phase = "idle", !.state = "Pending", !.model = NoModel, !.seen = {}]
               \in ClientSet
        BY <1>0, <3>2, <3>4 DEF ClientSet
      <4> QED BY <3>5, <4>1, <4>2, <4>3, <4>4
    <3>7. jobs' \in Seq(JobSet)
      <4>1. CASE UNCHANGED jobs
        BY <4>1 DEF ShapeInv
      <4>2. CASE Send("snapshot", 0, 0)
        BY <1>0, <1>5, <2>0, <4>2
      <4> QED BY <3>5, <4>1, <4>2
    <3> QED BY <1>6, <3>5, <3>6, <3>7
  <2> QED BY <2>1, <2>2
<1>9. CASE SnapshotRead
  <2>0. client.conn # 0 /\ client.got.hi \in Nat
    BY <1>0, <1>9, FrameFields DEF SnapshotRead, ConnInv
  <2>1. Model(client.got.hi, 1 .. client.got.hi) \in ModelSet
    BY <2>0 DEF Model, ModelSet
  <2>2. client' \in ClientSet
    BY <1>0, <1>9, <2>1, NoneShape DEF SnapshotRead, ClientSet
  <2>3. jobs' \in Seq(JobSet)
    BY <1>0, <1>5, <1>9, <2>0 DEF SnapshotRead
  <2> QED BY <1>6, <1>9, <2>2, <2>3 DEF SnapshotRead
<1>10. CASE ReplayPage
  <2> DEFINE p == client.got
  <2>0. /\ client.conn # 0 /\ p \in FrameSet /\ p.hi \in Nat /\ p.lo \in Nat /\ p.sub \in Subs /\ p.sub \in 0 .. MaxSubs
    BY <1>0, <1>10, FrameFields DEF ReplayPage, ConnInv
  <2>1. Model(p.hi, client.building.seqs \cup (p.lo + 1 .. p.hi)) \in ModelSet
    BY <1>0, <2>0 DEF Model, ModelSet
  <2> DEFINE cl == [client EXCEPT !.got = None, !.sub = p.sub]
             read == [cl EXCEPT !.seen = @ \cup (p.lo + 1 .. p.hi)]
  <2>2. cl \in ClientSet
    BY <1>0, <2>0, NoneShape DEF ClientSet
  <2>3. read \in ClientSet
    <3>1. p.lo + 1 .. p.hi \subseteq Nat
      BY <2>0
    <3> HIDE DEF cl, p
    <3> QED BY <2>2, <3>1 DEF ClientSet
  <2>4. NoModel \in ModelSet
    BY DEF NoModel, ModelSet
  <2> DEFINE b == Model(p.hi, client.building.seqs \cup (p.lo + 1 .. p.hi))
  <2>5. /\ \/ client' = [cl EXCEPT !.phase = "cleanup", !.state = "NeedsResync"]
           \/ client' = [read EXCEPT !.building = b]
           \/ client' = [read EXCEPT !.phase = "idle", !.state = "Ready", !.building = NoModel, !.model = b]
        /\ Send("release", p.sub, 0) \/ Send("continue", p.sub, p.hi) \/ UNCHANGED jobs
        /\ UNCHANGED <<newest, nextSub, registry, streams, exec, control, outputs, lane>>
    BY <1>10 DEF ReplayPage
  <2> HIDE DEF p, cl, read, b
  <2>6. client' \in ClientSet
    <3>0. b \in ModelSet
      BY <2>1 DEF b
    <3>1. [cl EXCEPT !.phase = "cleanup", !.state = "NeedsResync"] \in ClientSet
      BY <2>2 DEF ClientSet
    <3>2. [read EXCEPT !.building = b] \in ClientSet
      BY <2>3, <3>0 DEF ClientSet
    <3>3. [read EXCEPT !.phase = "idle", !.state = "Ready", !.building = NoModel, !.model = b] \in ClientSet
      BY <2>3, <2>4, <3>0 DEF ClientSet
    <3> QED BY <2>5, <3>1, <3>2, <3>3
  <2>7. jobs' \in Seq(JobSet)
    <3>1. CASE UNCHANGED jobs
      BY <3>1 DEF ShapeInv
    <3>2. CASE Send("release", p.sub, 0) \/ Send("continue", p.sub, p.hi)
      BY <1>5, <2>0, <3>2
    <3> QED BY <2>5, <3>1, <3>2
  <2> QED BY <1>6, <2>5, <2>6, <2>7
<1>11. CASE ReplayRefused
  <2>0. client.conn # 0 /\ client.got \in UnderWay
    BY <1>11 DEF ReplayRefused, ConnInv, UnderWay, Arriving
  <2>1. client.sub # 0
    BY <1>11, <2>0 DEF ReplayRefused, RequestInv, ReplyFits, Releasing
  <2>2. client' \in ClientSet
    BY <1>0, <1>11, NoneShape DEF ReplayRefused, ClientSet
  <2>3. jobs' \in Seq(JobSet)
    BY <1>0, <1>5, <1>11, <2>0, <2>1 DEF ReplayRefused
  <2> QED BY <1>6, <1>11, <2>2, <2>3 DEF ReplayRefused
<1>12. CASE Receive
  <2>1. UNCHANGED <<newest, nextSub, registry, streams, exec, jobs, control, outputs, lane>>
    BY <1>12 DEF Receive
  <2>2. client' \in ClientSet
    <3>1. CASE client.retained # <<>>
      <4> DEFINE f == Head(client.retained)
                 cl == [client EXCEPT !.retained = Tail(@)]
      <4>1. f \in FrameSet /\ Tail(client.retained) \in Seq(FrameSet)
        BY <1>0, <3>1, InTail
      <4>2. cl \in ClientSet
        BY <1>0, <4>1 DEF ClientSet
      <4>3. client' = IF f.sub \in client.retired THEN cl ELSE Handled(cl, f)
        BY <1>12, <3>1 DEF Receive
      <4> HIDE DEF f, cl
      <4> QED BY <4>1, <4>2, <4>3, HandledShape
    <3>2. CASE client.retained = <<>>
      <4> DEFINE f == Head(client.inbox)
                 cl == [client EXCEPT !.inbox = Tail(@)]
      <4>0. client.inbox # <<>>
        BY <1>12, <3>2 DEF Receive
      <4>1. f \in FrameSet /\ Tail(client.inbox) \in Seq(FrameSet)
        BY <1>0, <4>0, InTail
      <4>2. cl \in ClientSet
        BY <1>0, <4>1 DEF ClientSet
      <4>3. client' = IF f.sub \in client.retired THEN cl ELSE Handled(cl, f)
        BY <1>12, <3>2 DEF Receive
      <4> HIDE DEF f, cl
      <4> QED BY <4>1, <4>2, <4>3, HandledShape
    <3> QED BY <3>1, <3>2
  <2> QED BY <2>1, <2>2 DEF ShapeInv
<1>13. CASE Gap
  <2>1. client' \in ClientSet
    BY <1>0, <1>13 DEF Gap, ClientSet
  <2> QED BY <1>13, <2>1 DEF Gap, ShapeInv
<1>14. CASE Close
  <2>1. NoModel \in ModelSet
    BY DEF NoModel, ModelSet
  <2>2. client' \in ClientSet
    <3>1. CASE client' = [client EXCEPT !.phase = "closing"]
      BY <1>0, <3>1 DEF ClientSet
    <3>2. CASE client' = [client EXCEPT !.state = "Pending", !.model = NoModel, !.seen = {}]
      BY <1>0, <2>1, <3>2 DEF ClientSet
    <3> QED BY <1>14, <3>1, <3>2 DEF Close
  <2>3. jobs' \in Seq(JobSet)
    <3>1. CASE UNCHANGED jobs
      BY <3>1 DEF ShapeInv
    <3>2. CASE client.sub # 0 /\ Send("release", client.sub, 0)
      BY <1>0, <1>5, <1>14, <3>2 DEF Close
    <3> QED BY <1>14, <3>1, <3>2 DEF Close
  <2> QED BY <1>6, <1>14, <2>2, <2>3 DEF Close
<1> QED BY <1>2, <1>3, <1>4, <1>7, <1>8, <1>9, <1>10, <1>11, <1>12, <1>13, <1>14 DEF Caller

\* The fields of an entry of the registry.
LEMMA EntryShape ==
    ASSUME ShapeInv, NEW s \in Subs
    PROVE  /\ registry[s] \in EntrySet /\ registry[s].scope \in 0 .. MaxConns /\ registry[s].live \in 0 .. MaxConns
           /\ registry[s].admitted \in Nat /\ registry[s].through \in Nat /\ registry[s].frozen \in BOOLEAN
           /\ registry[s].scope \in Int /\ newest \in Nat /\ nextSub \in Nat /\ client.opened \in Nat /\ s \in Nat
           /\ \A c \in Conns : c \in Nat /\ c # 0 /\ <<s, c>> \in Subs \X Conns
                               /\ streams[<<s, c>>].current \in BOOLEAN /\ streams[<<s, c>>].written \in Nat
<1>1. registry[s] \in EntrySet /\ newest \in Nat /\ nextSub \in Nat /\ s \in Nat
  BY Bounds DEF ShapeInv, Subs
<1>2. client.opened \in Nat
  BY ClientShape, Bounds
<1>3. /\ registry[s].scope \in 0 .. MaxConns /\ registry[s].live \in 0 .. MaxConns
      /\ registry[s].admitted \in Nat /\ registry[s].through \in Nat /\ registry[s].frozen \in BOOLEAN
  BY <1>1 DEF EntrySet
<1>4. ASSUME NEW c \in Conns
      PROVE  c \in Nat /\ c # 0 /\ <<s, c>> \in Subs \X Conns
             /\ streams[<<s, c>>].current \in BOOLEAN /\ streams[<<s, c>>].written \in Nat
  BY Bounds DEF Conns, ShapeInv
<1>5. registry[s].scope \in Int
  BY <1>3, Bounds
<1> QED BY <1>1, <1>2, <1>3, <1>4, <1>5

\* The fields of an absent entry.
LEMMA NoEntryFields == /\ NoEntry.scope = 0 /\ NoEntry.frozen = FALSE /\ NoEntry.through = 0
                       /\ NoEntry.live = 0 /\ NoEntry.admitted = 0
BY DEF NoEntry

\* A step that leaves the registry, its tails and the executor alone.
LEMMA RegistryKept ==
    ASSUME ShapeInv, RegistryInv, UNCHANGED <<newest, nextSub, registry, exec>>,
           client.opened <= client'.opened, client'.opened \in Nat,
           \A s \in Subs, c \in Conns : streams'[<<s, c>>].current = streams[<<s, c>>].current
    PROVE  RegistryInv'
<1>1. ASSUME NEW s \in Subs PROVE EntryOK(s)'
  <2>1. EntryOK(s)
    BY DEF RegistryInv
  <2>2. registry[s].scope <= client'.opened
    BY <2>1, EntryShape DEF EntryOK
  <2> QED BY <2>1, <2>2 DEF EntryOK
<1>2. ExecOK'
  BY DEF RegistryInv, ExecOK
<1> QED BY <1>1, <1>2 DEF RegistryInv

\* Dropping an entry keeps the registry consistent.
LEMMA DropRegistry ==
    ASSUME ShapeInv, RegistryInv, NEW s \in Subs, DropEntry(s), UNCHANGED <<newest, nextSub, client>>,
           exec'.todo \subseteq exec.todo \ {s},
           \A t \in exec.todo \ {s} : t \in exec'.todo
    PROVE  \A t \in Subs : EntryOK(t)'
<1>1. ASSUME NEW t \in Subs PROVE EntryOK(t)'
  <2>0. /\ registry'[s] = NoEntry /\ \A u \in Subs \ {s} : registry'[u] = registry[u]
        /\ \A u \in Subs, c \in Conns :
                 streams'[<<u, c>>].current <=>
                       streams[<<u, c>>].current /\ ~(u = s /\ c = registry[s].live)
    BY DropShape
  <2>1. EntryOK(t)
    BY DEF RegistryInv
  <2>2. CASE t = s
    <3>1. \A c \in Conns : ~streams'[<<t, c>>].current
      BY <2>0, <2>1, <2>2 DEF EntryOK
    <3>2. t \notin exec'.todo
      BY <2>2
    <3>3. \A c \in Conns : c # 0
      BY DEF Conns
    <3> QED BY <2>0, <2>2, <3>1, <3>2, <3>3, NoEntryFields, EntryShape DEF EntryOK
  <2>3. CASE t # s
    <3>1. registry'[t] = registry[t] /\ (t \in exec.todo <=> t \in exec'.todo)
      BY <2>0, <2>3
    <3>2. \A c \in Conns : streams'[<<t, c>>].current <=> streams[<<t, c>>].current
      BY <2>0, <2>3
    <3> QED BY <2>1, <3>1, <3>2 DEF EntryOK
  <2> QED BY <2>2, <2>3
<1> QED BY <1>1

\* Detaching an output keeps the registry consistent.
LEMMA DetachRegistry ==
    ASSUME ShapeInv, RegistryInv, ExecIdle, NEW c \in Conns, Detach(c),
           UNCHANGED <<newest, nextSub, exec, client>>
    PROVE  RegistryInv'
<1>0. exec.todo = {}
  BY DEF ExecIdle, IdleExec
<1>1. ASSUME NEW t \in Subs PROVE EntryOK(t)'
  <2>0. EntryDetached(t, c)
    BY DetachShape
  <2>a. \A d \in Conns : streams'[<<t, d>>].current <=>
                       streams[<<t, d>>].current /\ ~(d = c /\ registry[t].live = c)
    BY DetachShape
  <2>1. EntryOK(t) /\ \A d \in Conns : d # 0
    BY EntryShape DEF RegistryInv
  <2>2. CASE registry[t].live # c
    <3>1. \A d \in Conns : streams'[<<t, d>>].current <=> streams[<<t, d>>].current
      BY <2>a, <2>2
    <3> QED BY <2>0, <2>1, <2>2, <3>1 DEF EntryOK, EntryDetached
  <2>3. CASE registry[t].live = c
    <3>1. \A d \in Conns : ~streams'[<<t, d>>].current
      BY <2>a, <2>1, <2>3 DEF EntryOK
    <3>2. registry[t].scope # 0 /\ ~(t >= nextSub)
      BY <2>1, <2>3, NoEntryFields DEF EntryOK
    <3>3. CASE registry'[t] = NoEntry
      BY <1>0, <2>1, <3>1, <3>3, NoEntryFields, EntryShape DEF EntryOK
    <3>4. CASE registry'[t] # NoEntry
      BY <1>0, <2>0, <2>1, <2>3, <3>1, <3>2, <3>4 DEF EntryOK, EntryDetached
    <3> QED BY <3>3, <3>4
  <2> QED BY <2>2, <2>3
<1>2. ExecOK'
  BY DEF RegistryInv, ExecOK
<1> QED BY <1>1, <1>2 DEF RegistryInv

\* Registering a connection keeps the registry consistent.
LEMMA RegisterRegistry ==
    ASSUME ShapeInv, RegistryInv, ExecIdle, NEW c \in Conns, NEW old \in 0 .. MaxConns, old # c,
           Register(c, old), c <= client.opened, \A s \in Subs : registry[s].scope # c,
           UNCHANGED <<newest, nextSub, exec, client>>
    PROVE  RegistryInv'
<1>0. exec.todo = {}
  BY DEF ExecIdle, IdleExec
<1>a. \A s \in Subs : /\ registry[s].scope # c /\ registry[s].live \in {0, registry[s].scope}
                      /\ registry[s].scope = 0 => registry[s] = NoEntry
  BY DEF RegistryInv, EntryOK
<1>1. ASSUME NEW t \in Subs PROVE EntryOK(t)'
  <2>1. EntryOK(t) /\ \A d \in Conns : d # 0
    BY EntryShape DEF RegistryInv
  <2>2. CASE old = 0 \/ registry[t].scope # old
    <3>1. registry'[t] = registry[t] /\ TailKept(t)
      BY <1>a, <2>2, RegisterShape
    <3> QED BY <2>1, <3>1 DEF EntryOK, TailKept
  <2>3. CASE old # 0 /\ registry[t].scope = old
    <3>1. EntryMoved(t, c) /\ TailMoved(t, c)
      BY <1>a, <2>3, RegisterShape
    <3>3. registry[t].scope # 0 /\ ~(t >= nextSub) /\ c # 0
      BY <2>1, <2>3, NoEntryFields DEF EntryOK
    <3>4. \A d \in Conns \ {c} : ~streams'[<<t, d>>].current
      BY <2>1, <3>1 DEF EntryOK, TailMoved
    <3>5. streams'[<<t, c>>].current <=> registry[t].live # 0 /\ ~lane[c].closed
      <4>1. CASE registry[t].live # 0
        <5>1. streams'[<<t, c>>] = [written |-> registry[t].admitted, current |-> ~lane[c].closed]
          BY <3>1, <4>1 DEF TailMoved
        <5>2. streams'[<<t, c>>].current = ~lane[c].closed /\ lane[c].closed \in BOOLEAN
          BY <5>1, LaneShape
        <5>3. CASE lane[c].closed
          BY <5>2, <5>3
        <5>4. CASE ~lane[c].closed
          BY <4>1, <5>2, <5>4
        <5> QED BY <5>3, <5>4
      <4>2. CASE registry[t].live = 0
        BY <2>1, <3>1, <3>3, <4>2 DEF EntryOK, TailMoved
      <4> QED BY <4>1, <4>2
    <3>6. CASE registry'[t] = NoEntry
      <4>1. \A d \in Conns : ~streams'[<<t, d>>].current
        BY <3>1, <3>3, <3>4, <3>5, <3>6, NoEntryFields DEF EntryMoved
      <4> QED BY <1>0, <2>1, <3>6, <4>1, NoEntryFields, EntryShape DEF EntryOK
    <3>7. CASE registry'[t] # NoEntry
      <4>1. \A d \in Conns : streams'[<<t, d>>].current <=> registry'[t].live = d
        BY <2>1, <3>1, <3>4, <3>5, <3>7 DEF EntryMoved
      <4> QED BY <1>0, <2>1, <3>1, <3>3, <3>7, <4>1 DEF EntryOK, EntryMoved
    <3> QED BY <3>6, <3>7
  <2> QED BY <2>2, <2>3
<1>2. ExecOK'
  BY DEF RegistryInv, ExecOK
<1> QED BY <1>1, <1>2 DEF RegistryInv

\* The executor's own work keeps the registry consistent.
LEMMA CatchUpRegistry ==
    ASSUME ShapeInv, RegistryInv, NEW s \in Subs, CatchUp(s)
    PROVE  RegistryInv'
<1>0. /\ UNCHANGED <<newest, nextSub, client>> /\ exec \in ExecSet
      /\ exec' = CaughtUp(s) \/ exec' = [exec EXCEPT !.now = s]
  BY DEF CatchUp, ShapeInv
<1>1. exec'.to = exec.to /\ exec'.reply = exec.reply
  BY <1>0 DEF ExecSet, CaughtUp
<1>2. ExecOK'
  BY <1>1 DEF RegistryInv, ExecOK
<1>3. CASE DropEntry(s) /\ exec' = CaughtUp(s)
  <2>1. exec'.todo = exec.todo \ {s}
    BY <1>0, <1>3 DEF ExecSet, CaughtUp
  <2>2. \A t \in Subs : EntryOK(t)'
    BY <1>0, <1>3, <2>1, DropRegistry
  <2> QED BY <1>2, <2>2 DEF RegistryInv
<1>4. CASE UNCHANGED <<registry, streams>> /\ exec' = CaughtUp(s) /\ registry[s].admitted = newest
  <2>1. exec'.todo = exec.todo \ {s}
    BY <1>0, <1>4 DEF ExecSet, CaughtUp
  <2>2. ASSUME NEW t \in Subs PROVE EntryOK(t)'
    <3>1. EntryOK(t)
      BY DEF RegistryInv
    <3> QED BY <1>0, <1>4, <2>1, <3>1 DEF EntryOK
  <2> QED BY <1>2, <2>2 DEF RegistryInv
<1>5. CASE /\ registry' = [registry EXCEPT ![s].admitted = @ + 1] /\ UNCHANGED streams
           /\ exec' = [exec EXCEPT !.now = s] /\ registry[s].admitted < newest
  <2>1. exec'.todo = exec.todo /\ s \in exec.todo
    BY <1>0, <1>5 DEF ExecSet, CatchUp
  <2>2. ASSUME NEW t \in Subs PROVE EntryOK(t)'
    <3>1. EntryOK(t)
      BY DEF RegistryInv
    <3>2. CASE t # s
      <4>1. registry'[t] = registry[t]
        BY <1>5, <3>2 DEF ShapeInv
      <4> QED BY <1>0, <1>5, <2>1, <3>1, <4>1 DEF EntryOK
    <3>3. CASE t = s
      <4>0. registry[s] \in EntrySet /\ registry[s].admitted \in Nat /\ newest \in Nat
        BY EntryShape
      <4>1. /\ registry'[s].live = registry[s].live /\ registry'[s].scope = registry[s].scope
            /\ registry'[s].frozen = registry[s].frozen /\ registry'[s].through = registry[s].through
            /\ registry'[s].admitted = registry[s].admitted + 1
        BY <1>5, <4>0 DEF ShapeInv, EntrySet
      <4>2. registry[s].live # 0
        BY <2>1, <3>1, <3>3 DEF EntryOK
      <4>3. registry[s].scope # 0 /\ ~(s >= nextSub)
        BY <3>1, <3>3, <4>2, NoEntryFields DEF EntryOK
      <4>4. registry[s].admitted + 1 <= newest
        BY <1>5, <4>0
      <4> QED BY <1>0, <1>5, <2>1, <3>1, <3>3, <4>1, <4>2, <4>3, <4>4 DEF EntryOK
    <3> QED BY <3>2, <3>3
  <2> QED BY <1>2, <2>2 DEF RegistryInv
<1> QED BY <1>3, <1>4, <1>5 DEF CatchUp

\* The conditions an answer of the executor meets.
LEMMA AnswerExec ==
    ASSUME NEW c \in Conns, NEW f, NEW todo, f.kind \in Replies, exec' = Answer(c, f, todo)
    PROVE  ExecOK' /\ exec'.todo = todo /\ exec'.to = c /\ exec'.reply = f
<1>1. exec'.todo = todo /\ exec'.to = c /\ exec'.reply = f /\ c # 0
  BY DEF Answer, Conns
<1>2. f # None
  BY NoneShape
<1> QED BY <1>1, <1>2 DEF ExecOK

\* A newly opened entry is consistent, and so are the others.
LEMMA OpenRegistry ==
    ASSUME ShapeInv, RegistryInv, exec.todo = {}, NEW c \in Conns, c <= client.opened, NEW after \in Nat,
           NEW n \in Subs, n = nextSub, NEW victim \in Subs \cup {0}, Opens(n, c, after, victim),
           UNCHANGED <<newest, client>>
    PROVE  RegistryInv'
<1>a. /\ nextSub' = n + 1 /\ exec' = Answer(c, PageAfter(n, after, newest), {n})
      /\ n \in Nat /\ newest \in Nat /\ \A d \in Conns : d # 0
  BY EntryShape DEF Opens
<1>1. PageAfter(n, after, newest).kind \in Replies
  BY <1>a, PageShape DEF Replies
<1>2. ExecOK' /\ exec'.todo = {n}
  BY <1>1, <1>a, AnswerExec
<1>3. ASSUME NEW t \in Subs PROVE EntryOK(t)
  BY DEF RegistryInv
<1>4. ASSUME NEW t \in Subs, t # n PROVE EntryOK(t)'
  <2>0. t \in Nat
    BY EntryShape
  <2>1. \A d \in Conns : streams'[<<t, d>>] = streams[<<t, d>>]
    BY <1>4 DEF Opens
  <2>2. CASE t = victim
    <3>a. registry'[t] = IF t = victim THEN NoEntry ELSE registry[t]
      BY <1>4 DEF Opens
    <3>b. victim # 0
      BY <2>2 DEF Subs
    <3>c. registry[victim].live = 0
      BY <3>b DEF Opens
    <3>1. registry'[t] = NoEntry /\ registry[t].live = 0 /\ t \notin exec'.todo
      BY <1>2, <1>4, <2>2, <3>a, <3>c
    <3>2. \A d \in Conns : ~streams'[<<t, d>>].current
      BY <1>3, <1>a, <2>1, <3>1 DEF EntryOK
    <3>3. client.opened \in Nat /\ client' = client /\ newest' = newest
      BY EntryShape
    <3> QED BY <1>a, <3>1, <3>2, <3>3, NoEntryFields DEF EntryOK
  <2>3. CASE t # victim
    <3>1. registry'[t] = registry[t] /\ t \notin exec'.todo /\ t \notin exec.todo
      BY <1>2, <1>4, <2>3 DEF Opens
    <3>2. t >= nextSub' => t >= nextSub
      BY <1>a, <2>0
    <3> QED BY <1>3, <2>1, <3>1, <3>2 DEF EntryOK
  <2> QED BY <2>2, <2>3
<1>5. EntryOK(n)'
  <2>1. /\ registry'[n].scope = c /\ registry'[n].live = c
        /\ registry'[n].through = newest /\ registry'[n].admitted = newest
    BY DEF Opens
  <2>2. registry[n].live = 0
    BY <1>3, <1>a, NoEntryFields DEF EntryOK
  <2>3. ASSUME NEW d \in Conns PROVE streams'[<<n, d>>].current <=> c = d
    <3>1. CASE d = c
      <4>1. streams'[<<n, d>>].current = TRUE
        BY <3>1 DEF Opens
      <4> QED BY <3>1, <4>1
    <3>2. CASE d # c
      <4>1. streams'[<<n, d>>] = streams[<<n, d>>]
        BY <3>2 DEF Opens
      <4> QED BY <1>3, <1>a, <2>2, <3>2, <4>1 DEF EntryOK
    <3> QED BY <3>1, <3>2
  <2>4. ~(n >= nextSub') /\ n \in exec'.todo /\ c # 0 /\ newest <= newest
    BY <1>2, <1>a
  <2> QED BY <2>1, <2>3, <2>4 DEF EntryOK
<1> QED BY <1>2, <1>4, <1>5 DEF RegistryInv

\* Continuing a replay keeps the registry consistent.
LEMMA ContinueRegistry ==
    ASSUME ShapeInv, RegistryInv, exec.todo = {}, NEW c \in Conns, NEW s \in Subs, NEW cursor \in Nat,
           ServeContinue(c, s, cursor), UNCHANGED <<newest, nextSub, client>>
    PROVE  RegistryInv'
<1> DEFINE page == PageAfter(s, cursor, registry[s].through)
<1>0. page.kind \in Replies /\ \A d \in Conns : d # 0
  BY ContinueShape, EntryShape DEF Replies
<1>a. ASSUME NEW t \in Subs PROVE EntryOK(t)
  BY DEF RegistryInv
<1>1. CASE exec' = Answer(c, Frame("refused", s, 0, 0, 0), {}) /\ UNCHANGED <<registry, streams>>
  <2>1. Frame("refused", s, 0, 0, 0).kind \in Replies
    BY DEF Frame, Replies
  <2>2. ExecOK' /\ exec'.todo = {}
    BY <1>1, <2>1, AnswerExec
  <2>3. ASSUME NEW t \in Subs PROVE EntryOK(t)'
    BY <1>1, <1>a, <2>2 DEF EntryOK
  <2> QED BY <2>2, <2>3 DEF RegistryInv
<1>2. CASE /\ registry[s].scope = c /\ BindLive(s, c, page.hi < page.end)
           /\ exec' = Answer(c, page, IF page.hi < page.end THEN {} ELSE {s})
  <2> DEFINE frozen == page.hi < page.end
  <2>0. registry[s].live \in {0, c} /\ frozen \in BOOLEAN /\ BindLive(s, c, frozen)
    BY <1>a, <1>2 DEF EntryOK
  <2>1. ExecOK' /\ exec'.todo = IF frozen THEN {} ELSE {s}
    BY <1>0, <1>2, AnswerExec
  <2> HIDE DEF page, frozen
  <2>2. EntryBound(s, c, frozen) /\ TailBound(s, c)
    BY <2>0, BindShape
  <2>3. ASSUME NEW t \in Subs, t # s PROVE EntryOK(t)'
    <3>1. registry'[t] = registry[t] /\ t \notin exec'.todo
      BY <2>1, <2>2, <2>3 DEF EntryBound
    <3>2. \A d \in Conns : streams'[<<t, d>>] = streams[<<t, d>>]
      BY <2>2, <2>3 DEF TailBound
    <3> QED BY <1>a, <3>1, <3>2 DEF EntryOK
  <2>4. EntryOK(s)'
    <3>0. EntryOK(s) /\ registry[s].scope # 0 /\ ~(s >= nextSub)
      BY <1>0, <1>2, <1>a, NoEntryFields DEF EntryOK
    <3>1. ASSUME NEW d \in Conns PROVE streams'[<<s, d>>].current <=> c = d
      <4>1. CASE registry[s].live = c
        BY <2>2, <3>0, <4>1 DEF EntryOK, TailBound
      <4>2. CASE registry[s].live # c /\ d = c
        <5>1. streams'[<<s, d>>].current = TRUE
          BY <2>2, <4>2 DEF TailBound
        <5> QED BY <4>2, <5>1
      <4>3. CASE registry[s].live # c /\ d # c
        <5>1. streams'[<<s, d>>] = streams[<<s, d>>] /\ registry[s].live = 0
          BY <2>0, <2>2, <4>3 DEF TailBound
        <5> QED BY <1>0, <3>0, <4>3, <5>1 DEF EntryOK
      <4> QED BY <4>1, <4>2, <4>3
    <3>2. c # 0 /\ (s \notin exec'.todo => frozen)
      BY <1>0, <2>1
    <3>3. /\ registry'[s].live = c /\ registry'[s].scope = c /\ registry'[s].frozen = frozen
          /\ registry'[s].through = registry[s].through
          /\ registry'[s].admitted = registry[s].admitted \/ registry'[s].admitted = registry[s].through
      BY <1>2, <2>2 DEF EntryBound
    <3> QED BY <1>2, <3>0, <3>1, <3>2, <3>3 DEF EntryOK
  <2> QED BY <2>1, <2>3, <2>4 DEF RegistryInv
<1> QED BY <1>1, <1>2 DEF ServeContinue

\* Releasing a replay keeps the registry consistent.
LEMMA ReleaseRegistry ==
    ASSUME ShapeInv, RegistryInv, exec.todo = {}, NEW c \in Conns, NEW s \in Subs,
           ServeRelease(c, s), UNCHANGED <<newest, nextSub, client>>
    PROVE  RegistryInv'
<1>1. /\ Frame("refused", s, 0, 0, 0).kind \in Replies
      /\ Frame("released", s, 0, 0, 0).kind \in Replies
  BY DEF Frame, Replies
<1>2. ExecOK' /\ exec'.todo = {}
  BY <1>1, AnswerExec DEF ServeRelease
<1>3. CASE UNCHANGED <<registry, streams>>
  <2>1. ASSUME NEW t \in Subs PROVE EntryOK(t)'
    BY <1>2, <1>3 DEF EntryOK, RegistryInv
  <2> QED BY <1>2, <2>1 DEF RegistryInv
<1>4. CASE DropEntry(s)
  <2>1. \A t \in Subs : EntryOK(t)'
    BY <1>2, <1>4, DropRegistry
  <2> QED BY <1>2, <2>1 DEF RegistryInv
<1> QED BY <1>3, <1>4 DEF ServeRelease

\* A request that is served: its fields, and what the step leaves alone.
LEMMA ServedJob ==
    ASSUME ShapeInv, ConnInv, Serve
    PROVE  \E j \in JobSet :
             /\ j = Head(jobs) /\ j \in In(jobs) /\ jobs \in Seq(JobSet) /\ jobs # <<>> /\ jobs' = Tail(jobs)
             /\ j.conn \in Conns /\ j.sub \in 0 .. MaxSubs /\ j.arg \in Nat /\ ~Registering(j.conn)
             /\ (j.kind \in {"continue", "release"} => j.sub \in Subs)
             /\ j.conn <= client.opened /\ exec = IdleExec /\ exec.todo = {} /\ exec.to = 0
             /\ UNCHANGED <<newest, control, outputs, client>>
             /\ \/ /\ j.kind = "snapshot" /\ exec' = Answer(j.conn, Frame("snapshot", 0, 0, newest, 0), {})
                   /\ UNCHANGED <<nextSub, registry, streams, lane>>
                \/ j.kind = "open" /\ ServeOpen(j.conn, j.arg)
                \/ j.kind = "continue" /\ ServeContinue(j.conn, j.sub, j.arg) /\ UNCHANGED <<nextSub, lane>>
                \/ j.kind = "release" /\ ServeRelease(j.conn, j.sub) /\ UNCHANGED <<nextSub, lane>>
<1> DEFINE j == Head(jobs)
<1>0. jobs \in Seq(JobSet) /\ jobs # <<>> /\ jobs' = Tail(jobs) /\ exec.todo = {} /\ exec = IdleExec /\ exec.to = 0
  BY DEF ShapeInv, Serve, ExecIdle, IdleExec
<1>1. j \in JobSet /\ j \in In(jobs)
  BY <1>0, Queues
<1>2. /\ ~Registering(j.conn) /\ UNCHANGED <<newest, control, outputs, client>>
      /\ \/ /\ j.kind = "snapshot" /\ exec' = Answer(j.conn, Frame("snapshot", 0, 0, newest, 0), {})
            /\ UNCHANGED <<nextSub, registry, streams, lane>>
         \/ j.kind = "open" /\ ServeOpen(j.conn, j.arg)
         \/ j.kind = "continue" /\ ServeContinue(j.conn, j.sub, j.arg) /\ UNCHANGED <<nextSub, lane>>
         \/ j.kind = "release" /\ ServeRelease(j.conn, j.sub) /\ UNCHANGED <<nextSub, lane>>
  BY DEF Serve
<1>3. /\ j.conn \in Conns /\ j.sub \in 0 .. MaxSubs /\ j.arg \in Nat
      /\ (j.kind \in {"continue", "release"} => j.sub \in Subs)
  BY <1>1 DEF JobSet
<1>4. j.conn \in Nat /\ client.opened \in Nat /\ ~(j.conn > client.opened)
  BY <1>1, <1>3, ClientShape, Bounds DEF Conns, ConnInv
<1>5. j.conn <= client.opened
  BY <1>4
<1> QED BY <1>0, <1>1, <1>2, <1>3, <1>5

\* Serving a request keeps the registry consistent.
LEMMA ServeRegistry ==
    ASSUME ShapeInv, RegistryInv, ConnInv, Serve
    PROVE  RegistryInv'
<1>1. PICK j \in JobSet :
             /\ j.conn \in Conns /\ j.sub \in 0 .. MaxSubs /\ j.arg \in Nat
             /\ (j.kind \in {"continue", "release"} => j.sub \in Subs)
             /\ j.conn <= client.opened /\ exec.todo = {}
             /\ UNCHANGED <<newest, client>>
             /\ \/ /\ j.kind = "snapshot" /\ exec' = Answer(j.conn, Frame("snapshot", 0, 0, newest, 0), {})
                   /\ UNCHANGED <<nextSub, registry, streams, lane>>
                \/ j.kind = "open" /\ ServeOpen(j.conn, j.arg)
                \/ j.kind = "continue" /\ ServeContinue(j.conn, j.sub, j.arg) /\ UNCHANGED <<nextSub, lane>>
                \/ j.kind = "release" /\ ServeRelease(j.conn, j.sub) /\ UNCHANGED <<nextSub, lane>>
  BY ServedJob
<1>2. CASE /\ exec' = Answer(j.conn, Frame("snapshot", 0, 0, newest, 0), {})
           /\ UNCHANGED <<nextSub, registry, streams, lane>>
  <2>1. Frame("snapshot", 0, 0, newest, 0).kind \in Replies
    BY DEF Frame, Replies
  <2>2. ExecOK' /\ exec'.todo = {}
    BY <1>1, <1>2, <2>1, AnswerExec
  <2>3. ASSUME NEW t \in Subs PROVE EntryOK(t)'
    <3>1. EntryOK(t)
      BY DEF RegistryInv
    <3> QED BY <1>1, <1>2, <2>2, <3>1 DEF EntryOK
  <2> QED BY <2>2, <2>3 DEF RegistryInv
<1>3. CASE ServeOpen(j.conn, j.arg)
  <2>1. CASE UNCHANGED <<nextSub, registry, streams, exec>>
    <3>1. ASSUME NEW t \in Subs PROVE EntryOK(t)'
      <4>1. EntryOK(t)
        BY DEF RegistryInv
      <4> QED BY <1>1, <2>1, <4>1 DEF EntryOK
    <3>2. ExecOK'
      BY <2>1 DEF RegistryInv, ExecOK
    <3> QED BY <3>1, <3>2 DEF RegistryInv
  <2>2. CASE ~UNCHANGED <<nextSub, registry, streams, exec>>
    <3>1. nextSub \in Subs /\ \E v \in Subs \cup {0} : Opens(nextSub, j.conn, j.arg, v)
      BY <1>1, <1>3, <2>2, OpenShape
    <3>2. PICK n \in Subs : n = nextSub /\ \E v \in Subs \cup {0} : Opens(n, j.conn, j.arg, v)
      BY <3>1
    <3>3. PICK victim \in Subs \cup {0} : Opens(n, j.conn, j.arg, victim)
      BY <3>2
    <3> QED BY <1>1, <3>2, <3>3, OpenRegistry
  <2> QED BY <2>1, <2>2
<1>4. CASE j.kind = "continue" /\ ServeContinue(j.conn, j.sub, j.arg) /\ UNCHANGED <<nextSub, lane>>
  BY <1>1, <1>4, ContinueRegistry
<1>5. CASE j.kind = "release" /\ ServeRelease(j.conn, j.sub) /\ UNCHANGED <<nextSub, lane>>
  BY <1>1, <1>5, ReleaseRegistry
<1> QED BY <1>1, <1>2, <1>3, <1>4, <1>5

\* All the lanes but one are as they were.
LanesKept(c) == \A d \in Conns \ {c} : lane'[d] = lane[d]

\* What a lane looks like when frames were only added to or taken from the queues named.
KeepsAllBut(l, m, changed) ==
    /\ "critical" \in changed \/ m.critical = l.critical
    /\ "durable" \in changed \/ m.durable = l.durable
    /\ "writing" \in changed \/ m.writing = l.writing
    /\ "wire" \in changed \/ m.wire = l.wire
    /\ "answer" \in changed \/ m.answer = l.answer
    /\ "shutdown" \in changed \/ m.shutdown = l.shutdown
    /\ m.closed = l.closed

Gone(s, c) ==
    /\ c \notin outputs \/ lane[c].shutdown
    /\ DropEntry(s) /\ lane' = lane
Admits(s, c) ==
    /\ ~lane[c].shutdown /\ registry[s].admitted < newest /\ streams' = streams
    /\ LanesKept(c) /\ KeepsAllBut(lane[c], lane'[c], {"durable"})
    /\ lane'[c].durable = Append(lane[c].durable, Frame("event", s, 0, registry[s].admitted + 1, 0))
    /\ \A t \in Subs \ {s} : registry'[t] = registry[t]
    /\ registry'[s].scope = registry[s].scope /\ registry'[s].live = registry[s].live
    /\ registry'[s].frozen = registry[s].frozen /\ registry'[s].through = registry[s].through
    /\ registry'[s].admitted = registry[s].admitted + 1
Resyncs(s, c) ==
    /\ ~lane[c].shutdown /\ DropEntry(s) /\ LanesKept(c)
    /\ \E f \in FrameSet : /\ f.kind = "resync" /\ f.sub = s /\ f.hi = newest
                           /\ lane'[c] = AdmitCritical(lane[c], f)
CaughtUpBy(s, c) ==
    /\ c = registry[s].live /\ UNCHANGED <<newest, nextSub, jobs, control, outputs, client>>
    /\ exec'.to = exec.to /\ exec'.reply = exec.reply
    /\ \/ Gone(s, c)
       \/ UNCHANGED <<registry, streams, lane>>
       \/ Admits(s, c)
       \/ Resyncs(s, c)

\* The four outcomes of one step of the catch-up.
LEMMA CatchUpCases ==
    ASSUME ShapeInv, RegistryInv, NEW s \in Subs, CatchUp(s)
    PROVE  \E c \in Conns : CaughtUpBy(s, c)
<1>1. PICK c \in Conns : c = registry[s].live
  <2>1. registry[s].live # 0
    BY DEF CatchUp, RegistryInv, EntryOK
  <2> QED BY <2>1, EntryShape, Bounds DEF Conns
<1>2. UNCHANGED <<newest, nextSub, jobs, control, outputs, client>>
  BY DEF CatchUp
<1>3. exec'.to = exec.to /\ exec'.reply = exec.reply
  <2>1. exec \in ExecSet
    BY DEF ShapeInv
  <2>2. exec' = CaughtUp(s) \/ exec' = [exec EXCEPT !.now = s]
    BY DEF CatchUp
  <2> QED BY <2>1, <2>2 DEF CaughtUp, ExecSet
<1>4. \/ Gone(s, c)
      \/ UNCHANGED <<registry, streams, lane>>
      \/ Admits(s, c)
      \/ Resyncs(s, c)
  <2>0. registry[s] \in EntrySet /\ registry \in [Subs -> EntrySet] /\ lane \in [Conns -> LaneSet]
    BY DEF ShapeInv
  <2>1. CASE (c \notin outputs \/ lane[c].shutdown) /\ DropEntry(s) /\ UNCHANGED lane
    BY <2>1 DEF Gone
  <2>2. CASE UNCHANGED <<registry, streams, lane>>
    BY <2>2
  <2>3. CASE /\ ~lane[c].shutdown /\ registry[s].admitted < newest
             /\ lane' = [lane EXCEPT ![c].durable =
                            Append(@, Frame("event", s, 0, registry[s].admitted + 1, 0))]
             /\ registry' = [registry EXCEPT ![s].admitted = @ + 1]
             /\ UNCHANGED streams
    <3>1. /\ LanesKept(c)
          /\ lane'[c] = [lane[c] EXCEPT !.durable =
                            Append(@, Frame("event", s, 0, registry[s].admitted + 1, 0))]
      BY <2>0, <2>3 DEF LanesKept
    <3>2. /\ KeepsAllBut(lane[c], lane'[c], {"durable"})
          /\ lane'[c].durable = Append(lane[c].durable, Frame("event", s, 0, registry[s].admitted + 1, 0))
      BY <2>0, <3>1 DEF KeepsAllBut, LaneSet
    <3>3. /\ \A t \in Subs \ {s} : registry'[t] = registry[t]
          /\ registry'[s] = [registry[s] EXCEPT !.admitted = @ + 1]
      BY <2>0, <2>3
    <3>4. /\ registry'[s].scope = registry[s].scope /\ registry'[s].live = registry[s].live
          /\ registry'[s].frozen = registry[s].frozen /\ registry'[s].through = registry[s].through
          /\ registry'[s].admitted = registry[s].admitted + 1
      BY <2>0, <3>3 DEF EntrySet
    <3> QED BY <2>3, <3>1, <3>2, <3>3, <3>4 DEF Admits
  <2>4. CASE /\ ~lane[c].shutdown /\ DropEntry(s)
             /\ lane' = [lane EXCEPT ![c] = AdmitCritical(@, Frame("resync", s, streams[<<s, c>>].written,
                                                                   newest, 0))]
    <3>1. PICK f : f = Frame("resync", s, streams[<<s, c>>].written, newest, 0)
      OBVIOUS
    <3>2. f \in FrameSet /\ f.kind = "resync" /\ f.sub = s /\ f.hi = newest
      <4>1. streams[<<s, c>>].written \in Nat /\ newest \in Nat /\ s \in 0 .. MaxSubs /\ 0 \in Nat
        BY EntryShape, Bounds DEF Subs
      <4>2. "resync" \in Kinds
        BY DEF Kinds
      <4> QED BY <3>1, <4>1, <4>2, FrameShape
    <3>3. LanesKept(c) /\ lane'[c] = AdmitCritical(lane[c], f)
      BY <2>0, <2>4, <3>1 DEF LanesKept
    <3> QED BY <2>4, <3>2, <3>3 DEF Resyncs
  <2> QED BY <1>1, <2>1, <2>2, <2>3, <2>4 DEF CatchUp
<1> QED BY <1>1, <1>2, <1>3, <1>4 DEF CaughtUpBy

\* The answer of the executor reaches the reader of the connection.
HandsOver(c) ==
    /\ c = exec.to /\ exec.reply.kind \in Replies /\ exec.reply \in FrameSet
    /\ exec' = IdleExec /\ exec'.to = 0 /\ exec'.reply = None
    /\ UNCHANGED <<newest, nextSub, registry, streams, jobs, control, outputs, client>>
    /\ LanesKept(c) /\ KeepsAllBut(lane[c], lane'[c], {"answer"})
    /\ lane'[c].answer \in {None, exec.reply}

\* What handing a reply to the reader of a connection changes.
LEMMA ReplyCases ==
    ASSUME ShapeInv, RegistryInv, Reply
    PROVE  \E c \in Conns : HandsOver(c)
<1>1. exec.to \in Conns /\ exec.reply \in FrameSet /\ exec.reply.kind \in Replies
  BY Bounds DEF Reply, ShapeInv, ExecSet, RegistryInv, ExecOK, Conns
<1>2. PICK c \in Conns : c = exec.to
  BY <1>1
<1>3. exec' = IdleExec /\ exec'.to = 0 /\ exec'.reply = None
  BY DEF Reply, IdleExec
<1>4. PICK f : f = IF lane[c].closed THEN None ELSE exec.reply
  OBVIOUS
<1>5. lane \in [Conns -> LaneSet] /\ lane' = [lane EXCEPT ![c].answer = f]
  BY <1>2, <1>4 DEF ShapeInv, Reply
<1>6. LanesKept(c) /\ lane'[c] = [lane[c] EXCEPT !.answer = f]
  BY <1>5 DEF LanesKept
<1>7. KeepsAllBut(lane[c], lane'[c], {"answer"}) /\ lane'[c].answer = f
  BY <1>5, <1>6 DEF KeepsAllBut, LaneSet
<1>8. UNCHANGED <<newest, nextSub, registry, streams, jobs, control, outputs, client>>
  BY DEF Reply
<1> QED BY <1>1, <1>2, <1>3, <1>4, <1>6, <1>7, <1>8 DEF HandsOver

\* A served continue is refused, or binds the tail and answers with the next page.
Continues(c, s, cursor) ==
    \/ /\ exec' = Answer(c, Frame("refused", s, 0, 0, 0), {})
       /\ UNCHANGED <<registry, streams>>
       /\ registry[s].scope # c \/ ~registry[s].frozen
    \/ /\ registry[s].scope = c /\ registry[s].frozen
       /\ EntryBound(s, c, PageAfter(s, cursor, registry[s].through).hi < registry[s].through)
       /\ TailBound(s, c)
       /\ exec'.to = c /\ exec'.reply = PageAfter(s, cursor, registry[s].through)

\* What continuing a replay changes.
LEMMA ContinueCases ==
    ASSUME ShapeInv, RegistryInv, NEW c \in Conns, NEW s \in Subs, NEW cursor \in Nat,
           ServeContinue(c, s, cursor)
    PROVE  Continues(c, s, cursor)
<1>1. CASE exec' = Answer(c, Frame("refused", s, 0, 0, 0), {}) /\ UNCHANGED <<registry, streams>>
           /\ (registry[s].scope # c \/ ~registry[s].frozen)
  BY <1>1 DEF Continues
<1>2. CASE /\ registry[s].scope = c /\ registry[s].frozen
           /\ LET page == PageAfter(s, cursor, registry[s].through) IN
              /\ BindLive(s, c, page.hi < page.end)
              /\ exec' = Answer(c, page, IF page.hi < page.end THEN {} ELSE {s})
  <2> DEFINE page == PageAfter(s, cursor, registry[s].through)
  <2>1. page.end = registry[s].through /\ (page.hi < page.end) \in BOOLEAN
    BY ContinueShape
  <2>2. registry[s].live \in {0, c}
    BY <1>2 DEF RegistryInv, EntryOK
  <2>3. BindLive(s, c, page.hi < page.end)
    BY <1>2
  <2>4. EntryBound(s, c, page.hi < page.end) /\ TailBound(s, c)
    BY <2>1, <2>2, <2>3, BindShape
  <2>5. exec'.to = c /\ exec'.reply = page
    BY <1>2 DEF Answer
  <2> QED BY <1>2, <2>1, <2>4, <2>5 DEF Continues
<1> QED BY <1>1, <1>2 DEF ServeContinue

\* The reply of the connection is admitted.
Admitted(c) ==
    /\ lane[c].answer # None /\ LanesKept(c)
    /\ KeepsAllBut(lane[c], lane'[c], {"critical", "answer", "shutdown"})
    /\ lane'[c].answer = None
    /\ \/ ~lane[c].shutdown /\ ~lane'[c].shutdown /\ lane'[c].critical = Append(lane[c].critical, lane[c].answer)
       \/ lane'[c].shutdown /\ lane'[c].critical = lane[c].critical

\* What admitting a reply to the critical lane changes.
LEMMA AdmitReplyCases ==
    ASSUME ShapeInv, NEW c \in Conns, AdmitReply(c)
    PROVE  /\ Admitted(c)
           /\ UNCHANGED <<newest, nextSub, registry, streams, exec, jobs, control, outputs, client>>
<1>1. /\ lane[c].answer # None
      /\ lane' = [lane EXCEPT ![c] = [AdmitCritical(@, @.answer) EXCEPT !.answer = None]]
      /\ UNCHANGED <<newest, nextSub, registry, streams, exec, jobs, control, outputs, client>>
  BY DEF AdmitReply
<1>2. lane \in [Conns -> LaneSet] /\ lane[c] \in LaneSet /\ lane[c].answer \in FrameSet
  BY LaneShape DEF ShapeInv
<1>3. PICK m : m = AdmitCritical(lane[c], lane[c].answer)
  OBVIOUS
<1>4. /\ m \in LaneSet
      /\ m.durable = lane[c].durable /\ m.writing = lane[c].writing /\ m.wire = lane[c].wire
      /\ m.closed = lane[c].closed
      /\ \/ ~lane[c].shutdown /\ ~m.shutdown /\ m.critical = Append(lane[c].critical, lane[c].answer)
         \/ m.shutdown /\ m.critical = lane[c].critical
  BY <1>2, <1>3, AdmitShape
<1>5. LanesKept(c) /\ lane'[c] = [m EXCEPT !.answer = None]
  BY <1>1, <1>2, <1>3 DEF LanesKept
<1>6. /\ lane'[c].durable = m.durable /\ lane'[c].writing = m.writing /\ lane'[c].wire = m.wire
      /\ lane'[c].closed = m.closed /\ lane'[c].shutdown = m.shutdown /\ lane'[c].critical = m.critical
      /\ lane'[c].answer = None
  BY <1>4, <1>5 DEF LaneSet
<1>7. KeepsAllBut(lane[c], lane'[c], {"critical", "answer", "shutdown"})
  BY <1>4, <1>6 DEF KeepsAllBut
<1> QED BY <1>1, <1>4, <1>5, <1>6, <1>7 DEF Admitted

\* The writer takes the next frame, the critical ones first.
TakesCritical(c) ==
    /\ lane[c].critical # <<>> /\ KeepsAllBut(lane[c], lane'[c], {"critical", "writing"})
    /\ lane'[c].critical = Tail(lane[c].critical)
    /\ lane'[c].writing = Prepared(Head(lane[c].critical), c)
TakesDurable(c) ==
    /\ lane[c].critical = <<>> /\ lane[c].durable # <<>>
    /\ KeepsAllBut(lane[c], lane'[c], {"durable", "writing"})
    /\ lane'[c].durable = Tail(lane[c].durable)
    /\ lane'[c].writing = IF streams[<<Head(lane[c].durable).sub, c>>].current
                          THEN Head(lane[c].durable) ELSE None
Takes(c) ==
    /\ lane[c].writing = None /\ ~lane[c].shutdown /\ LanesKept(c)
    /\ TakesCritical(c) \/ TakesDurable(c)

\* What the writer changes when it takes a frame.
LEMMA TakeCases ==
    ASSUME ShapeInv, NEW c \in Conns, Take(c)
    PROVE  Takes(c) /\ UNCHANGED <<newest, nextSub, registry, streams, exec, jobs, control, outputs, client>>
<1>0. lane \in [Conns -> LaneSet] /\ lane[c] \in LaneSet
  BY LaneShape DEF ShapeInv
<1>1. CASE /\ lane[c].critical # <<>>
           /\ lane' = [lane EXCEPT ![c].critical = Tail(@),
                                   ![c].writing = Prepared(Head(lane[c].critical), c)]
  <2>1. PICK w : w = Prepared(Head(lane[c].critical), c)
    OBVIOUS
  <2>2. LanesKept(c) /\ lane'[c] = [lane[c] EXCEPT !.critical = Tail(@), !.writing = w]
    BY <1>0, <1>1, <2>1 DEF LanesKept
  <2>3. TakesCritical(c)
    BY <1>0, <1>1, <2>1, <2>2 DEF KeepsAllBut, TakesCritical, LaneSet
  <2> QED BY <2>2, <2>3 DEF Take, Takes
<1>2. CASE /\ lane[c].critical = <<>> /\ lane[c].durable # <<>>
           /\ LET f == Head(lane[c].durable) IN
             lane' = [lane EXCEPT ![c].durable = Tail(@),
                        ![c].writing = IF streams[<<f.sub, c>>].current THEN f ELSE None]
  <2>1. PICK w : w = IF streams[<<Head(lane[c].durable).sub, c>>].current
                     THEN Head(lane[c].durable) ELSE None
    OBVIOUS
  <2>2. LanesKept(c) /\ lane'[c] = [lane[c] EXCEPT !.durable = Tail(@), !.writing = w]
    BY <1>0, <1>2, <2>1 DEF LanesKept
  <2>3. TakesDurable(c)
    BY <1>0, <1>2, <2>1, <2>2 DEF KeepsAllBut, TakesDurable, LaneSet
  <2> QED BY <2>2, <2>3 DEF Take, Takes
<1> QED BY <1>1, <1>2 DEF Take

\* A write returns.
Writes(c) ==
    /\ client.conn = c /\ lane[c].writing # None /\ LanesKept(c)
    /\ KeepsAllBut(lane[c], lane'[c], {"writing", "wire"})
    /\ lane'[c].writing = None /\ lane'[c].wire = Append(lane[c].wire, lane[c].writing)
    /\ \A s \in Subs, d \in Conns : streams'[<<s, d>>].current = streams[<<s, d>>].current
    /\ \A s \in Subs : streams'[<<s, c>>].written =
          IF IsEvent(lane[c].writing, s) /\ lane[c].writing.hi > streams[<<s, c>>].written
          THEN lane[c].writing.hi ELSE streams[<<s, c>>].written

\* What the return of a physical write changes.
LEMMA WrittenCases ==
    ASSUME ShapeInv, NEW c \in Conns, Written(c)
    PROVE  Writes(c) /\ UNCHANGED <<newest, nextSub, registry, exec, jobs, control, outputs, client>>
<1>0. lane \in [Conns -> LaneSet] /\ lane[c] \in LaneSet /\ streams \in [Subs \X Conns -> Stream]
  BY LaneShape, StreamsShape DEF ShapeInv
<1>1. PICK f \in FrameSet : f = lane[c].writing
  BY LaneShape
<1>2. /\ f # None /\ client.conn = c
      /\ lane' = [lane EXCEPT ![c].writing = None, ![c].wire = Append(@, f)]
      /\ streams' = IF f.kind = "event" /\ f.hi > streams[<<f.sub, c>>].written
                    THEN [streams EXCEPT ![<<f.sub, c>>].written = f.hi] ELSE streams
      /\ UNCHANGED <<newest, nextSub, registry, exec, jobs, control, outputs, client>>
  BY <1>1 DEF Written
<1>3. LanesKept(c) /\ lane'[c] = [lane[c] EXCEPT !.writing = None, !.wire = Append(@, f)]
  BY <1>0, <1>2 DEF LanesKept
<1>4. /\ KeepsAllBut(lane[c], lane'[c], {"writing", "wire"}) /\ lane'[c].writing = None
      /\ lane'[c].wire = Append(lane[c].wire, f)
  BY <1>0, <1>3 DEF KeepsAllBut, LaneSet
<1>5. ASSUME NEW s \in Subs, NEW d \in Conns
      PROVE  /\ streams'[<<s, d>>].current = streams[<<s, d>>].current
             /\ d = c => streams'[<<s, d>>].written =
                   IF IsEvent(f, s) /\ f.hi > streams[<<s, c>>].written THEN f.hi ELSE streams[<<s, c>>].written
  <2>0. <<s, d>> \in Subs \X Conns /\ streams[<<s, d>>] \in Stream
    BY <1>0
  <2>1. CASE f.kind = "event" /\ f.hi > streams[<<f.sub, c>>].written
    <3>1. f.sub \in Subs /\ f.hi \in Nat
      BY <2>1, FrameFields DEF Tails
    <3>2. <<f.sub, c>> \in Subs \X Conns /\ streams' = [streams EXCEPT ![<<f.sub, c>>].written = f.hi]
      BY <1>2, <2>1, <3>1
    <3>3. CASE s = f.sub /\ d = c
      <4>1. streams'[<<s, d>>] = [streams[<<s, d>>] EXCEPT !.written = f.hi]
        BY <1>0, <3>2, <3>3
      <4> QED BY <2>0, <2>1, <3>3, <4>1 DEF Stream, IsEvent
    <3>4. CASE s # f.sub \/ d # c
      <4>1. <<s, d>> # <<f.sub, c>>
        BY <3>4
      <4>2. streams'[<<s, d>>] = streams[<<s, d>>]
        BY <1>0, <2>0, <3>2, <4>1
      <4> QED BY <3>4, <4>2 DEF IsEvent
    <3> QED BY <3>3, <3>4
  <2>2. CASE ~(f.kind = "event" /\ f.hi > streams[<<f.sub, c>>].written)
    BY <1>2, <2>2 DEF IsEvent
  <2> QED BY <2>1, <2>2
<1>6. \A s \in Subs : streams'[<<s, c>>].written =
          IF IsEvent(f, s) /\ f.hi > streams[<<s, c>>].written THEN f.hi ELSE streams[<<s, c>>].written
  BY <1>5
<1>7. \A s \in Subs, d \in Conns : streams'[<<s, d>>].current = streams[<<s, d>>].current
  BY <1>5
<1> QED BY <1>1, <1>2, <1>3, <1>4, <1>6, <1>7 DEF Writes

\* The duplex task of a connection ends.
Drops(c) ==
    /\ ~lane[c].closed /\ LanesKept(c)
    /\ lane'[c].critical = <<>> /\ lane'[c].durable = <<>> /\ lane'[c].writing = None
    /\ lane'[c].wire = lane[c].wire /\ lane'[c].answer = None
    /\ lane'[c].shutdown = TRUE /\ lane'[c].closed = TRUE
    /\ lane[c].shutdown \/ c <= client.opened
    /\ \/ control' = control
       \/ control' = Append(control, [kind |-> "unregister", conn |-> c, from |-> 0])
    /\ \/ jobs' = jobs
       \/ jobs' = Picked(jobs, {i \in DOMAIN jobs : jobs[i].conn # c})

\* What the teardown of a connection task changes.
LEMMA HostDropCases ==
    ASSUME ShapeInv, NEW c \in Conns, HostDrop(c)
    PROVE  Drops(c) /\ UNCHANGED <<newest, nextSub, registry, streams, exec, outputs, client>>
<1>0. lane \in [Conns -> LaneSet] /\ lane[c] \in LaneSet
  BY LaneShape DEF ShapeInv
<1>1. LanesKept(c) /\ lane'[c] = [EmptyLane EXCEPT !.wire = lane[c].wire, !.shutdown = TRUE, !.closed = TRUE]
  BY <1>0 DEF HostDrop, LanesKept
<1>2. /\ lane'[c].critical = <<>> /\ lane'[c].durable = <<>> /\ lane'[c].writing = None
      /\ lane'[c].wire = lane[c].wire /\ lane'[c].answer = None
      /\ lane'[c].shutdown = TRUE /\ lane'[c].closed = TRUE
  BY <1>1 DEF EmptyLane
<1>3. /\ control' = control \/ control' = Append(control, [kind |-> "unregister", conn |-> c, from |-> 0])
      /\ jobs' = jobs \/ jobs' = Picked(jobs, {i \in DOMAIN jobs : jobs[i].conn # c})
      /\ ~lane[c].closed /\ (lane[c].shutdown \/ c <= client.opened)
      /\ UNCHANGED <<newest, nextSub, registry, streams, exec, outputs, client>>
  BY DEF HostDrop
<1> QED BY <1>1, <1>2, <1>3 DEF Drops

\* What dropping an entry, detaching an output and registering one do.
Dropped(s) ==
    /\ registry'[s] = NoEntry /\ \A t \in Subs \ {s} : registry'[t] = registry[t]
    /\ \A t \in Subs, c \in Conns :
          /\ streams'[<<t, c>>].written = streams[<<t, c>>].written
          /\ streams'[<<t, c>>].current => streams[<<t, c>>].current
Detaches(c) ==
    /\ \A s \in Subs : EntryDetached(s, c)
    /\ \A t \in Subs, d \in Conns :
          /\ streams'[<<t, d>>].written = streams[<<t, d>>].written
          /\ streams'[<<t, d>>].current => streams[<<t, d>>].current
    /\ LanesKept(c) /\ Shut(lane[c], lane'[c]) /\ outputs' = outputs \ {c}
Registers(c, old) ==
    /\ old \in 0 .. MaxConns /\ old < c
    /\ \A s \in Subs : registry[s].scope # c
    /\ \A s \in Subs : old = 0 \/ registry[s].scope # old => registry'[s] = registry[s] /\ TailKept(s)
    /\ \A s \in Subs : old # 0 /\ registry[s].scope = old => EntryMoved(s, c) /\ TailMoved(s, c)
    /\ \A d \in Conns : lane'[d] = lane[d] \/ (d = old /\ Shut(lane[d], lane'[d]))
    /\ outputs \ {old} \subseteq outputs' /\ (lane[c].closed \/ c \in outputs')

\* What dropping an entry changes.
LEMMA DropFacts ==
    ASSUME ShapeInv, NEW s \in Subs, DropEntry(s)
    PROVE  Dropped(s)
BY DropShape DEF Dropped

\* What detaching an output changes.
LEMMA DetachFacts ==
    ASSUME ShapeInv, NEW c \in Conns, Detach(c)
    PROVE  Detaches(c)
<1>1. /\ \A s \in Subs : EntryDetached(s, c)
      /\ \A t \in Subs, d \in Conns :
            /\ streams'[<<t, d>>].written = streams[<<t, d>>].written
            /\ streams'[<<t, d>>].current => streams[<<t, d>>].current
      /\ Shut(lane[c], lane'[c]) /\ outputs' = outputs \ {c}
  BY DetachShape
<1>2. LanesKept(c)
  BY DetachShape DEF LanesKept
<1> QED BY <1>1, <1>2 DEF Detaches

\* The control message the executor handles.
Handles(m) ==
    /\ m = Head(control) /\ control # <<>> /\ control' = Tail(control) /\ ExecIdle
    /\ m = control[1] /\ 1 \in DOMAIN control /\ control \in Seq(ControlSet)
    /\ m.conn \in Conns /\ m.conn <= client.opened
    /\ UNCHANGED <<newest, nextSub, exec, jobs, client>>
    /\ \/ m.kind = "register" /\ Register(m.conn, m.from) /\ Registers(m.conn, m.from)
       \/ m.kind = "unregister" /\ Detach(m.conn) /\ Detaches(m.conn)

\* What a control message changes.
LEMMA ControlCases ==
    ASSUME ShapeInv, RegistryInv, ControlInv, Control
    PROVE  \E m \in ControlSet : Handles(m)
<1>0. control \in Seq(ControlSet) /\ control # <<>> /\ ExecIdle
  BY DEF ShapeInv, Control
<1>1. PICK m \in ControlSet : m = Head(control) /\ m = control[1] /\ 1 \in DOMAIN control
  BY <1>0, Queues
<1>2. m.conn \in Conns /\ m.from \in 0 .. MaxConns /\ m.from \in Int /\ m.conn \in Int
  BY <1>1, Bounds DEF ControlSet, Conns
<1>3. UNCHANGED <<newest, nextSub, exec, jobs, client>> /\ control' = Tail(control)
  BY DEF Control
<1>4. m.conn <= client.opened
  BY <1>1 DEF ControlInv
<1>5. \/ m.kind = "register" /\ Register(m.conn, m.from) /\ Registers(m.conn, m.from)
      \/ m.kind = "unregister" /\ Detach(m.conn) /\ Detaches(m.conn)
  <2>1. CASE m.kind = "register" /\ Register(m.conn, m.from)
    <3>1. m.from < m.conn /\ \A s \in Subs : registry[s].scope # m.conn
      BY <1>1, <2>1 DEF ControlInv, RegisterOK
    <3>2. m.from # m.conn
      BY <1>2, <3>1
    <3>3. \A s \in Subs : /\ registry[s].scope # m.conn /\ registry[s].live \in {0, registry[s].scope}
                          /\ registry[s].scope = 0 => registry[s] = NoEntry
      BY <3>1 DEF RegistryInv, EntryOK
    <3>4. PICK c \in Conns : c = m.conn
      BY <1>2
    <3>5. PICK old \in 0 .. MaxConns : old = m.from
      BY <1>2
    <3>6. Register(c, old) /\ old # c /\ old < c
      BY <2>1, <3>1, <3>2, <3>4, <3>5
    <3>7. \A s \in Subs : /\ registry[s].scope # c /\ registry[s].live \in {0, registry[s].scope}
                          /\ registry[s].scope = 0 => registry[s] = NoEntry
      BY <3>3, <3>4
    <3> HIDE DEF Register
    <3>8. /\ \A s \in Subs : old = 0 \/ registry[s].scope # old => registry'[s] = registry[s] /\ TailKept(s)
          /\ \A s \in Subs : old # 0 /\ registry[s].scope = old => EntryMoved(s, c) /\ TailMoved(s, c)
          /\ \A d \in Conns : lane'[d] = lane[d] \/ (d = old /\ Shut(lane[d], lane'[d]))
          /\ outputs \ {old} \subseteq outputs' /\ (~lane[c].closed => c \in outputs')
      BY <3>6, <3>7, RegisterShape
    <3>9. Registers(c, old)
      BY <3>6, <3>7, <3>8 DEF Registers
    <3> QED BY <2>1, <3>4, <3>5, <3>9
  <2>2. CASE m.kind = "unregister" /\ Detach(m.conn)
    BY <1>2, <2>2, DetachFacts
  <2> QED BY <1>1, <2>1, <2>2 DEF Control
<1> QED BY <1>0, <1>1, <1>2, <1>3, <1>4, <1>5 DEF Handles

-----------------------------------------------------------------------------
\* Every step keeps the registry, its tails and the executor consistent.
LEMMA ExecutorRegistry ==
    ASSUME ShapeInv, RegistryInv, ControlInv, ConnInv, Executor
    PROVE  RegistryInv'
<1>1. CASE Commit
  <2>1. exec' = [exec EXCEPT !.todo = {s \in Entries : registry[s].live # 0}] /\ exec \in ExecSet
        /\ UNCHANGED <<nextSub, registry, streams, client>>
    BY <1>1 DEF Commit, ShapeInv
  <2>2. newest <= newest' /\ newest \in Nat /\ newest' \in Nat
    BY <1>1 DEF Commit, ShapeInv
  <2>3. /\ exec'.todo = {s \in Entries : registry[s].live # 0} /\ exec'.to = exec.to /\ exec'.reply = exec.reply
    BY <2>1 DEF ExecSet
  <2>4. ASSUME NEW s \in Subs PROVE EntryOK(s)'
    <3>1. EntryOK(s)
      BY DEF RegistryInv
    <3>2. registry[s].admitted <= newest' /\ registry[s].through <= newest'
      BY <2>2, <3>1, EntryShape DEF EntryOK
    <3>3. s \in exec'.todo <=> registry[s].live # 0
      BY <2>3, <3>1, NoEntryFields DEF Entries, EntryOK
    <3> QED BY <2>1, <3>1, <3>2, <3>3 DEF EntryOK
  <2>5. ExecOK'
    BY <2>3 DEF RegistryInv, ExecOK
  <2> QED BY <2>4, <2>5 DEF RegistryInv
<1>2. CASE Reply
  <2>1. exec.todo = {} /\ exec' = IdleExec /\ UNCHANGED <<newest, nextSub, registry, streams, client>>
    BY <1>2 DEF Reply
  <2>2. exec'.todo = {} /\ exec'.to = 0 /\ exec'.reply = None
    BY <2>1 DEF IdleExec
  <2>3. ASSUME NEW s \in Subs PROVE EntryOK(s)'
    BY <2>1, <2>2 DEF RegistryInv, EntryOK
  <2>4. ExecOK'
    BY <2>2 DEF ExecOK
  <2> QED BY <2>3, <2>4 DEF RegistryInv
<1>3. CASE Control
  <2>1. PICK m \in ControlSet : Handles(m)
    BY <1>3, ControlCases
  <2>2. PICK c \in Conns : c = m.conn /\ c <= client.opened
    BY <2>1 DEF Handles
  <2>3. UNCHANGED <<newest, nextSub, exec, client>> /\ ExecIdle
    BY <2>1 DEF Handles
  <2>4. CASE Register(c, m.from) /\ Registers(c, m.from)
    <3>1. PICK old \in 0 .. MaxConns : old = m.from /\ old < c
      BY <2>4 DEF Registers
    <3>2. old # c
      BY <3>1, Bounds DEF Conns
    <3>3. Register(c, old) /\ \A s \in Subs : registry[s].scope # c
      BY <2>4, <3>1 DEF Registers
    <3> QED BY <2>2, <2>3, <3>2, <3>3, RegisterRegistry
  <2>5. CASE Detach(c)
    BY <2>3, <2>5, DetachRegistry
  <2> QED BY <2>1, <2>2, <2>4, <2>5 DEF Handles
<1>4. ASSUME NEW s \in Subs, Reap(s) PROVE RegistryInv'
  <2>1. DropEntry(s) /\ UNCHANGED <<newest, nextSub, exec, client>> /\ exec.todo = {}
    BY <1>4 DEF Reap, ExecIdle, IdleExec
  <2>2. \A t \in Subs : EntryOK(t)'
    BY <2>1, DropRegistry
  <2>3. ExecOK'
    BY <2>1 DEF RegistryInv, ExecOK
  <2> QED BY <2>2, <2>3 DEF RegistryInv
<1>5. ASSUME NEW c \in Conns, ReapOutput(c) PROVE RegistryInv'
  BY <1>5, DetachRegistry DEF ReapOutput
<1> QED BY <1>1, <1>2, <1>3, <1>4, <1>5, CatchUpRegistry, ServeRegistry DEF Executor

\* The tasks of a connection keep the registry consistent.
LEMMA DuplexRegistry ==
    ASSUME ShapeInv, RegistryInv, NEW c \in Conns, AdmitReply(c) \/ Take(c) \/ Written(c) \/ HostDrop(c)
    PROVE  RegistryInv'
<1>1. UNCHANGED <<newest, nextSub, registry, exec, client>>
  BY DEF AdmitReply, Take, Written, HostDrop
<1>2. \A s \in Subs, d \in Conns : streams'[<<s, d>>].current = streams[<<s, d>>].current
  <2>1. CASE Written(c)
    BY <2>1, WrittenCases DEF Writes
  <2>2. CASE UNCHANGED streams
    BY <2>2
  <2> QED BY <2>1, <2>2 DEF AdmitReply, Take, HostDrop
<1>3. client.opened \in Nat /\ client.opened <= client'.opened /\ client'.opened \in Nat
  BY <1>1, ClientShape, Bounds
<1> QED BY <1>1, <1>2, <1>3, RegistryKept

\* The control channel after a step that leaves it alone.
LEMMA ControlKept ==
    ASSUME ShapeInv, ControlInv, control' = control, client.opened <= client'.opened, client'.opened \in Nat,
           \A s \in Subs : registry'[s].scope \in {0, registry[s].scope} \/ ~Registering(registry'[s].scope)
    PROVE  ControlInv'
<1>0. DOMAIN control = 1 .. Len(control) /\ \A i \in DOMAIN control : control[i] \in ControlSet
  BY Queues DEF ShapeInv
<1>1. ASSUME NEW i \in DOMAIN control
      PROVE  /\ control[i].conn <= client'.opened
             /\ control[i].kind = "register" => RegisterOK(i)'
  <2>1. control[i].conn \in Nat /\ control[i].conn # 0 /\ client.opened \in Nat
    BY <1>0, ClientShape, Bounds DEF ControlSet, Conns
  <2>2. control[i].conn <= client'.opened
    BY <2>1 DEF ControlInv
  <2>3. ASSUME control[i].kind = "register" PROVE RegisterOK(i)'
    <3>1. RegisterOK(i)
      BY <2>3 DEF ControlInv
    <3>2. Registering(control[i].conn)
      BY <1>0, <2>3 DEF Registering
    <3>3. \A s \in Subs : registry'[s].scope # control[i].conn
      BY <2>1, <3>1, <3>2 DEF RegisterOK
    <3> QED BY <3>1, <3>3 DEF RegisterOK
  <2> QED BY <2>2, <2>3
<1> QED BY <1>1 DEF ControlInv

\* The control channel after its first message was handled.
LEMMA ControlTaken ==
    ASSUME ShapeInv, ControlInv, NEW m \in ControlSet, Handles(m)
    PROVE  ControlInv'
<1>0. /\ DOMAIN control = 1 .. Len(control) /\ Len(control) \in Nat
      /\ \A i \in DOMAIN control : control[i] \in ControlSet
      /\ control' = Tail(control) /\ DOMAIN Tail(control) = 1 .. Len(control) - 1 /\ m = control[1] /\ 1 \in DOMAIN control
      /\ \A i \in DOMAIN Tail(control) : Tail(control)[i] = control[i + 1] /\ i + 1 \in DOMAIN control
      /\ client' = client
  BY Queues DEF Handles
<1>1. \A s \in Subs : \/ registry'[s].scope \in {0, registry[s].scope}
                      \/ m.kind = "register" /\ registry'[s].scope = m.conn
  <2>1. ASSUME Registers(m.conn, m.from), NEW s \in Subs
        PROVE  registry'[s].scope \in {0, registry[s].scope, m.conn}
    BY <2>1, NoEntryFields DEF Registers, EntryMoved
  <2>2. ASSUME Detaches(m.conn), NEW s \in Subs
        PROVE  registry'[s].scope \in {0, registry[s].scope}
    <3>1. EntryDetached(s, m.conn)
      BY <2>2 DEF Detaches
    <3> QED BY <3>1, NoEntryFields DEF EntryDetached
  <2> QED BY <2>1, <2>2 DEF Handles
<1>2. ASSUME NEW i \in DOMAIN control'
      PROVE  /\ control'[i].conn <= client'.opened
             /\ control'[i].kind = "register" => RegisterOK(i)'
  <2>1. i + 1 \in DOMAIN control /\ control'[i] = control[i + 1] /\ i + 1 # 1
    BY <1>0
  <2>2. control[i + 1].conn \in Nat /\ control[i + 1].conn # 0
    BY <1>0, <2>1, Bounds DEF ControlSet, Conns
  <2>3. ASSUME control'[i].kind = "register" PROVE RegisterOK(i)'
    <3>1. RegisterOK(i + 1)
      BY <2>1, <2>3 DEF ControlInv
    <3>2. ~(m.kind = "register" /\ m.conn = control[i + 1].conn)
      BY <1>0, <2>1, <3>1 DEF RegisterOK
    <3>3. \A s \in Subs : registry'[s].scope # control[i + 1].conn
      BY <1>1, <2>2, <3>1, <3>2 DEF RegisterOK
    <3>4. ASSUME NEW j \in DOMAIN control', control'[j].kind = "register", control'[j].conn = control'[i].conn
          PROVE  j = i
      <4>1. j + 1 \in DOMAIN control /\ control'[j] = control[j + 1]
        BY <1>0
      <4>2. j + 1 = i + 1
        BY <2>1, <3>1, <3>4, <4>1 DEF RegisterOK
      <4> QED BY <1>0, <4>2
    <3>5. control'[i].from < control'[i].conn
      BY <2>1, <3>1 DEF RegisterOK
    <3> QED BY <2>1, <3>3, <3>4, <3>5 DEF RegisterOK
  <2>4. control[i + 1].conn <= client'.opened
    BY <1>0, <2>1 DEF ControlInv
  <2> QED BY <2>1, <2>3, <2>4
<1> QED BY <1>2 DEF ControlInv

\* The control channel after a message was sent.
LEMMA ControlSent ==
    ASSUME ShapeInv, ControlInv, NEW m \in ControlSet, control' = Append(control, m), registry' = registry,
           client.opened <= client'.opened, client'.opened \in Nat, m.conn <= client'.opened,
           m.kind = "register" => /\ m.from < m.conn /\ m.conn > client.opened
                                  /\ \A s \in Subs : registry[s].scope <= client.opened
    PROVE  ControlInv'
<1>0. /\ DOMAIN control = 1 .. Len(control) /\ Len(control) \in Nat
      /\ \A i \in DOMAIN control : control[i] \in ControlSet
  BY Queues DEF ShapeInv
<1>1. /\ DOMAIN control' = 1 .. Len(control) + 1 /\ control'[Len(control) + 1] = m
      /\ \A i \in DOMAIN control : control'[i] = control[i]
  BY Appended DEF ShapeInv
<1>2. client.opened \in Nat /\ m.conn \in Nat /\ \A s \in Subs : registry[s].scope \in Int
  BY ClientShape, EntryShape, Bounds DEF ControlSet, Conns
<1>3. ASSUME NEW i \in DOMAIN control
      PROVE  control[i].conn \in Nat /\ control[i].conn <= client.opened
  BY <1>0, Bounds DEF ControlInv, ControlSet, Conns
<1>4. ASSUME NEW i \in DOMAIN control'
      PROVE  /\ control'[i].conn <= client'.opened
             /\ control'[i].kind = "register" => RegisterOK(i)'
  <2>1. CASE i \in DOMAIN control
    <3>1. control'[i] = control[i] /\ control[i].conn <= client'.opened
      BY <1>1, <1>2, <1>3, <2>1
    <3>2. ASSUME control[i].kind = "register" PROVE RegisterOK(i)'
      <4>1. RegisterOK(i)
        BY <2>1, <3>2 DEF ControlInv
      <4>2. ASSUME NEW j \in DOMAIN control', control'[j].kind = "register", control'[j].conn = control'[i].conn
            PROVE  j = i
        <5>1. CASE j \in DOMAIN control
          BY <1>1, <2>1, <4>1, <4>2, <5>1 DEF RegisterOK
        <5>2. CASE j = Len(control) + 1
          BY <1>1, <1>2, <1>3, <2>1, <3>1, <4>2, <5>2
        <5> QED BY <1>0, <1>1, <5>1, <5>2
      <4> QED BY <3>1, <4>1, <4>2 DEF RegisterOK
    <3> QED BY <3>1, <3>2
  <2>2. CASE i = Len(control) + 1
    <3>1. ASSUME m.kind = "register" PROVE RegisterOK(i)'
      <4>1. ASSUME NEW j \in DOMAIN control', control'[j].kind = "register", control'[j].conn = control'[i].conn
            PROVE  j = i
        <5>1. CASE j \in DOMAIN control
          BY <1>1, <1>2, <1>3, <2>2, <3>1, <4>1, <5>1
        <5>2. CASE j = Len(control) + 1
          BY <2>2, <5>2
        <5> QED BY <1>0, <1>1, <5>1, <5>2
      <4>2. \A s \in Subs : registry'[s].scope # m.conn
        BY <1>2, <3>1
      <4> QED BY <1>1, <2>2, <3>1, <4>1, <4>2 DEF RegisterOK
    <3> QED BY <1>1, <2>2, <3>1
  <2> QED BY <1>0, <1>1, <2>1, <2>2
<1> QED BY <1>4 DEF ControlInv

\* Whether a registration is pending, as the channel moves.
LEMMA RegisteringMoves ==
    ASSUME control \in Seq(ControlSet), NEW c
    PROVE  /\ control # <<>> /\ control' = Tail(control) =>
                 /\ Registering(c)' => Registering(c)
                 /\ Registering(c) => Registering(c)' \/ (Head(control).kind = "register" /\ Head(control).conn = c)
           /\ \A m \in ControlSet : control' = Append(control, m) =>
                 /\ Registering(c) => Registering(c)'
                 /\ Registering(c)' => Registering(c) \/ (m.kind = "register" /\ m.conn = c)
<1>1. ASSUME control # <<>>, control' = Tail(control)
      PROVE  /\ Registering(c)' => Registering(c)
             /\ Registering(c) => Registering(c)' \/ (Head(control).kind = "register" /\ Head(control).conn = c)
  <2>1. /\ DOMAIN control = 1 .. Len(control) /\ Len(control) \in Nat /\ Len(Tail(control)) = Len(control) - 1
        /\ DOMAIN Tail(control) = 1 .. Len(control) - 1 /\ Head(control) = control[1]
        /\ \A i \in DOMAIN Tail(control) : Tail(control)[i] = control[i + 1] /\ i + 1 \in DOMAIN control
    BY <1>1, Queues
  <2>2. ASSUME Registering(c)' PROVE Registering(c)
    <3>1. PICK i \in 1 .. Len(control') : control'[i].kind = "register" /\ control'[i].conn = c
      BY <2>2 DEF Registering
    <3>2. i + 1 \in 1 .. Len(control) /\ control[i + 1] = control'[i]
      BY <1>1, <2>1, <3>1
    <3> QED BY <3>1, <3>2 DEF Registering
  <2>3. ASSUME Registering(c), ~(Head(control).kind = "register" /\ Head(control).conn = c)
        PROVE  Registering(c)'
    <3>1. PICK i \in 1 .. Len(control) : control[i].kind = "register" /\ control[i].conn = c
      BY <2>3 DEF Registering
    <3>2. i # 1
      BY <2>1, <2>3, <3>1
    <3>3. i - 1 \in DOMAIN Tail(control) /\ (i - 1) + 1 = i
      BY <2>1, <3>2
    <3>4. i - 1 \in 1 .. Len(control') /\ control'[i - 1] = control[i]
      BY <1>1, <2>1, <3>3
    <3> QED BY <3>1, <3>4 DEF Registering
  <2> QED BY <2>2, <2>3
<1>2. ASSUME NEW m \in ControlSet, control' = Append(control, m)
      PROVE  /\ Registering(c) => Registering(c)'
             /\ Registering(c)' => Registering(c) \/ (m.kind = "register" /\ m.conn = c)
  <2>1. /\ DOMAIN control = 1 .. Len(control) /\ Len(control) \in Nat /\ Len(control') = Len(control) + 1
        /\ control'[Len(control) + 1] = m /\ \A i \in DOMAIN control : control'[i] = control[i]
    BY <1>2
  <2> QED BY <2>1 DEF Registering
<1> QED BY <1>1, <1>2

\* The outcomes of a served request.
Snaps(j) ==
    /\ j.kind = "snapshot" /\ exec'.to = j.conn /\ exec'.reply = Frame("snapshot", 0, 0, newest, 0)
    /\ UNCHANGED <<nextSub, registry, streams, lane>>
Busies(j) ==
    /\ j.kind = "open" /\ UNCHANGED <<nextSub, registry, streams, exec>>
    /\ LanesKept(j.conn) /\ Shut(lane[j.conn], lane'[j.conn])
OpensFor(j) ==
    j.kind = "open" /\ \E n \in Subs, victim \in Subs \cup {0} : n = nextSub /\ Opens(n, j.conn, j.arg, victim)
ContinuesFor(j) ==
    j.kind = "continue" /\ j.sub \in Subs /\ Continues(j.conn, j.sub, j.arg) /\ UNCHANGED <<nextSub, lane>>
ReleasesFor(j) ==
    /\ j.kind = "release" /\ j.sub \in Subs /\ exec'.to = j.conn /\ UNCHANGED <<nextSub, lane>>
    /\ \/ /\ registry[j.sub].scope \notin {0, j.conn} /\ exec'.reply = Frame("refused", j.sub, 0, 0, 0)
          /\ UNCHANGED <<registry, streams>>
       \/ /\ registry[j.sub].scope \in {0, j.conn} /\ exec'.reply = Frame("released", j.sub, 0, 0, 0)
          /\ Dropped(j.sub)
Serves(j) ==
    /\ j = Head(jobs) /\ j \in In(jobs) /\ jobs \in Seq(JobSet) /\ jobs # <<>> /\ jobs' = Tail(jobs)
    /\ j.conn \in Conns /\ j.sub \in 0 .. MaxSubs /\ j.arg \in Nat /\ ~Registering(j.conn)
    /\ j.conn <= client.opened /\ exec.to = 0
    /\ UNCHANGED <<newest, control, outputs, client>>
    /\ Snaps(j) \/ Busies(j) \/ OpensFor(j) \/ ContinuesFor(j) \/ ReleasesFor(j)

\* What serving a request changes, by the kind of the request.
LEMMA ServeCases ==
    ASSUME ShapeInv, RegistryInv, ConnInv, Serve
    PROVE  \E j \in JobSet : Serves(j)
<1>1. PICK j \in JobSet :
             /\ j = Head(jobs) /\ j \in In(jobs) /\ jobs \in Seq(JobSet) /\ jobs # <<>> /\ jobs' = Tail(jobs)
             /\ j.conn \in Conns /\ j.sub \in 0 .. MaxSubs /\ j.arg \in Nat /\ ~Registering(j.conn)
             /\ (j.kind \in {"continue", "release"} => j.sub \in Subs)
             /\ j.conn <= client.opened /\ exec.to = 0
             /\ UNCHANGED <<newest, control, outputs, client>>
             /\ \/ /\ j.kind = "snapshot" /\ exec' = Answer(j.conn, Frame("snapshot", 0, 0, newest, 0), {})
                   /\ UNCHANGED <<nextSub, registry, streams, lane>>
                \/ j.kind = "open" /\ ServeOpen(j.conn, j.arg)
                \/ j.kind = "continue" /\ ServeContinue(j.conn, j.sub, j.arg) /\ UNCHANGED <<nextSub, lane>>
                \/ j.kind = "release" /\ ServeRelease(j.conn, j.sub) /\ UNCHANGED <<nextSub, lane>>
  BY ServedJob
<1>2. CASE j.kind = "snapshot" /\ exec' = Answer(j.conn, Frame("snapshot", 0, 0, newest, 0), {})
           /\ UNCHANGED <<nextSub, registry, streams, lane>>
  BY <1>1, <1>2 DEF Serves, Snaps, Answer
<1>3. CASE j.kind = "open" /\ ServeOpen(j.conn, j.arg)
  <2>1. CASE /\ lane' = [lane EXCEPT ![j.conn].shutdown = TRUE]
             /\ UNCHANGED <<nextSub, registry, streams, exec>>
    <3>1. lane \in [Conns -> LaneSet]
      BY DEF ShapeInv
    <3>2. LanesKept(j.conn) /\ lane'[j.conn] = [lane[j.conn] EXCEPT !.shutdown = TRUE]
      BY <1>1, <2>1, <3>1 DEF LanesKept
    <3>3. Shut(lane[j.conn], lane'[j.conn])
      BY <1>1, <3>1, <3>2 DEF Shut, LaneSet
    <3> QED BY <1>1, <1>3, <2>1, <3>2, <3>3 DEF Serves, Busies
  <2>2. CASE \E victim \in Subs \cup {0} : Opens(nextSub, j.conn, j.arg, victim)
    <3>1. nextSub \in Subs
      BY <1>1, <1>3, OpenShape
    <3>2. PICK victim \in Subs \cup {0} : Opens(nextSub, j.conn, j.arg, victim)
      BY <2>2
    <3>3. OpensFor(j)
      BY <1>3, <3>1, <3>2 DEF OpensFor
    <3> QED BY <1>1, <3>3 DEF Serves
  <2> QED BY <1>1, <1>3, <2>1, <2>2, OpenShape
<1>4. CASE j.kind = "continue" /\ ServeContinue(j.conn, j.sub, j.arg) /\ UNCHANGED <<nextSub, lane>>
  <2>1. Continues(j.conn, j.sub, j.arg)
    BY <1>1, <1>4, ContinueCases
  <2> QED BY <1>1, <1>4, <2>1 DEF Serves, ContinuesFor
<1>5. CASE j.kind = "release" /\ ServeRelease(j.conn, j.sub) /\ UNCHANGED <<nextSub, lane>>
  <2>1. CASE /\ registry[j.sub].scope \notin {0, j.conn}
             /\ exec' = Answer(j.conn, Frame("refused", j.sub, 0, 0, 0), {})
             /\ UNCHANGED <<registry, streams>>
    <3>1. ReleasesFor(j)
      BY <1>1, <1>5, <2>1 DEF ReleasesFor, Answer
    <3> QED BY <1>1, <3>1 DEF Serves
  <2>2. CASE /\ registry[j.sub].scope \in {0, j.conn} /\ DropEntry(j.sub)
             /\ exec' = Answer(j.conn, Frame("released", j.sub, 0, 0, 0), {})
    <3>1. Dropped(j.sub)
      BY <1>1, <1>5, <2>2, DropFacts
    <3>2. ReleasesFor(j)
      BY <1>1, <1>5, <2>2, <3>1 DEF ReleasesFor, Answer
    <3> QED BY <1>1, <3>2 DEF Serves
  <2> QED BY <1>5, <2>1, <2>2 DEF ServeRelease
<1> QED BY <1>1, <1>2, <1>3, <1>4, <1>5

\* An entry is only ever bound to a connection that is registered.
LEMMA ServeScopes ==
    ASSUME ShapeInv, NEW j \in JobSet, Serves(j), NEW s \in Subs
    PROVE  registry'[s].scope \in {0, registry[s].scope} \/ ~Registering(registry'[s].scope)
<1>1. CASE UNCHANGED registry
  BY <1>1
<1>2. CASE OpensFor(j)
  <2>1. PICK n \in Subs, victim \in Subs \cup {0} : Opens(n, j.conn, j.arg, victim)
    BY <1>2 DEF OpensFor
  <2>2. CASE s = n
    <3>1. registry'[s].scope = j.conn
      BY <2>1, <2>2 DEF Opens
    <3> QED BY <3>1 DEF Serves
  <2>3. CASE s # n
    BY <2>1, <2>3, NoEntryFields DEF Opens
  <2> QED BY <2>2, <2>3
<1>3. CASE ContinuesFor(j)
  <2>1. CASE s = j.sub
    BY <1>3, <2>1 DEF ContinuesFor, Continues, EntryBound
  <2>2. CASE s # j.sub
    BY <1>3, <2>2 DEF ContinuesFor, Continues, EntryBound
  <2> QED BY <2>1, <2>2
<1>4. CASE Dropped(j.sub)
  <2>1. CASE s = j.sub
    BY <1>4, <2>1, NoEntryFields DEF Dropped
  <2>2. CASE s # j.sub
    BY <1>4, <2>2 DEF Dropped
  <2> QED BY <2>1, <2>2
<1> QED BY <1>1, <1>2, <1>3, <1>4 DEF Serves, Snaps, Busies, ReleasesFor

\* Dropping an entry gives no connection an entry.
LEMMA DropScopes ==
    ASSUME NEW s \in Subs, Dropped(s), NEW t \in Subs
    PROVE  registry'[t] \in {NoEntry, registry[t]} /\ registry'[t].scope \in {0, registry[t].scope}
BY NoEntryFields DEF Dropped

\* Catching up gives no connection an entry.
LEMMA CatchUpScopes ==
    ASSUME ShapeInv, NEW s \in Subs, NEW c \in Conns, CaughtUpBy(s, c), NEW t \in Subs
    PROVE  registry'[t].scope \in {0, registry[t].scope}
<1>1. CASE DropEntry(s)
  <2>1. Dropped(s)
    BY <1>1, DropFacts
  <2> QED BY <2>1, DropScopes
<1>2. CASE Admits(s, c)
  BY <1>2 DEF Admits
<1>3. CASE UNCHANGED registry
  BY <1>3
<1> QED BY <1>1, <1>2, <1>3 DEF CaughtUpBy, Gone, Resyncs

\* The executor keeps the control queue consistent.
LEMMA ExecutorControl ==
    ASSUME ShapeInv, RegistryInv, ControlInv, ConnInv, Executor
    PROVE  ControlInv'
<1>0. client' = client /\ client.opened \in Nat /\ client.opened <= client'.opened /\ client'.opened \in Nat
  <2>1. client' = client
    BY DEF Executor, Commit, Serve, Reply, Control, CatchUp, Reap, ReapOutput
  <2> QED BY <2>1, ClientShape, Bounds
<1>1. CASE Commit \/ Reply
  <2>1. control' = control /\ registry' = registry
    BY <1>1 DEF Commit, Reply
  <2> QED BY <1>0, <2>1, ControlKept
<1>2. CASE Control
  BY <1>2, ControlCases, ControlTaken
<1>3. ASSUME NEW s \in Subs, Reap(s) PROVE ControlInv'
  <2>1. Dropped(s) /\ control' = control
    BY <1>3, DropFacts DEF Reap
  <2>2. \A t \in Subs : registry'[t].scope \in {0, registry[t].scope}
    BY <2>1, DropScopes
  <2> QED BY <1>0, <2>1, <2>2, ControlKept
<1>4. ASSUME NEW c \in Conns, ReapOutput(c) PROVE ControlInv'
  <2>1. Detaches(c) /\ control' = control
    BY <1>4, DetachFacts DEF ReapOutput
  <2>2. ASSUME NEW t \in Subs PROVE registry'[t].scope \in {0, registry[t].scope}
    <3>1. EntryDetached(t, c)
      BY <2>1 DEF Detaches
    <3> QED BY <3>1, NoEntryFields DEF EntryDetached
  <2> QED BY <1>0, <2>1, <2>2, ControlKept
<1>5. ASSUME NEW s \in Subs, CatchUp(s) PROVE ControlInv'
  <2>1. PICK c \in Conns : CaughtUpBy(s, c)
    BY <1>5, CatchUpCases
  <2>2. \A t \in Subs : registry'[t].scope \in {0, registry[t].scope}
    BY <2>1, CatchUpScopes
  <2>3. control' = control
    BY <2>1 DEF CaughtUpBy
  <2> QED BY <1>0, <2>2, <2>3, ControlKept
<1>6. CASE Serve
  <2>1. PICK j \in JobSet : Serves(j)
    BY <1>6, ServeCases
  <2>2. \A t \in Subs : registry'[t].scope \in {0, registry[t].scope} \/ ~Registering(registry'[t].scope)
    BY <2>1, ServeScopes
  <2>3. control' = control
    BY <2>1 DEF Serves
  <2> QED BY <1>0, <2>2, <2>3, ControlKept
<1> QED BY <1>1, <1>2, <1>3, <1>4, <1>5, <1>6 DEF Executor

\* The tasks of a connection keep the control queue consistent.
LEMMA DuplexControl ==
    ASSUME ShapeInv, ControlInv, ConnInv, NEW c \in Conns,
           AdmitReply(c) \/ Take(c) \/ Written(c) \/ HostDrop(c)
    PROVE  ControlInv'
<1>0. client' = client /\ client.opened \in Nat /\ client.opened <= client'.opened /\ client'.opened \in Nat
      /\ registry' = registry
  <2>1. client' = client /\ registry' = registry
    BY DEF AdmitReply, Take, Written, HostDrop
  <2> QED BY <2>1, ClientShape, Bounds
<1>1. CASE control' = control
  BY <1>0, <1>1, ControlKept
<1>2. CASE HostDrop(c) /\ control' # control
  <2>1. PICK m : m = [kind |-> "unregister", conn |-> c, from |-> 0]
    OBVIOUS
  <2>2. m \in ControlSet /\ m.conn = c /\ m.kind = "unregister"
    BY <2>1, Bounds DEF ControlSet
  <2>3. Drops(c)
    BY <1>2, HostDropCases
  <2>4. control' = Append(control, m)
    BY <1>2, <2>1, <2>3 DEF Drops
  <2>5. c <= client.opened
    <3>1. lane[c].shutdown => ~(c > client.opened)
      BY DEF ConnInv, EmptyLane
    <3>2. c \in Nat
      BY Bounds DEF Conns
    <3> QED BY <1>0, <2>3, <3>1, <3>2 DEF Drops
  <2>6. m.conn <= client'.opened /\ m.kind # "register"
    BY <1>0, <2>2, <2>5
  <2> QED BY <1>0, <2>2, <2>4, <2>6, ControlSent
<1> QED BY <1>1, <1>2 DEF AdmitReply, Take, Written

\* The fields of the client a step may change.
ClientKeeps(changed) ==
    /\ "conn" \in changed \/ client'.conn = client.conn
    /\ "opened" \in changed \/ client'.opened = client.opened
    /\ "grant" \in changed \/ client'.grant = client.grant
    /\ "phase" \in changed \/ client'.phase = client.phase
    /\ "got" \in changed \/ client'.got = client.got
    /\ "state" \in changed \/ client'.state = client.state
    /\ "sub" \in changed \/ client'.sub = client.sub
    /\ "model" \in changed \/ client'.model = client.model
    /\ "building" \in changed \/ client'.building = client.building
    /\ "seen" \in changed \/ client'.seen = client.seen
    /\ "inbox" \in changed \/ client'.inbox = client.inbox
    /\ "retained" \in changed \/ client'.retained = client.retained
    /\ "retired" \in changed \/ client'.retired = client.retired
    /\ "verdict" \in changed \/ client'.verdict = client.verdict

HostKept == UNCHANGED <<newest, nextSub, registry, streams, exec, outputs>>

Issues(kind, s, arg) ==
    \E j \in JobSet : /\ j.conn = client.conn /\ j.kind = kind /\ j.sub = s /\ j.arg = arg
                      /\ jobs' = Append(jobs, j)

\* A request that is sent is appended to the jobs.
LEMMA SendIssues ==
    ASSUME ShapeInv, client.conn # 0, NEW kind \in {"snapshot", "open", "continue", "release"},
           NEW s \in 0 .. MaxSubs, NEW arg \in Nat, kind \in {"continue", "release"} => s \in Subs,
           Send(kind, s, arg)
    PROVE  Issues(kind, s, arg)
<1>1. PICK j : j = [conn |-> client.conn, kind |-> kind, sub |-> s, arg |-> arg]
  OBVIOUS
<1>2. j \in JobSet /\ jobs' = Append(jobs, j)
  BY <1>1, SendShape
<1> QED BY <1>1, <1>2 DEF Issues

Leaves ==
    /\ client.conn # 0 /\ LeaveConnection /\ UNCHANGED <<jobs, control>>
Connects(c) ==
    /\ c = client.opened + 1 /\ client.conn = 0 /\ UNCHANGED <<jobs, lane>>
    /\ client'.conn = c /\ client'.opened = c /\ client'.phase = "idle" /\ client'.got = None
    /\ client'.state = "Pending" /\ client'.sub = 0 /\ client'.model = NoModel /\ client'.building = NoModel
    /\ client'.seen = {} /\ client'.inbox = <<>> /\ client'.retained = <<>> /\ client'.retired = {}
    /\ client'.verdict = "ok"
    /\ \E m \in ControlSet : /\ m.kind = "register" /\ m.conn = c /\ m.from \in {0, client.opened}
                             /\ client'.grant = m.from
                             /\ control' = Append(control, m)
Dispatches(f) ==
    /\ client.conn # 0 /\ Mine.wire # <<>> /\ f = Head(Mine.wire) /\ UNCHANGED <<jobs, control>>
    /\ LanesKept(client.conn) /\ KeepsAllBut(lane[client.conn], lane'[client.conn], {"wire"})
    /\ lane'[client.conn].wire = Tail(lane[client.conn].wire)
    /\ \/ f.kind \notin Tails /\ ClientKeeps({"got"}) /\ client'.got = f
       \/ f.kind \in Tails /\ f.sub \in client.retired /\ client' = client
       \/ /\ f.kind \in Tails /\ ClientKeeps({"inbox"})
          /\ client'.inbox = Append(client.inbox, f)
Synchronizes ==
    /\ client.conn # 0 /\ client.phase = "idle" /\ client.state # "Ready" /\ UNCHANGED <<control, lane>>
    /\ ClientKeeps({"state", "phase", "seen"}) /\ client'.state = "Pending"
    /\ \/ /\ client.sub # 0 /\ client'.phase = "releasing" /\ client'.seen = client.seen
          /\ Issues("release", client.sub, 0)
       \/ /\ client.sub = 0 /\ client'.phase = "snapshot" /\ client'.seen = {}
          /\ Issues("snapshot", 0, 0)
Releases ==
    /\ client.conn # 0 /\ client.got.kind \in {"released", "refused"} /\ UNCHANGED <<control, lane>>
    /\ client.phase \in {"releasing", "cleanup", "closing"}
    /\ ClientKeeps({"retired", "retained", "inbox", "got", "phase", "state", "sub", "seen", "model"})
    /\ client'.got = None /\ client'.retired = client.retired \cup {client.sub} /\ client'.inbox = <<>>
    /\ client'.retained = Without(client.retained \o client.inbox, client.sub)
    /\ \/ /\ client.got.kind = "refused" /\ client'.phase = "idle" /\ client'.state = "NeedsResync"
          /\ client'.sub = client.sub /\ client'.seen = client.seen /\ client'.model = client.model
          /\ jobs' = jobs
       \/ /\ client.got.kind = "released" /\ client.phase = "releasing" /\ client'.phase = "snapshot"
          /\ client'.sub = 0 /\ client'.seen = {} /\ client'.model = client.model /\ client'.state = client.state
          /\ Issues("snapshot", 0, 0)
       \/ /\ client.got.kind = "released" /\ client.phase = "cleanup" /\ client'.phase = "idle"
          /\ client'.sub = 0 /\ client'.seen = client.seen /\ client'.model = client.model
          /\ client'.state = client.state /\ jobs' = jobs
       \/ /\ client.got.kind = "released" /\ client'.phase = "idle" /\ client'.state = "Pending"
          /\ client'.sub = 0 /\ client'.seen = {} /\ client'.model = NoModel /\ jobs' = jobs
ReadsSnapshot ==
    /\ client.conn # 0 /\ client.phase = "snapshot" /\ client.got.kind = "snapshot" /\ UNCHANGED <<control, lane>>
    /\ ClientKeeps({"phase", "got", "building"}) /\ client'.phase = "replay" /\ client'.got = None
    /\ client'.building = Model(client.got.hi, 1 .. client.got.hi)
    /\ Issues("open", 0, client.got.hi)
ReadsPage(p) ==
    /\ client.conn # 0 /\ p = client.got /\ client.phase = "replay" /\ p.kind = "page" /\ UNCHANGED <<control, lane>>
    /\ ClientKeeps({"got", "sub", "phase", "state", "seen", "building", "model"})
    /\ client'.got = None /\ client'.sub = p.sub /\ ReplyFits(p) /\ p \in UnderWay /\ p.sub \in Subs
    /\ \/ /\ p.hi < p.end /\ ClientKeeps({"got", "sub", "seen", "building"})
          /\ client'.seen = client.seen \cup (p.lo + 1 .. p.hi)
          /\ client'.building = Model(p.hi, client.building.seqs \cup (p.lo + 1 .. p.hi))
          /\ Issues("continue", p.sub, p.hi)
       \/ /\ p.hi = p.end /\ client'.phase = "idle" /\ client'.state = "Ready"
          /\ client'.seen = client.seen \cup (p.lo + 1 .. p.hi) /\ client'.building = NoModel
          /\ client'.model = Model(p.hi, client.building.seqs \cup (p.lo + 1 .. p.hi))
          /\ jobs' = jobs
IsRefused ==
    /\ client.conn # 0 /\ client.phase = "replay" /\ client.got.kind = "refused" /\ UNCHANGED <<control, lane>>
    /\ ClientKeeps({"got", "phase", "state"}) /\ client'.got = None
    /\ client'.phase = "cleanup" /\ client'.state = "NeedsResync" /\ client.sub \in Subs
    /\ Issues("release", client.sub, 0)
Receives(f) ==
    /\ client.conn # 0 /\ client.phase = "idle" /\ client.state = "Ready" /\ UNCHANGED <<jobs, control, lane>>
    /\ \/ /\ client.retained # <<>> /\ f = Head(client.retained)
          /\ client'.retained = Tail(client.retained) /\ client'.inbox = client.inbox
       \/ /\ client.retained = <<>> /\ client.inbox # <<>> /\ f = Head(client.inbox)
          /\ client'.inbox = Tail(client.inbox) /\ client'.retained = client.retained
    /\ ClientKeeps({"retained", "inbox", "state", "verdict", "seen", "model"})
    /\ \/ f.sub \in client.retired /\ ClientKeeps({"retained", "inbox"})
       \/ /\ f.sub \notin client.retired /\ f.sub # client.sub /\ client'.state = "NeedsResync"
          /\ client'.verdict = "foreign" /\ ClientKeeps({"retained", "inbox", "state", "verdict"})
       \/ /\ f.sub \notin client.retired /\ f.sub = client.sub /\ f.kind = "resync" /\ client'.state = "NeedsResync"
          /\ ClientKeeps({"retained", "inbox", "state", "verdict"})
          /\ client'.verdict = IF f.hi < f.lo \/ f.lo # client.model.last THEN "invalid resync" ELSE "resync"
       \/ /\ f.sub \notin client.retired /\ f.sub = client.sub /\ f.kind # "resync" /\ f.hi \in client.seen
          /\ client'.verdict = "seen" /\ ClientKeeps({"retained", "inbox", "verdict"})
       \/ /\ f.sub \notin client.retired /\ f.sub = client.sub /\ f.kind # "resync" /\ f.hi \notin client.seen
          /\ f.hi <= client.model.last /\ client'.verdict = "regression" /\ client'.state = "NeedsResync"
          /\ ClientKeeps({"retained", "inbox", "state", "verdict"})
       \/ /\ f.sub \notin client.retired /\ f.sub = client.sub /\ f.kind # "resync" /\ f.hi > client.model.last
          /\ client'.verdict = "ok" /\ client'.state = client.state
          /\ client'.seen = client.seen \cup {f.hi}
          /\ client'.model = Model(f.hi, client.model.seqs \cup {f.hi})
Gaps ==
    /\ client.conn # 0 /\ client.phase = "idle" /\ UNCHANGED <<jobs, control, lane>>
    /\ ClientKeeps({"state"}) /\ client'.state = "NeedsResync"
Closes ==
    /\ client.conn # 0 /\ client.phase = "idle" /\ UNCHANGED <<control, lane>>
    /\ \/ /\ client.sub # 0 /\ ClientKeeps({"phase"}) /\ client'.phase = "closing"
          /\ Issues("release", client.sub, 0)
       \/ /\ client.sub = 0 /\ ClientKeeps({"state", "model", "seen"}) /\ client'.state = "Pending"
          /\ client'.model = NoModel /\ client'.seen = {} /\ jobs' = jobs

CallerDoes ==
    \/ Leaves
    \/ \E c \in Conns : Connects(c)
    \/ \E f \in FrameSet : Dispatches(f)
    \/ Synchronizes \/ Releases \/ ReadsSnapshot
    \/ \E f \in FrameSet : ReadsPage(f)
    \/ IsRefused
    \/ \E f \in FrameSet : Receives(f)
    \/ Gaps \/ Closes

\* What connecting changes.
LEMMA ConnectCases ==
    ASSUME ShapeInv, Connect
    PROVE  HostKept /\ \E c \in Conns : Connects(c)
<1>0. client.opened \in Nat /\ client.opened < MaxConns /\ MaxConns \in Nat /\ client.opened \in 0 .. MaxConns
      /\ 0 \in 0 .. MaxConns
  BY ClientShape, Bounds DEF Connect
<1>1. PICK c \in Conns : c = client.opened + 1
  BY <1>0 DEF Conns
<1>3. PICK from \in {0, client.opened} :
          /\ client' = [FreshClient(client.opened + 1, client.opened + 1) EXCEPT !.grant = from]
          /\ control' = Append(control, [kind |-> "register", conn |-> client.opened + 1, from |-> from])
  BY DEF Connect
<1>2. client' = [conn |-> c, opened |-> c, grant |-> from, phase |-> "idle", got |-> None,
                 state |-> "Pending", sub |-> 0, model |-> NoModel, building |-> NoModel,
                 seen |-> {}, inbox |-> <<>>, retained |-> <<>>, retired |-> {},
                 verdict |-> "ok"]
  BY <1>1, <1>3 DEF FreshClient
<1>4. PICK m : m = [kind |-> "register", conn |-> c, from |-> from]
  OBVIOUS
<1>5. from \in 0 .. MaxConns /\ from \in {0, client.opened}
  BY <1>0, <1>3
<1>6. m \in ControlSet /\ m.kind = "register" /\ m.conn = c /\ m.from = from
  BY <1>1, <1>4, <1>5 DEF ControlSet
<1>7. control' = Append(control, m)
  BY <1>1, <1>3, <1>4
<1>8. \E n \in ControlSet : /\ n.kind = "register" /\ n.conn = c /\ n.from \in {0, client.opened}
                            /\ client'.grant = n.from
                            /\ control' = Append(control, n)
  BY <1>2, <1>5, <1>6, <1>7
<1>9. client.conn = 0 /\ UNCHANGED <<jobs, lane>> /\ HostKept
  BY DEF Connect, HostKept
<1> QED BY <1>1, <1>2, <1>8, <1>9 DEF Connects

\* What dispatching a frame of the pipe changes.
LEMMA DispatchCases ==
    ASSUME ShapeInv, Dispatch
    PROVE  HostKept /\ (Leaves \/ \E f \in FrameSet : Dispatches(f))
<1>0. HostKept /\ client.conn # 0 /\ client.conn \in Conns /\ UNCHANGED <<jobs, control>>
  BY ClientShape DEF Dispatch, HostKept
<1>1. PICK c \in Conns : c = client.conn
  BY <1>0
<1>2. lane \in [Conns -> LaneSet] /\ lane[c] \in LaneSet /\ lane[c].wire \in Seq(FrameSet) /\ lane[c].wire # <<>>
  BY <1>1, LaneShape DEF ShapeInv, Dispatch
<1>3. PICK f \in FrameSet : f = Head(lane[c].wire)
  BY <1>2, InTail
<1>4. CASE LeaveConnection
  BY <1>0, <1>4 DEF Leaves
<1>5. CASE ~LeaveConnection
  <2>1. lane' = [lane EXCEPT ![c].wire = Tail(@)]
    BY <1>1, <1>5 DEF Dispatch
  <2>2. LanesKept(c) /\ lane'[c] = [lane[c] EXCEPT !.wire = Tail(@)]
    BY <1>2, <2>1 DEF LanesKept
  <2>3. KeepsAllBut(lane[c], lane'[c], {"wire"}) /\ lane'[c].wire = Tail(lane[c].wire)
    BY <1>2, <2>2 DEF KeepsAllBut, LaneSet
  <2>4. \/ f.kind \notin Tails /\ client' = [client EXCEPT !.got = f]
        \/ f.kind \in Tails /\ f.sub \in client.retired /\ client' = client
        \/ f.kind \in Tails /\ client' = [client EXCEPT !.inbox = Append(@, f)]
    BY <1>1, <1>3, <1>5 DEF Dispatch, Tails
  <2>5. client \in ClientSet
    BY ClientShape
  <2>6. \/ f.kind \notin Tails /\ ClientKeeps({"got"}) /\ client'.got = f
        \/ f.kind \in Tails /\ f.sub \in client.retired /\ client' = client
        \/ f.kind \in Tails /\ ClientKeeps({"inbox"}) /\ client'.inbox = Append(client.inbox, f)
    <3>1. CASE f.kind \notin Tails /\ client' = [client EXCEPT !.got = f]
      BY <2>5, <3>1 DEF ClientKeeps, ClientSet
    <3>2. CASE f.kind \in Tails /\ client' = [client EXCEPT !.inbox = Append(@, f)]
      BY <2>5, <3>2 DEF ClientKeeps, ClientSet
    <3> QED BY <2>4, <3>1, <3>2
  <2>7. Dispatches(f)
    BY <1>0, <1>1, <1>2, <1>3, <2>2, <2>3, <2>6 DEF Dispatches, Mine
  <2> QED BY <1>0, <2>7
<1> QED BY <1>4, <1>5

\* What the start of synchronize changes.
LEMMA SynchronizeCases ==
    ASSUME ShapeInv, Synchronize
    PROVE  HostKept /\ Synchronizes
<1>0. client \in ClientSet /\ client.conn # 0 /\ (client.sub # 0 => client.sub \in Subs)
      /\ client.sub \in 0 .. MaxSubs /\ 0 \in 0 .. MaxSubs
  BY ClientShape, Bounds DEF Synchronize
<1>1. CASE client.sub # 0
  <2>1. client' = [client EXCEPT !.state = "Pending", !.phase = "releasing"] /\ Send("release", client.sub, 0)
    BY <1>1 DEF Synchronize
  <2>2. ClientKeeps({"state", "phase", "seen"}) /\ client'.state = "Pending" /\ client'.phase = "releasing"
        /\ client'.seen = client.seen
    BY <1>0, <2>1 DEF ClientKeeps, ClientSet
  <2>3. Issues("release", client.sub, 0)
    BY <1>0, <1>1, <2>1, SendIssues
  <2> QED BY <1>1, <2>2, <2>3 DEF Synchronize, Synchronizes, HostKept
<1>2. CASE client.sub = 0
  <2>1. client' = [client EXCEPT !.state = "Pending", !.phase = "snapshot", !.seen = {}] /\ Send("snapshot", 0, 0)
    BY <1>2 DEF Synchronize
  <2>2. ClientKeeps({"state", "phase", "seen"}) /\ client'.state = "Pending" /\ client'.phase = "snapshot"
        /\ client'.seen = {}
    BY <1>0, <2>1 DEF ClientKeeps, ClientSet
  <2>3. Issues("snapshot", 0, 0)
    BY <1>0, <2>1, SendIssues
  <2> QED BY <1>2, <2>2, <2>3 DEF Synchronize, Synchronizes, HostKept
<1> QED BY <1>1, <1>2

\* What the answer to a release changes.
LEMMA ReleasedCases ==
    ASSUME ShapeInv, ConnInv, Released
    PROVE  HostKept /\ (Leaves \/ Releases)
<1>0. client \in ClientSet /\ client.conn # 0 /\ HostKept /\ control' = control /\ 0 \in 0 .. MaxSubs
  BY ClientShape, Bounds DEF Released, HostKept, ConnInv
<1>1. CASE LeaveConnection /\ UNCHANGED jobs
  BY <1>0, <1>1 DEF Leaves
<1>2. CASE ~(LeaveConnection /\ UNCHANGED jobs)
  <2>1. PICK r : r = Without(client.retained \o client.inbox, client.sub)
    OBVIOUS
  <2>2. PICK cl : cl = [client EXCEPT !.retired = @ \cup {client.sub}, !.retained = r, !.inbox = <<>>, !.got = None]
    OBVIOUS
  <2>3. [Retire(client) EXCEPT !.got = None] = cl
    BY <2>1, <2>2 DEF Retire
  <2>4. r \in Seq(FrameSet)
    BY <2>1, RetireShape
  <2>5. cl \in ClientSet
    <3>1. client.sub \in 0 .. MaxSubs
      BY ClientShape
    <3>2. <<>> \in Seq(FrameSet)
      OBVIOUS
    <3>3. client.retired \cup {client.sub} \in SUBSET (0 .. MaxSubs)
      BY <1>0, <3>1 DEF ClientSet
    <3> QED BY <1>0, <2>2, <2>4, <3>2, <3>3, NoneShape DEF ClientSet
  <2>6. /\ cl.conn = client.conn /\ cl.opened = client.opened /\ cl.phase = client.phase /\ cl.got = None
        /\ cl.state = client.state /\ cl.sub = client.sub /\ cl.model = client.model
        /\ cl.building = client.building /\ cl.seen = client.seen /\ cl.inbox = <<>> /\ cl.retained = r
        /\ cl.retired = client.retired \cup {client.sub} /\ cl.verdict = client.verdict
        /\ cl.grant = client.grant
    BY <1>0, <2>2 DEF ClientSet
  <2> DEFINE Keeps == ClientKeeps({"retired", "retained", "inbox", "got", "phase", "state", "sub", "seen", "model"})
                      /\ client'.got = None /\ client'.retired = client.retired \cup {client.sub}
                      /\ client'.inbox = <<>> /\ client'.retained = r
  <2>a. UNCHANGED lane /\ client.got.kind \in {"released", "refused"} /\ client.phase \in {"releasing", "cleanup", "closing"}
    BY <1>2 DEF Released
  <2>7. CASE /\ client.got.kind = "refused" /\ client' = [cl EXCEPT !.phase = "idle", !.state = "NeedsResync"]
             /\ UNCHANGED jobs
    <3>1. Keeps /\ client'.phase = "idle" /\ client'.state = "NeedsResync"
          /\ client'.sub = client.sub /\ client'.seen = client.seen /\ client'.model = client.model
      BY <2>5, <2>6, <2>7 DEF ClientKeeps, ClientSet
    <3> QED BY <1>0, <2>1, <2>7, <2>a, <3>1 DEF Releases
  <2>8. CASE /\ client.got.kind = "released" /\ client.phase = "releasing"
             /\ client' = [cl EXCEPT !.sub = 0, !.seen = {}, !.phase = "snapshot"]
             /\ Send("snapshot", 0, 0)
    <3>1. Keeps /\ client'.phase = "snapshot" /\ client'.state = client.state
          /\ client'.sub = 0 /\ client'.seen = {} /\ client'.model = client.model
      BY <2>5, <2>6, <2>8 DEF ClientKeeps, ClientSet
    <3>2. Issues("snapshot", 0, 0)
      BY <1>0, <2>8, SendIssues
    <3> QED BY <1>0, <2>1, <2>8, <2>a, <3>1, <3>2 DEF Releases
  <2>9. CASE /\ client.got.kind = "released" /\ client.phase = "cleanup"
             /\ client' = [cl EXCEPT !.sub = 0, !.phase = "idle"]
             /\ UNCHANGED jobs
    <3>1. Keeps /\ client'.phase = "idle" /\ client'.state = client.state
          /\ client'.sub = 0 /\ client'.seen = client.seen /\ client'.model = client.model
      BY <2>5, <2>6, <2>9 DEF ClientKeeps, ClientSet
    <3> QED BY <1>0, <2>1, <2>9, <2>a, <3>1 DEF Releases
  <2>10. CASE /\ client.got.kind = "released"
             /\ client' = [cl EXCEPT !.sub = 0, !.phase = "idle", !.state = "Pending",
                                  !.model = NoModel, !.seen = {}]
             /\ UNCHANGED jobs
    <3>1. Keeps /\ client'.phase = "idle" /\ client'.state = "Pending"
          /\ client'.sub = 0 /\ client'.seen = {} /\ client'.model = NoModel
      BY <2>5, <2>6, <2>10 DEF ClientKeeps, ClientSet
    <3> QED BY <1>0, <2>1, <2>10, <2>a, <3>1 DEF Releases
  <2> QED BY <1>2, <2>3, <2>7, <2>8, <2>9, <2>10 DEF Released
<1> QED BY <1>1, <1>2

\* What the complete snapshot changes.
LEMMA SnapshotCases ==
    ASSUME ShapeInv, ConnInv, SnapshotRead
    PROVE  HostKept /\ ReadsSnapshot
<1>0. client \in ClientSet /\ client.conn # 0 /\ client.got.hi \in Nat /\ 0 \in 0 .. MaxSubs
  BY ClientShape, FrameFields, Bounds DEF SnapshotRead, ConnInv
<1>1. PICK b : b = Model(client.got.hi, 1 .. client.got.hi)
  OBVIOUS
<1>2. client' = [client EXCEPT !.phase = "replay", !.got = None, !.building = b]
  BY <1>1 DEF SnapshotRead
<1>3. ClientKeeps({"phase", "got", "building"}) /\ client'.phase = "replay" /\ client'.got = None
      /\ client'.building = b
  BY <1>0, <1>2 DEF ClientKeeps, ClientSet
<1>4. Issues("open", 0, client.got.hi)
  BY <1>0, SendIssues DEF SnapshotRead
<1> QED BY <1>0, <1>1, <1>3, <1>4 DEF SnapshotRead, ReadsSnapshot, HostKept

\* What a replay page changes.
LEMMA PageCases ==
    ASSUME ShapeInv, ConnInv, RequestInv, ReplayPage
    PROVE  HostKept /\ \E p \in FrameSet : ReadsPage(p)
<1>0. client \in ClientSet /\ client.conn # 0
  BY ClientShape DEF ReplayPage, ConnInv
<1>1. PICK p \in FrameSet : p = client.got
  BY ClientShape
<1>2. p.kind = "page" /\ client.phase = "replay" /\ HostKept /\ UNCHANGED <<control, lane>>
  BY <1>1 DEF ReplayPage, HostKept
<1>3. p.hi \in Nat /\ p.lo \in Nat /\ p.end \in Nat /\ p.sub \in Subs /\ p.sub \in 0 .. MaxSubs
  BY <1>2, FrameFields
<1>4. p \in UnderWay /\ ReplyFits(p)
  BY <1>0, <1>1 DEF UnderWay, Arriving, RequestInv
<1>5. p.lo = client.building.last /\ p.hi <= p.end
  BY <1>2, <1>4 DEF ReplyFits
<1>6. PICK b : b = Model(p.hi, client.building.seqs \cup (p.lo + 1 .. p.hi))
  OBVIOUS
<1>7. PICK new : new = p.lo + 1 .. p.hi
  OBVIOUS
<1> DEFINE read == [[client EXCEPT !.got = None, !.sub = p.sub] EXCEPT !.seen = @ \cup new]
<1>8. CASE p.hi < p.end /\ client' = [read EXCEPT !.building = b] /\ Send("continue", p.sub, p.hi)
  <2>1. ClientKeeps({"got", "sub", "seen", "building"}) /\ client'.got = None /\ client'.sub = p.sub
        /\ client'.seen = client.seen \cup new /\ client'.building = b
    BY <1>0, <1>8 DEF ClientKeeps, ClientSet
  <2>2. ClientKeeps({"got", "sub", "phase", "state", "seen", "building", "model"})
    BY <2>1 DEF ClientKeeps
  <2>3. Issues("continue", p.sub, p.hi)
    BY <1>0, <1>3, <1>8, SendIssues
  <2>4. ReadsPage(p)
    BY <1>0, <1>1, <1>2, <1>3, <1>4, <1>6, <1>7, <1>8, <2>1, <2>2, <2>3 DEF ReadsPage
  <2> QED BY <1>2, <2>4
<1>9. CASE /\ ~(p.hi < p.end) /\ UNCHANGED jobs
           /\ client' = [read EXCEPT !.phase = "idle", !.state = "Ready", !.building = NoModel, !.model = b]
  <2>1. ClientKeeps({"got", "sub", "phase", "state", "seen", "building", "model"}) /\ client'.got = None
        /\ client'.sub = p.sub /\ client'.seen = client.seen \cup new /\ client'.building = NoModel
        /\ client'.model = b /\ client'.phase = "idle" /\ client'.state = "Ready"
    BY <1>0, <1>9 DEF ClientKeeps, ClientSet
  <2>2. p.hi = p.end
    BY <1>3, <1>5, <1>9
  <2>3. ReadsPage(p)
    BY <1>0, <1>1, <1>2, <1>3, <1>4, <1>6, <1>7, <1>9, <2>1, <2>2 DEF ReadsPage
  <2> QED BY <1>2, <2>3
<1> QED BY <1>1, <1>5, <1>6, <1>7, <1>8, <1>9 DEF ReplayPage

\* What a refused continuation changes.
LEMMA RefusedCases ==
    ASSUME ShapeInv, ConnInv, RequestInv, ReplayRefused
    PROVE  HostKept /\ IsRefused
<1>0. client.conn # 0 /\ client.got \in UnderWay /\ client \in ClientSet
  BY ClientShape DEF ReplayRefused, ConnInv, UnderWay, Arriving
<1>1. client.sub # 0
  BY <1>0 DEF ReplayRefused, RequestInv, ReplyFits, Releasing
<1>2. client.sub \in Subs /\ client.sub \in 0 .. MaxSubs
  BY <1>1, ClientShape
<1>3. ClientKeeps({"got", "phase", "state"}) /\ client'.got = None
      /\ client'.phase = "cleanup" /\ client'.state = "NeedsResync"
  BY <1>0 DEF ReplayRefused, ClientKeeps, ClientSet
<1>4. Issues("release", client.sub, 0)
  BY <1>0, <1>2, SendIssues DEF ReplayRefused
<1> QED BY <1>0, <1>2, <1>3, <1>4 DEF ReplayRefused, IsRefused, HostKept

\* What handling one live frame changes, by its verdict.
LEMMA HandledCases ==
    ASSUME NEW cl \in ClientSet, NEW f \in FrameSet, client' = Handled(cl, f)
    PROVE  /\ client'.conn = cl.conn /\ client'.opened = cl.opened /\ client'.phase = cl.phase
           /\ client'.grant = cl.grant
           /\ client'.got = cl.got /\ client'.sub = cl.sub /\ client'.building = cl.building
           /\ client'.inbox = cl.inbox /\ client'.retained = cl.retained /\ client'.retired = cl.retired
           /\ \/ /\ f.sub # cl.sub /\ client'.state = "NeedsResync" /\ client'.verdict = "foreign"
                 /\ client'.model = cl.model /\ client'.seen = cl.seen
              \/ /\ f.sub = cl.sub /\ f.kind = "resync" /\ client'.state = "NeedsResync"
                 /\ client'.verdict = IF f.hi < f.lo \/ f.lo # cl.model.last THEN "invalid resync" ELSE "resync"
                 /\ client'.model = cl.model /\ client'.seen = cl.seen
              \/ /\ f.sub = cl.sub /\ f.kind # "resync" /\ f.hi \in cl.seen /\ client'.verdict = "seen"
                 /\ client'.model = cl.model /\ client'.seen = cl.seen /\ client'.state = cl.state
              \/ /\ f.sub = cl.sub /\ f.kind # "resync" /\ f.hi \notin cl.seen /\ f.hi <= cl.model.last
                 /\ client'.verdict = "regression" /\ client'.state = "NeedsResync"
                 /\ client'.model = cl.model /\ client'.seen = cl.seen
              \/ /\ f.sub = cl.sub /\ f.kind # "resync" /\ f.hi > cl.model.last
                 /\ client'.verdict = "ok" /\ client'.state = cl.state /\ client'.seen = cl.seen \cup {f.hi}
                 /\ client'.model = Model(f.hi, cl.model.seqs \cup {f.hi})
<1>0. f.hi \in Nat /\ cl.model.last \in Nat
  BY FrameFields DEF ClientSet, ModelSet
<1>1. CASE f.sub # cl.sub
  <2>1. client' = [cl EXCEPT !.state = "NeedsResync", !.verdict = "foreign"]
    BY <1>1 DEF Handled
  <2> QED BY <1>1, <2>1 DEF ClientSet
<1>2. CASE f.sub = cl.sub /\ f.kind = "resync"
  <2>1. PICK v : v = IF f.hi < f.lo \/ f.lo # cl.model.last THEN "invalid resync" ELSE "resync"
    OBVIOUS
  <2>2. client' = [cl EXCEPT !.state = "NeedsResync", !.verdict = v]
    BY <1>2, <2>1 DEF Handled
  <2> QED BY <1>2, <2>1, <2>2 DEF ClientSet
<1>3. CASE f.sub = cl.sub /\ f.kind # "resync" /\ f.hi \in cl.seen
  <2>1. client' = [cl EXCEPT !.verdict = "seen"]
    BY <1>3 DEF Handled
  <2> QED BY <1>3, <2>1 DEF ClientSet
<1>4. CASE f.sub = cl.sub /\ f.kind # "resync" /\ f.hi \notin cl.seen /\ f.hi <= cl.model.last
  <2>1. client' = [cl EXCEPT !.state = "NeedsResync", !.verdict = "regression"]
    BY <1>4 DEF Handled
  <2> QED BY <1>4, <2>1 DEF ClientSet
<1>5. CASE f.sub = cl.sub /\ f.kind # "resync" /\ f.hi \notin cl.seen /\ ~(f.hi <= cl.model.last)
  <2>1. PICK b : b = Model(f.hi, cl.model.seqs \cup {f.hi})
    OBVIOUS
  <2>2. client' = [cl EXCEPT !.seen = @ \cup {f.hi}, !.verdict = "ok", !.model = b]
    BY <1>5, <2>1 DEF Handled
  <2>3. f.hi > cl.model.last
    BY <1>0, <1>5
  <2> QED BY <1>5, <2>1, <2>2, <2>3 DEF ClientSet
<1> QED BY <1>1, <1>2, <1>3, <1>4, <1>5

\* What receiving one live frame changes.
LEMMA ReceiveCases ==
    ASSUME ShapeInv, Receive
    PROVE  HostKept /\ \E f \in FrameSet : Receives(f)
<1>0. /\ client.conn # 0 /\ client.phase = "idle" /\ client.state = "Ready" /\ UNCHANGED <<jobs, control, lane>> /\ HostKept
      /\ client \in ClientSet /\ client.retained \in Seq(FrameSet) /\ client.inbox \in Seq(FrameSet)
  BY ClientShape DEF Receive, HostKept
<1> DEFINE Popped(f, cl) ==
    /\ \/ /\ client.retained # <<>> /\ f = Head(client.retained)
          /\ cl.retained = Tail(client.retained) /\ cl.inbox = client.inbox
       \/ /\ client.retained = <<>> /\ client.inbox # <<>> /\ f = Head(client.inbox)
          /\ cl.inbox = Tail(client.inbox) /\ cl.retained = client.retained
    /\ cl.conn = client.conn /\ cl.opened = client.opened /\ cl.phase = client.phase
    /\ cl.got = client.got /\ cl.state = client.state /\ cl.sub = client.sub /\ cl.model = client.model
    /\ cl.building = client.building /\ cl.seen = client.seen /\ cl.retired = client.retired
    /\ cl.verdict = client.verdict /\ cl.grant = client.grant
    /\ client' = IF f.sub \in client.retired THEN cl ELSE Handled(cl, f)
<1>1. \E f \in FrameSet, cl \in ClientSet : Popped(f, cl)
  <2>1. CASE client.retained # <<>>
    <3>1. PICK f \in FrameSet : f = Head(client.retained) /\ Tail(client.retained) \in Seq(FrameSet)
      BY <1>0, <2>1, InTail
    <3>2. PICK cl : cl = [client EXCEPT !.retained = Tail(@)]
      OBVIOUS
    <3>3. cl \in ClientSet
      BY <1>0, <3>1, <3>2 DEF ClientSet
    <3>4. Popped(f, cl)
      BY <1>0, <2>1, <3>1, <3>2 DEF Receive, ClientSet
    <3> QED BY <3>3, <3>4
  <2>2. CASE client.retained = <<>> /\ client.inbox # <<>>
    <3>1. PICK f \in FrameSet : f = Head(client.inbox) /\ Tail(client.inbox) \in Seq(FrameSet)
      BY <1>0, <2>2, InTail
    <3>2. PICK cl : cl = [client EXCEPT !.inbox = Tail(@)]
      OBVIOUS
    <3>3. cl \in ClientSet
      BY <1>0, <3>1, <3>2 DEF ClientSet
    <3>4. Popped(f, cl)
      BY <1>0, <2>2, <3>1, <3>2 DEF Receive, ClientSet
    <3> QED BY <3>3, <3>4
  <2> QED BY <2>1, <2>2 DEF Receive
<1>2. PICK f \in FrameSet, cl \in ClientSet : Popped(f, cl)
  BY <1>1
<1>3. Receives(f)
  <2>1. CASE f.sub \in client.retired
    <3>1. client' = cl
      BY <1>2, <2>1
    <3> QED BY <1>0, <1>2, <2>1, <3>1 DEF Receives, ClientKeeps
  <2>2. CASE f.sub \notin client.retired
    <3>1. client' = Handled(cl, f)
      BY <1>2, <2>2
    <3>2. /\ ClientKeeps({"retained", "inbox", "state", "verdict", "seen", "model"})
          /\ client'.inbox = cl.inbox /\ client'.retained = cl.retained
          /\ \/ /\ f.sub # cl.sub /\ client'.state = "NeedsResync" /\ client'.verdict = "foreign"
                /\ client'.model = cl.model /\ client'.seen = cl.seen
             \/ /\ f.sub = cl.sub /\ f.kind = "resync" /\ client'.state = "NeedsResync"
                /\ client'.verdict = IF f.hi < f.lo \/ f.lo # cl.model.last THEN "invalid resync" ELSE "resync"
                /\ client'.model = cl.model /\ client'.seen = cl.seen
             \/ /\ f.sub = cl.sub /\ f.kind # "resync" /\ f.hi \in cl.seen /\ client'.verdict = "seen"
                /\ client'.model = cl.model /\ client'.seen = cl.seen /\ client'.state = cl.state
             \/ /\ f.sub = cl.sub /\ f.kind # "resync" /\ f.hi \notin cl.seen /\ f.hi <= cl.model.last
                /\ client'.verdict = "regression" /\ client'.state = "NeedsResync"
                /\ client'.model = cl.model /\ client'.seen = cl.seen
             \/ /\ f.sub = cl.sub /\ f.kind # "resync" /\ f.hi > cl.model.last
                /\ client'.verdict = "ok" /\ client'.state = cl.state /\ client'.seen = cl.seen \cup {f.hi}
                /\ client'.model = Model(f.hi, cl.model.seqs \cup {f.hi})
      BY <1>2, <3>1, HandledCases DEF ClientKeeps
    <3> QED BY <1>0, <1>2, <2>2, <3>2 DEF Receives, ClientKeeps
  <2> QED BY <2>1, <2>2
<1> QED BY <1>0, <1>3

\* Every step of the caller is one of these changes.
LEMMA CallerCases ==
    ASSUME ShapeInv, ConnInv, RequestInv, Caller
    PROVE  HostKept /\ CallerDoes
<1>0. client \in ClientSet /\ (client.sub # 0 => client.sub \in Subs) /\ client.sub \in 0 .. MaxSubs
  BY ClientShape
<1>1. CASE Disconnect \/ ReadClosed
  BY <1>1 DEF Disconnect, ReadClosed, Leaves, CallerDoes, HostKept
<1>2. CASE Gap
  <2>1. ClientKeeps({"state"}) /\ client'.state = "NeedsResync"
    BY <1>0, <1>2 DEF Gap, ClientKeeps, ClientSet
  <2> QED BY <1>2, <2>1 DEF Gap, Gaps, CallerDoes, HostKept
<1>3. CASE Close
  <2>1. CASE client.sub # 0
    <3>1. client' = [client EXCEPT !.phase = "closing"] /\ Send("release", client.sub, 0) /\ client.conn # 0
      BY <1>3, <2>1 DEF Close
    <3>2. ClientKeeps({"phase"}) /\ client'.phase = "closing"
      BY <1>0, <3>1 DEF ClientKeeps, ClientSet
    <3>3. Issues("release", client.sub, 0)
      BY <1>0, <2>1, <3>1, SendIssues
    <3> QED BY <1>3, <2>1, <3>2, <3>3 DEF Close, Closes, CallerDoes, HostKept
  <2>2. CASE client.sub = 0
    <3>1. client' = [client EXCEPT !.state = "Pending", !.model = NoModel, !.seen = {}] /\ UNCHANGED jobs
      BY <1>3, <2>2 DEF Close
    <3>2. ClientKeeps({"state", "model", "seen"}) /\ client'.state = "Pending" /\ client'.model = NoModel
          /\ client'.seen = {}
      BY <1>0, <3>1 DEF ClientKeeps, ClientSet
    <3> QED BY <1>3, <2>2, <3>1, <3>2 DEF Close, Closes, CallerDoes, HostKept
  <2> QED BY <2>1, <2>2
<1>4. CASE Dispatch
  BY <1>4, DispatchCases DEF CallerDoes
<1>5. CASE Connect
  BY <1>5, ConnectCases DEF CallerDoes
<1>6. CASE Synchronize
  BY <1>6, SynchronizeCases DEF CallerDoes
<1>7. CASE Released
  BY <1>7, ReleasedCases DEF CallerDoes
<1>8. CASE SnapshotRead
  BY <1>8, SnapshotCases DEF CallerDoes
<1>9. CASE ReplayPage
  BY <1>9, PageCases DEF CallerDoes
<1>10. CASE ReplayRefused
  BY <1>10, RefusedCases DEF CallerDoes
<1>11. CASE Receive
  BY <1>11, ReceiveCases DEF CallerDoes
<1> QED BY <1>1, <1>2, <1>3, <1>4, <1>5, <1>6, <1>7, <1>8, <1>9, <1>10, <1>11 DEF Caller

\* The number of connections the client opened never falls.
LEMMA CallerOpened ==
    ASSUME ShapeInv, CallerDoes
    PROVE  client.opened \in Nat /\ client'.opened \in Nat /\ client.opened <= client'.opened
<1>0. client.opened \in Nat
  BY ClientShape, Bounds
<1>1. client'.opened = client.opened \/ client'.opened = client.opened + 1
  <2>1. CASE Leaves
    BY <2>1, LeaveShape DEF Leaves
  <2>2. ASSUME NEW c \in Conns, Connects(c) PROVE client'.opened = client.opened + 1
    BY <2>2 DEF Connects
  <2>3. ASSUME NEW f \in FrameSet, Dispatches(f) \/ ReadsPage(f) \/ Receives(f) PROVE client'.opened = client.opened
    BY <2>3 DEF Dispatches, ReadsPage, Receives, ClientKeeps
  <2>4. ASSUME Synchronizes \/ Releases \/ ReadsSnapshot \/ IsRefused \/ Gaps \/ Closes
        PROVE  client'.opened = client.opened
    BY <2>4 DEF Synchronizes, Releases, ReadsSnapshot, IsRefused, Gaps, Closes, ClientKeeps
  <2> QED BY <2>1, <2>2, <2>3, <2>4 DEF CallerDoes
<1> QED BY <1>0, <1>1

\* The caller keeps the registry consistent.
LEMMA CallerRegistry ==
    ASSUME ShapeInv, RegistryInv, HostKept, CallerDoes
    PROVE  RegistryInv'
BY CallerOpened, RegistryKept DEF HostKept

\* Only a connect sends a control message.
LEMMA CallerControlKept ==
    ASSUME CallerDoes, \A c \in Conns : ~Connects(c)
    PROVE  control' = control
BY DEF CallerDoes, Leaves, Dispatches, Synchronizes, Releases, ReadsSnapshot, ReadsPage, IsRefused,
       Receives, Gaps, Closes

\* The caller keeps the control queue consistent.
LEMMA CallerControl ==
    ASSUME ShapeInv, RegistryInv, ControlInv, HostKept, CallerDoes
    PROVE  ControlInv'
<1>0. client.opened \in Nat /\ client'.opened \in Nat /\ client.opened <= client'.opened
  BY CallerOpened
<1>1. ASSUME NEW c \in Conns, Connects(c) PROVE ControlInv'
  <2>1. PICK m \in ControlSet : /\ m.kind = "register" /\ m.conn = c /\ m.from \in {0, client.opened}
                                /\ control' = Append(control, m)
    BY <1>1 DEF Connects
  <2>2. c = client.opened + 1 /\ client'.opened = c
    BY <1>1 DEF Connects
  <2>3. \A s \in Subs : registry[s].scope <= client.opened
    BY DEF RegistryInv, EntryOK
  <2>4. m.from < m.conn /\ m.conn > client.opened /\ m.conn <= client'.opened
    BY <1>0, <2>1, <2>2
  <2> QED BY <1>0, <2>1, <2>3, <2>4, ControlSent DEF HostKept
<1>2. CASE \A c \in Conns : ~Connects(c)
  <2>1. control' = control
    BY <1>2, CallerControlKept
  <2> QED BY <1>0, <2>1, ControlKept DEF HostKept
<1> QED BY <1>1, <1>2

-----------------------------------------------------------------------------
\* A host step keeps ConnInv when it touches only opened connections and the
\* client's output is registered, shut down or being registered.
LEMMA ConnHost ==
    ASSUME ShapeInv, ConnInv, client' = client,
           \A c \in Conns : c > client.opened => lane'[c] = lane[c] /\ exec'.to # c,
           In(jobs') \subseteq In(jobs),
           client.conn # 0 => \/ client.conn \in outputs' \/ lane'[client.conn].shutdown
                              \/ Registering(client.conn)',
           \A c \in Conns : lane'[c].closed => lane'[c].shutdown
    PROVE  ConnInv'
BY DEF ConnInv

\* The lanes of connections that were never opened are untouched.
LEMMA OneLane ==
    ASSUME ShapeInv, ConnInv, client' = client, NEW c \in Conns, c <= client.opened, LanesKept(c),
           lane'[c].closed => lane'[c].shutdown,
           exec'.to = exec.to \/ exec'.to = c \/ exec'.to = 0, In(jobs') \subseteq In(jobs),
           client.conn # 0 => \/ client.conn \in outputs' \/ lane'[client.conn].shutdown
                              \/ Registering(client.conn)'
    PROVE  ConnInv'
<1>1. \A d \in Conns : d \in Nat /\ d # 0 /\ client.opened \in Nat
  BY ClientShape, Bounds DEF Conns
<1>2. \A d \in Conns : d > client.opened => d # c /\ lane'[d] = lane[d] /\ exec'.to # d
  BY <1>1 DEF ConnInv, LanesKept
<1>3. \A d \in Conns : lane'[d].closed => lane'[d].shutdown
  BY DEF ConnInv, LanesKept
<1> QED BY <1>2, <1>3, ConnHost

\* A step that leaves every lane alone keeps the connection facts.
LEMMA NoLane ==
    ASSUME ShapeInv, ConnInv, client' = client, lane' = lane, outputs' = outputs, control' = control,
           exec'.to = exec.to \/ exec'.to = 0, In(jobs') \subseteq In(jobs)
    PROVE  ConnInv'
<1>1. \A d \in Conns : d \in Nat /\ d # 0 /\ client.opened \in Nat
  BY ClientShape, Bounds DEF Conns
<1>2. \A d \in Conns : d > client.opened => lane'[d] = lane[d] /\ exec'.to # d
  BY <1>1 DEF ConnInv
<1>3. client.conn # 0 => \/ client.conn \in outputs' \/ lane'[client.conn].shutdown
                         \/ Registering(client.conn)'
  BY DEF ConnInv, Registering
<1> QED BY <1>2, <1>3, ConnHost DEF ConnInv

\* Jobs that do not change are among the jobs.
LEMMA InSame ==
    In(jobs) \subseteq In(jobs) /\ (jobs' = jobs => In(jobs') \subseteq In(jobs))
BY DEF In

\* A step that shuts nothing else down keeps the client's output known.
LEMMA OutputKept ==
    ASSUME ConnInv, client' = client, client.conn # 0, outputs' = outputs, control' = control,
           lane[client.conn].shutdown => lane'[client.conn].shutdown
    PROVE  \/ client.conn \in outputs' \/ lane'[client.conn].shutdown \/ Registering(client.conn)'
BY DEF ConnInv, Registering

\* Catching up keeps the connection facts.
LEMMA CatchUpConn ==
    ASSUME ShapeInv, RegistryInv, ConnInv, NEW s \in Subs, NEW c \in Conns, CaughtUpBy(s, c)
    PROVE  ConnInv'
<1>1. /\ client' = client /\ outputs' = outputs /\ control' = control /\ exec'.to = exec.to
      /\ In(jobs') \subseteq In(jobs) /\ c = registry[s].live
  BY InSame DEF CaughtUpBy
<1>2. c <= client.opened
  <2>1. c \in {0, registry[s].scope} /\ c # 0 /\ registry[s].scope <= client.opened
    BY <1>1, EntryShape DEF RegistryInv, EntryOK
  <2> QED BY <2>1
<1>3. CASE lane' = lane
  BY <1>1, <1>3, NoLane
<1>4. CASE Admits(s, c)
  <2>1. lane'[c].closed = lane[c].closed /\ lane'[c].shutdown = lane[c].shutdown /\ LanesKept(c)
    BY <1>4 DEF Admits, KeepsAllBut
  <2>2. client.conn # 0 => (lane[client.conn].shutdown => lane'[client.conn].shutdown)
    BY <2>1, ClientShape DEF LanesKept
  <2>3. lane'[c].closed => lane'[c].shutdown
    BY <2>1 DEF ConnInv
  <2> QED BY <1>1, <1>2, <2>1, <2>2, <2>3, OneLane, OutputKept
<1>5. CASE Resyncs(s, c)
  <2>0. PICK f \in FrameSet : lane'[c] = AdmitCritical(lane[c], f)
    BY <1>5 DEF Resyncs
  <2>1. lane'[c].closed = lane[c].closed /\ LanesKept(c) /\ ~lane[c].shutdown
    BY <1>5, <2>0, LaneShape, AdmitShape DEF Resyncs
  <2>2. client.conn # 0 => (lane[client.conn].shutdown => lane'[client.conn].shutdown)
    BY <2>1, ClientShape DEF LanesKept
  <2>3. lane'[c].closed => lane'[c].shutdown
    BY <2>1 DEF ConnInv
  <2> QED BY <1>1, <1>2, <2>1, <2>2, <2>3, OneLane, OutputKept
<1> QED BY <1>1, <1>3, <1>4, <1>5 DEF CaughtUpBy, Gone

\* Serving a request keeps the connection facts.
LEMMA ServeConn ==
    ASSUME ShapeInv, ConnInv, NEW j \in JobSet, Serves(j)
    PROVE  ConnInv'
<1>1. /\ client' = client /\ outputs' = outputs /\ control' = control /\ j.conn \in Conns
      /\ j.conn <= client.opened /\ exec.to = 0
  BY DEF Serves
<1>2. In(jobs') \subseteq In(jobs)
  <2>1. jobs' = Tail(jobs) /\ jobs \in Seq(JobSet) /\ jobs # <<>>
    BY DEF Serves
  <2> QED BY <2>1, InTail
<1>3. CASE Busies(j)
  <2>1. lane'[j.conn].shutdown /\ LanesKept(j.conn) /\ exec' = exec
    BY <1>3 DEF Busies, Shut
  <2>2. client.conn # 0 => (lane[client.conn].shutdown => lane'[client.conn].shutdown)
    BY <2>1, ClientShape DEF LanesKept
  <2> QED BY <1>1, <1>2, <2>1, <2>2, OneLane, OutputKept
<1>4. CASE lane' = lane /\ exec'.to = j.conn
  <2>1. LanesKept(j.conn)
    BY <1>4 DEF LanesKept
  <2> QED BY <1>1, <1>2, <1>4, <2>1, OneLane, OutputKept DEF ConnInv
<1>5. CASE OpensFor(j)
  <2>1. lane' = lane /\ exec'.to = j.conn
    BY <1>5 DEF OpensFor, Opens, Answer
  <2> QED BY <1>4, <2>1
<1>6. CASE ContinuesFor(j)
  <2>1. lane' = lane /\ exec'.to = j.conn
    BY <1>6 DEF ContinuesFor, Continues, Answer
  <2> QED BY <1>4, <2>1
<1> QED BY <1>3, <1>4, <1>5, <1>6 DEF Serves, Snaps, ReleasesFor

\* Detaching an output keeps the connection facts.
LEMMA DetachConn ==
    ASSUME ShapeInv, ConnInv, client' = client, exec' = exec, jobs' = jobs, NEW c \in Conns, c <= client.opened,
           Detaches(c), client.conn # 0 /\ Registering(client.conn) => Registering(client.conn)'
    PROVE  ConnInv'
<1>1. LanesKept(c) /\ lane'[c].shutdown /\ outputs' = outputs \ {c} /\ In(jobs') \subseteq In(jobs)
  BY InSame DEF Detaches, Shut
<1>2. client.conn # 0 => \/ client.conn \in outputs' \/ lane'[client.conn].shutdown
                         \/ Registering(client.conn)'
  BY <1>1, ClientShape DEF LanesKept, ConnInv
<1> QED BY <1>1, <1>2, OneLane

\* A control message keeps the connection facts.
LEMMA ControlConn ==
    ASSUME ShapeInv, ConnInv, NEW m \in ControlSet, Handles(m)
    PROVE  ConnInv'
<1>1. client' = client /\ exec' = exec /\ jobs' = jobs /\ m.conn \in Conns /\ m.conn <= client.opened
      /\ m = Head(control) /\ control \in Seq(ControlSet) /\ control # <<>> /\ control' = Tail(control)
  BY DEF Handles
<1>2. client.conn # 0 /\ Registering(client.conn) =>
         Registering(client.conn)' \/ (m.kind = "register" /\ m.conn = client.conn)
  <2>1. PICK d : d = client.conn
    OBVIOUS
  <2>2. Registering(d) => Registering(d)' \/ (m.kind = "register" /\ m.conn = d)
    BY <1>1, RegisteringMoves
  <2>3. d = client'.conn
    BY <1>1, <2>1
  <2> QED BY <2>1, <2>2, <2>3 DEF Registering
<1>3. CASE m.kind = "unregister" /\ Detaches(m.conn)
  BY <1>1, <1>2, <1>3, DetachConn
<1>4. CASE Registers(m.conn, m.from)
  <2>0. PICK old \in 0 .. MaxConns : old = m.from /\ old < m.conn
    BY <1>4 DEF Registers
  <2>1. /\ \A d \in Conns : lane'[d] = lane[d] \/ (d = old /\ Shut(lane[d], lane'[d]))
        /\ outputs \ {old} \subseteq outputs' /\ (lane[m.conn].closed \/ m.conn \in outputs')
    BY <1>4, <2>0 DEF Registers
  <2>2. \A d \in Conns : d \in Nat /\ d # 0 /\ client.opened \in Nat /\ old \in Nat
    BY ClientShape, Bounds DEF Conns
  <2>3. \A d \in Conns : d > client.opened => lane'[d] = lane[d] /\ exec'.to # d
    BY <1>1, <2>0, <2>1, <2>2 DEF ConnInv
  <2>4. \A d \in Conns : lane'[d].closed => lane'[d].shutdown
    BY <2>1 DEF ConnInv, Shut
  <2>5. client.conn # 0 => client.conn \in Conns /\ client.conn # old
    BY <1>1, <2>0, <2>2, ClientShape DEF ConnInv
  <2>6. client.conn # 0 => \/ client.conn \in outputs' \/ lane'[client.conn].shutdown
                           \/ Registering(client.conn)'
    BY <1>2, <2>1, <2>5 DEF ConnInv
  <2> QED BY <1>1, <2>3, <2>4, <2>6, InSame, ConnHost
<1> QED BY <1>3, <1>4 DEF Handles

\* What a commit changes.
LEMMA CommitCases ==
    ASSUME ShapeInv, RegistryInv, Commit
    PROVE  /\ newest \in Nat /\ newest' \in Nat /\ newest < newest' /\ exec'.to = exec.to /\ exec'.reply = exec.reply
           /\ exec.to = 0
           /\ UNCHANGED <<nextSub, registry, streams, jobs, control, outputs, lane, client>>
<1>1. /\ exec' = [exec EXCEPT !.todo = {s \in Entries : registry[s].live # 0}] /\ exec \in ExecSet
      /\ UNCHANGED <<nextSub, registry, streams, jobs, control, outputs, lane, client>>
      /\ exec.to = 0
  BY DEF Commit, ShapeInv, ExecIdle, IdleExec
<1>2. newest \in Nat /\ newest' \in Nat /\ newest < newest'
  BY DEF Commit, ShapeInv
<1>3. exec'.to = exec.to /\ exec'.reply = exec.reply
  BY <1>1 DEF ExecSet
<1> QED BY <1>1, <1>2, <1>3

\* The executor keeps the connection facts.
LEMMA ExecutorConn ==
    ASSUME ShapeInv, RegistryInv, ControlInv, ConnInv, Executor
    PROVE  ConnInv'
<1>1. CASE Commit
  BY <1>1, CommitCases, NoLane, InSame
<1>2. CASE Reply
  <2>1. PICK c \in Conns : HandsOver(c)
    BY <1>2, ReplyCases
  <2>2. c <= client.opened
    <3>1. c = exec.to /\ c \in Nat /\ client.opened \in Nat
      BY <2>1, ClientShape, Bounds DEF HandsOver, Conns
    <3> QED BY <3>1 DEF ConnInv
  <2>3. /\ LanesKept(c) /\ client' = client /\ outputs' = outputs /\ control' = control /\ exec'.to = 0 /\ jobs' = jobs
        /\ lane'[c].closed = lane[c].closed /\ lane'[c].shutdown = lane[c].shutdown
    BY <2>1 DEF HandsOver, KeepsAllBut
  <2>4. client.conn # 0 => (lane[client.conn].shutdown => lane'[client.conn].shutdown)
    BY <2>3, ClientShape DEF LanesKept
  <2>5. lane'[c].closed => lane'[c].shutdown
    BY <2>3 DEF ConnInv
  <2> QED BY <2>2, <2>3, <2>4, <2>5, OneLane, OutputKept, InSame
<1>3. CASE Control
  BY <1>3, ControlCases, ControlConn
<1>4. CASE Serve
  BY <1>4, ServeCases, ServeConn
<1>5. ASSUME NEW s \in Subs, CatchUp(s) PROVE ConnInv'
  BY <1>5, CatchUpCases, CatchUpConn
<1>6. ASSUME NEW s \in Subs, Reap(s) PROVE ConnInv'
  BY <1>6, NoLane, InSame DEF Reap
<1>7. ASSUME NEW c \in Conns, ReapOutput(c) PROVE ConnInv'
  <2>1. Detaches(c) /\ lane[c].shutdown /\ UNCHANGED <<exec, jobs, control, client>>
    BY <1>7, DetachFacts DEF ReapOutput
  <2>2. c <= client.opened
    <3>1. c \in Nat /\ client.opened \in Nat
      BY ClientShape, Bounds DEF Conns
    <3> QED BY <2>1, <3>1 DEF ConnInv, EmptyLane
  <2>3. client.conn # 0 /\ Registering(client.conn) => Registering(client.conn)'
    BY <2>1 DEF Registering
  <2> QED BY <2>1, <2>2, <2>3, DetachConn
<1> QED BY <1>1, <1>2, <1>3, <1>4, <1>5, <1>6, <1>7 DEF Executor

\* A duplex task works for an opened connection.
LEMMA DuplexOpened ==
    ASSUME ShapeInv, ConnInv, NEW c \in Conns, AdmitReply(c) \/ Take(c) \/ Written(c) \/ HostDrop(c)
    PROVE  c <= client.opened
<1>0. c \in Nat /\ client.opened \in Nat
  BY ClientShape, Bounds DEF Conns
<1>1. lane[c] # EmptyLane \/ c <= client.opened
  BY <1>0 DEF AdmitReply, Take, Written, HostDrop, EmptyLane, ConnInv
<1> QED BY <1>0, <1>1 DEF ConnInv

\* The tasks of a connection keep the connection facts.
LEMMA DuplexConn ==
    ASSUME ShapeInv, ConnInv, NEW c \in Conns, AdmitReply(c) \/ Take(c) \/ Written(c) \/ HostDrop(c)
    PROVE  ConnInv'
<1>0. c <= client.opened
  BY DuplexOpened
<1>1. /\ LanesKept(c) /\ UNCHANGED <<exec, outputs, client>>
      /\ lane[c].shutdown => lane'[c].shutdown
      /\ lane'[c].closed = lane[c].closed \/ lane'[c].shutdown
  <2>1. CASE AdmitReply(c)
    BY <2>1, AdmitReplyCases DEF Admitted, KeepsAllBut
  <2>2. CASE Take(c)
    BY <2>2, TakeCases DEF Takes, TakesCritical, TakesDurable, KeepsAllBut
  <2>3. CASE Written(c)
    BY <2>3, WrittenCases DEF Writes, KeepsAllBut
  <2>4. CASE HostDrop(c)
    BY <2>4, HostDropCases DEF Drops
  <2> QED BY <2>1, <2>2, <2>3, <2>4
<1>2. In(jobs') \subseteq In(jobs)
  <2>1. CASE HostDrop(c)
    <3>1. jobs' = jobs \/ jobs' = Picked(jobs, {i \in DOMAIN jobs : jobs[i].conn # c})
      BY <2>1 DEF HostDrop
    <3> QED BY <3>1, InSame, PickedKeeps DEF ShapeInv
  <2> QED BY <2>1, InSame DEF AdmitReply, Take, Written
<1>3. client.conn # 0 /\ Registering(client.conn) => Registering(client.conn)'
  <2>1. CASE control' = control
    BY <1>1, <2>1 DEF Registering
  <2>2. CASE control' # control
    <3>1. Drops(c)
      BY <2>2, HostDropCases DEF AdmitReply, Take, Written
    <3>2. PICK m : m = [kind |-> "unregister", conn |-> c, from |-> 0]
      OBVIOUS
    <3>3. m \in ControlSet /\ control' = Append(control, m)
      BY <2>2, <3>1, <3>2, Bounds DEF ControlSet, Drops
    <3>4. PICK d : d = client.conn
      OBVIOUS
    <3>5. Registering(d) => Registering(d)'
      BY <3>3, RegisteringMoves DEF ShapeInv
    <3> QED BY <1>1, <3>4, <3>5 DEF Registering
  <2> QED BY <2>1, <2>2
<1>4. client.conn # 0 => (lane[client.conn].shutdown => lane'[client.conn].shutdown)
  BY <1>1, ClientShape DEF LanesKept
<1>5. client.conn # 0 => \/ client.conn \in outputs' \/ lane'[client.conn].shutdown
                         \/ Registering(client.conn)'
  BY <1>1, <1>3, <1>4 DEF ConnInv
<1>6. lane'[c].closed => lane'[c].shutdown
  <2>1. lane[c].closed => lane[c].shutdown
    BY DEF ConnInv
  <2> QED BY <1>1, <2>1
<1> QED BY <1>0, <1>1, <1>2, <1>5, <1>6, OneLane

\* A caller that stays on its connection.
Stays == client.conn # 0 /\ client'.conn = client.conn /\ client'.opened = client.opened /\ control' = control

\* The caller leaves, connects, or stays on its connection.
LEMMA CallerStays ==
    ASSUME CallerDoes
    PROVE  Leaves \/ (\E c \in Conns : Connects(c)) \/ Stays
<1>1. ASSUME NEW f \in FrameSet, Dispatches(f) \/ ReadsPage(f) \/ Receives(f) PROVE Stays
  BY <1>1 DEF Dispatches, ReadsPage, Receives, ClientKeeps, Stays
<1>2. ASSUME Synchronizes \/ Releases \/ ReadsSnapshot \/ IsRefused \/ Gaps \/ Closes
      PROVE  Stays
  BY <1>2 DEF Synchronizes, Releases, ReadsSnapshot, IsRefused, Gaps, Closes, ClientKeeps, Stays
<1> QED BY <1>1, <1>2 DEF CallerDoes

\* A request that is issued is of the client's own connection.
LEMMA IssuedJobs ==
    ASSUME ShapeInv, NEW kind, NEW s, NEW arg, Issues(kind, s, arg)
    PROVE  /\ \A j \in In(jobs') : j \in In(jobs) \/ (j.conn = client.conn /\ j.kind = kind /\ j.sub = s /\ j.arg = arg)
           /\ jobs' \in Seq(JobSet)
<1>1. PICK j \in JobSet : /\ j.conn = client.conn /\ j.kind = kind /\ j.sub = s /\ j.arg = arg
                          /\ jobs' = Append(jobs, j)
  BY DEF Issues
<1>2. In(jobs') = In(jobs) \cup {j} /\ jobs' \in Seq(JobSet)
  BY <1>1, InAppend DEF ShapeInv
<1> QED BY <1>1, <1>2

\* The caller adds only requests of its own connection.
LEMMA CallerJobs ==
    ASSUME ShapeInv, CallerDoes
    PROVE  \A j \in In(jobs') : j \in In(jobs) \/ (client.conn # 0 /\ j.conn = client.conn)
<1>1. CASE jobs' = jobs
  BY <1>1 DEF In
<1>2. ASSUME NEW kind, NEW s, NEW arg, Issues(kind, s, arg), client.conn # 0
      PROVE  \A j \in In(jobs') : j \in In(jobs) \/ (client.conn # 0 /\ j.conn = client.conn)
  BY <1>2, IssuedJobs
<1>3. ASSUME jobs' # jobs PROVE client.conn # 0 /\ \E kind, s, arg : Issues(kind, s, arg)
  BY <1>3 DEF CallerDoes, Leaves, Connects, Dispatches, Synchronizes, Releases, ReadsSnapshot, ReadsPage,
              IsRefused, Receives, Gaps, Closes
<1> QED BY <1>1, <1>2, <1>3

\* The lanes during a step of the caller.
LEMMA CallerLanes ==
    ASSUME ShapeInv, CallerDoes
    PROVE  /\ \A c \in Conns : lane'[c].shutdown = lane[c].shutdown /\ lane'[c].closed = lane[c].closed
           /\ \A c \in Conns : c # client.conn => lane'[c] = lane[c]
<1>1. CASE lane' = lane
  BY <1>1
<1>2. CASE Leaves
  BY <1>2, LeaveShape DEF Leaves
<1>3. ASSUME NEW f \in FrameSet, Dispatches(f)
      PROVE  /\ \A c \in Conns : lane'[c].shutdown = lane[c].shutdown /\ lane'[c].closed = lane[c].closed
             /\ \A c \in Conns : c # client.conn => lane'[c] = lane[c]
  BY <1>3 DEF Dispatches, LanesKept, KeepsAllBut
<1> QED BY <1>1, <1>2, <1>3 DEF CallerDoes, Connects, Synchronizes, Releases, ReadsSnapshot, ReadsPage,
              IsRefused, Receives, Gaps, Closes

\* The caller never waits for a reply without a connection.
LEMMA CallerPhase ==
    ASSUME ShapeInv, CallerDoes
    PROVE  client'.conn = 0 => client'.phase = "idle"
<1>1. CASE Leaves
  BY <1>1, LeaveShape DEF Leaves
<1>2. CASE \E c \in Conns : Connects(c)
  BY <1>2 DEF Connects
<1>3. CASE Stays
  BY <1>3 DEF Stays
<1> QED BY <1>1, <1>2, <1>3, CallerStays

\* The caller keeps the connection facts.
LEMMA CallerConn ==
    ASSUME ShapeInv, ConnInv, HostKept, CallerDoes
    PROVE  ConnInv'
<1>0. \A c \in Conns : c \in Nat /\ c # 0 /\ client.opened \in Nat /\ client'.opened \in Nat /\ client.opened <= client'.opened
  BY CallerOpened, Bounds DEF Conns
<1>1. \A c \in Conns : lane'[c].closed => lane'[c].shutdown
  BY CallerLanes DEF ConnInv
<1>2. client'.conn \in {0, client'.opened}
  BY CallerStays, LeaveShape DEF Leaves, Connects, Stays, ConnInv
<1>3. ASSUME NEW c \in Conns, c > client'.opened
      PROVE  lane'[c] = EmptyLane /\ exec'.to # c /\ \A j \in In(jobs') : j.conn # c
  <2>1. c > client.opened /\ c # client.conn
    BY <1>0, <1>3 DEF ConnInv
  <2>2. lane[c] = EmptyLane /\ exec.to # c /\ \A j \in In(jobs) : j.conn # c
    BY <2>1 DEF ConnInv
  <2>3. lane'[c] = lane[c]
    BY <2>1, CallerLanes
  <2>4. \A j \in In(jobs') : j.conn # c
    BY <2>1, <2>2, CallerJobs
  <2> QED BY <2>2, <2>3, <2>4 DEF HostKept
<1>4. client'.conn # 0 => \/ client'.conn \in outputs' \/ lane'[client'.conn].shutdown
                          \/ Registering(client.conn)'
  <2>1. CASE Leaves
    BY <2>1, LeaveShape DEF Leaves
  <2>2. ASSUME NEW c \in Conns, Connects(c) PROVE Registering(client.conn)'
    <3>1. PICK m \in ControlSet : m.kind = "register" /\ m.conn = c /\ control' = Append(control, m)
      BY <2>2 DEF Connects
    <3>2. Len(control') = Len(control) + 1 /\ control'[Len(control) + 1] = m /\ Len(control) \in Nat
      BY <3>1 DEF ShapeInv
    <3>3. client'.conn = c
      BY <2>2 DEF Connects
    <3> QED BY <3>1, <3>2, <3>3 DEF Registering
  <2>3. CASE Stays
    <3>1. client.conn \in Conns /\ client.conn # 0
      BY <2>3, ClientShape DEF Stays
    <3> QED BY <2>3, <3>1, CallerLanes DEF Stays, ConnInv, HostKept, Registering
  <2> QED BY <2>1, <2>2, <2>3, CallerStays
<1> QED BY <1>1, <1>2, <1>3, <1>4, CallerPhase DEF ConnInv

\* A frame stays fresh when ids are issued.
LEMMA FreshKept ==
    ASSUME ShapeInv, nextSub' \in Nat, nextSub <= nextSub', NEW f \in FrameSet, Fresh(f)
    PROVE  Fresh(f)'
<1>1. nextSub \in Nat /\ f.sub \in 0 .. MaxSubs /\ f.sub \in Nat
  BY ClientShape, FrameFields, Bounds
<1> QED BY <1>1 DEF Fresh

\* The frames on their way to the client are frames.
LEMMA AbroadShape ==
    ASSUME ShapeInv, client.conn # 0
    PROVE  Abroad \subseteq FrameSet /\ client.conn \in Conns /\ exec.reply \in FrameSet
<1>1. client.conn \in Conns /\ client.inbox \in Seq(FrameSet) /\ client.retained \in Seq(FrameSet)
      /\ client.got \in FrameSet
  BY ClientShape
<1>2. /\ Mine.critical \in Seq(FrameSet) /\ Mine.durable \in Seq(FrameSet)
      /\ Mine.writing \in FrameSet /\ Mine.wire \in Seq(FrameSet) /\ Mine.answer \in FrameSet
  BY <1>1, LaneShape DEF Mine
<1>3. exec.reply \in FrameSet
  BY DEF ShapeInv, ExecSet
<1>4. \A q \in Seq(FrameSet) : In(q) \subseteq FrameSet
  BY Queues
<1> QED BY <1>1, <1>2, <1>3, <1>4 DEF Abroad

\* No id is used before it is issued, when the client stands still.
LEMMA FreshHost ==
    ASSUME ShapeInv, FreshInv, client' = client, nextSub' \in Nat, nextSub <= nextSub', Fresh(exec.reply)',
           client.conn # 0 => \A f \in Abroad' : f \in Abroad \/ Fresh(f)'
    PROVE  FreshInv'
<1> SUFFICES ASSUME client.conn # 0 PROVE FreshInv'
  BY DEF FreshInv
<1>1. \A f \in Abroad' : Fresh(f)'
  BY FreshKept, AbroadShape DEF FreshInv
<1>2. \A s \in client.retired : s < nextSub'
  <2>0. client.retired \subseteq 0 .. MaxSubs
    BY ClientShape DEF ClientSet
  <2>1. \A s \in client.retired : s \in Nat
    BY <2>0, Bounds
  <2> QED BY <2>1, ClientShape DEF FreshInv
<1>3. client.sub < nextSub'
  BY ClientShape, Bounds DEF FreshInv
<1> QED BY <1>1, <1>2, <1>3 DEF FreshInv

\* The frames of a lane.
LaneFrames(l) == In(l.wire) \cup In(l.durable) \cup In(l.critical) \cup {l.writing, l.answer}

\* Only the client's own lane and the executor's answer can bring a frame abroad.
LEMMA AbroadHost ==
    ASSUME client' = client, client.conn # 0, NEW f \in Abroad'
    PROVE  f \in Abroad \/ f \in LaneFrames(lane'[client.conn]) \/ f = exec'.reply
BY DEF Abroad, LaneFrames, Mine

\* What is on its way to the client is in its lane.
LEMMA AbroadLane ==
    LaneFrames(lane[client.conn]) \subseteq Abroad /\ exec.reply \in Abroad
BY DEF Abroad, LaneFrames, Mine

\* One lane changes and the client is bound to it or not.
LEMMA FreshLane ==
    ASSUME ShapeInv, FreshInv, client' = client, nextSub' = nextSub, NEW c \in Conns, LanesKept(c),
           exec'.reply \in {None, exec.reply},
           client.conn = c => \A f \in LaneFrames(lane'[c]) : f \in LaneFrames(lane[c]) \/ f = exec.reply \/ Fresh(f)'
    PROVE  FreshInv'
<1>0. nextSub \in Nat /\ nextSub' \in Nat /\ nextSub <= nextSub'
  BY ClientShape
<1>1. Fresh(None)'
  BY NoneShape DEF Fresh
<1>3. Fresh(exec.reply)'
  <2>1. Fresh(exec.reply) /\ exec.reply \in FrameSet
    BY DEF FreshInv, ShapeInv, ExecSet
  <2> QED BY <1>0, <1>1, <2>1 DEF Fresh
<1>2. ASSUME client.conn # 0, NEW f \in Abroad' PROVE f \in Abroad \/ Fresh(f)'
  <2>1. CASE f \in LaneFrames(lane'[client.conn])
    <3>1. CASE client.conn = c
      BY <2>1, <3>1, AbroadLane
    <3>2. CASE client.conn # c
      <4>1. lane'[client.conn] = lane[client.conn]
        BY <1>2, <3>2, ClientShape DEF LanesKept
      <4> QED BY <2>1, <4>1, AbroadLane
    <3> QED BY <3>1, <3>2
  <2>2. CASE f = exec'.reply
    BY <1>1, <2>2, AbroadLane
  <2> QED BY <1>2, <2>1, <2>2, AbroadHost
<1> QED BY <1>0, <1>2, <1>3, FreshHost

\* A step that brings no new frame to the lane keeps ids issued.
LEMMA FreshSame ==
    ASSUME ShapeInv, FreshInv, client' = client, nextSub' \in Nat, nextSub <= nextSub', lane' = lane,
           exec'.reply = exec.reply \/ Fresh(exec.reply)'
    PROVE  FreshInv'
<1>1. ASSUME client.conn # 0, NEW f \in Abroad' PROVE f \in Abroad \/ Fresh(f)'
  BY <1>1, AbroadHost, AbroadLane
<1>2. Fresh(exec.reply)'
  <2>1. exec.reply \in FrameSet /\ Fresh(exec.reply)
    BY DEF FreshInv, ShapeInv, ExecSet
  <2>2. PICK r \in FrameSet : r = exec.reply /\ Fresh(r)
    BY <2>1
  <2>3. Fresh(r)'
    BY <2>2, FreshKept
  <2> QED BY <2>2, <2>3 DEF Fresh
<1> QED BY <1>1, <1>2, FreshHost

\* Frames of a lane with the same queues.
LEMMA FramesSame ==
    ASSUME NEW l, NEW m, m.critical = l.critical, m.durable = l.durable, m.writing = l.writing, m.wire = l.wire,
           m.answer = l.answer
    PROVE  LaneFrames(m) = LaneFrames(l)
BY DEF LaneFrames

\* A frame is admitted to the critical lane, or the connection is shut down.
AdmitsFrame(c, f) ==
    /\ KeepsAllBut(lane[c], lane'[c], {"critical", "shutdown"})
    /\ \/ ~lane[c].shutdown /\ ~lane'[c].shutdown /\ lane'[c].critical = Append(lane[c].critical, f)
       \/ lane'[c].shutdown /\ lane'[c].critical = lane[c].critical

\* What a notice does to the critical lane.
LEMMA AdmitFacts ==
    ASSUME ShapeInv, NEW c \in Conns, NEW f \in FrameSet, lane'[c] = AdmitCritical(lane[c], f)
    PROVE  AdmitsFrame(c, f) /\ In(lane'[c].critical) \subseteq In(lane[c].critical) \cup {f}
<1>1. PICK l \in LaneSet : l = lane[c] /\ l.critical \in Seq(FrameSet)
  BY LaneShape
<1>2. PICK m : m = AdmitCritical(l, f)
  OBVIOUS
<1>3. /\ m.durable = l.durable /\ m.writing = l.writing /\ m.wire = l.wire
      /\ m.answer = l.answer /\ m.closed = l.closed
      /\ \/ ~l.shutdown /\ ~m.shutdown /\ m.critical = Append(l.critical, f)
         \/ m.shutdown /\ m.critical = l.critical
  BY <1>1, <1>2, AdmitShape
<1>4. lane'[c] = m
  BY <1>1, <1>2
<1>5. In(m.critical) \subseteq In(l.critical) \cup {f}
  <2>1. PICK q \in Seq(FrameSet) : q = l.critical
    BY <1>1
  <2>2. In(Append(q, f)) = In(q) \cup {f}
    BY InAppend
  <2> QED BY <1>3, <2>1, <2>2
<1> QED BY <1>1, <1>3, <1>4, <1>5 DEF AdmitsFrame, KeepsAllBut

\* Catching up uses an issued id.
LEMMA CatchUpFresh ==
    ASSUME ShapeInv, RegistryInv, FreshInv, NEW s \in Subs, NEW c \in Conns, CaughtUpBy(s, c)
    PROVE  FreshInv'
<1>0. client' = client /\ nextSub' = nextSub /\ exec'.reply = exec.reply /\ c = registry[s].live /\ c # 0
      /\ nextSub \in Nat
  BY ClientShape, Bounds DEF CaughtUpBy, Conns
<1>1. s < nextSub
  <2>1. registry[s].live # 0 /\ s \in Nat /\ nextSub \in Nat
    BY <1>0, EntryShape
  <2> QED BY <2>1, NoEntryFields DEF RegistryInv, EntryOK
<1>2. CASE lane' = lane
  BY <1>0, <1>2, FreshSame
<1>3. CASE Admits(s, c)
  <2>1. PICK e : e = Frame("event", s, 0, registry[s].admitted + 1, 0)
    OBVIOUS
  <2>2. e \in FrameSet /\ e.kind = "event" /\ e.sub = s
    <3>1. registry[s].admitted + 1 \in Nat /\ s \in 0 .. MaxSubs /\ 0 \in Nat /\ "event" \in Kinds
      BY EntryShape, Bounds DEF Subs, Kinds
    <3> QED BY <2>1, <3>1, FrameShape
  <2>3. Fresh(e)'
    BY <1>0, <1>1, <2>2 DEF Fresh
  <2>4. In(lane'[c].durable) = In(lane[c].durable) \cup {e}
    BY <1>3, <2>1, <2>2, LaneShape, InAppend DEF Admits
  <2>5. \A f \in LaneFrames(lane'[c]) : f \in LaneFrames(lane[c]) \/ f = e
    BY <1>3, <2>4 DEF Admits, KeepsAllBut, LaneFrames
  <2> QED BY <1>0, <1>3, <2>3, <2>5, FreshLane DEF Admits
<1>4. CASE Resyncs(s, c)
  <2>1. PICK e \in FrameSet : e.kind = "resync" /\ e.sub = s /\ lane'[c] = AdmitCritical(lane[c], e)
    BY <1>4 DEF Resyncs
  <2>2. Fresh(e)'
    BY <1>0, <1>1, <2>1 DEF Fresh
  <2>3. /\ lane'[c].durable = lane[c].durable /\ lane'[c].writing = lane[c].writing /\ lane'[c].wire = lane[c].wire
        /\ lane'[c].answer = lane[c].answer
    BY <2>1, AdmitFacts DEF AdmitsFrame, KeepsAllBut
  <2>4. In(lane'[c].critical) \subseteq In(lane[c].critical) \cup {e}
    BY <2>1, AdmitFacts
  <2>5. \A f \in LaneFrames(lane'[c]) : f \in LaneFrames(lane[c]) \/ f = e
    BY <2>3, <2>4 DEF LaneFrames
  <2> QED BY <1>0, <1>4, <2>2, <2>5, FreshLane DEF Resyncs
<1> QED BY <1>2, <1>3, <1>4 DEF CaughtUpBy, Gone

\* Serving a request uses an issued id.
LEMMA ServeFresh ==
    ASSUME ShapeInv, RegistryInv, FreshInv, NEW j \in JobSet, Serves(j)
    PROVE  FreshInv'
<1>0. client' = client /\ nextSub \in Nat /\ j.conn \in Conns /\ j.arg \in Nat
  BY ClientShape DEF Serves
<1>1. CASE Snaps(j)
  <2>1. Fresh(exec.reply)'
    BY <1>1 DEF Snaps, Frame, Fresh, Tails
  <2> QED BY <1>0, <1>1, <2>1, FreshSame DEF Snaps
<1>2. CASE Busies(j)
  <2>1. LaneFrames(lane'[j.conn]) = LaneFrames(lane[j.conn])
    BY <1>2, FramesSame DEF Busies, Shut
  <2> QED BY <1>0, <1>2, <2>1, FreshLane DEF Busies
<1>3. CASE OpensFor(j)
  <2>1. PICK n \in Subs, victim \in Subs \cup {0} : n = nextSub /\ Opens(n, j.conn, j.arg, victim)
    BY <1>3 DEF OpensFor
  <2>2. exec'.reply = PageAfter(n, j.arg, newest) /\ nextSub' = n + 1 /\ lane' = lane /\ newest \in Nat
    BY <2>1, ClientShape DEF Opens, Answer
  <2>3. exec'.reply.sub = n
    BY <1>0, <2>2, PageShape
  <2>4. Fresh(exec.reply)'
    BY <1>0, <2>1, <2>2, <2>3 DEF Fresh
  <2> QED BY <1>0, <2>1, <2>2, <2>4, FreshSame
<1>4. CASE ContinuesFor(j)
  <2>0. j.sub \in Subs /\ Continues(j.conn, j.sub, j.arg) /\ UNCHANGED <<nextSub, lane>>
    BY <1>4 DEF ContinuesFor
  <2>1. CASE exec' = Answer(j.conn, Frame("refused", j.sub, 0, 0, 0), {})
    <3>1. Fresh(exec.reply)'
      BY <2>1 DEF Answer, Frame, Fresh, Tails
    <3> QED BY <1>0, <2>0, <3>1, FreshSame
  <2>2. CASE registry[j.sub].scope = j.conn /\ exec'.reply = PageAfter(j.sub, j.arg, registry[j.sub].through)
    <3>1. exec'.reply.sub = j.sub
      BY <1>0, <2>0, <2>2, ContinueShape
    <3>2. j.sub < nextSub
      <4>1. registry[j.sub].scope # 0 /\ j.sub \in Nat
        BY <1>0, <2>0, <2>2, EntryShape
      <4> QED BY <1>0, <2>0, <4>1, NoEntryFields DEF RegistryInv, EntryOK
    <3>3. Fresh(exec.reply)'
      BY <2>0, <3>1, <3>2 DEF Fresh
    <3> QED BY <1>0, <2>0, <3>3, FreshSame
  <2> QED BY <2>0, <2>1, <2>2 DEF Continues
<1>5. CASE ReleasesFor(j)
  <2>1. Fresh(exec.reply)'
    BY <1>5 DEF ReleasesFor, Frame, Fresh, Tails
  <2> QED BY <1>0, <1>5, <2>1, FreshSame DEF ReleasesFor
<1> QED BY <1>1, <1>2, <1>3, <1>4, <1>5 DEF Serves

\* The executor uses only issued ids.
LEMMA ExecutorFresh ==
    ASSUME ShapeInv, RegistryInv, ControlInv, ConnInv, FreshInv, Executor
    PROVE  FreshInv'
<1>0. nextSub \in Nat
  BY ClientShape
<1>1. CASE Commit
  BY <1>0, <1>1, CommitCases, FreshSame
<1>2. CASE Reply
  <2>1. PICK c \in Conns : HandsOver(c)
    BY <1>2, ReplyCases
  <2>2. \A f \in LaneFrames(lane'[c]) : f \in LaneFrames(lane[c]) \/ f = exec.reply \/ f = None
    BY <2>1 DEF HandsOver, KeepsAllBut, LaneFrames
  <2>3. Fresh(None)'
    BY NoneShape DEF Fresh
  <2> QED BY <2>1, <2>2, <2>3, FreshLane DEF HandsOver
<1>3. CASE Control
  <2>1. PICK m \in ControlSet : Handles(m)
    BY <1>3, ControlCases
  <2>2. client' = client /\ nextSub' = nextSub /\ exec' = exec /\ m.conn \in Conns
    BY <2>1 DEF Handles
  <2>3. \A d \in Conns : LaneFrames(lane'[d]) = LaneFrames(lane[d])
    <3>1. CASE Detaches(m.conn)
      <4>1. LaneFrames(lane'[m.conn]) = LaneFrames(lane[m.conn])
        BY <3>1, FramesSame DEF Detaches, Shut
      <4> QED BY <3>1, <4>1 DEF Detaches, LanesKept
    <3>2. CASE Registers(m.conn, m.from)
      <4>1. ASSUME NEW d \in Conns, Shut(lane[d], lane'[d]) PROVE LaneFrames(lane'[d]) = LaneFrames(lane[d])
        BY <4>1, FramesSame DEF Shut
      <4> QED BY <3>2, <4>1 DEF Registers
    <3> QED BY <2>1, <3>1, <3>2 DEF Handles
  <2>4. ASSUME client.conn # 0, NEW f \in Abroad' PROVE f \in Abroad \/ Fresh(f)'
    BY <2>2, <2>3, <2>4, AbroadHost, AbroadLane, ClientShape
  <2>5. Fresh(exec.reply)'
    BY <2>2 DEF FreshInv, Fresh
  <2> QED BY <1>0, <2>2, <2>4, <2>5, FreshHost
<1>4. CASE Serve
  BY <1>4, ServeCases, ServeFresh
<1>5. ASSUME NEW s \in Subs, CatchUp(s) PROVE FreshInv'
  BY <1>5, CatchUpCases, CatchUpFresh
<1>6. ASSUME NEW s \in Subs, Reap(s) PROVE FreshInv'
  BY <1>0, <1>6, FreshSame DEF Reap
<1>7. ASSUME NEW c \in Conns, ReapOutput(c) PROVE FreshInv'
  <2>1. Detaches(c) /\ UNCHANGED <<nextSub, exec, client>>
    BY <1>7, DetachFacts DEF ReapOutput
  <2>2. LaneFrames(lane'[c]) = LaneFrames(lane[c])
    BY <2>1, FramesSame DEF Detaches, Shut
  <2> QED BY <2>1, <2>2, FreshLane DEF Detaches
<1> QED BY <1>1, <1>2, <1>3, <1>4, <1>5, <1>6, <1>7 DEF Executor

\* Preparing a notice for the write keeps its id.
LEMMA PreparedFresh ==
    ASSUME ShapeInv, NEW f \in FrameSet, NEW c \in Conns, Fresh(f), nextSub' = nextSub, NEW g, g = Prepared(f, c)
    PROVE  Fresh(g)'
<1>1. g.kind = f.kind /\ g.sub = f.sub
  BY PreparedShape
<1> QED BY <1>1 DEF Fresh

\* The tasks of a connection use only issued ids.
LEMMA DuplexFresh ==
    ASSUME ShapeInv, FreshInv, NEW c \in Conns, AdmitReply(c) \/ Take(c) \/ Written(c) \/ HostDrop(c)
    PROVE  FreshInv'
<1>0. UNCHANGED <<client, nextSub, exec>>
  BY DEF AdmitReply, Take, Written, HostDrop
<1>1. LanesKept(c)
  BY AdmitReplyCases, TakeCases, WrittenCases, HostDropCases DEF Admitted, Takes, Writes, Drops
<1>2. Fresh(None)'
  BY NoneShape DEF Fresh
<1>3. /\ lane[c].critical \in Seq(FrameSet) /\ lane[c].durable \in Seq(FrameSet) /\ lane[c].wire \in Seq(FrameSet)
      /\ lane[c].writing \in FrameSet /\ lane[c].answer \in FrameSet
  BY LaneShape
<1>4. CASE AdmitReply(c)
  <2>1. Admitted(c)
    BY <1>4, AdmitReplyCases
  <2>2. In(lane'[c].critical) \subseteq In(lane[c].critical) \cup {lane[c].answer}
    BY <1>3, <2>1, InAppend DEF Admitted
  <2>3. \A f \in LaneFrames(lane'[c]) : f \in LaneFrames(lane[c]) \/ f = None
    BY <2>1, <2>2 DEF Admitted, KeepsAllBut, LaneFrames
  <2> QED BY <1>0, <1>1, <1>2, <2>3, FreshLane
<1>5. CASE Take(c)
  <2>1. Takes(c)
    BY <1>5, TakeCases
  <2>2. CASE TakesCritical(c)
    <3>1. PICK h \in FrameSet : h = Head(lane[c].critical) /\ h \in In(lane[c].critical)
      BY <1>3, <2>2, Queues DEF TakesCritical
    <3>2. In(lane'[c].critical) \subseteq In(lane[c].critical)
      BY <1>3, <2>2, InTail DEF TakesCritical
    <3>3. \A f \in LaneFrames(lane'[c]) : f \in LaneFrames(lane[c]) \/ f = Prepared(h, c)
      BY <2>2, <3>1, <3>2 DEF TakesCritical, KeepsAllBut, LaneFrames
    <3>4. client.conn = c => \A f : f = Prepared(h, c) => Fresh(f)'
      <4>1. c # 0
        BY Bounds DEF Conns
      <4>2. client.conn = c => Fresh(h)
        BY <3>1, <4>1 DEF FreshInv, Abroad, Mine
      <4> QED BY <1>0, <3>1, <4>2, PreparedFresh
    <3> QED BY <1>0, <1>1, <3>3, <3>4, FreshLane
  <2>3. CASE TakesDurable(c)
    <3>1. Head(lane[c].durable) \in In(lane[c].durable)
      BY <1>3, <2>3, Queues DEF TakesDurable
    <3>2. In(lane'[c].durable) \subseteq In(lane[c].durable)
      BY <1>3, <2>3, InTail DEF TakesDurable
    <3>3. \A f \in LaneFrames(lane'[c]) : f \in LaneFrames(lane[c]) \/ f = None
      BY <2>3, <3>1, <3>2 DEF TakesDurable, KeepsAllBut, LaneFrames
    <3> QED BY <1>0, <1>1, <1>2, <3>3, FreshLane
  <2> QED BY <2>1, <2>2, <2>3 DEF Takes
<1>6. CASE Written(c)
  <2>1. Writes(c)
    BY <1>6, WrittenCases
  <2>2. In(lane'[c].wire) = In(lane[c].wire) \cup {lane[c].writing}
    BY <1>3, <2>1, InAppend DEF Writes
  <2>3. \A f \in LaneFrames(lane'[c]) : f \in LaneFrames(lane[c]) \/ f = None
    BY <2>1, <2>2 DEF Writes, KeepsAllBut, LaneFrames
  <2> QED BY <1>0, <1>1, <1>2, <2>3, FreshLane
<1>7. CASE HostDrop(c)
  <2>1. Drops(c)
    BY <1>7, HostDropCases
  <2>2. \A f \in LaneFrames(lane'[c]) : f \in LaneFrames(lane[c]) \/ f = None
    BY <2>1, InEmpty DEF Drops, LaneFrames
  <2> QED BY <1>0, <1>1, <1>2, <2>2, FreshLane
<1> QED BY <1>4, <1>5, <1>6, <1>7

\* What a client that stays on its connection holds came from where it was.
LEMMA FreshStays ==
    ASSUME ShapeInv, FreshInv, HostKept, client.conn # 0, client'.conn = client.conn,
           Abroad' \subseteq Abroad \cup {None},
           client'.retired \subseteq client.retired \cup {client.sub},
           client'.sub = client.sub \/ client'.sub = 0 \/ (client.got.kind = "page" /\ client'.sub = client.got.sub)
    PROVE  FreshInv'
<1>0. nextSub' = nextSub /\ nextSub \in Nat \ {0}
  BY ClientShape DEF HostKept
<1>4. Fresh(exec.reply)'
  BY <1>0 DEF FreshInv, Fresh, HostKept
<1>1. \A f \in Abroad' : Fresh(f)'
  <2>1. Fresh(None)
    BY NoneShape DEF Fresh
  <2>2. \A f \in Abroad' : Fresh(f)
    BY <2>1 DEF FreshInv
  <2> QED BY <1>0, <2>2 DEF Fresh
<1>2. client'.sub < nextSub
  <2>1. client.got.kind = "page" => client.got.sub < nextSub
    BY DEF FreshInv, Fresh, Abroad
  <2> QED BY <1>0, <2>1 DEF FreshInv
<1>3. \A s \in client'.retired : s < nextSub
  BY DEF FreshInv
<1> QED BY <1>0, <1>1, <1>2, <1>3, <1>4 DEF FreshInv

\* The caller uses only issued ids.
LEMMA CallerFresh ==
    ASSUME ShapeInv, ConnInv, FreshInv, HostKept, CallerDoes
    PROVE  FreshInv'
<1>0. client.inbox \in Seq(FrameSet) /\ client.retained \in Seq(FrameSet) /\ nextSub \in Nat \ {0} /\ nextSub' = nextSub
  BY ClientShape DEF HostKept
<1>1. CASE Leaves
  BY <1>1, LeaveShape DEF Leaves, FreshInv, HostKept, Fresh
<1>2. ASSUME NEW c \in Conns, Connects(c) PROVE FreshInv'
  <2>1. lane'[c] = EmptyLane
    <3>1. c > client.opened
      BY <1>2, ClientShape, Bounds DEF Connects
    <3> QED BY <1>2, <3>1 DEF ConnInv, Connects
  <2>2. Abroad' \subseteq {None, exec.reply}
    BY <1>2, <2>1, InEmpty DEF Connects, Abroad, Mine, EmptyLane, HostKept
  <2>3. Fresh(None)' /\ Fresh(exec.reply)'
    BY <1>0, NoneShape DEF Fresh, FreshInv, HostKept
  <2>4. \A f \in Abroad' : Fresh(f)'
    <3>1. ASSUME NEW f, f = exec.reply PROVE Fresh(f)'
      BY <2>3, <3>1 DEF Fresh, HostKept
    <3> QED BY <2>2, <2>3, <3>1
  <2>5. client'.retired = {} /\ client'.sub < nextSub'
    BY <1>0, <1>2 DEF Connects
  <2> QED BY <2>3, <2>4, <2>5 DEF FreshInv
<1>3. ASSUME NEW f \in FrameSet, Dispatches(f) PROVE FreshInv'
  <2>0. client.conn \in Conns /\ lane[client.conn].wire \in Seq(FrameSet) /\ client'.conn = client.conn
    BY <1>3, ClientShape, LaneShape DEF Dispatches, ClientKeeps
  <2>1. f \in In(Mine.wire) /\ In(lane'[client.conn].wire) \subseteq In(Mine.wire)
    BY <1>3, <2>0, Queues, InTail DEF Dispatches, Mine
  <2>2. In(client'.inbox) \subseteq In(client.inbox) \cup {f}
    <3>1. CASE client'.inbox = Append(client.inbox, f)
      BY <1>0, <3>1, InAppend
    <3>2. CASE client'.inbox = client.inbox
      BY <3>2
    <3> QED BY <1>3, <3>1, <3>2 DEF Dispatches, ClientKeeps
  <2>3. Abroad' \subseteq Abroad \cup {None}
    BY <1>3, <2>0, <2>1, <2>2 DEF Dispatches, Abroad, Mine, ClientKeeps, KeepsAllBut, HostKept
  <2> QED BY <1>3, <2>0, <2>3, FreshStays DEF Dispatches, ClientKeeps
<1>4. CASE Releases
  <2>1. In(client'.retained) \subseteq In(client.retained) \cup In(client.inbox)
    BY <1>4, RetireShape DEF Releases
  <2>2. Abroad' \subseteq Abroad \cup {None}
    <3>1. /\ client'.conn = client.conn /\ client'.got = None /\ In(client'.inbox) = {} /\ lane' = lane
          /\ exec' = exec
      BY <1>4, InEmpty DEF Releases, ClientKeeps, HostKept
    <3>2. Mine' = Mine
      BY <3>1 DEF Mine
    <3>3. ASSUME NEW f \in Abroad' PROVE f \in Abroad \cup {None}
      <4>1. \/ f \in In(client'.retained) \/ f = None \/ f = exec.reply
            \/ f \in In(Mine.wire) \cup In(Mine.durable) \cup In(Mine.critical) \cup {Mine.writing, Mine.answer}
        BY <3>1, <3>2 DEF Abroad
      <4> QED BY <2>1, <4>1 DEF Abroad
    <3> QED BY <3>3
  <2> QED BY <1>4, <2>2, FreshStays DEF Releases, ClientKeeps
<1>5. ASSUME NEW f \in FrameSet, Receives(f) PROVE FreshInv'
  <2>1. In(client'.retained) \subseteq In(client.retained) /\ In(client'.inbox) \subseteq In(client.inbox)
    BY <1>0, <1>5, InTail DEF Receives
  <2>2. Abroad' \subseteq Abroad \cup {None}
    <3>1. client'.conn = client.conn /\ client'.got = client.got /\ lane' = lane /\ exec' = exec
      BY <1>5 DEF Receives, ClientKeeps, HostKept
    <3>2. Mine' = Mine
      BY <3>1 DEF Mine
    <3>3. ASSUME NEW g \in Abroad' PROVE g \in Abroad \cup {None}
      <4>1. \/ g \in In(client'.retained) \/ g \in In(client'.inbox) \/ g = client.got \/ g = exec.reply
            \/ g \in In(Mine.wire) \cup In(Mine.durable) \cup In(Mine.critical) \cup {Mine.writing, Mine.answer}
        BY <3>1, <3>2 DEF Abroad
      <4> QED BY <2>1, <4>1 DEF Abroad
    <3> QED BY <3>3
  <2> QED BY <1>5, <2>2, FreshStays DEF Receives, ClientKeeps
<1>6. ASSUME NEW f \in FrameSet, ReadsPage(f) PROVE FreshInv'
  <2>1. Abroad' \subseteq Abroad \cup {None}
    BY <1>6 DEF ReadsPage, Abroad, Mine, ClientKeeps, HostKept
  <2> QED BY <1>6, <2>1, FreshStays DEF ReadsPage, ClientKeeps
<1>7. CASE Synchronizes \/ ReadsSnapshot \/ IsRefused \/ Gaps \/ Closes
  <2>1. Abroad' \subseteq Abroad \cup {None}
    BY <1>7 DEF Synchronizes, ReadsSnapshot, IsRefused, Gaps, Closes, Abroad, Mine, ClientKeeps, HostKept
  <2> QED BY <1>7, <2>1, FreshStays DEF Synchronizes, ReadsSnapshot, IsRefused, Gaps, Closes, ClientKeeps
<1> QED BY <1>1, <1>2, <1>3, <1>4, <1>5, <1>6, <1>7 DEF CallerDoes

\* The durable lanes hold events only, the inbox and the retained lane tails only.
LaneKinds(l) ==
    /\ \A f \in In(l.durable) : f.kind = "event"
    /\ \A f \in In(l.critical) : f.kind # "event"
    /\ l.answer.kind \notin Tails
KindInv ==
    /\ \A c \in Conns : LaneKinds(lane[c])
    /\ \A f \in In(client.inbox) \cup In(client.retained) : f.kind \in Tails

\* The lanes keep their kinds when the client stands still.
LEMMA KindHost ==
    ASSUME KindInv, client' = client, \A c \in Conns : LaneKinds(lane[c]) => LaneKinds(lane'[c])
    PROVE  KindInv'
BY DEF KindInv

\* One lane changes.
LEMMA KindLane ==
    ASSUME KindInv, client' = client, NEW c \in Conns, LanesKept(c), LaneKinds(lane[c]) => LaneKinds(lane'[c])
    PROVE  KindInv'
BY KindHost DEF LanesKept

\* A lane that is shut down, or whose queues only lost frames.
LEMMA KindsKept ==
    ASSUME NEW l, NEW m, LaneKinds(l), In(m.durable) \subseteq In(l.durable), In(m.critical) \subseteq In(l.critical),
           m.answer = l.answer \/ m.answer = None
    PROVE  LaneKinds(m)
BY NoneShape DEF LaneKinds

\* A lane that is shut down keeps its kinds.
LEMMA KindsShut ==
    ASSUME NEW l, NEW m, LaneKinds(l), Shut(l, m)
    PROVE  LaneKinds(m)
BY DEF LaneKinds, Shut

\* The executor puts events in the durable lane and nothing else there.
LEMMA ExecutorKind ==
    ASSUME ShapeInv, RegistryInv, ControlInv, ConnInv, KindInv, Executor
    PROVE  KindInv'
<1>1. CASE Commit
  BY <1>1, KindHost DEF Commit
<1>2. CASE Reply
  <2>1. PICK c \in Conns : HandsOver(c)
    BY <1>2, ReplyCases
  <2>2. LaneKinds(lane[c]) => LaneKinds(lane'[c])
    BY <2>1, NoneShape DEF HandsOver, KeepsAllBut, LaneKinds, Replies, Tails
  <2> QED BY <2>1, <2>2, KindLane DEF HandsOver
<1>3. CASE Control
  <2>1. PICK m \in ControlSet : Handles(m)
    BY <1>3, ControlCases
  <2>2. client' = client /\ m.conn \in Conns
    BY <2>1 DEF Handles
  <2>3. CASE Detaches(m.conn)
    BY <2>2, <2>3, KindLane, KindsShut DEF Detaches
  <2>4. CASE Registers(m.conn, m.from)
    BY <2>2, <2>4, KindHost, KindsShut DEF Registers
  <2> QED BY <2>1, <2>3, <2>4 DEF Handles
<1>4. CASE Serve
  <2>1. PICK j \in JobSet : Serves(j)
    BY <1>4, ServeCases
  <2>2. client' = client /\ j.conn \in Conns
    BY <2>1 DEF Serves
  <2>3. CASE Busies(j)
    BY <2>2, <2>3, KindLane, KindsShut DEF Busies
  <2>4. CASE lane' = lane
    BY <2>2, <2>4, KindHost
  <2> QED BY <2>1, <2>3, <2>4 DEF Serves, Snaps, OpensFor, Opens, ContinuesFor, ReleasesFor
<1>5. ASSUME NEW s \in Subs, CatchUp(s) PROVE KindInv'
  <2>1. PICK c \in Conns : CaughtUpBy(s, c)
    BY <1>5, CatchUpCases
  <2>2. client' = client
    BY <2>1 DEF CaughtUpBy
  <2>3. CASE lane' = lane
    BY <2>2, <2>3, KindHost
  <2>4. CASE Admits(s, c)
    <3>1. PICK e : e = Frame("event", s, 0, registry[s].admitted + 1, 0)
      OBVIOUS
    <3>2. e \in FrameSet /\ e.kind = "event"
      <4>1. registry[s].admitted + 1 \in Nat /\ s \in 0 .. MaxSubs /\ 0 \in Nat /\ "event" \in Kinds
        BY EntryShape, Bounds DEF Subs, Kinds
      <4> QED BY <3>1, <4>1, FrameShape
    <3>3. In(lane'[c].durable) = In(lane[c].durable) \cup {e}
      BY <2>4, <3>1, <3>2, LaneShape, InAppend DEF Admits
    <3>4. LaneKinds(lane[c]) => LaneKinds(lane'[c])
      BY <2>4, <3>2, <3>3 DEF LaneKinds, Admits, KeepsAllBut
    <3> QED BY <2>2, <2>4, <3>4, KindLane DEF Admits
  <2>5. CASE Resyncs(s, c)
    <3>1. PICK e \in FrameSet : e.kind = "resync" /\ lane'[c] = AdmitCritical(lane[c], e)
      BY <2>5 DEF Resyncs
    <3>2. AdmitsFrame(c, e) /\ In(lane'[c].critical) \subseteq In(lane[c].critical) \cup {e}
      BY <3>1, AdmitFacts
    <3>3. LaneKinds(lane[c]) => LaneKinds(lane'[c])
      BY <3>1, <3>2 DEF LaneKinds, AdmitsFrame, KeepsAllBut
    <3> QED BY <2>2, <2>5, <3>3, KindLane DEF Resyncs
  <2> QED BY <2>1, <2>3, <2>4, <2>5 DEF CaughtUpBy, Gone
<1>6. ASSUME NEW s \in Subs, Reap(s) PROVE KindInv'
  BY <1>6, KindHost DEF Reap
<1>7. ASSUME NEW c \in Conns, ReapOutput(c) PROVE KindInv'
  <2>1. Detaches(c) /\ client' = client
    BY <1>7, DetachFacts DEF ReapOutput
  <2> QED BY <2>1, KindLane, KindsShut DEF Detaches
<1> QED BY <1>1, <1>2, <1>3, <1>4, <1>5, <1>6, <1>7 DEF Executor

\* The tasks of a connection keep the kinds of the lanes.
LEMMA DuplexKind ==
    ASSUME ShapeInv, KindInv, NEW c \in Conns, AdmitReply(c) \/ Take(c) \/ Written(c) \/ HostDrop(c)
    PROVE  KindInv'
<1>0. client' = client
  BY DEF AdmitReply, Take, Written, HostDrop
<1>a. None.kind \notin Tails /\ In(<<>>) = {}
  BY NoneShape, InEmpty
<1>1. CASE AdmitReply(c)
  <2>1. Admitted(c)
    BY <1>1, AdmitReplyCases
  <2>2. In(lane'[c].critical) \subseteq In(lane[c].critical) \cup {lane[c].answer}
    <3>1. In(Append(lane[c].critical, lane[c].answer)) = In(lane[c].critical) \cup {lane[c].answer}
      BY LaneShape, InAppend
    <3> QED BY <2>1, <3>1 DEF Admitted
  <2>3. LaneKinds(lane[c]) => LaneKinds(lane'[c])
    BY <1>a, <2>1, <2>2 DEF Admitted, KeepsAllBut, LaneKinds, Tails
  <2> QED BY <1>0, <2>1, <2>3, KindLane DEF Admitted
<1>2. CASE Take(c)
  <2>1. Takes(c)
    BY <1>2, TakeCases
  <2>2. CASE TakesCritical(c)
    <3>1. In(lane'[c].critical) \subseteq In(lane[c].critical) /\ lane'[c].durable = lane[c].durable
          /\ lane'[c].answer = lane[c].answer
      BY <2>2, InTail, LaneShape DEF TakesCritical, KeepsAllBut
    <3> QED BY <1>0, <2>1, <3>1, KindLane, KindsKept DEF Takes
  <2>3. CASE TakesDurable(c)
    <3>1. In(lane'[c].durable) \subseteq In(lane[c].durable) /\ lane'[c].critical = lane[c].critical
          /\ lane'[c].answer = lane[c].answer
      BY <2>3, InTail, LaneShape DEF TakesDurable, KeepsAllBut
    <3> QED BY <1>0, <2>1, <3>1, KindLane, KindsKept DEF Takes
  <2> QED BY <2>1, <2>2, <2>3 DEF Takes
<1>3. CASE Written(c)
  <2>1. Writes(c)
    BY <1>3, WrittenCases
  <2>2. lane'[c].durable = lane[c].durable /\ lane'[c].critical = lane[c].critical /\ lane'[c].answer = lane[c].answer
    BY <2>1 DEF Writes, KeepsAllBut
  <2> QED BY <1>0, <2>1, <2>2, KindLane, KindsKept DEF Writes
<1>4. CASE HostDrop(c)
  <2>1. Drops(c)
    BY <1>4, HostDropCases
  <2> QED BY <1>0, <1>a, <2>1, KindLane, KindsKept DEF Drops
<1> QED BY <1>1, <1>2, <1>3, <1>4

\* The kinds are kept when the client's queues take only tails.
LEMMA KindCaller ==
    ASSUME KindInv,
           \A c \in Conns : /\ lane'[c].durable = lane[c].durable /\ lane'[c].critical = lane[c].critical
                            /\ lane'[c].answer = lane[c].answer,
           \A f \in In(client'.inbox) \cup In(client'.retained) :
               f.kind \in Tails \/ f \in In(client.inbox) \cup In(client.retained)
    PROVE  KindInv'
BY DEF KindInv, LaneKinds

\* The caller keeps the kinds of the lanes.
LEMMA CallerKind ==
    ASSUME ShapeInv, ConnInv, KindInv, CallerDoes
    PROVE  KindInv'
<1>1. CASE Leaves
  <2>0. client.conn \in Conns /\ lane \in [Conns -> LaneSet]
    BY <1>1, ClientShape DEF Leaves, ShapeInv
  <2>1. \A c \in Conns : /\ lane'[c].durable = lane[c].durable /\ lane'[c].critical = lane[c].critical
                       /\ lane'[c].answer = lane[c].answer
    BY <1>1, <2>0 DEF Leaves, LeaveConnection, LaneSet
  <2> QED BY <1>1, <2>1, LeaveShape, InEmpty, KindCaller DEF Leaves
<1>2. ASSUME NEW c \in Conns, Connects(c) PROVE KindInv'
  BY <1>2, InEmpty, KindCaller DEF Connects
<1>3. ASSUME NEW f \in FrameSet, Dispatches(f) PROVE KindInv'
  <2>1. \A c \in Conns : /\ lane'[c].durable = lane[c].durable /\ lane'[c].critical = lane[c].critical
                       /\ lane'[c].answer = lane[c].answer
    BY <1>3 DEF Dispatches, LanesKept, KeepsAllBut
  <2>2. CASE f.kind \in Tails /\ ClientKeeps({"inbox"}) /\ client'.inbox = Append(client.inbox, f)
    <3>1. In(client'.inbox) = In(client.inbox) \cup {f}
      BY <2>2, ClientShape, InAppend
    <3> QED BY <2>1, <2>2, <3>1, KindCaller DEF ClientKeeps
  <2>3. CASE client'.inbox = client.inbox /\ client'.retained = client.retained
    BY <2>1, <2>3, KindCaller
  <2> QED BY <1>3, <2>2, <2>3 DEF Dispatches, ClientKeeps
<1>4. CASE Releases
  <2>1. In(client'.retained) \subseteq In(client.retained) \cup In(client.inbox)
    BY <1>4, RetireShape DEF Releases
  <2> QED BY <1>4, <2>1, InEmpty, KindCaller DEF Releases
<1>5. ASSUME NEW f \in FrameSet, Receives(f) PROVE KindInv'
  <2>1. In(client'.retained) \subseteq In(client.retained) /\ In(client'.inbox) \subseteq In(client.inbox)
    BY <1>5, ClientShape, InTail DEF Receives
  <2> QED BY <1>5, <2>1, KindCaller DEF Receives
<1>6. ASSUME NEW f \in FrameSet, ReadsPage(f) PROVE KindInv'
  BY <1>6, KindCaller DEF ReadsPage, ClientKeeps
<1>7. CASE Synchronizes \/ ReadsSnapshot \/ IsRefused \/ Gaps \/ Closes
  BY <1>7, KindCaller DEF Synchronizes, ReadsSnapshot, IsRefused, Gaps, Closes, ClientKeeps
<1> QED BY <1>1, <1>2, <1>3, <1>4, <1>5, <1>6, <1>7 DEF CallerDoes

\* A frame is a reply or it is not.
LEMMA ReplyFrame ==
    ASSUME NEW f \in FrameSet, f \notin ReplyFrames
    PROVE  ReplyFits(f) /\ ReplyFits(f)' /\ f.kind \notin Replies
BY DEF ReplyFrames, ReplyFits, Replies

\* The one request of the client moves from the place a to the place b, or is lost.
Moves(a, b) == \A p \in Places : At(p)' => (At(p) /\ p # a) \/ (p = b /\ At(a))

\* The client waits for what it waited for.
Waits ==
    /\ client'.conn = client.conn /\ client'.phase = client.phase /\ client'.sub = client.sub
    /\ client'.state = client.state /\ client'.building = client.building /\ client'.model = client.model

\* One request of the client is outstanding, when the client stands still.
LEMMA RequestHost ==
    ASSUME ShapeInv, RequestInv, client.conn # 0, Waits, newest' \in Nat, newest <= newest',
           Registering(client.conn)' => Registering(client.conn),
           In(jobs') \subseteq In(jobs), Single(jobs', JobsOf(client.conn)),
           Single(lane'[client.conn].critical, ReplyFrames), Single(lane'[client.conn].wire, ReplyFrames),
           NEW a \in Places, NEW b \in Places, Moves(a, b),
           Registering(client.conn) => a # "job" \/ b = "job",
           \A f \in UnderWay' : f \in UnderWay \/ ReplyFits(f)'
    PROVE  RequestInv'
<1>0. OneRequest
  BY DEF RequestInv
<1>1. \A p, r \in Places : At(p)' /\ At(r)' => p = r
  BY <1>0 DEF OneRequest, Moves
<1>2. client'.phase = "idle" => \A p \in Places : ~At(p)'
  BY <1>0 DEF OneRequest, Moves, Waits
<1>3. Registering(client.conn)' => \A p \in Places : At(p)' => p = "job"
  BY <1>0 DEF OneRequest, Moves
<1>4. OneRequest'
  <2>1. Single(jobs, JobsOf(client.conn))'
    BY DEF Waits
  <2>2. Single(Mine.critical, ReplyFrames)' /\ Single(Mine.wire, ReplyFrames)'
    BY DEF Mine, Waits
  <2>3. (client.phase = "idle" => \A p \in Places : ~At(p))'
    BY <1>2
  <2>4. (Registering(client.conn) => \A p \in Places : At(p) => p = "job")'
    BY <1>3
  <2> QED BY <1>1, <2>1, <2>2, <2>3, <2>4 DEF OneRequest
<1>5. ASSUME NEW f \in UnderWay, f.kind \in Kinds, f.hi \in Nat, f.end \in Nat PROVE ReplyFits(f)'
  <2>1. ReplyFits(f) /\ newest \in Nat
    BY ClientShape DEF RequestInv
  <2>2. (f.hi <= newest => f.hi <= newest') /\ (f.end <= newest => f.end <= newest')
    BY <1>5, <2>1
  <2> QED BY <2>1, <2>2 DEF ReplyFits, Releasing, Waits
<1>6. UnderWay \subseteq FrameSet
  <2>1. client.conn \in Conns /\ client.got \in FrameSet
    BY ClientShape
  <2>2. /\ Mine.critical \in Seq(FrameSet) /\ Mine.writing \in FrameSet /\ Mine.wire \in Seq(FrameSet)
        /\ Mine.answer \in FrameSet
    BY <2>1, LaneShape DEF Mine
  <2>3. exec.reply \in FrameSet
    BY DEF ShapeInv, ExecSet
  <2>4. In(Mine.wire) \subseteq FrameSet /\ In(Mine.critical) \subseteq FrameSet
    BY <2>2, Queues
  <2>5. Arriving \subseteq FrameSet /\ Waiting \subseteq FrameSet
    BY <2>1, <2>2, <2>3, <2>4 DEF Arriving, Waiting
  <2> QED BY <2>5 DEF UnderWay
<1>7. \A f \in UnderWay' : ReplyFits(f)'
  BY <1>5, <1>6, FrameFields
<1>8. ASSUME NEW j \in In(jobs'), j.conn = client'.conn PROVE JobFits(j)'
  <2>1. JobFits(j)
    BY <1>8 DEF RequestInv, Waits
  <2> QED BY <2>1 DEF JobFits, Releasing, Waits
<1>9. (Registering(client.conn) => client.sub = 0 /\ client.state # "Ready" /\ client.phase \in {"idle", "snapshot"})'
  BY DEF RequestInv, Waits
<1> QED BY <1>4, <1>7, <1>8, <1>9 DEF RequestInv

\* What a lane may do without touching a reply that is in it.
Tame(l, m) ==
    /\ m.wire = l.wire
    /\ m.writing = l.writing \/ m.writing \notin ReplyFrames
    /\ m.answer = l.answer \/ m.answer \notin ReplyFrames
    /\ \A f \in In(m.critical) : f \in In(l.critical) \/ f \notin ReplyFrames
    /\ Single(l.critical, ReplyFrames) => Single(m.critical, ReplyFrames)
    /\ l.shutdown => m.shutdown

\* The frames under way after a step of the host.
LEMMA UnderWayShape ==
    ASSUME ShapeInv, client.conn # 0
    PROVE  UnderWay \subseteq FrameSet
<1>1. client.conn \in Conns /\ client.got \in FrameSet
  BY ClientShape
<1>2. /\ Mine.critical \in Seq(FrameSet) /\ Mine.writing \in FrameSet /\ Mine.wire \in Seq(FrameSet)
      /\ Mine.answer \in FrameSet
  BY <1>1, LaneShape DEF Mine
<1>3. exec.reply \in FrameSet
  BY DEF ShapeInv, ExecSet
<1>4. In(Mine.wire) \subseteq FrameSet /\ In(Mine.critical) \subseteq FrameSet
  BY <1>2, Queues
<1>5. Arriving \subseteq FrameSet /\ Waiting \subseteq FrameSet
  BY <1>1, <1>2, <1>3, <1>4 DEF Arriving, Waiting
<1> QED BY <1>5 DEF UnderWay

\* The same, after the step.
LEMMA LaneNext ==
    ASSUME ShapeInv', NEW c \in Conns
    PROVE  /\ lane'[c] \in LaneSet /\ lane'[c].critical \in Seq(FrameSet) /\ lane'[c].durable \in Seq(FrameSet)
           /\ lane'[c].writing \in FrameSet /\ lane'[c].wire \in Seq(FrameSet) /\ lane'[c].answer \in FrameSet
           /\ lane'[c].shutdown \in BOOLEAN /\ lane'[c].closed \in BOOLEAN
<1>1. lane'[c] \in LaneSet
  BY DEF ShapeInv
<1> QED BY <1>1 DEF LaneSet

\* The fields of the client after a step.
LEMMA ClientNext ==
    ASSUME ShapeInv'
    PROVE  /\ client' \in ClientSet /\ client'.conn \in 0 .. MaxConns /\ client'.got \in FrameSet
           /\ client'.sub \in 0 .. MaxSubs /\ client'.inbox \in Seq(FrameSet) /\ client'.retained \in Seq(FrameSet)
           /\ client'.model \in ModelSet /\ client'.building \in ModelSet
           /\ client'.conn # 0 => client'.conn \in Conns
           /\ newest' \in Nat /\ nextSub' \in Nat \ {0} /\ exec'.reply \in FrameSet
<1>1. client' \in ClientSet /\ newest' \in Nat /\ nextSub' \in Nat \ {0} /\ exec' \in ExecSet
  BY DEF ShapeInv
<1>2. /\ client'.conn \in 0 .. MaxConns /\ client'.got \in FrameSet
      /\ client'.sub \in 0 .. MaxSubs /\ client'.inbox \in Seq(FrameSet) /\ client'.retained \in Seq(FrameSet)
      /\ client'.model \in ModelSet /\ client'.building \in ModelSet
  BY <1>1 DEF ClientSet
<1>3. exec'.reply \in FrameSet
  BY <1>1 DEF ExecSet
<1>4. client'.conn # 0 => client'.conn \in Conns
  BY <1>2, Bounds DEF Conns
<1> QED BY <1>1, <1>2, <1>3, <1>4

\* The replies under way after a step are frames.
LEMMA UnderWayNext ==
    ASSUME ShapeInv', client'.conn # 0
    PROVE  UnderWay' \subseteq FrameSet
<1>1. client'.conn \in Conns /\ client'.got \in FrameSet /\ exec'.reply \in FrameSet
  BY ClientNext
<1>2. PICK c \in Conns : c = client'.conn
  BY <1>1
<1>3. /\ lane'[c].critical \in Seq(FrameSet) /\ lane'[c].writing \in FrameSet /\ lane'[c].wire \in Seq(FrameSet)
      /\ lane'[c].answer \in FrameSet
  BY LaneNext
<1>4. In(lane'[c].wire) \subseteq FrameSet /\ In(lane'[c].critical) \subseteq FrameSet
  BY <1>3, Queues
<1>5. Arriving' \subseteq FrameSet /\ Waiting' \subseteq FrameSet
  BY <1>1, <1>2, <1>3, <1>4 DEF Arriving, Waiting, Mine
<1> QED BY <1>5 DEF UnderWay

\* Where a reply under way is.
LEMMA UnderWayCases ==
    ASSUME client.conn # 0, NEW f \in UnderWay
    PROVE  \/ f = client.got \/ f = Mine.writing \/ f \in In(Mine.wire)
           \/ ~Mine.shutdown /\ f = Mine.answer
           \/ ~Mine.shutdown /\ f \in In(Mine.critical)
           \/ ~Mine.shutdown /\ exec.to = client.conn /\ f = exec.reply
BY DEF UnderWay, Arriving, Waiting

\* Where a frame is, it is under way.
LEMMA UnderWayHolds ==
    /\ client.got \in UnderWay /\ Mine.writing \in UnderWay /\ In(Mine.wire) \subseteq UnderWay
    /\ ~Mine.shutdown => /\ Mine.answer \in UnderWay /\ In(Mine.critical) \subseteq UnderWay
                         /\ exec.to = client.conn => exec.reply \in UnderWay
BY DEF UnderWay, Arriving, Waiting

\* The place of a request, one by one.
LEMMA AtCases ==
    /\ At("job") <=> Has(jobs, JobsOf(client.conn))
    /\ At("exec") <=> exec.to = client.conn
    /\ At("answer") <=> Mine.answer \in ReplyFrames
    /\ At("critical") <=> Has(Mine.critical, ReplyFrames)
    /\ At("writing") <=> Mine.writing \in ReplyFrames
    /\ At("wire") <=> Has(Mine.wire, ReplyFrames)
    /\ At("got") <=> client.got \in ReplyFrames
BY DEF At

\* No reply of the client comes under way.
Stands == \A f \in UnderWay' : f \in UnderWay \/ f \notin ReplyFrames

\* A step of the host that leaves the client's request where it is, or loses it.
LEMMA RequestSteady ==
    ASSUME ShapeInv, ShapeInv', RequestInv, client.conn # 0, client' = client, newest <= newest',
           Registering(client.conn)' => Registering(client.conn),
           In(jobs') \subseteq In(jobs), Single(jobs, JobsOf(client.conn)) => Single(jobs', JobsOf(client.conn)),
           Tame(lane[client.conn], lane'[client.conn]),
           exec'.to = client.conn => exec.to = client.conn /\ exec'.reply = exec.reply
    PROVE  RequestInv' /\ Stands
<1>0. /\ Single(jobs, JobsOf(client.conn)) /\ Single(Mine.critical, ReplyFrames) /\ Single(Mine.wire, ReplyFrames)
      /\ newest' \in Nat
  BY DEF RequestInv, OneRequest, ShapeInv
<1>1. /\ Single(jobs', JobsOf(client.conn)) /\ Single(lane'[client.conn].critical, ReplyFrames)
      /\ Single(lane'[client.conn].wire, ReplyFrames)
  BY <1>0 DEF Tame, Mine
<1>2. "job" \in Places
  BY DEF Places
<1>3. Moves("job", "job")
  <2>1. At("job")' => At("job")
    BY AtCases DEF At, Has
  <2>2. At("exec")' => At("exec")
    BY DEF At
  <2>3. At("answer")' => At("answer")
    BY DEF At, Mine, Tame
  <2>4. At("critical")' => At("critical")
    BY DEF At, Mine, Tame, Has
  <2>5. At("writing")' => At("writing")
    BY DEF At, Mine, Tame
  <2>6. At("wire")' => At("wire")
    BY DEF At, Mine, Tame
  <2>7. At("got")' => At("got")
    BY DEF At
  <2> QED BY <2>1, <2>2, <2>3, <2>4, <2>5, <2>6, <2>7 DEF Moves, Places
<1>4. ASSUME NEW f \in UnderWay'
      PROVE  (f \in UnderWay \/ f \notin ReplyFrames) /\ (f \in UnderWay \/ ReplyFits(f)')
  <2>1. f \in FrameSet
    BY UnderWayNext
  <2>2. f \in UnderWay \/ f \notin ReplyFrames
    <3>1. \/ f = client'.got \/ f = Mine'.writing \/ f \in In(Mine'.wire)
          \/ ~Mine'.shutdown /\ f = Mine'.answer
          \/ ~Mine'.shutdown /\ f \in In(Mine'.critical)
          \/ ~Mine'.shutdown /\ exec'.to = client'.conn /\ f = exec'.reply
      BY DEF UnderWay, Arriving, Waiting
    <3>2. \/ f = client.got \/ f = lane'[client.conn].writing \/ f \in In(lane'[client.conn].wire)
          \/ ~lane'[client.conn].shutdown /\ f = lane'[client.conn].answer
          \/ ~lane'[client.conn].shutdown /\ f \in In(lane'[client.conn].critical)
          \/ ~lane'[client.conn].shutdown /\ exec'.to = client.conn /\ f = exec'.reply
      BY <3>1 DEF Mine
    <3> QED BY <3>2, UnderWayHolds DEF Tame, Mine
  <2> QED BY <2>1, <2>2, ReplyFrame
<1> QED BY <1>0, <1>1, <1>2, <1>3, <1>4, RequestHost DEF Waits, Stands

\* A lane that is unchanged or shut down brings no reply.
LEMMA TameKept ==
    ASSUME NEW l, NEW m, m = l \/ Shut(l, m)
    PROVE  Tame(l, m)
BY DEF Tame, Shut

\* The answer to the client's own request is the one it waits for.
LEMMA ServeFits ==
    ASSUME ShapeInv, RegistryInv, RequestInv, ViewInv, CoverInv, client.conn # 0,
           NEW j \in JobSet, Serves(j), j.conn = client.conn, ~Mine.shutdown, exec'.to = client.conn,
           NEW f, f = exec'.reply
    PROVE  ReplyFits(f)'
<1>0. /\ j \in In(jobs) /\ newest' = newest /\ client' = client /\ newest \in Nat /\ j.arg \in Nat /\ exec.to = 0
      /\ JobFits(j) /\ client.conn \in Conns
  BY ClientShape DEF Serves, RequestInv
<1>1. CASE Snaps(j)
  <2>1. f.kind = "snapshot" /\ f.hi = newest
    BY <1>1 DEF Snaps, Frame
  <2>2. client.phase = "snapshot" /\ client.model.last <= newest
    BY <1>0, <1>1 DEF Snaps, JobFits, ViewInv, Known
  <2> QED BY <1>0, <2>1, <2>2 DEF ReplyFits
<1>2. CASE Busies(j)
  BY <1>0, <1>2 DEF Busies
<1>3. CASE OpensFor(j)
  <2>1. PICK n \in Subs, victim \in Subs \cup {0} : n = nextSub /\ Opens(n, j.conn, j.arg, victim)
    BY <1>3 DEF OpensFor
  <2>2. f = PageAfter(n, j.arg, newest)
    BY <2>1 DEF Opens, Answer
  <2>3. client.phase = "replay" /\ client.sub = 0 /\ j.arg = client.building.last /\ j.arg <= newest
    BY <1>0, <1>3 DEF OpensFor, JobFits, ViewInv, Known
  <2>4. f.kind = "page" /\ f.lo = j.arg /\ f.end = newest /\ f.hi <= newest /\ f.lo <= f.hi
    BY <1>0, <2>2, <2>3, PageShape
  <2> QED BY <1>0, <2>3, <2>4 DEF ReplyFits
<1>4. CASE ContinuesFor(j)
  <2>1. /\ client.phase = "replay" /\ client.sub # 0 /\ j.sub = client.sub /\ j.arg = client.building.last
        /\ j.sub \in Subs /\ Continues(j.conn, j.sub, j.arg)
    BY <1>0, <1>4 DEF ContinuesFor, JobFits
  <2>2. CASE exec' = Answer(j.conn, Frame("refused", j.sub, 0, 0, 0), {})
    <3>1. f.kind = "refused"
      BY <2>2 DEF Answer, Frame
    <3> QED BY <1>0, <2>1, <3>1 DEF ReplyFits
  <2>3. CASE /\ registry[j.sub].scope = j.conn /\ registry[j.sub].frozen
             /\ exec'.reply = PageAfter(j.sub, j.arg, registry[j.sub].through)
    <3>1. Resuming(j.sub)
      BY <1>0, <2>1, <2>3 DEF Resuming
    <3>2. j.arg <= registry[j.sub].through
      BY <2>1, <3>1 DEF CoverInv
    <3>3. registry[j.sub].through <= newest
      BY <2>1 DEF RegistryInv, EntryOK
    <3>4. /\ f.kind = "page" /\ f.sub = j.sub /\ f.lo = j.arg /\ f.end = registry[j.sub].through
          /\ f.hi <= registry[j.sub].through /\ f.lo <= f.hi
      BY <1>0, <2>1, <2>3, <3>2, ContinueShape
    <3> QED BY <1>0, <2>1, <3>3, <3>4 DEF ReplyFits
  <2> QED BY <2>1, <2>2, <2>3 DEF Continues
<1>5. CASE ReleasesFor(j)
  <2>1. f.kind \in {"refused", "released"}
    BY <1>5 DEF ReleasesFor, Frame
  <2>2. Releasing
    BY <1>0, <1>5 DEF ReleasesFor, JobFits
  <2>3. Releasing'
    BY <1>0, <2>2 DEF Releasing
  <2> QED BY <2>1, <2>3 DEF ReplyFits
<1> QED BY <1>1, <1>2, <1>3, <1>4, <1>5 DEF Serves

\* A served request leaves the queue and its answer is with the executor.
\* The only reply a served request brings under way is its own answer.
Answers(j) ==
    \A f \in UnderWay' : \/ f \in UnderWay \/ f \notin ReplyFrames
                         \/ j.conn = client.conn /\ ~Mine.shutdown /\ exec'.to = client.conn /\ f = exec'.reply

\* Serving a request moves it from the jobs to the executor, with a fitting answer.
LEMMA ServeRequest ==
    ASSUME ShapeInv, ShapeInv', RegistryInv, ConnInv, RequestInv, ViewInv, CoverInv, client.conn # 0,
           NEW j \in JobSet, Serves(j)
    PROVE  RequestInv' /\ Answers(j)
<1>0. /\ client' = client /\ newest' = newest /\ newest \in Nat /\ newest <= newest' /\ control' = control
      /\ client.conn \in Conns /\ j.conn \in Conns /\ exec.to = 0 /\ j = Head(jobs) /\ jobs' = Tail(jobs)
      /\ jobs \in Seq(JobSet) /\ jobs # <<>> /\ j \in In(jobs) /\ ~Registering(j.conn)
  BY ClientShape DEF Serves
<1>1. /\ Single(jobs, JobsOf(client.conn)) /\ Single(Mine.critical, ReplyFrames) /\ Single(Mine.wire, ReplyFrames)
  BY DEF RequestInv, OneRequest
<1>2. /\ In(jobs') \subseteq In(jobs) /\ Single(jobs', JobsOf(client.conn))
      /\ ~(j \in JobsOf(client.conn) /\ Has(jobs', JobsOf(client.conn)))
  BY <1>0, <1>1, InTail, SingleTail
<1>3. Registering(client.conn)' => Registering(client.conn)
  BY <1>0 DEF Registering
<1>4. /\ \A d \in Conns : lane'[d] = lane[d] \/ Shut(lane[d], lane'[d])
      /\ exec'.to \in {0, j.conn}
  <2>1. CASE Busies(j)
    BY <1>0, <2>1 DEF Busies, LanesKept
  <2>2. CASE lane' = lane /\ exec'.to = j.conn
    BY <2>2
  <2>3. CASE OpensFor(j)
    BY <2>3 DEF OpensFor, Opens, Answer
  <2>4. CASE ContinuesFor(j)
    BY <2>4 DEF ContinuesFor, Continues, Answer
  <2> QED BY <2>1, <2>2, <2>3, <2>4 DEF Serves, Snaps, ReleasesFor
<1>5. Tame(lane[client.conn], lane'[client.conn])
  BY <1>0, <1>4, TameKept
<1>6. CASE j.conn # client.conn
  <2>1. exec'.to # client.conn
    BY <1>0, <1>4, <1>6, Bounds DEF Conns
  <2> QED BY <1>0, <1>2, <1>3, <1>5, <2>1, RequestSteady DEF Answers, Stands
<1>7. CASE j.conn = client.conn
  <2>0. j \in JobsOf(client.conn)
    BY <1>7 DEF JobsOf
  <2>1. "job" \in Places /\ "exec" \in Places
    BY DEF Places
  <2>2. Moves("job", "exec")
    <3>1. ~At("job")'
      BY <1>0, <1>2, <2>0 DEF At
    <3>2. At("job")
      BY <1>0, <2>0 DEF At, Has
    <3>3. At("answer")' => At("answer")
      BY <1>0, <1>5 DEF At, Mine, Tame
    <3>4. At("critical")' => At("critical")
      BY <1>0, <1>5 DEF At, Mine, Tame, Has
    <3>5. At("writing")' => At("writing")
      BY <1>0, <1>5 DEF At, Mine, Tame
    <3>6. At("wire")' => At("wire")
      BY <1>0, <1>5 DEF At, Mine, Tame
    <3>7. At("got")' => At("got")
      BY <1>0 DEF At
    <3> QED BY <3>1, <3>2, <3>3, <3>4, <3>5, <3>6, <3>7 DEF Moves, Places
  <2>3. ASSUME NEW f \in UnderWay'
        PROVE  \/ f \in UnderWay \/ f \notin ReplyFrames
               \/ ~Mine.shutdown /\ exec'.to = client.conn /\ f = exec'.reply
    <3>1. \/ f = client'.got \/ f = Mine'.writing \/ f \in In(Mine'.wire)
          \/ ~Mine'.shutdown /\ f = Mine'.answer
          \/ ~Mine'.shutdown /\ f \in In(Mine'.critical)
          \/ ~Mine'.shutdown /\ exec'.to = client'.conn /\ f = exec'.reply
      BY DEF UnderWay, Arriving, Waiting
    <3> QED BY <1>0, <1>5, <3>1, UnderWayHolds DEF Mine, Tame
  <2>4. /\ Single(lane'[client.conn].critical, ReplyFrames) /\ Single(lane'[client.conn].wire, ReplyFrames)
    BY <1>1, <1>5 DEF Tame, Mine
  <2>5. ASSUME NEW f \in UnderWay' PROVE f \in UnderWay \/ ReplyFits(f)'
    <3>1. f \in FrameSet
      BY <1>0, UnderWayNext
    <3> QED BY <1>7, <2>3, <3>1, ReplyFrame, ServeFits
  <2>6. RequestInv'
    BY <1>0, <1>2, <1>3, <1>7, <2>1, <2>2, <2>4, <2>5, RequestHost DEF Waits
  <2> QED BY <1>7, <2>3, <2>6 DEF Answers
<1> QED BY <1>6, <1>7

\* The reply of the client's own request moves from the executor to its reader.
LEMMA ReplyRequest ==
    ASSUME ShapeInv, ShapeInv', RegistryInv, RequestInv, client.conn # 0, NEW c \in Conns, HandsOver(c)
    PROVE  RequestInv' /\ Stands
<1>0. /\ client' = client /\ newest' = newest /\ newest \in Nat /\ newest <= newest' /\ control' = control
      /\ client.conn \in Conns /\ exec'.to = 0 /\ exec'.to # client.conn /\ jobs' = jobs
      /\ LanesKept(c) /\ KeepsAllBut(lane[c], lane'[c], {"answer"}) /\ lane'[c].answer \in {None, exec.reply}
      /\ c = exec.to /\ exec.reply \in FrameSet
  BY ClientShape DEF HandsOver
<1>1. /\ Single(jobs, JobsOf(client.conn)) /\ Single(Mine.critical, ReplyFrames) /\ Single(Mine.wire, ReplyFrames)
  BY DEF RequestInv, OneRequest
<1>2. /\ In(jobs') \subseteq In(jobs) /\ Single(jobs', JobsOf(client.conn))
      /\ (Registering(client.conn)' => Registering(client.conn))
  BY <1>0, <1>1 DEF Registering
<1>3. CASE client.conn # c
  <2>1. Tame(lane[client.conn], lane'[client.conn])
    BY <1>0, <1>3, TameKept DEF LanesKept
  <2> QED BY <1>0, <1>2, <2>1, RequestSteady
<1>4. CASE client.conn = c
  <2>1. "exec" \in Places /\ "answer" \in Places /\ "exec" # "job"
    BY DEF Places
  <2>2. Moves("exec", "answer")
    <3>1. At("job")' => At("job")
      BY <1>0 DEF At
    <3>2. ~At("exec")' /\ At("exec")
      BY <1>0, <1>4 DEF At
    <3>3. At("critical")' => At("critical")
      BY <1>0, <1>4 DEF At, Mine, KeepsAllBut
    <3>4. At("writing")' => At("writing")
      BY <1>0, <1>4 DEF At, Mine, KeepsAllBut
    <3>5. At("wire")' => At("wire")
      BY <1>0, <1>4 DEF At, Mine, KeepsAllBut
    <3>6. At("got")' => At("got")
      BY <1>0 DEF At
    <3> QED BY <3>1, <3>2, <3>3, <3>4, <3>5, <3>6 DEF Moves, Places
  <2>3. ASSUME NEW f \in UnderWay'
        PROVE  (f \in UnderWay \/ f \notin ReplyFrames) /\ (f \in UnderWay \/ ReplyFits(f)')
    <3>1. \/ f = client'.got \/ f = Mine'.writing \/ f \in In(Mine'.wire)
          \/ ~Mine'.shutdown /\ f = Mine'.answer
          \/ ~Mine'.shutdown /\ f \in In(Mine'.critical)
      BY <1>0 DEF UnderWay, Arriving, Waiting
    <3>2. f \in UnderWay \/ f = None
      BY <1>0, <1>4, <3>1, UnderWayHolds DEF Mine, KeepsAllBut
    <3>3. None \in FrameSet /\ None \notin ReplyFrames
      BY NoneShape DEF ReplyFrames
    <3> QED BY <3>2, <3>3, ReplyFrame
  <2>4. /\ Single(lane'[client.conn].critical, ReplyFrames) /\ Single(lane'[client.conn].wire, ReplyFrames)
    BY <1>0, <1>1, <1>4 DEF KeepsAllBut, Mine
  <2> QED BY <1>0, <1>2, <2>1, <2>2, <2>3, <2>4, RequestHost DEF Waits, Stands
<1> QED BY <1>3, <1>4

\* Catching up touches no request.
LEMMA CatchUpRequest ==
    ASSUME ShapeInv, ShapeInv', RequestInv, client.conn # 0, NEW s \in Subs, NEW c \in Conns, CaughtUpBy(s, c)
    PROVE  RequestInv' /\ Stands
<1>0. /\ client' = client /\ newest' = newest /\ newest \in Nat /\ newest <= newest' /\ control' = control
      /\ client.conn \in Conns /\ exec'.to = exec.to /\ exec'.reply = exec.reply /\ jobs' = jobs
  BY ClientShape DEF CaughtUpBy
<1>1. /\ In(jobs') \subseteq In(jobs) /\ (Registering(client.conn)' => Registering(client.conn))
  BY <1>0 DEF Registering
<1>2. Tame(lane[client.conn], lane'[client.conn])
  <2>1. CASE lane'[client.conn] = lane[client.conn]
    BY <2>1, TameKept
  <2>2. CASE client.conn = c /\ Admits(s, c)
    BY <2>2 DEF Admits, KeepsAllBut, Tame
  <2>3. CASE client.conn = c /\ Resyncs(s, c)
    <3>1. PICK e \in FrameSet : e.kind = "resync" /\ lane'[c] = AdmitCritical(lane[c], e)
      BY <2>3 DEF Resyncs
    <3>2. e \notin ReplyFrames
      BY <3>1 DEF ReplyFrames, Replies
    <3>3. AdmitsFrame(c, e) /\ In(lane'[c].critical) \subseteq In(lane[c].critical) \cup {e}
      BY <3>1, AdmitFacts
    <3>4. lane[c].critical \in Seq(FrameSet)
      BY LaneShape
    <3>5. Single(lane[c].critical, ReplyFrames) => Single(lane'[c].critical, ReplyFrames)
      BY <3>2, <3>3, <3>4, SingleAppend DEF AdmitsFrame
    <3> QED BY <2>3, <3>2, <3>3, <3>5 DEF Tame, AdmitsFrame, KeepsAllBut
  <2> QED BY <1>0, <2>1, <2>2, <2>3 DEF CaughtUpBy, Gone, Admits, Resyncs, LanesKept
<1> QED BY <1>0, <1>1, <1>2, RequestSteady

\* The executor keeps the client's one request.
LEMMA ExecutorRequest ==
    ASSUME ShapeInv, ShapeInv', RegistryInv, ControlInv, ConnInv, RequestInv, ViewInv, CoverInv, Executor
    PROVE  RequestInv' /\ (client.conn # 0 /\ ~Serve => Stands)
<1>0. client' = client
  BY DEF Executor, Commit, Serve, Reply, Control, CatchUp, Reap, ReapOutput
<1> SUFFICES ASSUME client.conn # 0 PROVE RequestInv' /\ (~Serve => Stands)
  BY <1>0 DEF RequestInv
<1>a. client.conn \in Conns /\ newest \in Nat
  BY ClientShape
<1>1. CASE Commit
  <2>1. /\ newest <= newest' /\ exec'.to = exec.to /\ exec'.reply = exec.reply
        /\ UNCHANGED <<jobs, control, lane>>
    BY <1>1, CommitCases
  <2>2. /\ Tame(lane[client.conn], lane'[client.conn]) /\ (Registering(client.conn)' => Registering(client.conn))
    BY <1>0, <2>1, TameKept DEF Registering
  <2> QED BY <1>0, <2>1, <2>2, RequestSteady
<1>2. CASE Reply
  BY <1>2, ReplyCases, ReplyRequest
<1>3. CASE Control
  <2>1. PICK m \in ControlSet : Handles(m)
    BY <1>3, ControlCases
  <2>2. /\ newest' = newest /\ exec' = exec /\ jobs' = jobs /\ control \in Seq(ControlSet) /\ control # <<>>
        /\ control' = Tail(control)
    BY <2>1 DEF Handles
  <2>3. Registering(client.conn)' => Registering(client.conn)
    <3>1. PICK c \in Conns : c = client.conn
      BY <1>a
    <3>2. Registering(c)' => Registering(c)
      BY <2>2, RegisteringMoves
    <3> QED BY <1>0, <3>1, <3>2
  <2>4. Tame(lane[client.conn], lane'[client.conn])
    BY <1>a, <2>1, TameKept DEF Handles, Registers, Detaches, LanesKept
  <2> QED BY <1>0, <1>a, <2>2, <2>3, <2>4, RequestSteady
<1>4. CASE Serve
  BY <1>4, ServeCases, ServeRequest
<1>5. ASSUME NEW s \in Subs, CatchUp(s) PROVE RequestInv' /\ (~Serve => Stands)
  BY <1>5, CatchUpCases, CatchUpRequest
<1>6. ASSUME NEW s \in Subs, Reap(s) PROVE RequestInv' /\ (~Serve => Stands)
  <2>1. UNCHANGED <<newest, exec, jobs, control, lane>>
    BY <1>6 DEF Reap
  <2>2. /\ Tame(lane[client.conn], lane'[client.conn]) /\ (Registering(client.conn)' => Registering(client.conn))
    BY <1>0, <2>1, TameKept DEF Registering
  <2> QED BY <1>0, <1>a, <2>1, <2>2, RequestSteady
<1>7. ASSUME NEW c \in Conns, ReapOutput(c) PROVE RequestInv' /\ (~Serve => Stands)
  <2>1. Detaches(c) /\ UNCHANGED <<newest, exec, jobs, control>>
    BY <1>7, DetachFacts DEF ReapOutput
  <2>2. /\ Tame(lane[client.conn], lane'[client.conn]) /\ (Registering(client.conn)' => Registering(client.conn))
    BY <1>0, <1>a, <2>1, TameKept DEF Registering, Detaches, LanesKept
  <2> QED BY <1>0, <1>a, <2>1, <2>2, RequestSteady
<1> QED BY <1>1, <1>2, <1>3, <1>4, <1>5, <1>6, <1>7 DEF Executor

\* The tasks of a connection keep the client's one request.
LEMMA DuplexRequest ==
    ASSUME ShapeInv, ShapeInv', KindInv, RequestInv, NEW c \in Conns,
           AdmitReply(c) \/ Take(c) \/ Written(c) \/ HostDrop(c)
    PROVE  RequestInv' /\ (client.conn # 0 => Stands)
<1>0. client' = client /\ newest' = newest /\ exec' = exec
  BY DEF AdmitReply, Take, Written, HostDrop
<1> SUFFICES ASSUME client.conn # 0 PROVE RequestInv' /\ Stands
  BY <1>0 DEF RequestInv
<1>a. /\ client.conn \in Conns /\ newest \in Nat /\ newest <= newest' /\ newest' \in Nat
      /\ Places = {"job", "exec", "answer", "critical", "writing", "wire", "got"}
  BY <1>0, ClientShape DEF Places
<1>b. /\ Single(jobs, JobsOf(client.conn)) /\ Single(Mine.critical, ReplyFrames) /\ Single(Mine.wire, ReplyFrames)
      /\ \A p, r \in Places : At(p) /\ At(r) => p = r
  BY DEF RequestInv, OneRequest
<1>c. jobs \in Seq(JobSet)
  BY DEF ShapeInv
<1>d. /\ lane[c].critical \in Seq(FrameSet) /\ lane[c].durable \in Seq(FrameSet) /\ lane[c].wire \in Seq(FrameSet)
      /\ lane[c].answer \in FrameSet /\ lane[c].writing \in FrameSet
  BY LaneShape
<1>e. None \in FrameSet /\ None \notin ReplyFrames
  BY NoneShape DEF ReplyFrames
<1>1. Registering(client.conn)' => Registering(client.conn)
  <2>1. CASE control' = control
    BY <1>0, <2>1 DEF Registering
  <2>2. CASE HostDrop(c) /\ control' # control
    <3>1. PICK m : m = [kind |-> "unregister", conn |-> c, from |-> 0]
      OBVIOUS
    <3>2. m \in ControlSet /\ m.kind = "unregister"
      BY <3>1, Bounds DEF ControlSet
    <3>3. control' = Append(control, m) /\ control \in Seq(ControlSet)
      BY <2>2, <3>1, HostDropCases DEF Drops, ShapeInv
    <3>4. PICK d \in Conns : d = client.conn
      BY <1>a
    <3>5. Registering(d)' => Registering(d)
      BY <3>2, <3>3, RegisteringMoves
    <3> QED BY <1>0, <3>4, <3>5
  <2> QED BY <2>1, <2>2 DEF AdmitReply, Take, Written
<1>2. In(jobs') \subseteq In(jobs) /\ Single(jobs', JobsOf(client.conn))
  <2>1. CASE jobs' = jobs
    BY <1>b, <2>1
  <2>2. CASE HostDrop(c) /\ jobs' # jobs
    <3>1. jobs' = Picked(jobs, {i \in DOMAIN jobs : jobs[i].conn # c})
      BY <2>2, HostDropCases DEF Drops
    <3>2. PICK kept : kept = {i \in DOMAIN jobs : jobs[i].conn # c}
      OBVIOUS
    <3> QED BY <1>b, <1>c, <3>1, <3>2, PickedKeeps
  <2> QED BY <2>1, <2>2 DEF AdmitReply, Take, Written
<1>3. ASSUME Tame(lane[client.conn], lane'[client.conn]) PROVE RequestInv' /\ Stands
  BY <1>0, <1>a, <1>1, <1>2, <1>3, RequestSteady
<1>4. LanesKept(c)
  BY AdmitReplyCases, TakeCases, WrittenCases, HostDropCases DEF Admitted, Takes, Writes, Drops
<1>5. CASE client.conn # c
  BY <1>3, <1>4, <1>5, <1>a, TameKept DEF LanesKept
<1>6. CASE client.conn = c /\ HostDrop(c)
  <2>1. Single(<<>>, ReplyFrames) /\ In(<<>>) = {}
    BY InEmpty DEF Single
  <2>2. Tame(lane[c], lane'[c])
    BY <1>6, <1>e, <2>1, HostDropCases DEF Drops, Tame
  <2> QED BY <1>3, <1>6, <2>2
<1>7. CASE client.conn = c /\ AdmitReply(c)
  <2>0. Admitted(c) /\ UNCHANGED jobs
    BY <1>7, AdmitReplyCases
  <2>1. KeepsAllBut(lane[c], lane'[c], {"critical", "answer", "shutdown"}) /\ lane'[c].answer = None
    BY <2>0 DEF Admitted
  <2>2. CASE lane'[c].shutdown /\ lane'[c].critical = lane[c].critical
    <3>1. Tame(lane[c], lane'[c])
      BY <1>e, <2>1, <2>2 DEF Tame, KeepsAllBut
    <3> QED BY <1>3, <1>7, <3>1
  <2>3. CASE ~lane[c].shutdown /\ ~lane'[c].shutdown /\ lane'[c].critical = Append(lane[c].critical, lane[c].answer)
    <3>1. In(lane'[c].critical) = In(lane[c].critical) \cup {lane[c].answer}
      BY <1>d, <2>3, InAppend
    <3>2. Single(lane'[c].critical, ReplyFrames)
      <4>1. ~(lane[c].answer \in ReplyFrames /\ Has(lane[c].critical, ReplyFrames))
        <5>1. ~(At("answer") /\ At("critical"))
          BY <1>a, <1>b
        <5> QED BY <1>7, <5>1 DEF At, Mine
      <4> QED BY <1>7, <1>b, <1>d, <2>3, <4>1, SingleAppend DEF Mine
    <3>3. Single(lane'[c].wire, ReplyFrames)
      BY <1>7, <1>b, <2>1 DEF KeepsAllBut, Mine
    <3>4. Moves("answer", "critical")
      <4>1. At("job")' => At("job")
        BY <1>0, <2>0 DEF At
      <4>2. At("exec")' => At("exec")
        BY <1>0 DEF At
      <4>3. ~At("answer")'
        BY <1>0, <1>7, <1>e, <2>1 DEF At, Mine
      <4>4. At("critical")' => At("critical") \/ At("answer")
        BY <1>0, <1>7, <3>1 DEF At, Mine, Has
      <4>5. At("writing")' => At("writing")
        BY <1>0, <1>7, <2>1 DEF At, Mine, KeepsAllBut
      <4>6. At("wire")' => At("wire")
        BY <1>0, <1>7, <2>1 DEF At, Mine, KeepsAllBut
      <4>7. At("got")' => At("got")
        BY <1>0 DEF At
      <4> QED BY <1>a, <4>1, <4>2, <4>3, <4>4, <4>5, <4>6, <4>7 DEF Moves
    <3>5. ASSUME NEW f \in UnderWay' PROVE f \in UnderWay \/ f = None
      <4>1. \/ f = client'.got \/ f = Mine'.writing \/ f \in In(Mine'.wire)
            \/ f = Mine'.answer \/ f \in In(Mine'.critical) \/ (exec'.to = client'.conn /\ f = exec'.reply)
        BY DEF UnderWay, Arriving, Waiting
      <4> QED BY <1>0, <1>7, <2>1, <2>3, <3>1, <4>1, UnderWayHolds DEF Mine, KeepsAllBut
    <3>6. Stands
      BY <1>e, <3>5 DEF Stands
    <3>7. RequestInv'
      BY <1>0, <1>a, <1>1, <1>2, <1>7, <1>e, <3>2, <3>3, <3>4, <3>5, ReplyFrame, RequestHost DEF Waits
    <3> QED BY <3>6, <3>7
  <2> QED BY <2>0, <2>2, <2>3 DEF Admitted
<1>8. CASE client.conn = c /\ Take(c)
  <2>0. Takes(c) /\ UNCHANGED jobs
    BY <1>8, TakeCases
  <2>1. CASE TakesDurable(c)
    <3>1. lane'[c].writing \in {None, Head(lane[c].durable)} /\ Head(lane[c].durable) \in In(lane[c].durable)
      BY <1>d, <2>1, Queues DEF TakesDurable
    <3>2. lane'[c].writing \notin ReplyFrames
      BY <1>e, <3>1 DEF KindInv, LaneKinds, ReplyFrames, Replies
    <3>3. Tame(lane[c], lane'[c])
      BY <2>1, <3>2 DEF Tame, TakesDurable, KeepsAllBut
    <3> QED BY <1>3, <1>8, <3>3
  <2>2. CASE TakesCritical(c)
    <3>1. PICK h \in FrameSet : h = Head(lane[c].critical)
      BY <1>d, <2>2, Queues DEF TakesCritical
    <3>2. /\ lane'[c].critical = Tail(lane[c].critical) /\ lane'[c].writing = Prepared(h, c)
          /\ KeepsAllBut(lane[c], lane'[c], {"critical", "writing"})
          /\ In(lane[c].critical) = {h} \cup In(lane'[c].critical)
          /\ Single(lane'[c].critical, ReplyFrames) /\ ~(h \in ReplyFrames /\ Has(lane'[c].critical, ReplyFrames))
      BY <1>8, <1>b, <1>d, <2>2, <3>1, InTail, SingleTail DEF TakesCritical, Mine
    <3>3. CASE h \notin ReplyFrames
      <4>1. Prepared(h, c) \notin ReplyFrames
        BY <3>3, PreparedShape DEF ReplyFrames
      <4>2. Tame(lane[c], lane'[c])
        BY <3>2, <4>1 DEF Tame, KeepsAllBut
      <4> QED BY <1>3, <1>8, <4>2
    <3>4. CASE h \in ReplyFrames
      <4>1. lane'[c].writing = h /\ h \in In(lane[c].critical)
        BY <3>2, <3>4, PreparedShape DEF ReplyFrames, Replies
      <4>2. Moves("critical", "writing")
        <5>1. At("job")' => At("job")
          BY <1>0, <2>0 DEF At
        <5>2. At("exec")' => At("exec")
          BY <1>0 DEF At
        <5>3. At("answer")' => At("answer")
          BY <1>0, <1>8, <3>2 DEF At, Mine, KeepsAllBut
        <5>4. ~At("critical")'
          BY <1>0, <1>8, <3>2, <3>4 DEF At, Mine
        <5>5. At("critical")
          BY <1>8, <3>4, <4>1 DEF At, Mine, Has
        <5>6. At("wire")' => At("wire")
          BY <1>0, <1>8, <3>2 DEF At, Mine, KeepsAllBut
        <5>7. At("got")' => At("got")
          BY <1>0 DEF At
        <5> QED BY <1>a, <5>1, <5>2, <5>3, <5>4, <5>5, <5>6, <5>7 DEF Moves
      <4>3. ASSUME NEW f \in UnderWay' PROVE f \in UnderWay \/ f = None
        <5>0. ~lane[c].shutdown
          BY <2>0 DEF Takes
        <5>1. \/ f = client'.got \/ f = Mine'.writing \/ f \in In(Mine'.wire)
              \/ f = Mine'.answer \/ f \in In(Mine'.critical) \/ (exec'.to = client'.conn /\ f = exec'.reply)
          BY DEF UnderWay, Arriving, Waiting
        <5> QED BY <1>0, <1>8, <3>2, <4>1, <5>0, <5>1, UnderWayHolds DEF Mine, KeepsAllBut
      <4>4. Single(lane'[c].wire, ReplyFrames)
        BY <1>8, <1>b, <3>2 DEF KeepsAllBut, Mine
      <4>5. Stands
        BY <1>e, <4>3 DEF Stands
      <4>6. RequestInv'
        BY <1>0, <1>a, <1>1, <1>2, <1>8, <1>e, <3>2, <4>2, <4>3, <4>4, ReplyFrame, RequestHost DEF Waits
      <4> QED BY <4>5, <4>6
    <3> QED BY <3>3, <3>4
  <2> QED BY <2>0, <2>1, <2>2 DEF Takes
<1>9. CASE client.conn = c /\ Written(c)
  <2>0. Writes(c) /\ UNCHANGED jobs
    BY <1>9, WrittenCases
  <2>1. /\ KeepsAllBut(lane[c], lane'[c], {"writing", "wire"}) /\ lane'[c].writing = None
        /\ lane'[c].wire = Append(lane[c].wire, lane[c].writing)
    BY <2>0 DEF Writes
  <2>2. In(lane'[c].wire) = In(lane[c].wire) \cup {lane[c].writing}
    BY <1>d, <2>1, InAppend
  <2>3. Single(lane'[c].wire, ReplyFrames)
    <3>1. ~(lane[c].writing \in ReplyFrames /\ Has(lane[c].wire, ReplyFrames))
      <4>1. ~(At("writing") /\ At("wire"))
        BY <1>a, <1>b
      <4> QED BY <1>9, <4>1 DEF At, Mine
    <3> QED BY <1>9, <1>b, <1>d, <2>1, <3>1, SingleAppend DEF Mine
  <2>4. Moves("writing", "wire")
    <3>1. At("job")' => At("job")
      BY <1>0, <2>0 DEF At
    <3>2. At("exec")' => At("exec")
      BY <1>0 DEF At
    <3>3. At("answer")' => At("answer")
      BY <1>0, <1>9, <2>1 DEF At, Mine, KeepsAllBut
    <3>4. At("critical")' => At("critical")
      BY <1>0, <1>9, <2>1 DEF At, Mine, KeepsAllBut
    <3>5. ~At("writing")'
      BY <1>0, <1>9, <1>e, <2>1 DEF At, Mine
    <3>6. At("wire")' => At("wire") \/ At("writing")
      BY <1>0, <1>9, <2>2 DEF At, Mine, Has
    <3>7. At("got")' => At("got")
      BY <1>0 DEF At
    <3> QED BY <1>a, <3>1, <3>2, <3>3, <3>4, <3>5, <3>6, <3>7 DEF Moves
  <2>5. ASSUME NEW f \in UnderWay' PROVE f \in UnderWay \/ f = None
    <3>1. \/ f = client'.got \/ f = Mine'.writing \/ f \in In(Mine'.wire)
          \/ ~Mine'.shutdown /\ f = Mine'.answer
          \/ ~Mine'.shutdown /\ f \in In(Mine'.critical)
          \/ ~Mine'.shutdown /\ exec'.to = client'.conn /\ f = exec'.reply
      BY DEF UnderWay, Arriving, Waiting
    <3> QED BY <1>0, <1>9, <2>1, <2>2, <3>1, UnderWayHolds DEF Mine, KeepsAllBut
  <2>6. Single(lane'[c].critical, ReplyFrames)
    BY <1>9, <1>b, <2>1 DEF KeepsAllBut, Mine
  <2>7. Stands
    BY <1>e, <2>5 DEF Stands
  <2>8. RequestInv'
    BY <1>0, <1>a, <1>1, <1>2, <1>9, <1>e, <2>3, <2>4, <2>5, <2>6, ReplyFrame, RequestHost DEF Waits
  <2> QED BY <2>7, <2>8
<1> QED BY <1>5, <1>6, <1>7, <1>8, <1>9

\* A client that turns to something else: nothing of its request is under way.
LEMMA TurnRequest ==
    ASSUME ShapeInv, ShapeInv', RequestInv, HostKept, Stays, lane' = lane,
           \A p \in Places : At(p) => p = "got",
           client'.got \notin ReplyFrames,
           \/ jobs' = jobs
           \/ /\ client'.phase # "idle"
              /\ \E j \in JobSet : j.conn = client.conn /\ jobs' = Append(jobs, j) /\ JobFits(j)',
           Registering(client.conn) =>
              client'.sub = 0 /\ client'.state # "Ready" /\ client'.phase \in {"idle", "snapshot"}
    PROVE  RequestInv' /\ \A f \in UnderWay' : f \notin ReplyFrames
<1>0. /\ client.conn # 0 /\ client'.conn = client.conn /\ control' = control /\ exec' = exec /\ Mine' = Mine
      /\ jobs \in Seq(JobSet) /\ newest' = newest
  BY DEF Stays, HostKept, Mine, ShapeInv
<1>1. /\ ~Has(jobs, JobsOf(client.conn)) /\ exec.to # client.conn /\ Mine.answer \notin ReplyFrames
      /\ ~Has(Mine.critical, ReplyFrames) /\ Mine.writing \notin ReplyFrames /\ ~Has(Mine.wire, ReplyFrames)
  <2>1. ~At("job") /\ ~At("exec") /\ ~At("answer") /\ ~At("critical") /\ ~At("writing") /\ ~At("wire")
    BY DEF Places
  <2> QED BY <2>1, AtCases
<1>2. \A p \in Places : At(p)' => p = "job"
  <2>1. ~At("exec")'
    BY <1>0, <1>1 DEF At
  <2>2. ~At("answer")'
    BY <1>0, <1>1 DEF At
  <2>3. ~At("critical")'
    BY <1>0, <1>1 DEF At
  <2>4. ~At("writing")'
    BY <1>0, <1>1 DEF At
  <2>5. ~At("wire")'
    BY <1>0, <1>1 DEF At
  <2>6. ~At("got")'
    BY DEF At
  <2> QED BY <2>1, <2>2, <2>3, <2>4, <2>5, <2>6 DEF Places
<1>3. ASSUME NEW f \in UnderWay' PROVE f \notin ReplyFrames
  <2>1. \/ f = client'.got \/ f = Mine'.writing \/ f \in In(Mine'.wire)
        \/ f = Mine'.answer \/ f \in In(Mine'.critical) \/ (exec'.to = client'.conn /\ f = exec'.reply)
    BY DEF UnderWay, Arriving, Waiting
  <2> QED BY <1>0, <1>1, <2>1 DEF Has
<1>4. /\ Single(Mine.critical, ReplyFrames) /\ Single(Mine.wire, ReplyFrames) /\ Single(jobs, JobsOf(client.conn))
  BY <1>0 DEF RequestInv, OneRequest
<1>5. CASE jobs' = jobs
  <2>1. Single(jobs, JobsOf(client.conn))'
    BY <1>0, <1>4, <1>5
  <2>2. \A p \in Places : ~At(p)'
    <3>1. ~At("job")'
      BY <1>0, <1>1, <1>5 DEF At
    <3> QED BY <1>2, <3>1
  <2>3. OneRequest'
    BY <1>0, <1>4, <2>1, <2>2 DEF OneRequest
  <2>4. \A j \in In(jobs') : j.conn # client'.conn
    <3>1. In(jobs) \subseteq JobSet
      BY <1>0, Queues
    <3> QED BY <1>0, <1>1, <1>5, <3>1 DEF Has, JobsOf
  <2>5. \A f \in UnderWay' : ReplyFits(f)'
    BY <1>0, <1>3, UnderWayNext, ReplyFrame
  <2>6. (Registering(client.conn) =>
            client.sub = 0 /\ client.state # "Ready" /\ client.phase \in {"idle", "snapshot"})'
    BY <1>0 DEF Registering
  <2> QED BY <1>3, <2>3, <2>4, <2>5, <2>6 DEF RequestInv
<1>6. CASE /\ client'.phase # "idle"
           /\ \E j \in JobSet : j.conn = client.conn /\ jobs' = Append(jobs, j) /\ JobFits(j)'
  <2>0. PICK j \in JobSet : j.conn = client.conn /\ jobs' = Append(jobs, j) /\ JobFits(j)'
    BY <1>6
  <2>1. Single(jobs, JobsOf(client.conn))'
    BY <1>0, <1>1, <1>4, <2>0, SingleAppend
  <2>2. OneRequest'
    <3>1. (client.phase = "idle" => \A p \in Places : ~At(p))'
      BY <1>6
    <3>2. \A p, r \in Places : At(p)' /\ At(r)' => p = r
      BY <1>2
    <3> QED BY <1>0, <1>2, <1>4, <2>1, <3>1, <3>2 DEF OneRequest
  <2>3. ASSUME NEW k \in In(jobs'), k.conn = client'.conn PROVE JobFits(k)'
    <3>1. In(jobs) \subseteq JobSet /\ In(jobs') = In(jobs) \cup {j}
      BY <1>0, <2>0, Queues, InAppend
    <3> QED BY <1>0, <1>1, <2>0, <2>3, <3>1 DEF Has, JobsOf
  <2>4. \A f \in UnderWay' : ReplyFits(f)'
    BY <1>0, <1>3, UnderWayNext, ReplyFrame
  <2>5. (Registering(client.conn) =>
            client.sub = 0 /\ client.state # "Ready" /\ client.phase \in {"idle", "snapshot"})'
    BY <1>0 DEF Registering
  <2> QED BY <1>3, <2>2, <2>3, <2>4, <2>5 DEF RequestInv
<1> QED BY <1>5, <1>6

\* A client that waits for nothing has nothing of its request under way.
LEMMA IdleRequest ==
    ASSUME ShapeInv, RequestInv, client.conn # 0, client.phase = "idle"
    PROVE  (\A p \in Places : At(p) => p = "got") /\ client.got \notin ReplyFrames
<1>1. \A p \in Places : ~At(p)
  BY DEF RequestInv, OneRequest
<1>2. ~At("got")
  BY <1>1 DEF Places
<1> QED BY <1>1, <1>2, AtCases

\* A client that holds its reply has nothing else under way.
LEMMA HeldRequest ==
    ASSUME ShapeInv, RequestInv, client.conn # 0, client.got.kind \in Replies
    PROVE  (\A p \in Places : At(p) => p = "got") /\ None \notin ReplyFrames /\ ~Registering(client.conn)
<1>1. At("got") /\ "got" \in Places /\ "got" # "job"
  BY ClientShape DEF At, ReplyFrames, Places
<1>2. (\A p \in Places : At(p) => p = "got") /\ ~Registering(client.conn)
  BY <1>1 DEF RequestInv, OneRequest
<1> QED BY <1>2, NoneShape DEF ReplyFrames

\* On a fresh connection nothing is under way.
LEMMA ConnectRequest ==
    ASSUME ShapeInv, ShapeInv', ConnInv, HostKept, NEW c \in Conns, Connects(c)
    PROVE  RequestInv' /\ UnderWay' = {None}
<1>0. /\ client'.conn = c /\ client'.got = None /\ client'.phase = "idle" /\ client'.sub = 0 /\ client'.state = "Pending"
      /\ lane' = lane /\ jobs' = jobs /\ exec' = exec /\ newest' = newest
  BY DEF Connects, HostKept
<1>1. c > client.opened
  BY ClientShape, Bounds DEF Connects
<1>2. lane[c] = EmptyLane /\ exec.to # c /\ \A j \in In(jobs) : j.conn # c
  BY <1>1 DEF ConnInv
<1>3. Mine' = EmptyLane
  BY <1>0, <1>2 DEF Mine
<1>4. /\ EmptyLane.critical = <<>> /\ EmptyLane.wire = <<>> /\ EmptyLane.answer = None /\ EmptyLane.writing = None
      /\ In(<<>>) = {} /\ ~EmptyLane.shutdown
  BY InEmpty DEF EmptyLane
<1>5. UnderWay' = {None}
  BY <1>0, <1>2, <1>3, <1>4 DEF UnderWay, Arriving, Waiting
<1>6. None \in FrameSet /\ None \notin ReplyFrames
  BY NoneShape DEF ReplyFrames
<1>7. \A p \in Places : ~At(p)'
  BY <1>0, <1>2, <1>3, <1>4, <1>6 DEF At, Has, JobsOf
<1>8. /\ Single(jobs, JobsOf(client.conn))' /\ Single(Mine.critical, ReplyFrames)' /\ Single(Mine.wire, ReplyFrames)'
  <2>1. jobs \in Seq(JobSet)
    BY DEF ShapeInv
  <2>2. Single(jobs, JobsOf(c))
    BY <1>2, <2>1, Queues DEF Single, JobsOf
  <2> QED BY <1>0, <1>3, <1>4, <2>2 DEF Single
<1>9. RequestInv'
  <2>1. OneRequest'
    BY <1>0, <1>7, <1>8 DEF OneRequest
  <2>2. \A f \in UnderWay' : ReplyFits(f)'
    BY <1>5, <1>6, ReplyFrame
  <2> QED BY <1>0, <1>2, <2>1, <2>2 DEF RequestInv
<1> QED BY <1>5, <1>9

\* A dispatched reply is the one the caller waits for.
LEMMA DispatchRequest ==
    ASSUME ShapeInv, ShapeInv', RequestInv, HostKept, NEW f \in FrameSet, Dispatches(f)
    PROVE  RequestInv' /\ UnderWay' \subseteq UnderWay
<1>0. /\ client.conn # 0 /\ client.conn \in Conns /\ Waits /\ exec' = exec /\ jobs' = jobs /\ control' = control
      /\ newest' = newest /\ newest \in Nat
  BY ClientShape DEF Dispatches, ClientKeeps, HostKept, Waits
<1>1. PICK c \in Conns : c = client.conn /\ client'.conn = c
  BY <1>0 DEF Waits
<1>2. /\ lane[c].wire \in Seq(FrameSet) /\ lane[c].wire # <<>> /\ f = Head(lane[c].wire)
      /\ KeepsAllBut(lane[c], lane'[c], {"wire"}) /\ lane'[c].wire = Tail(lane[c].wire)
  BY <1>1, LaneShape DEF Dispatches, Mine
<1>3. /\ Single(jobs, JobsOf(c)) /\ Single(lane[c].critical, ReplyFrames) /\ Single(lane[c].wire, ReplyFrames)
  BY <1>0, <1>1 DEF RequestInv, OneRequest, Mine
<1>4. /\ In(lane[c].wire) = {f} \cup In(lane'[c].wire) /\ Single(lane'[c].wire, ReplyFrames)
      /\ ~(f \in ReplyFrames /\ Has(lane'[c].wire, ReplyFrames))
      /\ Single(lane'[c].critical, ReplyFrames) /\ Single(jobs', JobsOf(c)) /\ In(jobs') \subseteq In(jobs)
  BY <1>0, <1>2, <1>3, InTail, SingleTail DEF KeepsAllBut
<1>5. client'.got = client.got \/ (client'.got = f /\ f.kind \notin Tails)
  BY DEF Dispatches, ClientKeeps
<1>6. UnderWay' \subseteq UnderWay
  <2>1. ASSUME NEW g \in UnderWay' PROVE g \in UnderWay
    <3>1. \/ g = client'.got \/ g = Mine'.writing \/ g \in In(Mine'.wire)
          \/ ~Mine'.shutdown /\ g = Mine'.answer
          \/ ~Mine'.shutdown /\ g \in In(Mine'.critical)
          \/ ~Mine'.shutdown /\ exec'.to = client'.conn /\ g = exec'.reply
      BY DEF UnderWay, Arriving, Waiting
    <3>2. Mine = lane[c] /\ Mine' = lane'[c]
      BY <1>1 DEF Mine
    <3> QED BY <1>0, <1>1, <1>2, <1>4, <1>5, <3>1, <3>2, UnderWayHolds DEF KeepsAllBut
  <2> QED BY <2>1
<1>7. Registering(client.conn)' => Registering(client.conn)
  BY <1>0, <1>1 DEF Registering
<1>8. "wire" \in Places /\ "got" \in Places /\ "job" \in Places /\ "wire" # "job" /\ newest' \in Nat /\ newest <= newest'
  BY <1>0 DEF Places
<1>9. /\ At("job")' => At("job")
      /\ At("exec")' => At("exec")
      /\ At("answer")' => At("answer")
      /\ At("critical")' => At("critical")
      /\ At("writing")' => At("writing")
  <2>1. Mine = lane[c] /\ Mine' = lane'[c]
    BY <1>1 DEF Mine
  <2>2. At("job")' => At("job")
    BY <1>0, <1>1 DEF At
  <2>3. At("exec")' => At("exec")
    BY <1>0, <1>1 DEF At
  <2>4. At("answer")' => At("answer")
    BY <1>2, <2>1 DEF At, KeepsAllBut
  <2>5. At("critical")' => At("critical")
    BY <1>2, <2>1 DEF At, KeepsAllBut
  <2>6. At("writing")' => At("writing")
    BY <1>2, <2>1 DEF At, KeepsAllBut
  <2> QED BY <2>2, <2>3, <2>4, <2>5, <2>6
<1>10. CASE f \in ReplyFrames /\ client'.got = f
  <2>1. ~At("wire")' /\ At("wire")
    BY <1>1, <1>4, <1>10 DEF At, Mine, Has
  <2>2. Moves("wire", "got")
    BY <1>9, <2>1 DEF Moves, Places
  <2> QED BY <1>0, <1>1, <1>4, <1>6, <1>7, <1>8, <2>2, RequestHost
<1>11. CASE f \notin ReplyFrames \/ client'.got = client.got
  <2>1. At("wire")' => At("wire")
    BY <1>1, <1>4 DEF At, Mine, Has
  <2>2. At("got")' => At("got")
    BY <1>5, <1>11 DEF At
  <2>3. Moves("job", "job")
    BY <1>9, <2>1, <2>2 DEF Moves, Places
  <2> QED BY <1>0, <1>1, <1>4, <1>6, <1>7, <1>8, <2>3, RequestHost
<1> QED BY <1>5, <1>10, <1>11

Unanswered == \A f \in UnderWay : f \notin ReplyFrames

\* The steps of the caller itself, on the connection it has.
Turns ==
    \/ Synchronizes \/ Releases \/ ReadsSnapshot \/ IsRefused \/ Gaps \/ Closes
    \/ \E f \in FrameSet : ReadsPage(f)
    \/ \E f \in FrameSet : Receives(f)

\* The steps of the caller, with those that keep the connection taken together.
LEMMA CallerTurns ==
    ASSUME CallerDoes
    PROVE  Leaves \/ (\E c \in Conns : Connects(c)) \/ (\E f \in FrameSet : Dispatches(f)) \/ Turns
BY DEF CallerDoes, Turns

\* A turn keeps the connection and its lane.
LEMMA TurnsStay ==
    ASSUME Turns
    PROVE  Stays /\ lane' = lane /\ client.conn # 0 /\ client'.conn = client.conn /\ control' = control
BY DEF Turns, Stays, Synchronizes, Releases, ReadsSnapshot, IsRefused, Gaps, Closes, ReadsPage, Receives, ClientKeeps

\* A request the client issues is the one it then waits for.
LEMMA IssuedFits ==
    ASSUME NEW kind, NEW s, NEW arg, Issues(kind, s, arg), client'.phase # "idle",
           \A j \in JobSet : j.kind = kind /\ j.sub = s /\ j.arg = arg => JobFits(j)'
    PROVE  /\ client'.phase # "idle"
           /\ \E j \in JobSet : j.conn = client.conn /\ jobs' = Append(jobs, j) /\ JobFits(j)'
BY DEF Issues

\* A turn takes the reply or issues the next request.
LEMMA TurnsRequest ==
    ASSUME ShapeInv, ShapeInv', ConnInv, RequestInv, ViewInv, HostKept, Turns
    PROVE  RequestInv' /\ Unanswered'
<1>0. Stays /\ lane' = lane /\ client.conn # 0
  BY TurnsStay
<1>a. Registering(client.conn) => client.sub = 0 /\ client.state # "Ready" /\ client.phase \in {"idle", "snapshot"}
  BY <1>0 DEF RequestInv
<1>1. CASE Synchronizes
  <2>1. client.phase = "idle" /\ client'.got = client.got /\ client'.sub = client.sub /\ client'.state = "Pending"
    BY <1>1 DEF Synchronizes, ClientKeeps
  <2>2. (\A p \in Places : At(p) => p = "got") /\ client'.got \notin ReplyFrames
    BY <1>0, <2>1, IdleRequest
  <2>3. CASE client.sub # 0 /\ client'.phase = "releasing" /\ Issues("release", client.sub, 0)
    <3>1. \A j \in JobSet : j.kind = "release" /\ j.sub = client.sub /\ j.arg = 0 => JobFits(j)'
      BY <2>1, <2>3 DEF JobFits, Releasing
    <3>2. /\ client'.phase # "idle"
          /\ \E j \in JobSet : j.conn = client.conn /\ jobs' = Append(jobs, j) /\ JobFits(j)'
      BY <2>3, <3>1, IssuedFits
    <3> QED BY <1>0, <1>a, <2>1, <2>2, <2>3, <3>2, TurnRequest DEF Unanswered
  <2>4. CASE client.sub = 0 /\ client'.phase = "snapshot" /\ Issues("snapshot", 0, 0)
    <3>1. \A j \in JobSet : j.kind = "snapshot" /\ j.sub = 0 /\ j.arg = 0 => JobFits(j)'
      BY <2>4 DEF JobFits
    <3>2. /\ client'.phase # "idle"
          /\ \E j \in JobSet : j.conn = client.conn /\ jobs' = Append(jobs, j) /\ JobFits(j)'
      BY <2>4, <3>1, IssuedFits
    <3> QED BY <1>0, <1>a, <2>1, <2>2, <2>4, <3>2, TurnRequest DEF Unanswered
  <2> QED BY <1>1, <2>3, <2>4 DEF Synchronizes
<1>2. CASE Releases
  <2>1. client.got.kind \in Replies /\ client'.got = None
    BY <1>2 DEF Releases, Replies
  <2>2. (\A p \in Places : At(p) => p = "got") /\ client'.got \notin ReplyFrames /\ ~Registering(client.conn)
    BY <1>0, <2>1, HeldRequest
  <2>3. CASE jobs' = jobs
    BY <1>0, <2>2, <2>3, TurnRequest DEF Unanswered
  <2>4. CASE client'.phase = "snapshot" /\ Issues("snapshot", 0, 0)
    <3>1. \A j \in JobSet : j.kind = "snapshot" /\ j.sub = 0 /\ j.arg = 0 => JobFits(j)'
      BY <2>4 DEF JobFits
    <3>2. /\ client'.phase # "idle"
          /\ \E j \in JobSet : j.conn = client.conn /\ jobs' = Append(jobs, j) /\ JobFits(j)'
      BY <2>4, <3>1, IssuedFits
    <3> QED BY <1>0, <2>2, <3>2, TurnRequest DEF Unanswered
  <2> QED BY <1>2, <2>3, <2>4 DEF Releases
<1>3. CASE ReadsSnapshot
  <2>1. client.got.kind \in Replies /\ client'.got = None
    BY <1>3 DEF ReadsSnapshot, Replies
  <2>2. (\A p \in Places : At(p) => p = "got") /\ client'.got \notin ReplyFrames /\ ~Registering(client.conn)
    BY <1>0, <2>1, HeldRequest
  <2>3. /\ client'.phase = "replay" /\ client'.sub = 0 /\ client'.building.last = client.got.hi
        /\ Issues("open", 0, client.got.hi)
    BY <1>3 DEF ReadsSnapshot, ClientKeeps, ViewInv, Model
  <2>4. \A j \in JobSet : j.kind = "open" /\ j.sub = 0 /\ j.arg = client.got.hi => JobFits(j)'
    BY <2>3 DEF JobFits
  <2>5. /\ client'.phase # "idle"
        /\ \E j \in JobSet : j.conn = client.conn /\ jobs' = Append(jobs, j) /\ JobFits(j)'
    BY <2>3, <2>4, IssuedFits
  <2> QED BY <1>0, <2>2, <2>5, TurnRequest DEF Unanswered
<1>4. ASSUME NEW p \in FrameSet, ReadsPage(p) PROVE RequestInv' /\ Unanswered'
  <2>1. client.got.kind \in Replies /\ client'.got = None
    BY <1>4 DEF ReadsPage, Replies
  <2>2. (\A r \in Places : At(r) => r = "got") /\ client'.got \notin ReplyFrames /\ ~Registering(client.conn)
    BY <1>0, <2>1, HeldRequest
  <2>3. CASE jobs' = jobs
    BY <1>0, <2>2, <2>3, TurnRequest DEF Unanswered
  <2>4. CASE /\ ClientKeeps({"got", "sub", "seen", "building"})
             /\ client'.building = Model(p.hi, client.building.seqs \cup (p.lo + 1 .. p.hi))
             /\ Issues("continue", p.sub, p.hi)
    <3>0. p.sub # 0
      BY <1>4, Bounds DEF ReadsPage, Subs
    <3>1. client'.phase = "replay" /\ client'.sub = p.sub /\ client'.building.last = p.hi
      BY <1>4, <2>4 DEF ReadsPage, ClientKeeps, Model
    <3>2. \A j \in JobSet : j.kind = "continue" /\ j.sub = p.sub /\ j.arg = p.hi => JobFits(j)'
      BY <3>0, <3>1 DEF JobFits
    <3>3. /\ client'.phase # "idle"
          /\ \E j \in JobSet : j.conn = client.conn /\ jobs' = Append(jobs, j) /\ JobFits(j)'
      BY <2>4, <3>1, <3>2, IssuedFits
    <3> QED BY <1>0, <2>2, <3>3, TurnRequest DEF Unanswered
  <2> QED BY <1>4, <2>3, <2>4 DEF ReadsPage
<1>5. CASE IsRefused
  <2>1. client.got.kind \in Replies /\ client'.got = None
    BY <1>5 DEF IsRefused, Replies
  <2>2. (\A r \in Places : At(r) => r = "got") /\ client'.got \notin ReplyFrames /\ ~Registering(client.conn)
    BY <1>0, <2>1, HeldRequest
  <2>3. /\ client'.phase = "cleanup" /\ client'.sub = client.sub /\ client.sub # 0
        /\ Issues("release", client.sub, 0)
    BY <1>5, Bounds DEF IsRefused, ClientKeeps, Subs
  <2>4. \A j \in JobSet : j.kind = "release" /\ j.sub = client.sub /\ j.arg = 0 => JobFits(j)'
    BY <2>3 DEF JobFits, Releasing
  <2>5. /\ client'.phase # "idle"
        /\ \E j \in JobSet : j.conn = client.conn /\ jobs' = Append(jobs, j) /\ JobFits(j)'
    BY <2>3, <2>4, IssuedFits
  <2> QED BY <1>0, <2>2, <2>5, TurnRequest DEF Unanswered
<1>6. ASSUME NEW f \in FrameSet, Receives(f) PROVE RequestInv' /\ Unanswered'
  <2>1. /\ client.phase = "idle" /\ client'.got = client.got /\ client'.sub = client.sub /\ client.state = "Ready"
        /\ jobs' = jobs
    BY <1>6 DEF Receives, ClientKeeps
  <2>2. (\A p \in Places : At(p) => p = "got") /\ client'.got \notin ReplyFrames /\ ~Registering(client.conn)
    BY <1>0, <1>a, <2>1, IdleRequest
  <2> QED BY <1>0, <2>1, <2>2, TurnRequest DEF Unanswered
<1>7. CASE Gaps
  <2>1. /\ client.phase = "idle" /\ client'.got = client.got /\ client'.sub = client.sub /\ client'.phase = "idle"
        /\ client'.state = "NeedsResync" /\ jobs' = jobs
    BY <1>7 DEF Gaps, ClientKeeps
  <2>2. (\A p \in Places : At(p) => p = "got") /\ client'.got \notin ReplyFrames
    BY <1>0, <2>1, IdleRequest
  <2> QED BY <1>0, <1>a, <2>1, <2>2, TurnRequest DEF Unanswered
<1>8. CASE Closes
  <2>1. client.phase = "idle" /\ client'.got = client.got /\ client'.sub = client.sub
    BY <1>8 DEF Closes, ClientKeeps
  <2>2. (\A p \in Places : At(p) => p = "got") /\ client'.got \notin ReplyFrames
    BY <1>0, <2>1, IdleRequest
  <2>3. CASE client.sub # 0 /\ client'.phase = "closing" /\ Issues("release", client.sub, 0)
    <3>1. \A j \in JobSet : j.kind = "release" /\ j.sub = client.sub /\ j.arg = 0 => JobFits(j)'
      BY <2>1, <2>3 DEF JobFits, Releasing
    <3>2. /\ client'.phase # "idle"
          /\ \E j \in JobSet : j.conn = client.conn /\ jobs' = Append(jobs, j) /\ JobFits(j)'
      BY <2>3, <3>1, IssuedFits
    <3> QED BY <1>0, <1>a, <2>1, <2>2, <2>3, <3>2, TurnRequest DEF Unanswered
  <2>4. CASE client.sub = 0 /\ client'.phase = "idle" /\ client'.state = "Pending" /\ jobs' = jobs
    BY <1>0, <2>1, <2>2, <2>4, TurnRequest DEF Unanswered
  <2> QED BY <1>8, <2>1, <2>3, <2>4 DEF Closes, ClientKeeps
<1> QED BY <1>1, <1>2, <1>3, <1>4, <1>5, <1>6, <1>7, <1>8 DEF Turns

\* The caller has at most one request outstanding.
LEMMA CallerRequest ==
    ASSUME ShapeInv, ShapeInv', ConnInv, RequestInv, ViewInv, HostKept, CallerDoes
    PROVE  RequestInv'
<1>1. CASE Leaves
  BY <1>1, LeaveShape DEF Leaves, RequestInv
<1> QED BY <1>1, CallerTurns, ConnectRequest, DispatchRequest, TurnsRequest

\* Model columns.
LEMMA ModelShape ==
    ASSUME ShapeInv
    PROVE  /\ client.model.last \in Nat /\ client.building.last \in Nat /\ client.model.some \in BOOLEAN
           /\ client.seen \subseteq Nat /\ newest \in Nat
<1>1. client.model \in ModelSet /\ client.building \in ModelSet /\ client \in ClientSet
  BY ClientShape
<1> QED BY <1>1, ClientShape DEF ModelSet, ClientSet

\* The next frame of the client's own subscription continues its model, or is the
\* notice that names the end of it.
Follows(f) ==
    /\ client.retained = <<>> /\ client.inbox # <<>> /\ f = Head(client.inbox)
    /\ client'.inbox = Tail(client.inbox) /\ client'.retained = client.retained
    /\ f.kind = "event" => f.hi = client.model.last + 1 /\ f.hi <= newest /\ f.hi <= WrittenOf(f.sub)
    /\ f.kind = "resync" => f.lo = client.model.last /\ f.lo <= f.hi

\* The next frame the caller receives is the next event or an honest notice.
LEMMA HeadFlow ==
    ASSUME ShapeInv, KindInv, FlowInv, NEW f \in FrameSet, Receives(f),
           f.sub = client.sub, f.sub \notin client.retired
    PROVE  Follows(f) /\ f.kind \in Tails
<1>0. client.conn # 0 /\ client.state = "Ready" /\ client.conn \in Conns
  BY ClientShape DEF Receives
<1>1. PICK s : s = f.sub
  OBVIOUS
<1>2. Flow(s, client.model.last) /\ s \in Subs
  BY <1>0, <1>1 DEF FlowInv, Flow, Place
<1>3. f \in In(client.inbox) \cup In(client.retained) /\ f.kind \in Tails
  <2>1. f \in In(client.inbox) \cup In(client.retained)
    <3>1. client.retained # <<>> => Head(client.retained) \in In(client.retained)
      BY ClientShape, Queues
    <3>2. client.inbox # <<>> => Head(client.inbox) \in In(client.inbox)
      BY ClientShape, Queues
    <3> QED BY <3>1, <3>2 DEF Receives
  <2> QED BY <2>1 DEF KindInv
<1>4. /\ client.retained = <<>> /\ client.inbox # <<>> /\ f = Head(client.inbox)
      /\ client'.inbox = Tail(client.inbox) /\ client'.retained = client.retained
  <2>1. f \notin In(client.retained)
    BY <1>1, <1>2, <1>3 DEF Flow, Place
  <2>2. client.retained # <<>> => Head(client.retained) \in In(client.retained)
    BY ClientShape, Queues
  <2> QED BY <2>1, <2>2 DEF Receives
<1>5. client.inbox \in Seq(FrameSet) /\ In(client.inbox) = {f} \cup In(Tail(client.inbox)) /\ f \in In(client.inbox)
  BY <1>4, ClientShape, InTail
<1>6. /\ \A g \in In(Tail(client.inbox)) : Precedes(f, g, s)
      /\ \A g \in In(Mine.wire) : Precedes(f, g, s)
  <2>1. InOrder(client.inbox, s) /\ Across(In(client.inbox), In(Mine.wire), s)
    BY <1>2 DEF Flow, Order
  <2>2. \A g \in In(Tail(client.inbox)) : Precedes(f, g, s)
    BY <1>4, <1>5, <2>1, OrderTail
  <2>3. \A g \in In(Mine.wire) : Precedes(f, g, s)
    BY <1>5, <2>1 DEF Across
  <2> QED BY <2>2, <2>3
<1>7. \A g \in In(client.inbox) \cup In(Mine.wire) : g = f \/ Precedes(f, g, s)
  BY <1>5, <1>6
<1>8. PICK w \in Nat : w = WrittenOf(s)
  BY <1>0, <1>2, EntryShape DEF WrittenOf
<1>9. PICK last \in Nat : last = client.model.last
  BY ModelShape
<1>10. /\ last <= w /\ w <= newest /\ newest \in Nat
       /\ Covers(In(client.inbox) \cup In(Mine.wire), s, last, w)
  <2>1. /\ last <= w /\ Taken(s) <= newest /\ Covers(In(client.inbox) \cup In(Mine.wire), s, last, w)
    BY <1>2, <1>8, <1>9 DEF Flow, Place, Sent
  <2>2. w <= newest
    BY <1>8, <2>1, ModelShape DEF Taken
  <2> QED BY <2>1, <2>2, ModelShape
<1>11. ASSUME f.kind = "event" PROVE f.hi = last + 1 /\ f.hi <= newest /\ f.hi <= w
  <2>1. f.hi \in Nat /\ IsEvent(f, s)
    BY <1>1, <1>11, FrameFields DEF IsEvent
  <2>2. last < f.hi /\ f.hi <= w
    BY <1>5, <1>10, <2>1 DEF Covers
  <2>3. PICK g \in In(client.inbox) \cup In(Mine.wire) : IsEvent(g, s) /\ g.hi = last + 1
    <3>1. last + 1 \in last + 1 .. w
      BY <2>1, <2>2
    <3> QED BY <1>10, <3>1 DEF Covers
  <2>4. CASE g = f
    BY <1>10, <2>1, <2>2, <2>3, <2>4
  <2>5. CASE Precedes(f, g, s)
    <3>1. f.hi < last + 1
      BY <2>1, <2>3, <2>5 DEF Precedes
    <3> QED BY <2>1, <2>2, <3>1
  <2> QED BY <1>7, <2>4, <2>5
<1>12. ASSUME f.kind = "resync" PROVE f.lo = last /\ f.lo <= f.hi
  <2>1. IsResync(f, s) /\ f.lo \in Nat /\ f.hi \in Nat
    BY <1>1, <1>12, FrameFields DEF IsResync
  <2>2. f.lo = w /\ w <= f.hi
    BY <1>2, <1>5, <1>8, <2>1 DEF Flow, Notices
  <2>3. w = last
    <3>1. ASSUME last < w PROVE FALSE
      <4>1. last + 1 \in last + 1 .. w
        BY <3>1
      <4>2. PICK g \in In(client.inbox) \cup In(Mine.wire) : IsEvent(g, s)
        BY <1>10, <4>1 DEF Covers
      <4>3. g # f
        BY <2>1, <4>2 DEF IsEvent, IsResync
      <4> QED BY <1>7, <2>1, <4>2, <4>3 DEF Precedes
    <3> QED BY <1>10, <3>1
  <2> QED BY <2>1, <2>2, <2>3
<1> QED BY <1>1, <1>3, <1>4, <1>8, <1>9, <1>11, <1>12 DEF Follows

\* The model stays a prefix of the log when the client stands still.
LEMMA ViewHost ==
    ASSUME ShapeInv, ViewInv, client' = client, newest' \in Nat, newest <= newest'
    PROVE  ViewInv'
<1>1. client.model.last \in Nat /\ client.building.last \in Nat /\ newest \in Nat
  BY ModelShape
<1>2. Known(client.model)'
  BY <1>1 DEF ViewInv, Known
<1>3. client.phase = "replay" => Known(client.building)'
  BY <1>1 DEF ViewInv, Known
<1> QED BY <1>2, <1>3 DEF ViewInv

\* A caller that keeps its view.
LEMMA ViewSame ==
    ASSUME ViewInv, newest' = newest, client'.model = client.model, client'.building = client.building,
           client'.phase = "replay" => client.phase = "replay" /\ client'.seen = client.seen,
           client'.phase = "snapshot" => client'.seen = {} /\ client'.sub = 0,
           client'.state = "Ready" => /\ client.state = "Ready" /\ client'.conn = client.conn /\ client'.sub = client.sub
                                      /\ client'.seen = client.seen /\ client'.phase \in {"idle", "closing"}
    PROVE  ViewInv'
BY DEF ViewInv, Known

\* A model that was never built is an empty prefix.
LEMMA NoModelKnown == newest \in Nat => Known(NoModel) /\ NoModel.some = FALSE /\ NoModel.last = 0
<1>1. NoModel.last = 0 /\ NoModel.seqs = {} /\ NoModel.some = FALSE
  BY DEF NoModel
<1>2. 1 .. 0 = {}
  OBVIOUS
<1> QED BY <1>1, <1>2 DEF Known

\* The caller keeps its model a prefix of the log.
LEMMA CallerView ==
    ASSUME ShapeInv, ShapeInv', ConnInv, KindInv, RequestInv, ViewInv, FlowInv, HostKept, CallerDoes
    PROVE  ViewInv'
<1>0. newest' = newest /\ newest \in Nat /\ newest' \in Nat
  BY ClientShape DEF HostKept
<1>1. CASE Leaves
  <2>1. /\ client'.model = client.model /\ client'.phase = "idle" /\ client'.state = "NeedsResync"
    BY <1>1, LeaveShape DEF Leaves
  <2> QED BY <1>0, <2>1 DEF ViewInv, Known
<1>2. ASSUME NEW c \in Conns, Connects(c) PROVE ViewInv'
  <2>1. client'.model = NoModel /\ client'.phase = "idle" /\ client'.state = "Pending"
    BY <1>2 DEF Connects
  <2>2. Known(client.model)'
    BY <1>0, <2>1, NoModelKnown DEF Known
  <2> QED BY <2>1, <2>2 DEF ViewInv
<1>3. ASSUME NEW f \in FrameSet, Dispatches(f) PROVE ViewInv'
  <2>1. Waits /\ client'.seen = client.seen
    BY <1>3 DEF Dispatches, ClientKeeps, Waits
  <2> QED BY <1>0, <2>1, ViewSame DEF Waits, ViewInv
<1>4. CASE Synchronizes
  <2>1. client'.model = client.model /\ client'.building = client.building /\ client'.state = "Pending"
        /\ client'.phase # "replay" /\ (client'.phase = "snapshot" => client'.seen = {} /\ client'.sub = 0)
    BY <1>4 DEF Synchronizes, ClientKeeps
  <2> QED BY <1>0, <2>1, ViewSame
<1>5. CASE Releases
  <2>0. client.state # "Ready" \/ client.phase \in {"idle", "closing"}
    BY DEF ViewInv
  <2>1. CASE client'.model = NoModel /\ client'.phase = "idle" /\ client'.state = "Pending"
    <3>1. Known(client.model)'
      BY <1>0, <2>1, NoModelKnown DEF Known
    <3> QED BY <2>1, <3>1 DEF ViewInv
  <2>2. CASE client'.model = client.model /\ client'.state # "Ready"
    <3>1. client'.building = client.building /\ client'.phase # "replay"
          /\ (client'.phase = "snapshot" => client'.seen = {} /\ client'.sub = 0)
      BY <1>5 DEF Releases, ClientKeeps
    <3> QED BY <1>0, <2>2, <3>1, ViewSame
  <2> QED BY <1>5, <2>0, <2>1, <2>2 DEF Releases
<1>6. CASE ReadsSnapshot
  <2>1. /\ client'.model = client.model /\ client'.phase = "replay" /\ client'.state = client.state
        /\ client'.seen = {} /\ client.state # "Ready"
        /\ client'.building.last = client.got.hi /\ client'.building.seqs = 1 .. client.got.hi
    BY <1>6 DEF ReadsSnapshot, ClientKeeps, ViewInv, Model
  <2>2. client.model.last <= client.got.hi /\ client.got.hi <= newest
    <3>1. ReplyFits(client.got)
      BY <1>6, UnderWayHolds DEF ReadsSnapshot, RequestInv
    <3> QED BY <1>6, <3>1 DEF ReadsSnapshot, ReplyFits
  <2>3. Known(client.building)'
    BY <1>0, <2>1, <2>2 DEF Known
  <2>4. Known(client.model)'
    BY <1>0, <2>1 DEF ViewInv, Known
  <2> QED BY <2>1, <2>2, <2>3, <2>4 DEF ViewInv
<1>7. ASSUME NEW p \in FrameSet, ReadsPage(p) PROVE ViewInv'
  <2>1. /\ client.phase = "replay" /\ p.lo = client.building.last /\ p.lo <= p.hi /\ p.hi <= p.end /\ p.end <= newest
        /\ p.lo \in Nat /\ p.hi \in Nat /\ p.end \in Nat /\ client'.sub = p.sub /\ p.sub \in Subs
        /\ client.conn # 0 /\ client'.conn = client.conn
    BY <1>7, FrameFields DEF ReadsPage, ReplyFits, ClientKeeps
  <2>2. PICK b : b = Model(p.hi, client.building.seqs \cup (p.lo + 1 .. p.hi))
    OBVIOUS
  <2>3. b.last = p.hi /\ b.some = TRUE /\ b.seqs = 1 .. p.hi /\ p.hi <= newest
    <3>1. client.building.seqs = 1 .. p.lo
      BY <2>1 DEF ViewInv, Known
    <3>2. (1 .. p.lo) \cup (p.lo + 1 .. p.hi) = 1 .. p.hi
      BY <2>1
    <3>3. p.hi <= newest
      BY <1>0, <2>1
    <3> QED BY <2>2, <3>1, <3>2, <3>3 DEF Model
  <2>4. client.model.last <= p.hi /\ client.state # "Ready" /\ \A n \in client.seen : n <= p.hi
    <3>1. client.model.last <= client.building.last /\ \A n \in client.seen : n <= client.building.last
      BY <2>1 DEF ViewInv
    <3>2. client.model.last \in Nat /\ client.seen \subseteq Nat
      BY ModelShape
    <3> QED BY <2>1, <3>1, <3>2 DEF ViewInv
  <2>5. \A n \in client.seen \cup (p.lo + 1 .. p.hi) : n <= p.hi
    BY <2>1, <2>4
  <2>6. CASE /\ ClientKeeps({"got", "sub", "seen", "building"})
             /\ client'.seen = client.seen \cup (p.lo + 1 .. p.hi) /\ client'.building = b
    <3>1. client'.phase = "replay" /\ client'.model = client.model /\ client'.state = client.state
      BY <2>1, <2>6 DEF ClientKeeps
    <3>2. Known(client.building)' /\ Known(client.model)'
      BY <1>0, <2>3, <2>6, <3>1 DEF ViewInv, Known
    <3> QED BY <2>3, <2>4, <2>5, <2>6, <3>1, <3>2 DEF ViewInv
  <2>7. CASE /\ client'.phase = "idle" /\ client'.state = "Ready" /\ client'.model = b
             /\ client'.seen = client.seen \cup (p.lo + 1 .. p.hi)
    <3>1. Known(client.model)'
      BY <1>0, <2>3, <2>7 DEF Known
    <3> QED BY <2>1, <2>3, <2>5, <2>7, <3>1 DEF ViewInv
  <2> QED BY <1>7, <2>2, <2>6, <2>7 DEF ReadsPage
<1>8. CASE IsRefused \/ Gaps
  <2>1. client'.model = client.model /\ client'.building = client.building /\ client'.state = "NeedsResync"
        /\ client'.phase \in {"cleanup", "idle"}
    BY <1>8 DEF IsRefused, Gaps, ClientKeeps
  <2> QED BY <1>0, <2>1, ViewSame
<1>9. ASSUME NEW f \in FrameSet, Receives(f) PROVE ViewInv'
  <2>1. /\ client.phase = "idle" /\ client'.phase = "idle" /\ client'.building = client.building
        /\ client'.sub = client.sub /\ client'.conn = client.conn /\ client.state = "Ready"
    BY <1>9 DEF Receives, ClientKeeps
  <2>2. CASE client'.model = client.model /\ client'.seen = client.seen
    BY <1>0, <2>1, <2>2, ViewSame
  <2>3. CASE /\ f.sub \notin client.retired /\ f.sub = client.sub /\ f.kind # "resync"
             /\ client'.seen = client.seen \cup {f.hi} /\ client'.state = client.state
             /\ client'.model = Model(f.hi, client.model.seqs \cup {f.hi})
    <3>1. f.hi = client.model.last + 1 /\ f.hi <= newest
      BY <1>9, <2>3, HeadFlow DEF Follows, Tails
    <3>2. client.model.last \in Nat /\ client.seen \subseteq Nat /\ client.model.seqs = 1 .. client.model.last
          /\ \A n \in client.seen : n <= client.model.last
      BY <2>1, ModelShape DEF ViewInv, Known
    <3>3. client.model.seqs \cup {f.hi} = 1 .. f.hi
      BY <3>1, <3>2
    <3>4. /\ client'.model.last = f.hi /\ client'.model.some = TRUE /\ client'.model.seqs = 1 .. f.hi
      BY <2>3, <3>3 DEF Model
    <3>5. Known(client.model)'
      BY <1>0, <3>1, <3>4 DEF Known
    <3>6. \A n \in client'.seen : n <= f.hi
      BY <2>3, <3>1, <3>2
    <3> QED BY <2>1, <2>3, <3>4, <3>5, <3>6 DEF ViewInv
  <2> QED BY <1>9, <2>2, <2>3 DEF Receives, ClientKeeps
<1>10. CASE Closes
  <2>1. CASE client'.model = NoModel /\ client'.state = "Pending" /\ client'.phase = "idle"
    <3>1. Known(client.model)'
      BY <1>0, <2>1, NoModelKnown DEF Known
    <3> QED BY <2>1, <3>1 DEF ViewInv
  <2>2. CASE ClientKeeps({"phase"}) /\ client'.phase = "closing"
    BY <1>0, <2>2, ViewSame DEF ClientKeeps
  <2> QED BY <1>10, <2>1, <2>2 DEF Closes, ClientKeeps
<1> QED BY <1>1, <1>2, <1>3, <1>4, <1>5, <1>6, <1>7, <1>8, <1>9, <1>10 DEF CallerDoes
=============================================================================
