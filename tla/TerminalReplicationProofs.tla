--------------------- MODULE TerminalReplicationProofs ---------------------
(***************************************************************************)
(* The retained deltas of a terminal are in order, and a replica at the     *)
(* host's position shows the host's rows, for any number of clients, rows,  *)
(* outputs, resizes, scrolls, restarts and any bounds of the queue and the  *)
(* log.                                                                     *)
(*                                                                         *)
(* Every operation of the service leaves the log alone (KeepsLog), adds one *)
(* delta at a new sequence (Grows), takes a sequence without one (Skips),   *)
(* or begins a generation with an empty log (Restarts).  That an exit is    *)
(* one delta needs that the lifecycle queue holds at most one (LogShape).   *)
(*                                                                         *)
(* For the rows, w is the newest sequence that was taken for a screen, by a *)
(* delta or by a scroll, and r the rows of that screen.  Whoever is at w or *)
(* beyond covers r, or a delta is still due (Unsettled): a snapshot shows a *)
(* grid that is ahead of its sequence only then.  A step waits (Waits: at   *)
(* most an exit joins the log), advances (Advances: w becomes the new       *)
(* sequence, which nobody has reached), replaces the generation, or is an   *)
(* answer or a delivery that leaves the log alone (Still).                  *)
(***************************************************************************)
EXTENDS TerminalReplication, SequenceTheorems, TLAPS

\* The log is a sequence, whatever the deltas carry.
LogShape == seq \in Nat /\ exits \in 0..1 /\ (\E D : deltas \in Seq(D))
            /\ \A i \in DOMAIN deltas : deltas[i].seq \in Nat

LogInv == LogShape /\ LogIsOrdered

\* How an operation may change the log.
Grows(d) == deltas' = Newest(Append(deltas, d)) /\ seq' = seq + 1 /\ gen' = gen
KeepsLog == UNCHANGED <<gen, seq, deltas>>
Skips == UNCHANGED <<gen, deltas>> /\ seq' = seq + 1
Restarts == deltas' = <<>> /\ seq' = 0

LogStep ==
  \/ KeepsLog
  \/ \E rows, attr : Grows(Delta(rows, attr))
  \/ Skips
  \/ Restarts

\* Draining the lifecycle adds at most one delta.
LEMMA DrainLifecycleStep ==
  ASSUME LogShape, DrainLifecycle, gen' = gen
  PROVE  LogStep /\ exits' = 0
<1>1. CASE exits = 0
  BY <1>1 DEF LogShape, DrainLifecycle, LogStep, KeepsLog
<1>2. CASE exits = 1
  <2>1. Grows(Delta({}, {}))
    BY <1>2 DEF DrainLifecycle, Grows
  <2> QED
    BY <2>1 DEF LogStep, DrainLifecycle
<1> QED
  BY <1>1, <1>2 DEF LogShape

\* Every action is one of the four kinds of step.
LEMMA EveryStepIsLogStep ==
  ASSUME LogShape, [Next]_vars
  PROVE  LogStep /\ exits' \in 0..1
<1>1. CASE Output \/ Notify \/ RetireFence \/ Restart \/ PumpDone \/ AnswerDeltas
             \/ AnswerSnapshot \/ ResizeRuntime \/ (\E c \in Clients : Deliver(c) \/ Lose(c))
             \/ UNCHANGED vars
  <2>1. KeepsLog /\ exits' = exits
    BY <1>1 DEF Output, Notify, RetireFence, Restart, PumpDone, AnswerDeltas, AnswerSnapshot,
                ResizeRuntime, Deliver, Lose, KeepsLog, log, queue, vars
  <2> QED
    BY <2>1 DEF LogStep, LogShape
<1>2. CASE ChildExits
  BY <1>2 DEF ChildExits, log, LogStep, KeepsLog
<1>3. CASE Drain
  <2>1. exits' = exits /\ gen' = gen
    BY <1>3 DEF Drain, queue
  <2>2. \E rows, attr : Grows(Delta(rows, attr))
    BY <1>3, <2>1 DEF Drain, RecordDelta, Grows
  <2> QED
    BY <2>1, <2>2 DEF LogStep, LogShape
<1>4. CASE RecordResize
  <2>1. exits' = exits /\ gen' = gen
    BY <1>4 DEF RecordResize, queue
  <2>2. \E rows, attr : Grows(Delta(rows, attr))
    BY <1>4, <2>1 DEF RecordResize, RecordDelta, Grows
  <2> QED
    BY <2>1, <2>2 DEF LogStep, LogShape
<1>5. ASSUME NEW request, Begin(request) PROVE LogStep /\ exits' \in 0..1
  BY <1>5, DrainLifecycleStep DEF Begin
<1>6. CASE Pump \/ Scroll \/ (\E h \in Heights : Resize(h)) \/ (\E c \in Clients : Ask(c))
  BY <1>5, <1>6 DEF Pump, Scroll, Resize, Ask
<1>7. CASE FallBack \/ BeginReplace
  BY <1>7, DrainLifecycleStep DEF FallBack, BeginReplace
<1>8. CASE ReplaceGeneration
  BY <1>8 DEF ReplaceGeneration, queue, LogStep, Restarts, LogShape
<1>9. CASE FirstView
  <2>1. exits' = exits /\ gen' = gen /\ deltas' = deltas /\ seq' = seq + 1
    BY <1>9 DEF FirstView, queue
  <2> QED
    BY <2>1 DEF LogStep, Skips, LogShape
<1>10. CASE ScrollRuntime
  <2>1. exits' = exits /\ gen' = gen /\ deltas' = deltas /\ (seq' = seq + 1 \/ seq' = seq)
    BY <1>10 DEF ScrollRuntime, queue
  <2> QED
    BY <2>1 DEF LogStep, Skips, KeepsLog, LogShape
<1> QED
  BY <1>1, <1>2, <1>3, <1>4, <1>6, <1>7, <1>8, <1>9, <1>10 DEF Next

\* A delta appended to an ordered log leaves it ordered, also when the oldest one
\* is dropped.
LEMMA GrowsKeepsLog ==
  ASSUME LogShape, LogIsOrdered, NEW rows, NEW attr, Grows(Delta(rows, attr))
  PROVE  LogIsOrdered' /\ seq' \in Nat /\ (\E D : deltas' \in Seq(D))
         /\ \A i \in DOMAIN deltas' : deltas'[i].seq \in Nat
<1> DEFINE d == Delta(rows, attr)
           longer == Append(deltas, d)
<1>1. PICK D : deltas \in Seq(D)
  BY DEF LogShape
<1>2. /\ longer \in Seq(D \cup {d}) /\ Len(longer) = Len(deltas) + 1 /\ Len(deltas) \in Nat
      /\ \A i \in 1..Len(longer) : longer[i] = IF i <= Len(deltas) THEN deltas[i] ELSE d
  <2>1. deltas \in Seq(D \cup {d})
    BY <1>1
  <2> QED
    BY <2>1
<1>3. d.gen = gen /\ d.seq = seq + 1
  BY DEF Delta
<1>4. gen' = gen /\ seq' = seq + 1 /\ seq \in Nat
  BY DEF Grows, LogShape
<1>5. \A i \in 1..Len(deltas) :
        /\ deltas[i].gen = gen /\ deltas[i].seq <= seq
        /\ \A j \in 1..Len(deltas) : i < j => deltas[i].seq < deltas[j].seq
  BY <1>1 DEF LogIsOrdered
<1>6. \A i \in 1..Len(deltas) : deltas[i].seq \in Nat
  BY <1>1 DEF LogShape
<1>7. LogIsOrdered' /\ (\E C : deltas' \in Seq(C)) /\ \A i \in DOMAIN deltas' : deltas'[i].seq \in Nat
  <2> HIDE DEF d, longer
  <2>1. \A i \in 1..Len(longer) :
          /\ longer[i].gen = gen /\ longer[i].seq <= seq + 1 /\ longer[i].seq \in Nat
          /\ \A j \in 1..Len(longer) : i < j => longer[i].seq < longer[j].seq
    BY <1>2, <1>3, <1>4, <1>5, <1>6
  <2>2. CASE deltas' = longer
    <3>1. DOMAIN deltas' = 1..Len(longer) /\ deltas' \in Seq(D \cup {d})
      BY <1>2, <2>2
    <3> QED
      BY <1>4, <2>1, <2>2, <3>1 DEF LogIsOrdered
  <2>3. CASE deltas' = Tail(longer)
    <3>1. longer # <<>>
      BY <1>2
    <3>2. /\ deltas' \in Seq(D \cup {d}) /\ Len(deltas') = Len(longer) - 1
          /\ \A i \in 1..Len(deltas') : deltas'[i] = longer[i + 1]
      BY <1>2, <2>3, <3>1, HeadTailProperties
    <3>3. DOMAIN deltas' = 1..Len(deltas') /\ Len(deltas') = Len(deltas)
      BY <1>2, <3>2
    <3>4. \A i \in 1..Len(deltas') : i + 1 \in 1..Len(longer)
      BY <1>2, <3>3
    <3>5. \A i \in 1..Len(deltas') : deltas'[i].gen = gen' /\ deltas'[i].seq <= seq' /\ deltas'[i].seq \in Nat
      BY <1>4, <2>1, <3>2, <3>4
    <3>6. ASSUME NEW i \in 1..Len(deltas'), NEW j \in 1..Len(deltas'), i < j
          PROVE  deltas'[i].seq < deltas'[j].seq
      <4>1. i + 1 < j + 1
        BY <1>2, <3>3, <3>6
      <4> QED
        BY <2>1, <3>2, <3>4, <4>1
    <3> QED
      BY <3>2, <3>3, <3>5, <3>6 DEF LogIsOrdered
  <2> QED
    BY <2>2, <2>3 DEF Grows, Newest, longer, d
<1> QED
  BY <1>4, <1>7

\* So every step keeps the log.
LEMMA LogInvStep ==
  ASSUME LogInv, [Next]_vars
  PROVE  LogInv'
<1>1. LogStep /\ exits' \in 0..1
  BY EveryStepIsLogStep DEF LogInv
<1>2. CASE KeepsLog
  BY <1>1, <1>2 DEF KeepsLog, LogInv, LogShape, LogIsOrdered
<1>3. CASE \E rows, attr : Grows(Delta(rows, attr))
  BY <1>1, <1>3, GrowsKeepsLog DEF LogInv, LogShape
<1>4. CASE Skips
  BY <1>1, <1>4 DEF Skips, LogInv, LogShape, LogIsOrdered
<1>5. CASE Restarts
  <2>1. deltas' \in Seq({})
    BY <1>5 DEF Restarts
  <2> QED
    BY <1>1, <1>5, <2>1 DEF Restarts, LogInv, LogShape, LogIsOrdered
<1> QED
  BY <1>1, <1>2, <1>3, <1>4, <1>5 DEF LogStep

\* The retained deltas are of the present generation, in the order of their
\* sequences and none beyond the service's (record_delta_from_screen,
\* drain_lifecycle, replace_generation, scroll_task_terminal_for).
THEOREM DeltasAreOrdered == Spec => []LogIsOrdered
<1>1. Init => LogInv
  <2> SUFFICES ASSUME Init PROVE LogInv
    OBVIOUS
  <2>1. deltas = <<>> /\ seq = 0 /\ exits = 0
    BY DEF Init
  <2>2. deltas \in Seq({})
    BY <2>1
  <2> QED
    BY <2>1, <2>2 DEF LogInv, LogShape, LogIsOrdered
<1>2. LogInv /\ [Next]_vars => LogInv'
  BY LogInvStep
<1>3. LogInv => LogIsOrdered
  BY DEF LogInv
<1> QED
  BY <1>1, <1>2, <1>3, PTL DEF Spec

-----------------------------------------------------------------------------
(* The rows of a replica.                                                    *)

\* What the variables range over.  The part of a delta is present or not.
RowParts == {{}} \cup {{r} : r \in Rows}
DeltaSet == [gen : Nat, seq : Nat, rows : RowParts, attr : SUBSET Attributes]
Snapshots == [gen : Nat, seq : Nat, screen : Screens]
Replicas == [gen : Nat, seq : Nat, rows : Seq(Contents), attr : Attributes, needs : BOOLEAN]
Ops ==
  [kind : {"pump", "scroll"}, left : Nat, coalesced : BOOLEAN]
    \cup [kind : {"snapshot"}, client : Clients, clears : BOOLEAN, left : Nat, coalesced : BOOLEAN]
    \cup [kind : {"updates"}, client : Clients, gen : Nat, since : Nat, left : Nat, coalesced : BOOLEAN]
    \cup [kind : {"resize", "record"}, height : Heights, left : Nat, coalesced : BOOLEAN]
    \cup [kind : {"replace"}, to : Nat, left : Nat, coalesced : BOOLEAN]

Shape ==
  /\ grid \in Screens /\ last \in Screens /\ reader \in {"idle", "applied"} /\ attached \in Nat
  /\ pending \in [count : Nat, coalesced : BOOLEAN]
  /\ gen \in Nat \ {0} /\ truncated \in BOOLEAN
  /\ deltas \in Seq(DeltaSet)
  /\ op \in {NoOp} \cup Ops
  /\ replica \in [Clients -> Replicas]
  /\ wire \in [Clients -> SUBSET (Snapshots \cup DeltaSet)]

\* A delta will still be recorded, or the generation is over.
Unsettled ==
  \/ attached # gen \/ reader = "applied" \/ pending # EmptyQueue
  \/ op # NoOp /\ (op.left > 0 \/ op.coalesced \/ op.kind = "record")

\* A generation is only replaced by a greater one, which the runtime already is.
OpOK == op # NoOp /\ op.kind = "replace" => op.to > gen /\ attached # gen

\* What was sent, is retained or is shown belongs to the past.
Seen(g, n) == g <= gen /\ (g = gen => n <= seq)
PastOf(c) == Seen(replica[c].gen, replica[c].seq) /\ \A m \in wire[c] : Seen(m.gen, m.seq)
PastOK == (\A i \in DOMAIN deltas : Seen(deltas[i].gen, deltas[i].seq)) /\ \A c \in Clients : PastOf(c)

\* w is the newest sequence that was taken for a screen and r the rows of that
\* screen, which the grid still has or a delta is due.  A delta after w carries
\* no rows; one at w carries r, unless it was recorded under truncation, which is
\* never sent; whoever is at w or beyond covers r, or a delta is due.
Carries(d, w, r) == d.gen = gen => /\ d.seq > w => d.rows = {}
                                   /\ d.seq = w => d.rows = {r}
Shows(g, n, rows, w, r) == g = gen /\ n >= w => Covers(rows, r) \/ Unsettled

Faithful(m, w, r) == IF m \in DeltaSet THEN Carries(m, w, r) ELSE Shows(m.gen, m.seq, m.screen.rows, w, r)
FaithfulTo(c, w, r) ==
  /\ ~replica[c].needs => Shows(replica[c].gen, replica[c].seq, replica[c].rows, w, r)
  /\ \A m \in wire[c] : Faithful(m, w, r)
RecordedAt(w, r) ==
  /\ grid.rows # r => Unsettled
  /\ \A i \in DOMAIN deltas : truncated \/ Carries(deltas[i], w, r)
  /\ \A c \in Clients : FaithfulTo(c, w, r)

RowsInv == LogInv /\ Shape /\ OpOK /\ PastOK /\ \E w \in 0..seq, r \in Rows : RecordedAt(w, r)

\* A row sequence is a sequence.
LEMMA RowFacts ==
  ASSUME NEW r \in Rows
  PROVE  r \in Seq(Contents) /\ Len(r) \in Nat /\ DOMAIN r = 1..Len(r) /\ Len(r) \in Heights
<1>1. PICK h \in Heights : r \in [1..h -> Contents]
  BY DEF Rows
<1>2. h \in Nat
  BY ReplicationAssumption
<1> QED BY <1>1, <1>2

\* Heights give rows.
LEMMA RowsOf ==
  ASSUME NEW h \in Heights, NEW r \in [1..h -> Contents]
  PROVE  r \in Rows /\ Len(r) = h /\ h \in Nat
BY ReplicationAssumption DEF Rows

\* A blank screen has the height asked for.
LEMMA BlankFacts ==
  ASSUME NEW h \in Heights, NEW a \in Attributes
  PROVE  Blank(h, a) \in Screens /\ Len(Blank(h, a).rows) = h
<1>1. (CHOOSE c \in Contents : TRUE) \in Contents
  BY ReplicationAssumption
<1>2. PICK r : r = [i \in 1..h |-> CHOOSE c \in Contents : TRUE]
  OBVIOUS
<1>3. r \in [1..h -> Contents]
  BY <1>1, <1>2
<1>4. r \in Rows /\ Len(r) = h
  BY <1>3, RowsOf
<1> QED BY <1>2, <1>4 DEF Blank, Screens

\* The screens of the host, and their heights.
LEMMA ScreenFacts ==
  ASSUME NEW s \in Screens
  PROVE  s.rows \in Rows /\ s.attr \in Attributes /\ Len(s.rows) \in Nat /\ Len(s.rows) \in Heights
         /\ s.rows \in Seq(Contents)
<1>1. s.rows \in Rows /\ s.attr \in Attributes
  BY DEF Screens
<1> QED BY <1>1, RowFacts

\* A resized grid has the height asked for.
LEMMA ResizedFacts ==
  ASSUME NEW r \in Rows, NEW h \in Heights
  PROVE  Resized(r, h) \in Rows /\ Len(Resized(r, h)) = h
<1>1. (CHOOSE c \in Contents : TRUE) \in Contents
  BY ReplicationAssumption
<1>2. h \in Nat /\ r \in Seq(Contents) /\ Len(r) \in Nat
  BY RowFacts, ReplicationAssumption
<1>3. \A i \in 1..h : i <= Len(r) => r[i] \in Contents
  BY <1>2
<1>4. Resized(r, h) \in [1..h -> Contents]
  BY <1>1, <1>2, <1>3 DEF Resized
<1> QED BY <1>4, RowsOf

\* Every element of the log after a delta is an old one or the new one.
LEMMA NewestFacts ==
  ASSUME NEW D, NEW s \in Seq(D), NEW d \in D
  PROVE  /\ Newest(Append(s, d)) \in Seq(D)
         /\ \A i \in DOMAIN Newest(Append(s, d)) :
              Newest(Append(s, d))[i] = d \/ \E j \in DOMAIN s : Newest(Append(s, d))[i] = s[j]
<1>1. PICK t : t = Append(s, d)
  OBVIOUS
<1>2. t \in Seq(D) /\ Len(t) = Len(s) + 1 /\ Len(s) \in Nat /\ DOMAIN s = 1..Len(s) /\ DOMAIN t = 1..Len(s) + 1
  BY <1>1
<1>3. \A i \in DOMAIN t : t[i] = d \/ \E j \in DOMAIN s : t[i] = s[j]
  BY <1>1, <1>2
<1>4. CASE Newest(t) = t
  BY <1>1, <1>2, <1>3, <1>4
<1>5. CASE Newest(t) = Tail(t)
  <2>1. t # <<>>
    BY <1>2
  <2>2. PICK u : u = Tail(t)
    OBVIOUS
  <2>3. u \in Seq(D) /\ Len(u) = Len(t) - 1 /\ \A i \in 1..Len(u) : u[i] = t[i + 1]
    BY <1>2, <2>1, <2>2, HeadTailProperties
  <2>4. ASSUME NEW i \in DOMAIN u PROVE u[i] = d \/ \E j \in DOMAIN s : u[i] = s[j]
    <3>1. i + 1 \in DOMAIN t /\ u[i] = t[i + 1]
      BY <1>2, <2>3
    <3> QED BY <1>3, <3>1
  <2> QED BY <1>1, <1>5, <2>2, <2>3, <2>4
<1> QED BY <1>4, <1>5 DEF Newest

\* Parts of rows.
LEMMA PartFacts ==
  ASSUME NEW b \in BOOLEAN, NEW r \in Rows
  PROVE  Part(b, r) \in RowParts /\ Part(b, r) \subseteq {r} /\ (b => Part(b, r) = {r})
<1>1. CASE b = TRUE
  BY <1>1 DEF Part, RowParts
<1>2. CASE b = FALSE
  BY <1>2 DEF Part, RowParts
<1> QED BY <1>1, <1>2

\* Rows that overwrite others cover themselves; none overwrite nothing.
LEMMA OverwrittenFacts ==
  ASSUME NEW old \in Seq(Contents), NEW new \in Seq(Contents), NEW p \in Nat, NEW q \in Nat,
         p = Len(new), q = Len(old)
  PROVE  /\ Overwritten(old, new) \in Seq(Contents)
         /\ Covers(Overwritten(old, new), new)
         /\ p = 0 => Overwritten(old, new) = old
<1>1. DOMAIN old = 1..q /\ DOMAIN new = 1..p
  OBVIOUS
<1>2. PICK n \in Nat : n = IF p > q THEN p ELSE q
  OBVIOUS
<1>3. Overwritten(old, new) = [i \in 1..n |-> IF i <= p THEN new[i] ELSE old[i]]
  BY <1>2 DEF Overwritten
<1>4. ASSUME NEW i \in 1..n PROVE (IF i <= p THEN new[i] ELSE old[i]) \in Contents
  <2>1. CASE i <= p
    <3>1. i \in 1..p
      BY <2>1
    <3> QED BY <2>1, <3>1
  <2>2. CASE ~(i <= p)
    <3>1. i \in 1..q
      BY <1>2, <2>2
    <3> QED BY <2>2, <3>1
  <2> QED BY <2>1, <2>2
<1>5. Overwritten(old, new) \in [1..n -> Contents]
  BY <1>3, <1>4
<1>6. Overwritten(old, new) \in Seq(Contents) /\ Len(Overwritten(old, new)) = n
  BY <1>5
<1>7. Covers(Overwritten(old, new), new)
  <2>1. p <= n /\ \A i \in 1..p : i \in 1..n /\ i <= p
    BY <1>2
  <2>2. \A i \in 1..p : Overwritten(old, new)[i] = new[i]
    BY <1>3, <2>1
  <2> QED BY <1>6, <2>1, <2>2 DEF Covers
<1>8. ASSUME p = 0 PROVE Overwritten(old, new) = old
  <2>1. n = q
    BY <1>2, <1>8
  <2>2. \A i \in 1..n : ~(i <= p)
    BY <1>8
  <2>3. Overwritten(old, new) = [i \in 1..n |-> old[i]]
    BY <1>3, <2>2
  <2>4. old = [i \in 1..q |-> old[i]]
    BY <1>1
  <2> QED BY <2>1, <2>3, <2>4
<1> QED BY <1>6, <1>7, <1>8

\* Rows cover themselves.
LEMMA CoversItself ==
  ASSUME NEW rows \in Rows
  PROVE  Covers(rows, rows)
<1>1. Len(rows) \in Nat
  BY RowFacts
<1> QED BY <1>1 DEF Covers

\* The kinds of operations and their fields.
LEMMA OpFacts ==
  ASSUME NEW o \in Ops
  PROVE  /\ o # NoOp /\ o.left \in Nat /\ o.coalesced \in BOOLEAN
         /\ o.kind \in {"pump", "scroll", "snapshot", "updates", "resize", "record", "replace"}
         /\ o.kind \in {"snapshot", "updates"} => o.client \in Clients
         /\ o.kind = "resize" => o.height \in Heights
         /\ o.kind = "replace" => o.to \in Nat
<1>1. NoOp.kind = "none"
  BY DEF NoOp
<1>2. CASE o \in [kind : {"pump", "scroll"}, left : Nat, coalesced : BOOLEAN]
  BY <1>1, <1>2
<1>3. CASE o \in [kind : {"snapshot"}, client : Clients, clears : BOOLEAN, left : Nat, coalesced : BOOLEAN]
  BY <1>1, <1>3
<1>4. CASE o \in [kind : {"updates"}, client : Clients, gen : Nat, since : Nat, left : Nat, coalesced : BOOLEAN]
  BY <1>1, <1>4
<1>5. CASE o \in [kind : {"resize", "record"}, height : Heights, left : Nat, coalesced : BOOLEAN]
  BY <1>1, <1>5
<1>6. CASE o \in [kind : {"replace"}, to : Nat, left : Nat, coalesced : BOOLEAN]
  BY <1>1, <1>6
<1> QED BY <1>2, <1>3, <1>4, <1>5, <1>6 DEF Ops

\* An operation keeps its kind while it drains.
LEMMA DrainedOp ==
  ASSUME NEW o \in Ops, NEW l \in Nat
  PROVE  /\ [o EXCEPT !.left = l, !.coalesced = FALSE] \in Ops
         /\ [o EXCEPT !.left = l, !.coalesced = FALSE].kind = o.kind
BY DEF Ops

\* What begins an operation: the queue becomes what it has left, or nothing
\* happens but the exit.
Asked(o) == op = NoOp /\ o \in Ops /\ o.kind \notin {"record", "replace"}
            /\ op' = o /\ o.left = pending.count /\ o.coalesced = pending.coalesced /\ pending' = EmptyQueue
Refused == op = NoOp /\ op' = op /\ pending' = pending /\ attached # gen
Begins == (\E o \in Ops : Asked(o)) \/ Refused

\* Every request to the service begins so (drain_attached_output).
LEMMA BeginCases ==
  ASSUME Shape, Pump \/ Scroll \/ (\E h \in Heights : Resize(h)) \/ (\E c \in Clients : Ask(c))
  PROVE  Begins /\ DrainLifecycle /\ UNCHANGED <<runtime, gen, last, truncated, pressure, clients>>
<1>1. PICK l \in Nat, b \in BOOLEAN : l = pending.count /\ b = pending.coalesced
  BY DEF Shape
<1>2. ASSUME NEW o \in Ops, Begin(o), o.left = l, o.coalesced = b, o.kind \notin {"record", "replace"}
      PROVE  Begins /\ DrainLifecycle /\ UNCHANGED <<runtime, gen, last, truncated, pressure, clients>>
  <2>1. CASE Attached
    <3>1. Asked(o)
      BY <1>1, <1>2, <2>1 DEF Begin, Asked
    <3> QED BY <1>2, <3>1 DEF Begin, Begins
  <2>2. CASE ~Attached
    BY <1>2, <2>2 DEF Begin, Begins, Refused, Attached
  <2> QED BY <2>1, <2>2
<1>3. CASE Pump
  <2>1. PICK o : o = [kind |-> "pump", left |-> l, coalesced |-> b]
    OBVIOUS
  <2>2. o \in Ops /\ o.left = l /\ o.coalesced = b /\ o.kind = "pump"
    BY <2>1 DEF Ops
  <2> QED BY <1>1, <1>2, <1>3, <2>1, <2>2 DEF Pump
<1>6. CASE Scroll
  <2>1. PICK o : o = [kind |-> "scroll", left |-> l, coalesced |-> b]
    OBVIOUS
  <2>2. o \in Ops /\ o.left = l /\ o.coalesced = b /\ o.kind = "scroll"
    BY <2>1 DEF Ops
  <2> QED BY <1>1, <1>2, <1>6, <2>1, <2>2 DEF Scroll
<1>4. ASSUME NEW h \in Heights, Resize(h)
      PROVE  Begins /\ DrainLifecycle /\ UNCHANGED <<runtime, gen, last, truncated, pressure, clients>>
  <2>1. PICK o : o = [kind |-> "resize", height |-> h, left |-> l, coalesced |-> b]
    OBVIOUS
  <2>2. o \in Ops /\ o.left = l /\ o.coalesced = b /\ o.kind = "resize"
    BY <2>1 DEF Ops
  <2> QED BY <1>1, <1>2, <1>4, <2>1, <2>2 DEF Resize
<1>5. ASSUME NEW c \in Clients, Ask(c)
      PROVE  Begins /\ DrainLifecycle /\ UNCHANGED <<runtime, gen, last, truncated, pressure, clients>>
  <2>0. PICK g \in Nat, n \in Nat : g = replica[c].gen /\ n = replica[c].seq
    BY DEF Shape, Replicas
  <2>1. PICK o : o = [kind |-> "snapshot", client |-> c, clears |-> FALSE, left |-> l, coalesced |-> b]
    OBVIOUS
  <2>2. o \in Ops /\ o.left = l /\ o.coalesced = b /\ o.kind = "snapshot"
    BY <2>1 DEF Ops
  <2>3. PICK p : p = [kind |-> "updates", client |-> c, gen |-> g, since |-> n, left |-> l, coalesced |-> b]
    OBVIOUS
  <2>4. p \in Ops /\ p.left = l /\ p.coalesced = b /\ p.kind = "updates"
    BY <2>3 DEF Ops
  <2>5. Begin(o) \/ Begin(p)
    BY <1>1, <1>5, <2>0, <2>1, <2>3 DEF Ask
  <2> QED BY <1>2, <2>2, <2>4, <2>5
<1> QED BY <1>3, <1>4, <1>5, <1>6

\* Draining the lifecycle leaves the log or adds an exit.
ExitStep == KeepsLog \/ Grows(Delta({}, {}))
\* So drain_lifecycle is an exit step.
LEMMA ExitFacts ==
  ASSUME LogShape, DrainLifecycle, gen' = gen
  PROVE  ExitStep
<1>1. CASE exits = 0
  BY <1>1 DEF LogShape, DrainLifecycle, ExitStep, KeepsLog
<1>2. CASE exits = 1
  BY <1>2 DEF DrainLifecycle, Grows, ExitStep
<1> QED BY <1>1, <1>2 DEF LogShape

\* The delta of a drain and of a resize (record_delta_from_screen).
Recorded == Delta(Part(~truncated' \/ grid.rows # last.rows, grid.rows), Part(grid.attr # last.attr, grid.attr))
\* It is a delta, and so is the one of an exit.
LEMMA DeltaFacts ==
  ASSUME Shape, truncated' \in BOOLEAN, LogShape
  PROVE  /\ Recorded \in DeltaSet /\ Recorded.gen = gen /\ Recorded.seq = seq + 1
         /\ Recorded.rows \subseteq {grid.rows} /\ (~truncated' => Recorded.rows = {grid.rows})
         /\ Delta({}, {}) \in DeltaSet /\ Delta({}, {}).gen = gen /\ Delta({}, {}).seq = seq + 1
         /\ Delta({}, {}).rows = {}
<1>1. grid.rows \in Rows /\ grid.attr \in Attributes /\ gen \in Nat /\ seq + 1 \in Nat
  BY ScreenFacts DEF Shape, LogShape
<1>2. PICK b \in BOOLEAN : b = (~truncated' \/ grid.rows # last.rows)
  OBVIOUS
<1>3. Part(b, grid.rows) \in RowParts /\ Part(b, grid.rows) \subseteq {grid.rows} /\ (~truncated' => Part(b, grid.rows) = {grid.rows})
  BY <1>1, <1>2, PartFacts
<1>4. Part(grid.attr # last.attr, grid.attr) \in SUBSET Attributes
  BY <1>1 DEF Part
<1>5. PICK r \in RowParts, a \in SUBSET Attributes :
         r = Part(b, grid.rows) /\ a = Part(grid.attr # last.attr, grid.attr)
  BY <1>3, <1>4
<1>6. Recorded = [gen |-> gen, seq |-> seq + 1, rows |-> r, attr |-> a]
  BY <1>2, <1>5 DEF Recorded, Delta
<1>7. {} \in RowParts
  BY DEF RowParts
<1> QED BY <1>1, <1>3, <1>5, <1>6, <1>7 DEF Delta, DeltaSet

\* A log that is kept, grows or is emptied keeps its shape.
LEMMA LogKept ==
  ASSUME Shape, NEW d \in DeltaSet, deltas' = deltas \/ deltas' = Newest(Append(deltas, d)) \/ deltas' = <<>>
  PROVE  /\ deltas' \in Seq(DeltaSet)
         /\ \A i \in DOMAIN deltas' : deltas'[i] = d \/ \E j \in DOMAIN deltas : deltas'[i] = deltas[j]
<1>1. deltas \in Seq(DeltaSet)
  BY DEF Shape
<1>2. CASE deltas' = deltas
  BY <1>1, <1>2
<1>3. CASE deltas' = Newest(Append(deltas, d))
  BY <1>1, <1>3, NewestFacts
<1>4. CASE deltas' = <<>>
  BY <1>4
<1> QED BY <1>2, <1>3, <1>4

\* A step that leaves the recorded screen and the clients alone: the log stays or
\* gains an exit, and what is due stays due.
Waits ==
  /\ UNCHANGED <<gen, truncated, replica, wire>> /\ ExitStep
  /\ Unsettled => Unsettled'
  /\ grid'.rows # grid.rows => Unsettled'

\* The output of the process: the notification is due.
LEMMA OutputKeeps ==
  ASSUME Shape, OpOK, Output
  PROVE  Shape' /\ OpOK' /\ Waits
<1>1. PICK s \in Screens : grid' = s
  BY DEF Output, Redrawn
<1>2. reader' = "applied" /\ UNCHANGED <<attached, pending, exits, gen, seq, last, deltas, truncated, op, replica, wire>>
  BY DEF Output, queue, log, clients
<1>3. Unsettled'
  BY <1>2 DEF Unsettled
<1>4. Shape'
  BY <1>1, <1>2 DEF Shape
<1>5. OpOK'
  BY <1>2 DEF OpOK, NoOp
<1> QED BY <1>2, <1>3, <1>4, <1>5 DEF Waits, ExitStep, KeepsLog

\* The notification is queued, or coalesced with the others.
LEMMA NotifyKeeps ==
  ASSUME Shape, OpOK, Notify
  PROVE  Shape' /\ OpOK' /\ Waits
<1>1. reader' = "idle" /\ pending' = Push
      /\ UNCHANGED <<grid, attached, exits, gen, seq, last, deltas, truncated, op, replica, wire>>
  BY DEF Notify, log, clients
<1>2. PICK n \in Nat, b \in BOOLEAN : pending = [count |-> n, coalesced |-> b]
  BY DEF Shape
<1>3. \/ Push = [count |-> 0, coalesced |-> TRUE]
      \/ Push = [count |-> n + 1, coalesced |-> b]
  BY <1>2 DEF Push
<1>4. Push \in [count : Nat, coalesced : BOOLEAN] /\ Push # EmptyQueue
  <2>1. CASE Push = [count |-> 0, coalesced |-> TRUE]
    BY <2>1 DEF EmptyQueue
  <2>2. CASE Push = [count |-> n + 1, coalesced |-> b]
    <3>1. n + 1 # 0 /\ n + 1 \in Nat
      BY <1>2
    <3> QED BY <1>2, <2>2, <3>1 DEF EmptyQueue
  <2> QED BY <1>3, <2>1, <2>2
<1>5. Unsettled'
  BY <1>1, <1>4 DEF Unsettled, EmptyQueue
<1>6. Shape'
  BY <1>1, <1>4 DEF Shape
<1>7. OpOK'
  BY <1>1 DEF OpOK, NoOp
<1> QED BY <1>1, <1>5, <1>6, <1>7 DEF Waits, ExitStep, KeepsLog

\* The child exits, its fence is retired, the process is restarted.
LEMMA ProcessKeeps ==
  ASSUME Shape, OpOK, ChildExits \/ RetireFence \/ Restart
  PROVE  Shape' /\ OpOK' /\ Waits
<1>1. UNCHANGED <<reader, pending, gen, seq, last, deltas, truncated, op, replica, wire>>
  BY DEF ChildExits, RetireFence, Restart, runtime, queue, log, clients
<1>2. CASE ChildExits
  <2>1. UNCHANGED <<grid, attached>>
    BY <1>2 DEF ChildExits, runtime
  <2>2. Unsettled' = Unsettled
    BY <1>1, <2>1 DEF Unsettled, EmptyQueue, NoOp
  <2>3. Shape' /\ OpOK'
    BY <1>1, <2>1, <2>2 DEF Shape, OpOK, NoOp
  <2> QED BY <1>1, <2>1, <2>2, <2>3 DEF Waits, ExitStep, KeepsLog
<1>3. CASE RetireFence
  <2>1. attached' = 0 /\ grid' = grid
    BY <1>3 DEF RetireFence, NoFence
  <2>2. gen' # 0
    BY <1>1 DEF Shape
  <2>3. Unsettled' /\ attached' # gen'
    BY <1>1, <2>1, <2>2 DEF Unsettled
  <2>4. Shape'
    BY <1>1, <2>1 DEF Shape
  <2>5. OpOK'
    BY <1>1, <2>1, <2>3 DEF OpOK, NoOp
  <2> QED BY <1>1, <2>3, <2>4, <2>5 DEF Waits, ExitStep, KeepsLog
<1>4. CASE Restart
  <2>1. attached' = gen + 1 /\ grid' = Blank(Len(grid.rows), last.attr)
    BY <1>4 DEF Restart
  <2>2. gen \in Nat /\ grid \in Screens /\ last \in Screens
    BY DEF Shape
  <2>3. grid' \in Screens /\ Len(grid'.rows) = Len(grid.rows) /\ attached' \in Nat /\ attached' # gen'
    BY <1>1, <2>1, <2>2, ScreenFacts, BlankFacts
  <2>4. Unsettled'
    BY <2>3 DEF Unsettled
  <2>5. Shape'
    BY <1>1, <2>3 DEF Shape
  <2>6. OpOK'
    BY <1>1, <2>3, <2>4 DEF OpOK, NoOp
  <2> QED BY <1>1, <2>4, <2>5, <2>6 DEF Waits, ExitStep, KeepsLog
<1> QED BY <1>2, <1>3, <1>4

\* An exit keeps the log's shape.
LEMMA ExitShape ==
  ASSUME Shape, LogShape, ExitStep, truncated' = truncated
  PROVE  /\ deltas' \in Seq(DeltaSet)
         /\ \A i \in DOMAIN deltas' : deltas'[i] = Delta({}, {}) \/ \E j \in DOMAIN deltas : deltas'[i] = deltas[j]
<1>1. Delta({}, {}) \in DeltaSet
  BY DeltaFacts DEF Shape
<1>2. deltas' = deltas \/ deltas' = Newest(Append(deltas, Delta({}, {})))
  BY DEF ExitStep, KeepsLog, Grows
<1> QED BY <1>1, <1>2, LogKept

\* A queue that is not empty has something to drain.
LEMMA QueueFacts ==
  ASSUME NEW n \in Nat, NEW b \in BOOLEAN, [count |-> n, coalesced |-> b] # EmptyQueue
  PROVE  n > 0 \/ b
<1>1. CASE b = TRUE
  BY <1>1
<1>2. CASE b = FALSE
  <2>1. n # 0
    BY <1>2 DEF EmptyQueue
  <2> QED BY <2>1
<1> QED BY <1>1, <1>2

\* What the queue held is what the operation has left, or the generation is over.
LEMMA BeginKeeps ==
  ASSUME LogShape, Shape, OpOK, Pump \/ Scroll \/ (\E h \in Heights : Resize(h)) \/ (\E c \in Clients : Ask(c))
  PROVE  Shape' /\ OpOK' /\ Waits
<1>1. Begins /\ DrainLifecycle /\ UNCHANGED <<grid, reader, attached, gen, last, truncated, replica, wire>>
  BY BeginCases DEF runtime, clients
<1>2. ExitStep
  BY <1>1, ExitFacts
<1>3. deltas' \in Seq(DeltaSet)
  BY <1>1, <1>2, ExitShape
<1>4. ASSUME NEW o \in Ops, Asked(o)
      PROVE  Shape' /\ OpOK' /\ (Unsettled => Unsettled')
  <2>1. op = NoOp /\ op' = o /\ o.left = pending.count /\ (o.coalesced <=> pending.coalesced) /\ pending' = EmptyQueue
        /\ o.kind \notin {"record", "replace"} /\ o # NoOp
    BY <1>4, OpFacts DEF Asked
  <2>2. PICK n \in Nat, b \in BOOLEAN : pending = [count |-> n, coalesced |-> b]
    BY DEF Shape
  <2>3. pending # EmptyQueue => o.left > 0 \/ o.coalesced
    BY <2>1, <2>2, QueueFacts
  <2>4. Unsettled => Unsettled'
    BY <1>1, <2>1, <2>3 DEF Unsettled
  <2>5. EmptyQueue \in [count : Nat, coalesced : BOOLEAN]
    BY DEF EmptyQueue
  <2>6. Shape'
    BY <1>1, <1>3, <1>4, <2>1, <2>5 DEF Shape
  <2>7. OpOK'
    BY <1>1, <2>1, <2>4 DEF OpOK
  <2> QED BY <2>4, <2>6, <2>7
<1>5. ASSUME Refused PROVE Shape' /\ OpOK' /\ (Unsettled => Unsettled')
  <2>1. op' = op /\ pending' = pending /\ attached' # gen'
    BY <1>1, <1>5 DEF Refused
  <2>2. Unsettled'
    BY <2>1 DEF Unsettled
  <2>3. Shape'
    BY <1>1, <1>3, <2>1 DEF Shape
  <2>4. OpOK'
    BY <1>1, <2>1, <2>2 DEF OpOK, NoOp
  <2> QED BY <2>2, <2>3, <2>4
<1>6. Shape' /\ OpOK' /\ (Unsettled => Unsettled')
  BY <1>1, <1>4, <1>5 DEF Begins
<1> QED BY <1>1, <1>2, <1>6 DEF Waits

\* An operation that ends or falls back with nothing left to drain.
LEMMA EndKeeps ==
  ASSUME Shape, OpOK, PumpDone
  PROVE  Shape' /\ OpOK' /\ Waits
<1>1. op' = NoOp /\ UNCHANGED <<grid, reader, attached, pending, gen, seq, last, deltas, truncated, replica, wire>>
  BY DEF PumpDone, runtime, queue, log, clients
<1>2. op \in Ops /\ op.kind = "pump" /\ op.left = 0 /\ ~op.coalesced
  BY DEF PumpDone, Drained, Shape
<1>3. Unsettled => Unsettled'
  BY <1>1, <1>2 DEF Unsettled, EmptyQueue
<1>4. Shape'
  BY <1>1 DEF Shape
<1>5. OpOK'
  BY <1>1, <1>2, <1>3 DEF OpOK
<1> QED BY <1>1, <1>3, <1>4, <1>5 DEF Waits, ExitStep, KeepsLog

\* updates_since falls back to a snapshot, which drains once more.
LEMMA FallBackKeeps ==
  ASSUME LogShape, Shape, OpOK, FallBack
  PROVE  Shape' /\ OpOK' /\ Waits
<1>1. DrainLifecycle /\ pending' = EmptyQueue
      /\ UNCHANGED <<grid, reader, attached, gen, last, truncated, replica, wire>>
  BY DEF FallBack, runtime, clients
<1>2. op # NoOp /\ op \in Ops /\ op.kind = "updates" /\ op.left = 0 /\ ~op.coalesced
  BY DEF FallBack, Drained, Shape
<1>3. PICK n \in Nat, b \in BOOLEAN : pending = [count |-> n, coalesced |-> b]
  BY DEF Shape
<1>4. PICK e \in BOOLEAN : e = (op.gen = gen /\ op.since <= seq /\ ~Contiguous)
  OBVIOUS
<1>5. PICK c \in Clients : c = op.client
  BY <1>2, OpFacts
<1>6. op' = [kind |-> "snapshot", client |-> c, clears |-> e, left |-> n, coalesced |-> b]
  BY <1>3, <1>4, <1>5 DEF FallBack
<1>7. op' \in Ops /\ op' # NoOp /\ op'.kind = "snapshot" /\ op'.left = n /\ (op'.coalesced <=> b)
  <2>1. op' \in Ops
    BY <1>6 DEF Ops
  <2> QED BY <1>6, <2>1, OpFacts
<1>8. ExitStep
  BY <1>1, ExitFacts
<1>9. deltas' \in Seq(DeltaSet)
  BY <1>1, <1>8, ExitShape
<1>10. pending # EmptyQueue => n > 0 \/ b
  BY <1>3, QueueFacts
<1>11. Unsettled => Unsettled'
  BY <1>1, <1>2, <1>7, <1>10 DEF Unsettled
<1>12. EmptyQueue \in [count : Nat, coalesced : BOOLEAN]
  BY DEF EmptyQueue
<1>13. Shape'
  BY <1>1, <1>7, <1>9, <1>12 DEF Shape
<1>14. OpOK'
  BY <1>1, <1>2, <1>7, <1>11 DEF OpOK
<1> QED BY <1>1, <1>8, <1>11, <1>13, <1>14 DEF Waits

\* replace_generation takes the queue: the generation is over.
LEMMA BeginReplaceKeeps ==
  ASSUME LogShape, Shape, OpOK, BeginReplace
  PROVE  Shape' /\ OpOK' /\ Waits
<1>1. DrainLifecycle /\ pending' = EmptyQueue /\ op = NoOp /\ attached > gen
      /\ op' = [kind |-> "replace", to |-> attached, left |-> 0, coalesced |-> FALSE]
      /\ UNCHANGED <<grid, reader, attached, gen, last, truncated, replica, wire>>
  BY DEF BeginReplace, runtime, clients
<1>2. attached \in Nat /\ gen \in Nat
  BY DEF Shape
<1>3. op' \in Ops
  BY <1>1, <1>2 DEF Ops
<1>4. op' # NoOp /\ op'.kind = "replace" /\ op'.to = attached
  BY <1>1, <1>3, OpFacts
<1>5. ExitStep
  BY <1>1, ExitFacts
<1>6. deltas' \in Seq(DeltaSet)
  BY <1>1, <1>5, ExitShape
<1>7. Unsettled' /\ attached # gen
  BY <1>1, <1>2 DEF Unsettled
<1>8. EmptyQueue \in [count : Nat, coalesced : BOOLEAN]
  BY DEF EmptyQueue
<1>9. Shape'
  BY <1>1, <1>3, <1>6, <1>8 DEF Shape
<1>10. OpOK'
  BY <1>1, <1>4, <1>7 DEF OpOK
<1> QED BY <1>1, <1>5, <1>7, <1>9, <1>10 DEF Waits

\* The runtime resizes and the delta of the resize is due, or it refuses.
LEMMA ResizeKeeps ==
  ASSUME Shape, OpOK, ResizeRuntime
  PROVE  Shape' /\ OpOK' /\ Waits
<1>1. UNCHANGED <<reader, attached, pending, gen, seq, last, deltas, truncated, replica, wire>>
  BY DEF ResizeRuntime, queue, log, clients
<1>2. op # NoOp /\ op \in Ops /\ op.kind = "resize" /\ op.left = 0 /\ ~op.coalesced /\ op.height \in Heights
  BY OpFacts DEF ResizeRuntime, Drained, Shape
<1>3. CASE op' = NoOp /\ grid' = grid
  <2>1. Unsettled => Unsettled'
    BY <1>1, <1>2, <1>3 DEF Unsettled, EmptyQueue
  <2>2. Shape'
    BY <1>1, <1>3 DEF Shape
  <2>3. OpOK'
    BY <1>1, <1>2, <1>3, <2>1 DEF OpOK
  <2> QED BY <1>1, <1>3, <2>1, <2>2, <2>3 DEF Waits, ExitStep, KeepsLog
<1>4. ASSUME grid' = [grid EXCEPT !.rows = Resized(@, op.height)],
             op' = [op EXCEPT !.kind = "record"]
      PROVE  Shape' /\ OpOK' /\ Waits
  <2>1. op \in [kind : {"resize", "record"}, height : Heights, left : Nat, coalesced : BOOLEAN]
    BY <1>2 DEF Ops
  <2>2. op' \in [kind : {"resize", "record"}, height : Heights, left : Nat, coalesced : BOOLEAN] /\ op'.kind = "record"
    BY <1>4, <2>1
  <2>3. op' \in Ops
    BY <2>2 DEF Ops
  <2>4. op' # NoOp
    BY <2>3, OpFacts
  <2>5. PICK r \in Rows, a \in Attributes : grid = [rows |-> r, attr |-> a]
    BY DEF Shape, Screens
  <2>6. PICK h \in Heights : h = op.height
    BY <1>2
  <2>7. grid' = [rows |-> Resized(r, h), attr |-> a]
    BY <1>4, <2>5, <2>6
  <2>8. Resized(r, h) \in Rows /\ Len(Resized(r, h)) = h
    BY ResizedFacts
  <2>9. grid' \in Screens /\ Len(grid'.rows) = h
    BY <2>7, <2>8 DEF Screens
  <2>12. Unsettled'
    BY <2>2, <2>4 DEF Unsettled
  <2>13. Shape'
    BY <1>1, <2>3, <2>9 DEF Shape
  <2>14. OpOK'
    BY <1>1, <2>2 DEF OpOK
  <2> QED BY <1>1, <2>12, <2>13, <2>14 DEF Waits, ExitStep, KeepsLog
<1> QED BY <1>3, <1>4 DEF ResizeRuntime

\* Messages have generations and sequences.
LEMMA MessageFacts ==
  ASSUME NEW m \in Snapshots \cup DeltaSet
  PROVE  /\ m.gen \in Nat /\ m.seq \in Nat
         /\ m \notin DeltaSet => m.screen \in Screens
BY DEF Snapshots, DeltaSet

\* What belongs to the past still does when the sequence grows.
LEMMA PastStays ==
  ASSUME LogShape, Shape, PastOK, gen' = gen, seq' \in Nat, seq <= seq', replica' = replica, wire' = wire
  PROVE  /\ \A g \in Nat, n \in Nat : Seen(g, n) => Seen(g, n)'
         /\ \A c \in Clients : PastOf(c)'
<1>1. seq \in Nat /\ gen \in Nat
  BY DEF LogShape, Shape
<1>2. \A g \in Nat, n \in Nat : Seen(g, n) => Seen(g, n)'
  BY <1>1 DEF Seen
<1>3. ASSUME NEW c \in Clients PROVE PastOf(c)'
  <2>1. replica[c].gen \in Nat /\ replica[c].seq \in Nat /\ Seen(replica[c].gen, replica[c].seq)
    BY DEF Shape, Replicas, PastOK, PastOf
  <2>2. PICK g \in Nat, n \in Nat : g = replica[c].gen /\ n = replica[c].seq
    BY <2>1
  <2>3. Seen(g, n)'
    BY <1>2, <2>1, <2>2
  <2>4. Seen(replica[c].gen, replica[c].seq)'
    BY <2>2, <2>3 DEF Seen
  <2>5. ASSUME NEW m \in wire[c] PROVE Seen(m.gen, m.seq)'
    <3>1. m \in Snapshots \cup DeltaSet /\ Seen(m.gen, m.seq)
      BY DEF Shape, PastOK, PastOf
    <3> QED BY <1>2, <3>1, MessageFacts
  <2> QED BY <2>4, <2>5 DEF PastOf
<1> QED BY <1>2, <1>3

\* A waiting step keeps the past and what replicas show.
LEMMA WaitKeeps ==
  ASSUME LogShape, Shape, Waits, PastOK, NEW w \in 0..seq, NEW r, RecordedAt(w, r)
  PROVE  PastOK' /\ RecordedAt(w, r)' /\ w \in 0..seq'
<1>1. gen' = gen /\ truncated' = truncated /\ replica' = replica /\ wire' = wire /\ (Unsettled => Unsettled')
      /\ ExitStep /\ (grid'.rows # grid.rows => Unsettled')
  BY DEF Waits
<1>2. seq \in Nat /\ gen \in Nat
  BY DEF LogShape, Shape
<1>3. seq' \in Nat /\ seq <= seq'
  BY <1>1, <1>2 DEF ExitStep, KeepsLog, Grows
<1>4. /\ \A g \in Nat, n \in Nat : Seen(g, n) => Seen(g, n)'
      /\ \A c \in Clients : PastOf(c)'
  BY <1>1, <1>3, PastStays
<1>5. PICK e \in DeltaSet : e = Delta({}, {}) /\ e.gen = gen /\ e.seq = seq + 1 /\ e.rows = {}
  BY <1>1, DeltaFacts DEF Shape
<1>6. \A d \in DeltaSet : Carries(d, w, r) => Carries(d, w, r)'
  BY <1>1 DEF Carries
<1>7. ASSUME NEW i \in DOMAIN deltas'
      PROVE  Seen(deltas[i].gen, deltas[i].seq)' /\ (truncated \/ Carries(deltas[i], w, r))'
  <2>1. /\ deltas \in Seq(DeltaSet)
        /\ \A j \in DOMAIN deltas : /\ deltas[j] \in DeltaSet /\ Seen(deltas[j].gen, deltas[j].seq)
                                    /\ truncated \/ Carries(deltas[j], w, r)
    BY DEF Shape, PastOK, RecordedAt
  <2>2. PICK d \in DeltaSet : d = deltas'[i] /\ (d = e \/ \E j \in DOMAIN deltas : d = deltas[j])
    BY <1>1, <1>5, <2>1, ExitShape
  <2>3. d.gen \in Nat /\ d.seq \in Nat
    BY DEF DeltaSet
  <2>4. ASSUME NEW j \in DOMAIN deltas, d = deltas[j]
        PROVE  Seen(d.gen, d.seq)' /\ (truncated' \/ Carries(d, w, r)')
    <3>1. Seen(d.gen, d.seq) /\ (truncated \/ Carries(d, w, r))
      BY <2>1, <2>4
    <3> QED BY <1>1, <1>4, <1>6, <2>3, <3>1
  <2>5. CASE d = e /\ Grows(Delta({}, {}))
    <3>1. d.gen = gen /\ d.seq = seq' /\ d.rows = {}
      BY <1>5, <2>5 DEF Grows
    <3>2. Seen(d.gen, d.seq)'
      BY <1>1, <1>2, <1>3, <3>1 DEF Seen
    <3>3. w # seq'
      BY <1>2, <2>5 DEF Grows
    <3>4. Carries(d, w, r)'
      BY <3>1, <3>3 DEF Carries
    <3> QED BY <2>2, <3>2, <3>4 DEF Seen, Carries
  <2>6. CASE KeepsLog
    <3>1. i \in DOMAIN deltas /\ d = deltas[i]
      BY <2>2, <2>6 DEF KeepsLog
    <3> QED BY <2>2, <2>4, <3>1 DEF Seen, Carries
  <2> QED BY <1>1, <2>2, <2>4, <2>5, <2>6 DEF ExitStep, Seen, Carries
<1>8. ASSUME NEW c \in Clients PROVE FaithfulTo(c, w, r)'
  <2>1. ASSUME NEW g, NEW n, NEW rows, Shows(g, n, rows, w, r) PROVE Shows(g, n, rows, w, r)'
    BY <1>1, <2>1 DEF Shows
  <2>2. FaithfulTo(c, w, r)
    BY DEF RecordedAt
  <2>3. ~replica'[c].needs => Shows(replica[c].gen, replica[c].seq, replica[c].rows, w, r)'
    BY <1>1, <2>2 DEF FaithfulTo, Shows
  <2>4. ASSUME NEW m \in wire[c] PROVE Faithful(m, w, r)'
    <3>1. Faithful(m, w, r)
      BY <2>2 DEF FaithfulTo
    <3>2. CASE m \in DeltaSet
      BY <1>6, <3>1, <3>2 DEF Faithful
    <3>3. CASE m \notin DeltaSet
      BY <2>1, <3>1, <3>3 DEF Faithful
    <3> QED BY <3>2, <3>3
  <2> QED BY <1>1, <2>3, <2>4 DEF FaithfulTo
<1>9. w \in 0..seq'
  BY <1>2, <1>3
<1>10. grid'.rows # r => Unsettled'
  BY <1>1 DEF RecordedAt
<1> QED BY <1>4, <1>7, <1>8, <1>9, <1>10 DEF PastOK, RecordedAt

\* A step that takes the next sequence for the screen: by a delta of it, or
\* without one, or by a delta that is never sent.
Advances ==
  /\ seq' = seq + 1 /\ truncated' \in BOOLEAN /\ (truncated => truncated') /\ UNCHANGED <<gen, replica, wire>>
  /\ \E d \in DeltaSet :
       /\ d.gen = gen /\ d.seq = seq + 1 /\ (~truncated' => d.rows = {grid'.rows})
       /\ deltas' = deltas \/ deltas' = Newest(Append(deltas, d))

\* Draining records, and keeps the kind of the operation.
LEMMA DrainRecords ==
  ASSUME LogShape, Shape, OpOK, Drain \/ RecordResize
  PROVE  Advances /\ Shape' /\ OpOK'
<1>1. UNCHANGED <<reader, attached, pending, gen, replica, wire>> /\ op \in Ops
  BY DEF Drain, RecordResize, Drained, runtime, queue, clients, Shape
<1>2. /\ truncated' \in BOOLEAN /\ (truncated => truncated') /\ Grows(Recorded) /\ last' = grid
      /\ grid' \in Screens /\ (~truncated' => grid' = grid)
  <2>1. CASE Drain
    <3>1. RecordDelta(grid, truncated')
      BY <2>1 DEF Drain
    <3>2. truncated \in BOOLEAN /\ grid \in Screens
      BY DEF Shape
    <3>3. truncated' \in BOOLEAN /\ (truncated => truncated') /\ grid' \in Screens /\ (~truncated' => grid' = grid)
      <4>1. CASE truncated' = truncated /\ grid' = grid
        BY <3>2, <4>1
      <4>2. CASE truncated' = TRUE /\ grid' \in Redrawn
        BY <4>2 DEF Redrawn
      <4> QED BY <2>1, <4>1, <4>2 DEF Drain
    <3>4. Grows(Recorded) /\ last' = grid
      BY <1>1, <3>1 DEF RecordDelta, Recorded, Grows
    <3> QED BY <3>3, <3>4
  <2>2. CASE RecordResize
    <3>1. truncated' = truncated /\ RecordDelta(grid, truncated) /\ grid' = grid
      BY <2>2 DEF RecordResize, runtime
    <3>2. Grows(Recorded) /\ last' = grid
      BY <1>1, <3>1 DEF RecordDelta, Recorded, Grows
    <3> QED BY <3>1, <3>2 DEF Shape
  <2> QED BY <2>1, <2>2
<1>3. /\ Recorded \in DeltaSet /\ Recorded.gen = gen /\ Recorded.seq = seq + 1
      /\ (~truncated' => Recorded.rows = {grid.rows})
  BY <1>2, DeltaFacts
<1>4. deltas' \in Seq(DeltaSet)
  BY <1>2, <1>3, LogKept DEF Grows
<1>5. op' \in {NoOp} \cup Ops /\ (op' # NoOp /\ op'.kind = "replace" => op.kind = "replace" /\ op'.to = op.to)
  <2>1. CASE RecordResize
    BY <2>1 DEF RecordResize
  <2>2. CASE Drain
    <3>1. PICK l \in Nat : l = IF op.left > 0 THEN op.left - 1 ELSE 0
      BY <1>1, OpFacts
    <3>2. op' = [op EXCEPT !.left = l, !.coalesced = FALSE]
      BY <2>2, <3>1 DEF Drain
    <3>3. op' \in Ops /\ op'.kind = op.kind
      BY <1>1, <3>2, DrainedOp
    <3>4. op.kind = "replace" => op'.to = op.to
      <4>1. SUFFICES ASSUME op.kind = "replace" PROVE op'.to = op.to
        OBVIOUS
      <4>2. op \in [kind : {"replace"}, to : Nat, left : Nat, coalesced : BOOLEAN]
        BY <1>1, <4>1 DEF Ops
      <4> QED BY <3>2, <4>2
    <3> QED BY <3>3, <3>4
  <2> QED BY <2>1, <2>2
<1>6. Shape'
  BY <1>1, <1>2, <1>4, <1>5 DEF Shape
<1>7. OpOK'
  <2>1. op # NoOp
    BY <1>1, OpFacts
  <2> QED BY <1>1, <1>5, <2>1 DEF OpOK
<1>8. PICK d \in DeltaSet : d = Recorded
  BY <1>3
<1>9. d.gen = gen /\ d.seq = seq + 1 /\ (~truncated' => d.rows = {grid'.rows}) /\ deltas' = Newest(Append(deltas, d))
      /\ seq' = seq + 1
  BY <1>2, <1>3, <1>8 DEF Grows
<1> QED BY <1>1, <1>2, <1>6, <1>7, <1>9 DEF Advances

\* The first view and a scroll take a sequence without a delta, or the scroll is
\* refused.
LEMMA ScrollKeeps ==
  ASSUME LogShape, Shape, OpOK, FirstView \/ ScrollRuntime
  PROVE  Shape' /\ OpOK' /\ (Advances \/ Waits)
<1>1. op' = NoOp /\ UNCHANGED <<reader, attached, pending, gen, last, deltas, truncated, replica, wire>>
  BY DEF FirstView, ScrollRuntime, runtime, queue, clients
<1>2. grid' \in Screens /\ (seq' = seq + 1 \/ (seq' = seq /\ grid' = grid))
  <2>1. CASE FirstView
    BY <2>1 DEF FirstView, runtime, Shape
  <2>2. CASE ScrollRuntime
    BY <2>2 DEF ScrollRuntime, Redrawn, Shape
  <2> QED BY <2>1, <2>2
<1>3. op \in Ops /\ op.kind \in {"pump", "scroll"} /\ op.left = 0 /\ ~op.coalesced
  BY DEF FirstView, ScrollRuntime, Drained, Shape
<1>4. Shape'
  BY <1>1, <1>2 DEF Shape
<1>5. OpOK'
  BY <1>1 DEF OpOK
<1>6. CASE seq' = seq + 1
  <2>1. PICK h : h = grid'.rows
    OBVIOUS
  <2>2. h \in Rows
    BY <1>2, <2>1, ScreenFacts
  <2>3. PICK d : d = [gen |-> gen, seq |-> seq + 1, rows |-> {h}, attr |-> {}]
    OBVIOUS
  <2>4. {h} \in RowParts /\ gen \in Nat /\ seq + 1 \in Nat
    BY <2>2 DEF RowParts, Shape, LogShape
  <2>5. d \in DeltaSet
    BY <2>3, <2>4 DEF DeltaSet
  <2>6. truncated' \in BOOLEAN /\ (truncated => truncated')
    BY <1>1 DEF Shape
  <2> QED BY <1>1, <1>4, <1>5, <1>6, <2>1, <2>3, <2>5, <2>6 DEF Advances
<1>7. CASE seq' = seq /\ grid' = grid
  <2>1. Unsettled => Unsettled'
    BY <1>1, <1>3, <1>7 DEF Unsettled, EmptyQueue
  <2> QED BY <1>1, <1>4, <1>5, <1>7, <2>1 DEF Waits, ExitStep, KeepsLog
<1> QED BY <1>2, <1>6, <1>7

\* The new sequence is the one of the screen: everything sent, shown or retained
\* before is older than it.
LEMMA AdvanceKeeps ==
  ASSUME LogShape, Shape, Shape', PastOK, Advances
  PROVE  PastOK' /\ \E v \in 0..seq', r \in Rows : RecordedAt(v, r)'
<1>1. gen' = gen /\ replica' = replica /\ wire' = wire /\ seq' = seq + 1 /\ truncated' \in BOOLEAN
  BY DEF Advances
<1>2. seq \in Nat /\ gen \in Nat
  BY DEF LogShape, Shape
<1>3. PICK n \in Nat : n = seq + 1 /\ seq' = n
  BY <1>1, <1>2
<1>4. PICK h \in Rows : h = grid'.rows
  BY ScreenFacts DEF Shape
<1>5. /\ \A g \in Nat, k \in Nat : Seen(g, k) => Seen(g, k)'
      /\ \A c \in Clients : PastOf(c)'
  BY <1>1, <1>2, <1>3, PastStays
<1>6. PICK e \in DeltaSet : /\ e.gen = gen /\ e.seq = n /\ (~truncated' => e.rows = {h})
                            /\ deltas' = deltas \/ deltas' = Newest(Append(deltas, e))
  BY <1>3, <1>4 DEF Advances
<1>7. \A d \in DeltaSet : Seen(d.gen, d.seq) => Carries(d, n, h)'
  <2>1. ASSUME NEW d \in DeltaSet, Seen(d.gen, d.seq) PROVE d.gen = gen => d.seq < n
    BY <1>2, <1>3, <2>1, MessageFacts DEF Seen
  <2>2. ASSUME NEW d \in DeltaSet, d.gen = gen => d.seq < n PROVE Carries(d, n, h)'
    BY <1>1, <2>2, MessageFacts DEF Carries
  <2> QED BY <2>1, <2>2
<1>8. \A g \in Nat, k \in Nat : \A rows : Seen(g, k) => Shows(g, k, rows, n, h)'
  BY <1>1, <1>2, <1>3 DEF Seen, Shows
<1>9. ASSUME NEW i \in DOMAIN deltas'
      PROVE  Seen(deltas[i].gen, deltas[i].seq)' /\ (truncated \/ Carries(deltas[i], n, h))'
  <2>1. deltas \in Seq(DeltaSet) /\ \A j \in DOMAIN deltas : deltas[j] \in DeltaSet /\ Seen(deltas[j].gen, deltas[j].seq)
    BY DEF Shape, PastOK
  <2>2. PICK d \in DeltaSet : d = deltas'[i] /\ (d = e \/ \E j \in DOMAIN deltas : d = deltas[j])
    BY <1>6, <2>1, LogKept
  <2>3. d.gen \in Nat /\ d.seq \in Nat
    BY MessageFacts
  <2>4. ASSUME NEW j \in DOMAIN deltas, d = deltas[j] PROVE Seen(d.gen, d.seq)' /\ Carries(d, n, h)'
    <3>1. Seen(d.gen, d.seq)
      BY <2>1, <2>4
    <3> QED BY <1>5, <1>7, <2>3, <3>1
  <2>5. ASSUME d = e PROVE Seen(d.gen, d.seq)' /\ (truncated' \/ Carries(d, n, h)')
    <3>1. Seen(d.gen, d.seq)'
      BY <1>1, <1>2, <1>3, <1>6, <2>5 DEF Seen
    <3>2. ~truncated' => Carries(d, n, h)'
      BY <1>1, <1>6, <2>5 DEF Carries
    <3> QED BY <3>1, <3>2
  <2> QED BY <2>2, <2>4, <2>5 DEF Seen, Carries
<1>10. ASSUME NEW c \in Clients PROVE FaithfulTo(c, n, h)'
  <2>1. PastOf(c) /\ replica[c].gen \in Nat /\ replica[c].seq \in Nat
    BY DEF PastOK, Shape, Replicas
  <2>2. Shows(replica[c].gen, replica[c].seq, replica[c].rows, n, h)'
    <3>1. PICK g \in Nat, k \in Nat, rows \in {replica[c].rows} : g = replica[c].gen /\ k = replica[c].seq /\ rows = replica[c].rows
      BY <2>1
    <3>2. Shows(g, k, rows, n, h)'
      BY <1>8, <2>1, <3>1 DEF PastOf
    <3> QED BY <1>1, <3>1, <3>2 DEF Shows
  <2>3. ASSUME NEW m \in wire[c] PROVE Faithful(m, n, h)'
    <3>1. Seen(m.gen, m.seq) /\ m \in Snapshots \cup DeltaSet /\ m.gen \in Nat /\ m.seq \in Nat
      BY <2>1, MessageFacts DEF PastOf, Shape
    <3>2. CASE m \in DeltaSet
      BY <1>7, <3>1, <3>2 DEF Faithful
    <3>3. CASE m \notin DeltaSet
      BY <1>8, <3>1, <3>3 DEF Faithful
    <3> QED BY <3>2, <3>3
  <2> QED BY <1>1, <2>2, <2>3 DEF FaithfulTo
<1>11. RecordedAt(n, h)'
  BY <1>4, <1>9, <1>10 DEF RecordedAt
<1>12. n \in 0..seq'
  BY <1>3
<1>13. PastOK'
  BY <1>5, <1>9 DEF PastOK
<1> QED BY <1>11, <1>12, <1>13

\* A new generation: nothing sent or shown belongs to it.
LEMMA ReplaceKeeps ==
  ASSUME LogShape, Shape, OpOK, PastOK, ReplaceGeneration
  PROVE  Shape' /\ OpOK' /\ PastOK' /\ \E v \in 0..seq', r \in Rows : RecordedAt(v, r)'
<1>1. op' = NoOp /\ seq' = 0 /\ deltas' = <<>> /\ last' = grid /\ truncated' = FALSE
      /\ UNCHANGED <<grid, reader, attached, pending, replica, wire>>
  BY DEF ReplaceGeneration, runtime, queue, clients
<1>2. op # NoOp /\ op \in Ops /\ op.kind = "replace" /\ gen' = op.to /\ op.to \in Nat
  BY OpFacts DEF ReplaceGeneration, Drained, Shape
<1>3. gen \in Nat /\ gen' \in Nat /\ gen < gen' /\ gen' # 0
  BY <1>2 DEF OpOK, Shape
<1>4. PICK h \in Rows : h = grid.rows
  BY ScreenFacts DEF Shape
<1>5. Shape'
  <2>1. deltas' \in Seq(DeltaSet)
    BY <1>1
  <2> QED BY <1>1, <1>3, <2>1 DEF Shape
<1>6. OpOK'
  BY <1>1 DEF OpOK
<1>7. \A g \in Nat, n \in Nat : \A rows : Seen(g, n) => Seen(g, n)' /\ Shows(g, n, rows, 0, h)'
  BY <1>1, <1>3 DEF Seen, Shows
<1>8. \A d \in DeltaSet : Seen(d.gen, d.seq) => Carries(d, 0, h)'
  BY <1>3, MessageFacts DEF Seen, Carries
<1>9. ASSUME NEW c \in Clients PROVE PastOf(c)' /\ FaithfulTo(c, 0, h)'
  <2>1. PastOf(c)
    BY DEF PastOK
  <2>2. PICK g \in Nat, n \in Nat, rows \in {replica[c].rows} : g = replica[c].gen /\ n = replica[c].seq /\ rows = replica[c].rows
    BY DEF Shape, Replicas
  <2>3. Seen(g, n)' /\ Shows(g, n, rows, 0, h)'
    BY <1>7, <2>1, <2>2 DEF PastOf
  <2>4. Seen(replica[c].gen, replica[c].seq)' /\ Shows(replica[c].gen, replica[c].seq, replica[c].rows, 0, h)'
    BY <1>1, <2>2, <2>3 DEF Seen, Shows
  <2>5. ASSUME NEW m \in wire[c] PROVE Seen(m.gen, m.seq)' /\ Faithful(m, 0, h)'
    <3>1. Seen(m.gen, m.seq) /\ m \in Snapshots \cup DeltaSet /\ m.gen \in Nat /\ m.seq \in Nat
      BY <2>1, MessageFacts DEF PastOf, Shape
    <3>2. Seen(m.gen, m.seq)' /\ Shows(m.gen, m.seq, m.screen.rows, 0, h)'
      BY <1>7, <3>1
    <3>3. CASE m \in DeltaSet
      BY <1>8, <3>1, <3>2, <3>3 DEF Faithful
    <3>4. CASE m \notin DeltaSet
      BY <3>2, <3>4 DEF Faithful
    <3> QED BY <3>3, <3>4
  <2> QED BY <1>1, <2>4, <2>5 DEF PastOf, FaithfulTo
<1>10. \A i \in DOMAIN deltas' : FALSE
  BY <1>1
<1>11. PastOK' /\ RecordedAt(0, h)'
  BY <1>1, <1>4, <1>9, <1>10 DEF PastOK, RecordedAt
<1>12. 0 \in 0..seq'
  BY <1>1
<1> QED BY <1>5, <1>6, <1>11, <1>12

\* A step of a client or an answer to it: the log and the grid stay.
Still == UNCHANGED <<grid, gen, seq, deltas, truncated>> /\ (Unsettled => Unsettled')

\* Then only what changed at the clients has to be looked at, in the old state.
LEMMA StillKeeps ==
  ASSUME Still, PastOK, NEW w, NEW r, RecordedAt(w, r),
         \A c \in Clients :
           /\ Seen(replica'[c].gen, replica'[c].seq)
           /\ ~replica'[c].needs => Shows(replica'[c].gen, replica'[c].seq, replica'[c].rows, w, r)
           /\ \A m \in wire'[c] : Seen(m.gen, m.seq) /\ Faithful(m, w, r)
  PROVE  PastOK' /\ RecordedAt(w, r)'
<1>1. grid' = grid /\ gen' = gen /\ seq' = seq /\ deltas' = deltas /\ truncated' = truncated /\ (Unsettled => Unsettled')
  BY DEF Still
<1>2. ASSUME NEW m, Seen(m.gen, m.seq), Faithful(m, w, r) PROVE Seen(m.gen, m.seq)' /\ Faithful(m, w, r)'
  BY <1>1, <1>2 DEF Faithful, Seen, Carries, Shows
<1>3. ASSUME NEW c \in Clients PROVE PastOf(c)' /\ FaithfulTo(c, w, r)'
  <2>1. Seen(replica[c].gen, replica[c].seq)'
    BY <1>1 DEF Seen
  <2>2. (~replica[c].needs => Shows(replica[c].gen, replica[c].seq, replica[c].rows, w, r))'
    BY <1>1 DEF Shows
  <2> QED BY <1>2, <2>1, <2>2 DEF PastOf, FaithfulTo
<1>4. \A i \in DOMAIN deltas' : Seen(deltas[i].gen, deltas[i].seq)' /\ (truncated \/ Carries(deltas[i], w, r))'
  BY <1>1 DEF PastOK, RecordedAt, Seen, Carries
<1>5. grid'.rows # r => Unsettled'
  BY <1>1 DEF RecordedAt
<1> QED BY <1>3, <1>4, <1>5 DEF PastOK, RecordedAt

\* A snapshot is not a delta, and a message says which it is.
LEMMA SnapshotOf ==
  ASSUME NEW g \in Nat, NEW n \in Nat, NEW s \in Screens, NEW m, m = [gen |-> g, seq |-> n, screen |-> s]
  PROVE  m \in Snapshots /\ m \notin DeltaSet /\ m.gen = g /\ m.seq = n /\ m.screen = s
<1>1. "screen" \in DOMAIN m
  OBVIOUS
<1>2. \A d \in DeltaSet : "screen" \notin DOMAIN d
  BY DEF DeltaSet
<1>3. m \notin DeltaSet
  BY <1>1, <1>2
<1> QED BY <1>3 DEF Snapshots

\* A client tells snapshots from deltas (terminal/replica.rs).
LEMMA SnapshotIs ==
  ASSUME NEW m \in Snapshots \cup DeltaSet
  PROVE  IsSnapshot(m) <=> m \notin DeltaSet
<1>1. \A d \in DeltaSet : "screen" \notin DOMAIN d
  BY DEF DeltaSet
<1>2. \A d \in Snapshots : "screen" \in DOMAIN d
  BY DEF Snapshots
<1> QED BY <1>1, <1>2 DEF IsSnapshot

\* An answer that belongs to the past and is faithful may be sent.
LEMMA SendKeeps ==
  ASSUME Shape, OpOK, PastOK, NEW w, NEW r, RecordedAt(w, r),
         Drained("updates") \/ Drained("snapshot"), op' = NoOp,
         UNCHANGED <<grid, reader, attached, pending, gen, seq, last, deltas, truncated, replica>>,
         NEW U, Send(op.client, U),
         \A m \in U : m \in Snapshots \cup DeltaSet /\ Seen(m.gen, m.seq) /\ Faithful(m, w, r)
  PROVE  Shape' /\ OpOK' /\ PastOK' /\ RecordedAt(w, r)'
<1>1. op # NoOp /\ op \in Ops /\ op.kind \in {"updates", "snapshot"} /\ op.left = 0 /\ ~op.coalesced
  BY DEF Drained, Shape
<1>2. PICK c \in Clients : c = op.client
  BY <1>1, OpFacts
<1>3. wire \in [Clients -> SUBSET (Snapshots \cup DeltaSet)] /\ wire' = [wire EXCEPT ![c] = @ \cup U]
  BY <1>2 DEF Send, Shape
<1>4. wire' \in [Clients -> SUBSET (Snapshots \cup DeltaSet)]
  BY <1>3
<1>5. Unsettled => Unsettled'
  BY <1>1 DEF Unsettled, EmptyQueue
<1>6. Shape'
  BY <1>4 DEF Shape
<1>7. OpOK'
  BY DEF OpOK
<1>8. Still
  BY <1>5 DEF Still
<1>9. ASSUME NEW b \in Clients
      PROVE  /\ Seen(replica'[b].gen, replica'[b].seq)
             /\ ~replica'[b].needs => Shows(replica'[b].gen, replica'[b].seq, replica'[b].rows, w, r)
             /\ \A m \in wire'[b] : Seen(m.gen, m.seq) /\ Faithful(m, w, r)
  <2>1. PastOf(b) /\ FaithfulTo(b, w, r)
    BY DEF PastOK, RecordedAt
  <2>2. \A m \in wire'[b] : m \in wire[b] \/ m \in U
    BY <1>3
  <2> QED BY <2>1, <2>2 DEF PastOf, FaithfulTo
<1>10. PastOK' /\ RecordedAt(w, r)'
  BY <1>8, <1>9, StillKeeps
<1> QED BY <1>6, <1>7, <1>10

\* updates_since sends retained deltas, never truncated ones.
LEMMA AnswerDeltasKeeps ==
  ASSUME LogInv, Shape, OpOK, PastOK, NEW w, NEW r, RecordedAt(w, r), AnswerDeltas
  PROVE  Shape' /\ OpOK' /\ PastOK' /\ RecordedAt(w, r)'
<1>1. PICK U : /\ U = {deltas[i] : i \in {j \in DOMAIN deltas : deltas[j].seq > op.since}}
               /\ Send(op.client, U)
  BY DEF AnswerDeltas, Unseen
<1>2. Drained("updates") /\ op' = NoOp
      /\ UNCHANGED <<grid, reader, attached, pending, gen, seq, last, deltas, truncated, replica>>
  BY DEF AnswerDeltas, runtime, queue, log
<1>3. ASSUME NEW m \in U PROVE m \in Snapshots \cup DeltaSet /\ Seen(m.gen, m.seq) /\ Faithful(m, w, r)
  <2>1. PICK i \in DOMAIN deltas : m = deltas[i] /\ deltas[i].seq > op.since
    BY <1>1
  <2>2. m \in DeltaSet /\ Seen(m.gen, m.seq) /\ (truncated \/ Carries(m, w, r))
    BY <2>1 DEF Shape, PastOK, RecordedAt
  <2>3. m.seq \in Nat /\ seq \in Nat /\ m.seq <= seq
    BY <2>1, <2>2, MessageFacts DEF LogInv, LogShape, LogIsOrdered
  <2>4. op.since # seq
    BY <2>1, <2>3
  <2>5. ~truncated
    BY <2>4 DEF AnswerDeltas, Contiguous
  <2> QED BY <2>2, <2>5 DEF Faithful
<1> QED BY <1>1, <1>2, <1>3, SendKeeps

\* A snapshot shows the rows of the screen, or a delta is due.
LEMMA AnswerSnapshotKeeps ==
  ASSUME LogInv, Shape, OpOK, PastOK, NEW w, NEW r, RecordedAt(w, r), AnswerSnapshot
  PROVE  Shape' /\ OpOK' /\ PastOK' /\ RecordedAt(w, r)'
<1>1. PICK m : m = [gen |-> gen, seq |-> seq, screen |-> grid] /\ Send(op.client, {m})
  BY DEF AnswerSnapshot
<1>2. Drained("snapshot") /\ op' = NoOp
      /\ UNCHANGED <<grid, reader, attached, pending, gen, seq, last, deltas, truncated, replica>>
  BY DEF AnswerSnapshot, runtime, queue
<1>3. gen \in Nat /\ seq \in Nat /\ grid \in Screens
  BY DEF Shape, LogInv, LogShape
<1>4. m \in Snapshots /\ m \notin DeltaSet /\ m.gen = gen /\ m.seq = seq /\ m.screen = grid
  BY <1>1, <1>3, SnapshotOf
<1>5. Seen(m.gen, m.seq)
  BY <1>3, <1>4 DEF Seen
<1>6. Covers(grid.rows, r) \/ Unsettled
  BY <1>3, ScreenFacts, CoversItself DEF RecordedAt
<1>7. Faithful(m, w, r)
  BY <1>4, <1>6 DEF Faithful, Shows
<1>8. \A u \in {m} : u \in Snapshots \cup DeltaSet /\ Seen(u.gen, u.seq) /\ Faithful(u, w, r)
  BY <1>4, <1>5, <1>7
<1> QED BY <1>1, <1>2, <1>8, SendKeeps

\* A delta that is the very next one shows the rows of the screen when the
\* screen's sequence is reached, and keeps them after it.
LEMMA AppliedKeeps ==
  ASSUME LogShape, Shape, NEW w \in Nat, NEW h \in Rows, NEW r \in Replicas, NEW m \in DeltaSet,
         m.gen = r.gen, m.seq = r.seq + 1,
         Shows(r.gen, r.seq, r.rows, w, h), Seen(m.gen, m.seq), Carries(m, w, h)
  PROVE  /\ Applied(r, m) \in Replicas
         /\ Seen(Applied(r, m).gen, Applied(r, m).seq)
         /\ Shows(Applied(r, m).gen, Applied(r, m).seq, Applied(r, m).rows, w, h)
<1>1. PICK old \in Seq(Contents) : old = r.rows
  BY DEF Replicas
<1>2. PICK q \in Nat : q = Len(old)
  BY <1>1
<1>3. PICK g \in Nat, k \in Nat : g = m.gen /\ k = r.seq /\ r.gen = g /\ m.seq = k + 1
  BY DEF Replicas, DeltaSet
<1>4. PICK new : new = Patched(<<>>, m.rows)
  OBVIOUS
<1>5. PICK over : over = Overwritten(old, new)
  OBVIOUS
<1>6. /\ over \in Seq(Contents)
      /\ g = gen /\ k + 1 >= w => Covers(over, h) \/ Unsettled
  <2>1. CASE m.rows = {}
    <3>0. new = <<>>
      BY <1>4, <2>1 DEF Patched
    <3>1. new \in Seq(Contents) /\ Len(new) = 0
      BY <3>0
    <3>2. over = old
      <4>1. PICK p \in Nat : p = Len(new) /\ p = 0
        BY <3>1
      <4> QED BY <1>2, <1>5, <3>1, <4>1, OverwrittenFacts
    <3>3. ASSUME g = gen, k + 1 >= w PROVE Covers(over, h) \/ Unsettled
      <4>1. k + 1 # w
        BY <1>3, <2>1, <3>3 DEF Carries
      <4>2. k >= w
        BY <3>3, <4>1
      <4> QED BY <1>1, <1>3, <3>2, <3>3, <4>2 DEF Shows
    <3> QED BY <3>2, <3>3
  <2>2. ASSUME NEW x \in Rows, m.rows = {x}
        PROVE  /\ over \in Seq(Contents)
               /\ g = gen /\ k + 1 >= w => Covers(over, h) \/ Unsettled
    <3>0. new = x
      BY <1>4, <2>2 DEF Patched
    <3>1. new = x /\ new \in Seq(Contents)
      BY <3>0, RowFacts
    <3>2. PICK p \in Nat : p = Len(new)
      BY <3>1
    <3>3. over \in Seq(Contents) /\ Covers(over, new)
      BY <1>2, <1>5, <3>1, <3>2, OverwrittenFacts
    <3>4. ASSUME g = gen, k + 1 >= w PROVE Covers(over, h)
      <4>1. k + 1 = w
        BY <1>3, <2>2, <3>4 DEF Carries
      <4>2. x = h
        BY <1>3, <2>2, <3>4, <4>1 DEF Carries
      <4> QED BY <3>1, <3>3, <4>2
    <3> QED BY <3>3, <3>4
  <2>3. m.rows \in RowParts
    BY DEF DeltaSet
  <2> QED BY <2>1, <2>2, <2>3 DEF RowParts
<1>7. Patched(r.attr, m.attr) \in Attributes
  <2>1. m.attr \subseteq Attributes /\ r.attr \in Attributes
    BY DEF DeltaSet, Replicas
  <2>2. CASE m.attr = {}
    BY <2>1, <2>2 DEF Patched
  <2>3. CASE m.attr # {}
    <3>1. (CHOOSE value \in m.attr : TRUE) \in m.attr
      BY <2>3
    <3> QED BY <2>1, <2>3, <3>1 DEF Patched
  <2> QED BY <2>2, <2>3
<1>8. PICK a \in Attributes : a = Patched(r.attr, m.attr)
  BY <1>7
<1>9. PICK s : s = Applied(r, m)
  OBVIOUS
<1>10. s = [r EXCEPT !.seq = k + 1, !.rows = over, !.attr = a]
  BY <1>1, <1>3, <1>4, <1>5, <1>8, <1>9 DEF Applied
<1>11. s \in Replicas /\ s.gen = g /\ s.seq = k + 1 /\ s.rows = over
  <2>1. PICK f \in [gen : Nat, seq : Nat, rows : Seq(Contents), attr : Attributes, needs : BOOLEAN] : f = r
    BY DEF Replicas
  <2>2. k + 1 \in Nat /\ over \in Seq(Contents) /\ f.gen = g
    BY <1>3, <1>6, <2>1
  <2>3. s = [f EXCEPT !.seq = k + 1, !.rows = over, !.attr = a]
    BY <1>10, <2>1
  <2>4. s.gen = g /\ s.seq = k + 1 /\ s.rows = over
    BY <2>1, <2>2, <2>3
  <2>5. s \in [gen : Nat, seq : Nat, rows : Seq(Contents), attr : Attributes, needs : BOOLEAN]
    BY <2>1, <2>2, <2>3
  <2> QED BY <2>4, <2>5 DEF Replicas
<1>12. Seen(g, k + 1)
  BY <1>3
<1>13. Shows(g, k + 1, over, w, h)
  BY <1>6 DEF Shows
<1> QED BY <1>9, <1>11, <1>12, <1>13

\* What arrives at a replica: a snapshot replaces it, the next delta is applied,
\* any other update asks for a resync.
LEMMA DeliverKeeps ==
  ASSUME LogShape, Shape, OpOK, PastOK, NEW w \in 0..seq, NEW h \in Rows, RecordedAt(w, h),
         NEW c \in Clients, Deliver(c) \/ Lose(c)
  PROVE  Shape' /\ OpOK' /\ PastOK' /\ RecordedAt(w, h)'
<1>1. UNCHANGED <<grid, reader, attached, pending, gen, seq, last, deltas, truncated, op>>
  BY DEF Deliver, Lose, runtime, queue, log
<1>2. wire \in [Clients -> SUBSET (Snapshots \cup DeltaSet)] /\ replica \in [Clients -> Replicas] /\ w \in Nat
  BY DEF Shape, LogShape
<1>3. wire' \in [Clients -> SUBSET (Snapshots \cup DeltaSet)] /\ \A b \in Clients : wire'[b] \subseteq wire[b]
  BY <1>2 DEF Deliver, Lose
<1>4. \A b \in Clients : PastOf(b) /\ FaithfulTo(b, w, h)
  BY DEF PastOK, RecordedAt
<1>5. Unsettled => Unsettled'
  BY <1>1 DEF Unsettled, EmptyQueue, NoOp
<1>6. Still
  BY <1>1, <1>5 DEF Still
<1>7. ASSUME NEW m \in wire[c], NEW r, r = IF IsSnapshot(m) THEN ApplySnapshot(m) ELSE ApplyDelta(replica[c], m)
      PROVE  r \in Replicas /\ Seen(r.gen, r.seq) /\ (~r.needs => Shows(r.gen, r.seq, r.rows, w, h))
  <2>1. m \in Snapshots \cup DeltaSet /\ Seen(m.gen, m.seq) /\ Faithful(m, w, h)
    BY <1>2, <1>4 DEF PastOf, FaithfulTo
  <2>2. PICK s \in Replicas : s = replica[c] /\ Seen(s.gen, s.seq) /\ (~s.needs => Shows(s.gen, s.seq, s.rows, w, h))
    BY <1>2, <1>4 DEF PastOf, FaithfulTo
  <2>3. CASE m \notin DeltaSet
    <3>1. r = [gen |-> m.gen, seq |-> m.seq, rows |-> m.screen.rows, attr |-> m.screen.attr, needs |-> FALSE]
      BY <1>7, <2>1, <2>3, SnapshotIs DEF ApplySnapshot
    <3>2. m.gen \in Nat /\ m.seq \in Nat /\ m.screen.rows \in Seq(Contents) /\ m.screen.attr \in Attributes
      BY <2>1, <2>3, MessageFacts, ScreenFacts
    <3>3. r \in Replicas /\ r.gen = m.gen /\ r.seq = m.seq /\ r.rows = m.screen.rows
      BY <3>1, <3>2 DEF Replicas
    <3> QED BY <2>1, <2>3, <3>3 DEF Faithful
  <2>4. CASE m \in DeltaSet /\ ~s.needs /\ m.gen = s.gen /\ m.seq = s.seq + 1
    <3>1. r = Applied(s, m)
      BY <1>7, <2>1, <2>2, <2>4, SnapshotIs DEF ApplyDelta
    <3>2. Carries(m, w, h) /\ Shows(s.gen, s.seq, s.rows, w, h)
      BY <2>1, <2>2, <2>4 DEF Faithful
    <3> QED BY <1>2, <2>1, <2>4, <3>1, <3>2, AppliedKeeps
  <2>5. CASE m \in DeltaSet /\ ~(~s.needs /\ m.gen = s.gen /\ m.seq = s.seq + 1)
    <3>1. r = [s EXCEPT !.needs = TRUE]
      BY <1>7, <2>1, <2>2, <2>5, SnapshotIs DEF ApplyDelta
    <3>2. r \in Replicas /\ r.gen = s.gen /\ r.seq = s.seq /\ r.rows = s.rows /\ r.needs
      BY <2>2, <3>1 DEF Replicas
    <3> QED BY <2>2, <3>2
  <2> QED BY <2>3, <2>4, <2>5
<1>8. ASSUME NEW b \in Clients
      PROVE  replica'[b] \in Replicas /\ Seen(replica'[b].gen, replica'[b].seq)
             /\ (~replica'[b].needs => Shows(replica'[b].gen, replica'[b].seq, replica'[b].rows, w, h))
  <2>1. CASE replica'[b] = replica[b]
    BY <1>2, <1>4, <2>1 DEF PastOf, FaithfulTo
  <2>2. CASE b = c /\ Deliver(c)
    <3>1. PICK m \in wire[c] : replica' = [replica EXCEPT ![c] = IF IsSnapshot(m) THEN ApplySnapshot(m) ELSE ApplyDelta(@, m)]
      BY <2>2 DEF Deliver
    <3>2. replica'[c] = IF IsSnapshot(m) THEN ApplySnapshot(m) ELSE ApplyDelta(replica[c], m)
      BY <1>2, <3>1
    <3> QED BY <1>7, <2>2, <3>2
  <2> QED BY <1>2, <2>1, <2>2 DEF Deliver, Lose
<1>9. replica' \in [Clients -> Replicas]
  <2>1. replica' = [b \in Clients |-> replica'[b]]
    BY <1>2 DEF Deliver, Lose
  <2> QED BY <1>8, <2>1
<1>10. Shape'
  BY <1>1, <1>3, <1>9 DEF Shape
<1>11. OpOK'
  BY <1>1 DEF OpOK, NoOp
<1>12. \A b \in Clients : \A m \in wire'[b] : Seen(m.gen, m.seq) /\ Faithful(m, w, h)
  BY <1>3, <1>4 DEF PastOf, FaithfulTo
<1>13. PastOK' /\ RecordedAt(w, h)'
  BY <1>6, <1>8, <1>12, StillKeeps
<1> QED BY <1>10, <1>11, <1>13

\* An opened terminal shows its blank screen and has no replica.
LEMMA RowsInvInit == Init => RowsInv
<1> SUFFICES ASSUME Init PROVE RowsInv
  OBVIOUS
<1>1. PICK a \in Attributes :
        /\ grid = Blank(OpeningHeight, a) /\ last = grid
        /\ reader = "idle" /\ attached = 1
        /\ pending = EmptyQueue /\ exits = 0 /\ gen = 1 /\ seq = 0 /\ deltas = <<>> /\ truncated = FALSE
        /\ op = NoOp
        /\ replica = [c \in Clients |-> [gen |-> 0, seq |-> 0, rows |-> <<>>, attr |-> a, needs |-> TRUE]]
        /\ wire = [c \in Clients |-> {}]
  BY DEF Init
<1>2. grid \in Screens /\ last \in Screens
  BY <1>1, BlankFacts, ReplicationAssumption
<1>3. PICK h \in Rows : h = grid.rows
  BY <1>2, ScreenFacts
<1>4. deltas \in Seq(DeltaSet) /\ \A i \in DOMAIN deltas : FALSE
  BY <1>1
<1>5. PICK r : r = [gen |-> 0, seq |-> 0, rows |-> <<>>, attr |-> a, needs |-> TRUE]
  OBVIOUS
<1>6. <<>> \in Seq(Contents)
  OBVIOUS
<1>7. r \in Replicas /\ r.gen = 0 /\ r.seq = 0 /\ r.rows = <<>> /\ r.needs
  BY <1>5, <1>6 DEF Replicas
<1>8. \A c \in Clients : replica[c] = r /\ wire[c] = {}
  BY <1>1, <1>5
<1>9. LogInv
  BY <1>1, <1>4 DEF LogInv, LogShape, LogIsOrdered
<1>10. Shape
  <2>1. replica \in [Clients -> Replicas] /\ wire \in [Clients -> SUBSET (Snapshots \cup DeltaSet)]
    BY <1>1, <1>5, <1>7
  <2>2. pending \in [count : Nat, coalesced : BOOLEAN]
    BY <1>1 DEF EmptyQueue
  <2>3. reader \in {"idle", "applied"} /\ attached \in Nat /\ gen \in Nat \ {0}
    BY <1>1
  <2>4. truncated \in BOOLEAN
    BY <1>1
  <2>5. op \in {NoOp} \cup Ops
    BY <1>1
  <2> QED BY <1>2, <1>4, <2>1, <2>2, <2>3, <2>4, <2>5 DEF Shape
<1>11. OpOK
  BY <1>1 DEF OpOK
<1>12. ASSUME NEW c \in Clients PROVE PastOf(c) /\ FaithfulTo(c, 0, h)
  <2>1. Seen(0, 0)
    BY <1>1 DEF Seen
  <2> QED BY <1>7, <1>8, <2>1 DEF PastOf, FaithfulTo
<1>13. PastOK /\ RecordedAt(0, h)
  BY <1>3, <1>4, <1>12 DEF PastOK, RecordedAt
<1>14. 0 \in 0..seq
  BY <1>1
<1> QED BY <1>9, <1>10, <1>11, <1>13, <1>14 DEF RowsInv

\* A step of the service, the process or a client keeps the invariant.
LEMMA RowsInvStep ==
  ASSUME RowsInv, [Next]_vars
  PROVE  Shape' /\ OpOK' /\ PastOK' /\ \E v \in 0..seq', r \in Rows : RecordedAt(v, r)'
<1>1. LogInv /\ LogShape /\ Shape /\ OpOK /\ PastOK
  BY DEF RowsInv, LogInv
<1>2. PICK w \in 0..seq, h \in Rows : RecordedAt(w, h)
  BY DEF RowsInv
<1>3. ASSUME Waits PROVE PastOK' /\ \E v \in 0..seq', r \in Rows : RecordedAt(v, r)'
  BY <1>1, <1>2, <1>3, WaitKeeps
<1>4. CASE Output \/ Notify \/ ChildExits \/ RetireFence \/ Restart \/ Pump \/ Scroll \/ PumpDone \/ FallBack
             \/ ResizeRuntime \/ BeginReplace \/ (\E h1 \in Heights : Resize(h1)) \/ (\E c \in Clients : Ask(c))
  <2>1. Shape' /\ OpOK' /\ Waits
    BY <1>1, <1>4, OutputKeeps, NotifyKeeps, ProcessKeeps, BeginKeeps, EndKeeps, FallBackKeeps, ResizeKeeps,
       BeginReplaceKeeps
  <2> QED BY <1>3, <2>1
<1>5. CASE Drain \/ RecordResize
  <2>1. Advances /\ Shape' /\ OpOK'
    BY <1>1, <1>5, DrainRecords
  <2> QED BY <1>1, <2>1, AdvanceKeeps
<1>6. CASE FirstView \/ ScrollRuntime
  <2>1. Shape' /\ OpOK' /\ (Advances \/ Waits)
    BY <1>1, <1>6, ScrollKeeps
  <2>2. ASSUME Advances PROVE PastOK' /\ \E v \in 0..seq', r \in Rows : RecordedAt(v, r)'
    BY <1>1, <2>1, <2>2, AdvanceKeeps
  <2> QED BY <1>3, <2>1, <2>2
<1>7. CASE ReplaceGeneration
  BY <1>1, <1>7, ReplaceKeeps
<1>8. CASE AnswerDeltas \/ AnswerSnapshot
  <2>1. Shape' /\ OpOK' /\ PastOK' /\ RecordedAt(w, h)'
    BY <1>1, <1>2, <1>8, AnswerDeltasKeeps, AnswerSnapshotKeeps
  <2>2. seq' = seq
    BY <1>8 DEF AnswerDeltas, AnswerSnapshot, log
  <2> QED BY <1>2, <2>1, <2>2
<1>9. CASE \E c \in Clients : Deliver(c) \/ Lose(c)
  <2>1. Shape' /\ OpOK' /\ PastOK' /\ RecordedAt(w, h)'
    BY <1>1, <1>2, <1>9, DeliverKeeps
  <2>2. seq' = seq
    BY <1>9 DEF Deliver, Lose, log
  <2> QED BY <1>2, <2>1, <2>2
<1>10. CASE UNCHANGED vars
  <2>1. UNCHANGED <<grid, reader, attached, pending, gen, seq, last, deltas, truncated, op, replica, wire>>
    BY <1>10 DEF vars, runtime, queue, log, clients
  <2>2. Unsettled' = Unsettled
    BY <2>1 DEF Unsettled, EmptyQueue, NoOp
  <2>3. Shape' /\ OpOK'
    BY <1>1, <2>1 DEF Shape, OpOK, NoOp
  <2>4. Waits
    BY <2>1, <2>2 DEF Waits, ExitStep, KeepsLog
  <2> QED BY <1>3, <2>3, <2>4
<1> QED BY <1>4, <1>5, <1>6, <1>7, <1>8, <1>9, <1>10 DEF Next

\* When nothing is due, whoever is at the host's position shows the host's rows.
LEMMA RowsInvImplies == RowsInv => RowsAreCurrent
<1> SUFFICES ASSUME RowsInv, Quiet, NEW c \in Clients, Current(c) PROVE Covers(replica[c].rows, grid.rows)
  BY DEF RowsAreCurrent
<1>1. ~Unsettled
  BY DEF Quiet, Unsettled
<1>2. PICK w \in 0..seq, h \in Rows : RecordedAt(w, h)
  BY DEF RowsInv
<1>3. grid.rows = h
  BY <1>1, <1>2 DEF RecordedAt
<1>4. Shows(replica[c].gen, replica[c].seq, replica[c].rows, w, h)
  BY <1>2 DEF RecordedAt, FaithfulTo, Current
<1>5. replica[c].gen = gen /\ replica[c].seq = seq /\ seq >= w
  BY <1>2 DEF Current, RowsInv, LogInv, LogShape
<1> QED BY <1>1, <1>3, <1>4, <1>5 DEF Shows

\* A replica at the host's generation and sequence shows the host's rows once the
\* host is quiet, whatever was coalesced, lost, delayed, repeated or reordered,
\* resized, scrolled or cut (drain_attached_output, updates_since, apply_delta).
THEOREM RowsStayCurrent == Spec => []RowsAreCurrent
<1>1. Init => RowsInv
  BY RowsInvInit
<1>2. RowsInv /\ [Next]_vars => RowsInv'
  <2> SUFFICES ASSUME RowsInv, [Next]_vars PROVE RowsInv'
    OBVIOUS
  <2>1. LogInv'
    BY LogInvStep DEF RowsInv
  <2>2. Shape' /\ OpOK' /\ PastOK' /\ \E v \in 0..seq', r \in Rows : RecordedAt(v, r)'
    BY RowsInvStep
  <2> QED BY <2>1, <2>2 DEF RowsInv
<1>3. RowsInv => RowsAreCurrent
  BY RowsInvImplies
<1> QED BY <1>1, <1>2, <1>3, PTL DEF Spec

=============================================================================
