----------------------- MODULE ConversationWakeProofs -----------------------
(***************************************************************************)
(* Proofs about the conversation wake path, for every set of conversations,  *)
(* subscriptions and connections.  WakeInv is the inductive invariant; its    *)
(* parts say who holds which notice at every moment.                         *)
(***************************************************************************)
EXTENDS ConversationWake, FiniteSetTheorems, TLAPS

\* Types without the cap, and where names and the executor's cursor point.
WakeTypes ==
    /\ journal \in [Keys -> Nat] /\ announced \in [Keys -> Nat]
    /\ marking \in Keys \cup {NoKey}
    /\ watched \in [Keys -> Nat] /\ dirty \in [Keys -> Nat]
    /\ edge \in BOOLEAN /\ freed \in BOOLEAN
    /\ exec \in Exec
    /\ outputs \subseteq Conns
    /\ stage \in [Subs -> {"new", "open", "gone"}]
    /\ keyOf \in [Subs -> Keys \cup {NoKey}]
    /\ connOf \in [Subs -> Conns \cup {NoConn}]
    /\ notified \in [Subs -> Nat] /\ told \in [Subs -> Nat]
    /\ slot \in [Subs -> Slot] /\ pending \subseteq Subs
    /\ shut \in [Conns -> BOOLEAN]
    /\ writer \in [Conns -> [sub : Subs \cup {NoSub}, rev : Nat, msg : Nat]]
    /\ parked \in [Conns -> BOOLEAN] /\ token \in [Conns -> BOOLEAN]

NamesOK ==
    \A s \in Subs : Live(s) => keyOf[s] \in Keys /\ connOf[s] \in Conns

ExecOK ==
    /\ exec.op \in {"capture", "metadata", "catch up"} =>
         /\ exec.sub \in Subs /\ exec.key \in Keys /\ exec.conn \in Conns
         /\ keyOf[exec.sub] = exec.key /\ connOf[exec.sub] = exec.conn
    /\ exec.op = "capture" => stage[exec.sub] = "new"
    /\ exec.op \in {"metadata", "catch up"} => stage[exec.sub] = "open"
    /\ exec.op = "detach" => exec.conn \in Conns

\* A mark never runs ahead of what was announced, nor that of the journal, and a
\* producer that holds the mutex has announced the last record and not marked yet.
BoardOK ==
    /\ \A k \in Keys : dirty[k] <= announced[k] /\ announced[k] <= journal[k]
    /\ marking # NoKey =>
         dirty[marking] < announced[marking] /\ announced[marking] = journal[marking]

\* Between the admissions of a key and its clearing every reachable subscription
\* of the key is notified.
FanOK ==
    exec.op = "fan" /\ exec.key # NoKey =>
       \A s \in Subs : Live(s) /\ Reachable(s) /\ keyOf[s] = exec.key =>
                          notified[s] >= exec.hw /\ exec.hw = exec.todo[exec.key]

\* A slot is pending exactly when it is queued.
PendingOK == \A s \in Subs : s \in pending <=> slot[s].phase = "queued"

\* A slot belongs to an open subscription of a lane that is not shut down.
OwnerOK ==
    \A s \in Subs : slot[s].phase # "none" =>
       stage[s] = "open" /\ connOf[s] \in Conns /\ ~shut[connOf[s]]

\* A writer that sleeps on a pending notice has a token.
TokenOK == \A s \in Subs : s \in pending /\ parked[connOf[s]] => token[connOf[s]]

\* The writer of a connection holds the slot that is in flight there, and what it
\* writes is news.
Holds(c, s) ==
    /\ connOf[s] = c /\ stage[s] # "new" /\ writer[c].msg > told[s]
    /\ Live(s) /\ ~shut[c] => slot[s].phase = "inflight"
    /\ slot[s].phase = "inflight" =>
         /\ writer[c].rev <= slot[s].rev
         /\ writer[c].rev = slot[s].rev => writer[c].msg = slot[s].hw
         /\ writer[c].rev < slot[s].rev => writer[c].msg < slot[s].hw

HoldsOK == \A c \in Conns : writer[c].sub # NoSub => Holds(c, writer[c].sub)

IdleOK == \A c \in Conns : writer[c].sub = NoSub => writer[c] = NoWrite

InflightOK == \A s \in Subs : slot[s].phase = "inflight" => writer[connOf[s]].sub = s

\* A slot holds what its subscription was notified of, and that is news.
SlotOK ==
    \A s \in Subs :
       /\ slot[s].phase # "none" => slot[s].hw = notified[s]
       /\ slot[s].phase = "queued" => slot[s].hw > told[s]
       /\ Live(s) /\ ~shut[connOf[s]] /\ slot[s].phase = "none" => told[s] = notified[s]

RoomOK ==
    /\ \A c \in Conns : Cardinality(OnOutput(c)) <= PerOutput
    /\ exec.op = "capture" => Cardinality(OnOutput(exec.conn)) < PerOutput

OnItsWay == \A s \in Subs : Live(s) /\ Reachable(s) => RecordIsOnItsWay(s)

WakeInv ==
    /\ WakeTypes /\ NamesOK /\ ExecOK /\ BoardOK /\ FanOK /\ PendingOK /\ OwnerOK /\ TokenOK /\ HoldsOK /\ IdleOK /\ InflightOK /\ SlotOK
    /\ WatchCountsSubscriptions /\ RoomOK /\ OnItsWay

-----------------------------------------------------------------------------
(* What the helpers do to the types.                                         *)

\* The larger of two numbers.
LEMMA LargerType ==
    ASSUME NEW a \in Nat, NEW b \in Nat
    PROVE  Larger(a, b) \in Nat /\ Larger(a, b) >= a /\ Larger(a, b) >= b
BY DEF Larger

\* Admitting keeps types.
LEMMA AdmitAllTypes ==
    ASSUME WakeTypes, NEW S \in SUBSET Subs, NEW h \in Nat, AdmitAll(S, h)
    PROVE  /\ slot' \in [Subs -> Slot] /\ pending' \subseteq Subs
           /\ token' \in [Conns -> BOOLEAN] /\ notified' \in [Subs -> Nat]
<1>1. \A s \in Subs : Admitted(slot[s], h) \in Slot
      BY DEF WakeTypes, Slot, Admitted
<1>2. slot' \in [Subs -> Slot]
      BY <1>1 DEF WakeTypes, AdmitAll
<1>3. pending' \subseteq Subs /\ token' \in [Conns -> BOOLEAN]
      BY DEF WakeTypes, AdmitAll
<1>4. notified' \in [Subs -> Nat]
      BY LargerType DEF WakeTypes, AdmitAll
<1> QED BY <1>2, <1>3, <1>4

\* Untracking keeps types.
LEMMA UntrackTypes ==
    ASSUME WakeTypes, NEW k \in Keys, Untrack(k)
    PROVE  watched' \in [Keys -> Nat] /\ dirty' \in [Keys -> Nat] /\ edge' = edge
<1>1. watched \in [Keys -> Nat] /\ dirty \in [Keys -> Nat]
  BY DEF WakeTypes
<1> QED BY <1>1 DEF Untrack

\* Untracking leaves a mark or clears it.
LEMMA UntrackLowers ==
    ASSUME WakeTypes, NEW k \in Keys, Untrack(k)
    PROVE  \A j \in Keys : dirty'[j] = dirty[j] \/ dirty'[j] = 0
BY DEF WakeTypes, Untrack

\* Freeing a slot keeps types.
LEMMA RemoveKeyTypes ==
    ASSUME WakeTypes, NEW s \in Subs, RemoveKey(s)
    PROVE  slot' \in [Subs -> Slot] /\ pending' \subseteq Subs /\ freed' \in BOOLEAN
BY DEF WakeTypes, RemoveKey, Slot, Empty

\* Finishing a notice keeps types.
LEMMA FinishKeyTypes ==
    ASSUME WakeTypes, NEW s \in Subs, NEW r \in Nat, FinishKey(s, r)
    PROVE  slot' \in [Subs -> Slot] /\ pending' \subseteq Subs /\ freed' \in BOOLEAN
<1>1. CASE slot[s].phase = "inflight" /\ slot[s].rev > r
  <2>1. slot \in [Subs -> Slot] /\ pending \subseteq Subs /\ freed \in BOOLEAN
    BY DEF WakeTypes
  <2> QED BY <1>1, <2>1 DEF FinishKey, Slot
<1>2. CASE slot[s].phase = "inflight" /\ ~(slot[s].rev > r)
      BY <1>2, RemoveKeyTypes DEF FinishKey
<1>3. CASE slot[s].phase # "inflight"
      BY <1>3 DEF FinishKey, WakeTypes
<1> QED BY <1>1, <1>2, <1>3

\* What the catch-up of an open admits.
CatchUpHigh == Larger(Larger(notified[exec.sub], dirty[exec.key]), exec.hw)

\* Where the catch-up's cursor points and what it admits.
LEMMA CatchUpFacts ==
    ASSUME WakeTypes, ExecOK, CatchUp
    PROVE  /\ exec.sub \in Subs /\ exec.key \in Keys /\ exec.conn \in Conns
           /\ CatchUpHigh \in Nat
           /\ exec' = [Idle EXCEPT !.op = "snapshot"]
           /\ IF CatchUpHigh > notified[exec.sub] /\ ~shut[exec.conn]
              THEN AdmitAll({exec.sub}, CatchUpHigh)
              ELSE UNCHANGED <<slot, pending, token, notified>>
<1>1. exec.sub \in Subs /\ exec.key \in Keys /\ exec.conn \in Conns /\ exec.hw \in Nat
      BY DEF CatchUp, ExecOK, WakeTypes, Exec
<1>2. Larger(notified[exec.sub], dirty[exec.key]) \in Nat
      BY <1>1, LargerType DEF WakeTypes
<1>3. CatchUpHigh \in Nat
      BY <1>1, <1>2, LargerType DEF CatchUpHigh
<1> QED BY <1>1, <1>3 DEF CatchUp, CatchUpHigh


\* The catch-up of an open admits news of its own subscription, or nothing.
LEMMA CatchUpCases ==
    ASSUME WakeTypes, ExecOK, CatchUp
    PROVE  \/ UNCHANGED <<slot, pending, token, notified>>
           \/ \E S \in SUBSET Subs, h \in Nat :
                /\ AdmitAll(S, h)
                /\ \A s \in S : s = exec.sub /\ h > notified[s] /\ ~shut[exec.conn]
<1>1. CASE CatchUpHigh > notified[exec.sub] /\ ~shut[exec.conn]
  <2>1. AdmitAll({exec.sub}, CatchUpHigh) /\ {exec.sub} \in SUBSET Subs /\ CatchUpHigh \in Nat
    BY <1>1, CatchUpFacts
  <2>2. \A s \in {exec.sub} : s = exec.sub /\ CatchUpHigh > notified[s] /\ ~shut[exec.conn]
    BY <1>1
  <2> HIDE DEF CatchUpHigh
  <2> QED BY <2>1, <2>2
<1>2. CASE ~(CatchUpHigh > notified[exec.sub] /\ ~shut[exec.conn])
  BY <1>2, CatchUpFacts
<1> QED BY <1>1, <1>2

\* A step of the executor that tells subscriptions admits news of open
\* subscriptions whose lanes are not shut down.
News(S, h) ==
    /\ AdmitAll(S, h)
    /\ \A s \in S : /\ h > notified[s] /\ stage[s] = "open"
                    /\ connOf[s] \in Conns /\ ~shut[connOf[s]]

\* The catch-up admits news or nothing.
LEMMA CatchUpNews ==
    ASSUME WakeTypes, ExecOK, CatchUp
    PROVE  \/ UNCHANGED <<slot, pending, token, notified>>
           \/ \E S \in SUBSET Subs, h \in Nat : News(S, h)
<1>1. stage[exec.sub] = "open" /\ connOf[exec.sub] = exec.conn /\ exec.conn \in Conns
  BY DEF CatchUp, ExecOK
<1> QED BY <1>1, CatchUpCases DEF News

\* A fanned-out key admits news.
LEMMA FanKeyNews ==
    ASSUME WakeTypes, NamesOK, NEW k \in Keys, FanKey(k)
    PROVE  \E S \in SUBSET Subs, h \in Nat : News(S, h)
<1> DEFINE S == {s \in Targets(k, exec.todo[k]) : Reachable(s)}
<1>1. S \in SUBSET Subs /\ exec.todo[k] \in Nat
  BY DEF Targets, WakeTypes, Exec
<1>2. AdmitAll(S, exec.todo[k])
  BY DEF FanKey
<1>3. \A s \in S : /\ exec.todo[k] > notified[s] /\ stage[s] = "open"
                   /\ connOf[s] \in Conns /\ ~shut[connOf[s]]
  <2> SUFFICES ASSUME NEW s \in S
               PROVE  /\ exec.todo[k] > notified[s] /\ stage[s] = "open"
                      /\ connOf[s] \in Conns /\ ~shut[connOf[s]]
    OBVIOUS
  <2>1. s \in Subs /\ Live(s) /\ notified[s] < exec.todo[k] /\ Reachable(s)
    BY DEF Targets
  <2>2. notified[s] \in Nat
    BY <2>1 DEF WakeTypes
  <2> QED BY <1>1, <2>1, <2>2 DEF Live, Reachable, NamesOK
<1> HIDE DEF S
<1> QED BY <1>1, <1>2, <1>3 DEF News

\* What admitting news leaves in every slot.
LEMMA NewsSlots ==
    ASSUME WakeTypes, NEW S \in SUBSET Subs, NEW h \in Nat, News(S, h), NEW s \in Subs
    PROVE  /\ s \in S => /\ slot'[s].phase = IF slot[s].phase = "none" THEN "queued"
                                             ELSE slot[s].phase
                         /\ slot'[s].rev = slot[s].rev + 1
                         /\ slot'[s].hw = h /\ notified'[s] = h /\ h > notified[s]
           /\ s \notin S => slot'[s] = slot[s] /\ notified'[s] = notified[s]
<1>1. slot[s] \in Slot /\ notified[s] \in Nat
  BY DEF WakeTypes
<1>2. slot'[s] = IF s \in S THEN Admitted(slot[s], h) ELSE slot[s]
  BY DEF News, AdmitAll
<1>3. notified'[s] = IF s \in S THEN Larger(notified[s], h) ELSE notified[s]
  BY DEF News, AdmitAll
<1>4. s \in S => h > notified[s]
  BY DEF News
<1>5. s \in S => Larger(notified[s], h) = h
  BY <1>1, <1>4 DEF Larger
<1> QED BY <1>1, <1>2, <1>3, <1>4, <1>5 DEF Admitted

\* Which keys become pending when news is admitted, and whose writer is woken.
LEMMA NewsPending ==
    ASSUME WakeTypes, PendingOK, NEW S \in SUBSET Subs, NEW h \in Nat, News(S, h),
           NEW s \in Subs
    PROVE  /\ s \in pending' <=> s \in pending \/ (s \in S /\ slot[s].phase = "none")
           /\ connOf[s] \in Conns /\ s \in pending' /\ s \notin pending => token'[connOf[s]]
           /\ connOf[s] \in Conns /\ token[connOf[s]] => token'[connOf[s]]
<1>1. s \in pending' <=> s \in pending \/ (s \in S /\ Wakes(s))
  BY DEF News, AdmitAll
<1>2. Wakes(s) <=> slot[s].phase = "none"
  BY DEF PendingOK, Wakes
<1>3. connOf[s] \in Conns =>
        token'[connOf[s]] = (token[connOf[s]] \/ \E r \in S : connOf[r] = connOf[s] /\ Wakes(r))
  BY DEF News, AdmitAll
<1> QED BY <1>1, <1>2, <1>3

\* What a writer that finishes leaves of its key.
LEMMA FinishSlots ==
    ASSUME WakeTypes, PendingOK, NEW s \in Subs, NEW r \in Nat, FinishKey(s, r), NEW x \in Subs
    PROVE  /\ x # s => slot'[x] = slot[x]
           /\ x # s => (x \in pending' <=> x \in pending)
           /\ slot[s].phase # "inflight" => slot'[s] = slot[s] /\ (s \in pending' <=> s \in pending)
           /\ slot[s].phase = "inflight" /\ slot[s].rev > r =>
                /\ slot'[s].phase = "queued" /\ s \in pending'
                /\ slot'[s].hw = slot[s].hw
           /\ slot[s].phase = "inflight" /\ ~(slot[s].rev > r) =>
                slot'[s] = Empty /\ s \notin pending'
<1>1. slot \in [Subs -> Slot]
  BY DEF WakeTypes
<1>2. CASE slot[s].phase = "inflight" /\ slot[s].rev > r
  BY <1>1, <1>2 DEF FinishKey, Slot
<1>3. CASE slot[s].phase = "inflight" /\ ~(slot[s].rev > r)
  BY <1>1, <1>3 DEF FinishKey, RemoveKey
<1>4. CASE slot[s].phase # "inflight"
  BY <1>4 DEF FinishKey
<1> QED BY <1>2, <1>3, <1>4

-----------------------------------------------------------------------------
(* Counting subscriptions.                                                   *)

\* The subscriptions of a key are finitely many.
LEMMA WatchingFinite ==
    ASSUME NEW k \in Keys
    PROVE  IsFiniteSet(Watching(k)) /\ Cardinality(Watching(k)) \in Nat
BY WakeAssumption, FS_Subset, FS_CardinalityType DEF Watching

\* A key with a subscription is watched.
LEMMA WatchedOnce ==
    ASSUME WatchCountsSubscriptions, WakeTypes, NEW k \in Keys, NEW s \in Watching(k)
    PROVE  watched[k] > 0
<1>1. Cardinality(Watching(k)) # 0
  BY WatchingFinite, FS_EmptySet
<1> QED BY <1>1 DEF WatchCountsSubscriptions, WakeTypes

\* A key with two subscriptions is watched twice.
LEMMA WatchedTwice ==
    ASSUME WatchCountsSubscriptions, WakeTypes, NEW k \in Keys,
           NEW s \in Watching(k), NEW r \in Watching(k), s # r
    PROVE  watched[k] > 1
<1>1. IsFiniteSet(Watching(k) \ {r}) /\ Cardinality(Watching(k) \ {r}) = Cardinality(Watching(k)) - 1
  BY WatchingFinite, FS_RemoveElement
<1>2. Cardinality(Watching(k) \ {r}) # 0
  BY <1>1, FS_EmptySet
<1>3. Cardinality(Watching(k) \ {r}) \in Nat
  BY <1>1, FS_CardinalityType
<1>4. watched[k] = Cardinality(Watching(k)) /\ watched[k] \in Nat
  BY DEF WatchCountsSubscriptions, WakeTypes
<1> QED BY <1>1, <1>2, <1>3, <1>4

\* A subscription that goes away leaves the marks of the others alone.
LEMMA UntrackOthers ==
    ASSUME WatchCountsSubscriptions, WakeTypes, NamesOK,
           NEW r \in Subs, keyOf[r] \in Keys, r \in Watching(keyOf[r]), Untrack(keyOf[r]),
           NEW s \in Subs, s # r, Live(s)
    PROVE  dirty'[keyOf[s]] = dirty[keyOf[s]] /\ edge' = edge
<1>1. keyOf[s] \in Keys /\ s \in Watching(keyOf[s])
  BY DEF NamesOK, Watching
<1>2. CASE keyOf[s] = keyOf[r]
  <2>1. watched[keyOf[r]] > 1
    BY <1>1, <1>2, WatchedTwice
  <2>2. watched[keyOf[r]] \in Nat
    BY DEF WakeTypes
  <2> QED BY <2>1, <2>2 DEF Untrack
<1>3. CASE keyOf[s] # keyOf[r]
  BY <1>1, <1>3 DEF Untrack, WakeTypes
<1> QED BY <1>2, <1>3

\* The count of a key follows the set of its subscriptions.
LEMMA WatchStays ==
    ASSUME WatchCountsSubscriptions, WakeTypes, watched' = watched,
           \A k \in Keys : Watching(k)' = Watching(k)
    PROVE  WatchCountsSubscriptions'
BY DEF WatchCountsSubscriptions

\* Untracking follows a subscription that goes.
LEMMA WatchDrops ==
    ASSUME WatchCountsSubscriptions, WakeTypes, NEW r \in Subs, keyOf[r] \in Keys,
           r \in Watching(keyOf[r]), Untrack(keyOf[r]),
           \A k \in Keys : Watching(k)' = Watching(k) \ {r}
    PROVE  WatchCountsSubscriptions'
<1> SUFFICES ASSUME NEW k \in Keys PROVE watched'[k] = Cardinality(Watching(k)')
  BY DEF WatchCountsSubscriptions
<1>1. watched[k] = Cardinality(Watching(k)) /\ watched[k] \in Nat
  BY DEF WatchCountsSubscriptions, WakeTypes
<1>2. CASE k = keyOf[r]
  <2>1. Cardinality(Watching(k) \ {r}) = Cardinality(Watching(k)) - 1
    BY <1>2, WatchingFinite, FS_RemoveElement
  <2>2. watched[k] > 0
    BY <1>2, WatchedOnce
  <2>3. watched'[k] = watched[k] - 1
    BY <1>1, <1>2, <2>2 DEF Untrack, WakeTypes
  <2> QED BY <1>1, <2>1, <2>3
<1>3. CASE k # keyOf[r]
  <2>1. watched'[k] = watched[k]
    BY <1>3 DEF Untrack, WakeTypes
  <2>2. Watching(k) \ {r} = Watching(k)
    BY <1>3 DEF Watching
  <2> QED BY <1>1, <2>1, <2>2
<1> QED BY <1>2, <1>3

\* The cap survives when no output gains a subscription.
LEMMA RoomStays ==
    ASSUME RoomOK, WakeTypes, \A c \in Conns : OnOutput(c)' \subseteq OnOutput(c),
           exec'.op # "capture"
    PROVE  RoomOK'
<1> SUFFICES ASSUME NEW c \in Conns PROVE Cardinality(OnOutput(c)') <= PerOutput
  BY DEF RoomOK
<1>1. IsFiniteSet(OnOutput(c))
  BY WakeAssumption, FS_Subset DEF OnOutput
<1>2. /\ IsFiniteSet(OnOutput(c)') /\ Cardinality(OnOutput(c)') <= Cardinality(OnOutput(c))
  BY <1>1, FS_Subset
<1>3. Cardinality(OnOutput(c)) \in Nat /\ Cardinality(OnOutput(c)') \in Nat
  BY <1>1, <1>2, FS_CardinalityType
<1> QED BY <1>2, <1>3, WakeAssumption DEF RoomOK

\* Admitting news never lowers what a subscription was notified of.
LEMMA NewsRaises ==
    ASSUME WakeTypes, NEW S \in SUBSET Subs, NEW h \in Nat, News(S, h), NEW s \in Subs
    PROVE  notified[s] \in Nat /\ notified'[s] \in Nat /\ notified'[s] >= notified[s]
<1>1. notified[s] \in Nat
  BY DEF WakeTypes
<1>2. CASE s \in S
  <2>1. notified'[s] = h /\ h > notified[s]
    BY <1>2, NewsSlots
  <2> QED BY <1>1, <2>1
<1>3. CASE s \notin S
  <2>1. notified'[s] = notified[s]
    BY <1>3, NewsSlots
  <2> QED BY <1>1, <2>1
<1> QED BY <1>2, <1>3

-----------------------------------------------------------------------------
(* Every action keeps every part of the invariant.                           *)

\* Every step keeps types.
LEMMA WakeTypesStep ==
    ASSUME WakeInv, Next PROVE WakeTypes'
<1> USE WakeAssumption DEF WakeInv
<1>1. ASSUME NEW k \in Keys, Record(k) \/ Observe(k) PROVE WakeTypes'
  <2>1. /\ journal' \in [Keys -> Nat] /\ announced' \in [Keys -> Nat]
        /\ marking' \in Keys \cup {NoKey}
    BY <1>1 DEF Record, Observe, WakeTypes
  <2> QED BY <1>1, <2>1 DEF Record, Observe, WakeTypes, board, lanes, names
<1>2. ASSUME Mark PROVE WakeTypes'
  <2>1. watched' \in [Keys -> Nat] /\ marking' \in Keys \cup {NoKey}
    BY <1>2 DEF Mark, WakeTypes, board
  <2>2. dirty' \in [Keys -> Nat]
    BY <1>2 DEF Mark, WakeTypes, board, Larger
  <2>3. edge' \in BOOLEAN
    BY <1>2 DEF Mark, WakeTypes, board
  <2> QED BY <1>2, <2>1, <2>2, <2>3 DEF Mark, WakeTypes, board, lanes, names
<1>3. ASSUME NEW s \in Subs, NEW k \in Keys, NEW c \in Conns, Open(s, k, c) PROVE WakeTypes'
  <2>1. watched' \in [Keys -> Nat]
    BY <1>3 DEF Open, WakeTypes
  <2>2. exec' \in Exec
    BY <1>3 DEF Open, WakeTypes, Exec
  <2>3. keyOf' \in [Subs -> Keys \cup {NoKey}] /\ connOf' \in [Subs -> Conns \cup {NoConn}]
    BY <1>3 DEF Open, WakeTypes
  <2> QED BY <1>3, <2>1, <2>2, <2>3 DEF Open, WakeTypes, board, lanes, names
<1>4. ASSUME CaptureFails PROVE WakeTypes'
  <2>1. watched' \in [Keys -> Nat] /\ dirty' \in [Keys -> Nat]
    BY <1>4, UntrackTypes DEF CaptureFails, ExecOK
  <2>2. exec' \in Exec
    BY <1>4 DEF CaptureFails, Idle, Exec
  <2>3. stage' \in [Subs -> {"new", "open", "gone"}]
    BY <1>4 DEF CaptureFails, WakeTypes, ExecOK
  <2> QED BY <1>4, <2>1, <2>2, <2>3 DEF CaptureFails, Untrack, WakeTypes, board, lanes, names
<1>5. ASSUME Capture PROVE WakeTypes'
      BY <1>5 DEF Capture, WakeTypes, Slot, Exec, ExecOK, board, lanes, names
<1>6. ASSUME Metadata PROVE WakeTypes'
      BY <1>6 DEF Metadata, WakeTypes, Slot, Exec, ExecOK, board, lanes, names
<1>7. ASSUME CatchUp PROVE WakeTypes'
  <2>1. /\ slot' \in [Subs -> Slot] /\ pending' \subseteq Subs
        /\ token' \in [Conns -> BOOLEAN] /\ notified' \in [Subs -> Nat]
    <3>1. CASE CatchUpHigh > notified[exec.sub] /\ ~shut[exec.conn]
      <4>1. AdmitAll({exec.sub}, CatchUpHigh) /\ {exec.sub} \in SUBSET Subs /\ CatchUpHigh \in Nat
        BY <1>7, <3>1, CatchUpFacts
      <4> HIDE DEF CatchUpHigh
      <4> QED BY <4>1, AdmitAllTypes
    <3>2. CASE ~(CatchUpHigh > notified[exec.sub] /\ ~shut[exec.conn])
      BY <1>7, <3>2, CatchUpFacts DEF WakeTypes
    <3> QED BY <3>1, <3>2
  <2>2. exec' \in Exec
    BY <1>7 DEF CatchUp, Exec, Idle
  <2> QED BY <1>7, <2>1, <2>2 DEF CatchUp, WakeTypes, board, names
<1>8. ASSUME StartFanOut PROVE WakeTypes'
      BY <1>8 DEF StartFanOut, FanOut, Idle, WakeTypes, Slot, Exec, ExecOK, board, lanes, names
<1>9. ASSUME ClearKey PROVE WakeTypes'
      BY <1>9 DEF ClearKey, WakeTypes, Slot, Exec, ExecOK, board, lanes, names
<1>10. ASSUME EndFanOut PROVE WakeTypes'
      BY <1>10 DEF EndFanOut, Idle, WakeTypes, Slot, Exec, ExecOK, board, lanes, names
<1>11. ASSUME NEW k \in Keys, FanKey(k) PROVE WakeTypes'
  <2>1. exec.todo[k] \in Nat /\ exec' \in Exec
    BY <1>11 DEF FanKey, WakeTypes, Exec
  <2>2. /\ slot' \in [Subs -> Slot] /\ pending' \subseteq Subs
        /\ token' \in [Conns -> BOOLEAN] /\ notified' \in [Subs -> Nat]
    BY <1>11, <2>1, AdmitAllTypes DEF FanKey, Targets
  <2> QED BY <1>11, <2>1, <2>2 DEF FanKey, WakeTypes, board, names
<1>12. ASSUME NEW s \in Subs, Release(s) PROVE WakeTypes'
  <2>1. keyOf[s] \in Keys /\ Untrack(keyOf[s]) /\ RemoveKey(s)
    BY <1>12 DEF Release, Remove, NamesOK
  <2>2. watched' \in [Keys -> Nat] /\ dirty' \in [Keys -> Nat] /\ edge' = edge
    BY <2>1, UntrackTypes
  <2>3. slot' \in [Subs -> Slot] /\ pending' \subseteq Subs /\ freed' \in BOOLEAN
    BY <2>1, RemoveKeyTypes
  <2>4. stage' \in [Subs -> {"new", "open", "gone"}]
    BY <1>12 DEF Release, Remove, WakeTypes
  <2> QED BY <1>12, <2>2, <2>3, <2>4 DEF Release, Remove, WakeTypes
<1>13. ASSUME NEW s \in Subs, DetachOne(s) PROVE WakeTypes'
  <2>1. keyOf[s] \in Keys /\ Untrack(keyOf[s]) /\ RemoveKey(s)
    BY <1>13 DEF DetachOne, Remove, NamesOK
  <2>2. watched' \in [Keys -> Nat] /\ dirty' \in [Keys -> Nat] /\ edge' = edge
    BY <2>1, UntrackTypes
  <2>3. slot' \in [Subs -> Slot] /\ pending' \subseteq Subs /\ freed' \in BOOLEAN
    BY <2>1, RemoveKeyTypes
  <2>4. stage' \in [Subs -> {"new", "open", "gone"}]
    BY <1>13 DEF DetachOne, Remove, WakeTypes
  <2> QED BY <1>13, <2>2, <2>3, <2>4 DEF DetachOne, Remove, WakeTypes
<1>14. ASSUME NEW c \in Conns, Detach(c) PROVE WakeTypes'
      BY <1>14 DEF Detach, WakeTypes, Slot, Exec, ExecOK, board, lanes, names
<1>15. ASSUME Detached PROVE WakeTypes'
      BY <1>15 DEF Detached, ShutLane, Empty, Idle, WakeTypes, Slot, Exec, ExecOK, board, lanes, names
<1>16. ASSUME NEW c \in Conns, Finish(c) PROVE WakeTypes'
  <2>1. writer[c].sub \in Subs /\ writer[c].rev \in Nat /\ writer[c].msg \in Nat
    BY <1>16 DEF Finish, WakeTypes
  <2>2. slot' \in [Subs -> Slot] /\ pending' \subseteq Subs /\ freed' \in BOOLEAN
    <3>1. CASE shut[c]
      BY <1>16, <3>1 DEF Finish, WakeTypes
    <3>2. CASE ~shut[c]
      BY <1>16, <2>1, <3>2, FinishKeyTypes DEF Finish
    <3> QED BY <3>1, <3>2
  <2>3. told' \in [Subs -> Nat] /\ token' \in [Conns -> BOOLEAN]
    BY <1>16, <2>1 DEF Finish, WakeTypes
  <2>4. writer' \in [Conns -> [sub : Subs \cup {NoSub}, rev : Nat, msg : Nat]]
    BY <1>16 DEF Finish, NoWrite, WakeTypes
  <2> QED BY <1>16, <2>2, <2>3, <2>4 DEF Finish, WakeTypes, board, names
<1>17. ASSUME NEW c \in Conns, Park(c) PROVE WakeTypes'
      BY <1>17 DEF Park, WakeTypes, Slot, Exec, ExecOK, board, lanes, names
<1>18. ASSUME NEW c \in Conns, Wake(c) PROVE WakeTypes'
      BY <1>18 DEF Wake, WakeTypes, Slot, Exec, ExecOK, board, lanes, names
<1>19. ASSUME NEW c \in Conns, Shutdown(c) PROVE WakeTypes'
      BY <1>19 DEF Shutdown, ShutLane, Empty, NoWrite, WakeTypes, Slot, Exec, ExecOK, board, lanes, names
<1>20. ASSUME NEW c \in Conns, NEW s \in Subs, Take(c, s) PROVE WakeTypes'
  <2>1. slot' \in [Subs -> Slot] /\ pending' \subseteq Subs
    BY <1>20 DEF Take, WakeTypes, Slot
  <2>2. writer' \in [Conns -> [sub : Subs \cup {NoSub}, rev : Nat, msg : Nat]]
    BY <1>20 DEF Take, WakeTypes, Slot
  <2> QED BY <1>20, <2>1, <2>2 DEF Take, WakeTypes, board, lanes, names
<1> QED BY <1>1, <1>2, <1>3, <1>4, <1>5, <1>6, <1>7, <1>8, <1>9, <1>10, <1>11, <1>12, <1>13, <1>14, <1>15, <1>16, <1>17, <1>18, <1>19, <1>20 DEF Next, Executor, Writers

\* Every step keeps that open subscriptions are named.
LEMMA NamesOKStep ==
    ASSUME WakeInv, Next PROVE NamesOK'
<1> USE WakeAssumption DEF WakeInv
<1>1. ASSUME NEW k \in Keys, Record(k) \/ Observe(k) PROVE NamesOK'
      BY <1>1 DEF Record, Observe, WakeTypes, Slot, Exec, NamesOK, Live, ExecOK, board, lanes, names
<1>2. ASSUME Mark PROVE NamesOK'
      BY <1>2 DEF Mark, Larger, WakeTypes, Slot, Exec, NamesOK, Live, ExecOK, board, lanes, names
<1>3. ASSUME NEW s \in Subs, NEW k \in Keys, NEW c \in Conns, Open(s, k, c) PROVE NamesOK'
      BY <1>3 DEF Open, WakeTypes, Slot, Exec, NamesOK, Live, ExecOK, board, lanes, names
<1>4. ASSUME CaptureFails PROVE NamesOK'
      BY <1>4 DEF CaptureFails, Untrack, Idle, WakeTypes, Slot, Exec, NamesOK, Live, ExecOK, board, lanes, names
<1>5. ASSUME Capture PROVE NamesOK'
      BY <1>5 DEF Capture, WakeTypes, Slot, Exec, NamesOK, Live, ExecOK, board, lanes, names
<1>6. ASSUME Metadata PROVE NamesOK'
      BY <1>6 DEF Metadata, WakeTypes, Slot, Exec, NamesOK, Live, ExecOK, board, lanes, names
<1>7. ASSUME CatchUp PROVE NamesOK'
      BY <1>7 DEF CatchUp, AdmitAll, Admitted, Wakes, Larger, Idle, WakeTypes, Slot, Exec, NamesOK, Live, ExecOK, board, lanes, names
<1>8. ASSUME StartFanOut PROVE NamesOK'
      BY <1>8 DEF StartFanOut, FanOut, Idle, WakeTypes, Slot, Exec, NamesOK, Live, ExecOK, board, lanes, names
<1>9. ASSUME ClearKey PROVE NamesOK'
      BY <1>9 DEF ClearKey, WakeTypes, Slot, Exec, NamesOK, Live, ExecOK, board, lanes, names
<1>10. ASSUME EndFanOut PROVE NamesOK'
      BY <1>10 DEF EndFanOut, Idle, WakeTypes, Slot, Exec, NamesOK, Live, ExecOK, board, lanes, names
<1>11. ASSUME NEW k \in Keys, FanKey(k) PROVE NamesOK'
      BY <1>11 DEF FanKey, AdmitAll, Admitted, Wakes, Larger, Targets, WakeTypes, Slot, Exec, NamesOK, Live, ExecOK, board, lanes, names
<1>12. ASSUME NEW s \in Subs, Release(s) PROVE NamesOK'
      BY <1>12 DEF Release, Remove, RemoveKey, Untrack, Empty, WakeTypes, Slot, Exec, NamesOK, Live, ExecOK, board, lanes, names
<1>13. ASSUME NEW s \in Subs, DetachOne(s) PROVE NamesOK'
      BY <1>13 DEF DetachOne, Remove, RemoveKey, Untrack, Empty, WakeTypes, Slot, Exec, NamesOK, Live, ExecOK, board, lanes, names
<1>14. ASSUME NEW c \in Conns, Detach(c) PROVE NamesOK'
      BY <1>14 DEF Detach, WakeTypes, Slot, Exec, NamesOK, Live, ExecOK, board, lanes, names
<1>15. ASSUME Detached PROVE NamesOK'
      BY <1>15 DEF Detached, ShutLane, Empty, Idle, WakeTypes, Slot, Exec, NamesOK, Live, ExecOK, board, lanes, names
<1>16. ASSUME NEW c \in Conns, Finish(c) PROVE NamesOK'
      BY <1>16 DEF Finish, FinishKey, RemoveKey, Empty, NoWrite, WakeTypes, Slot, Exec, NamesOK, Live, ExecOK, board, lanes, names
<1>17. ASSUME NEW c \in Conns, Park(c) PROVE NamesOK'
      BY <1>17 DEF Park, WakeTypes, Slot, Exec, NamesOK, Live, ExecOK, board, lanes, names
<1>18. ASSUME NEW c \in Conns, Wake(c) PROVE NamesOK'
      BY <1>18 DEF Wake, WakeTypes, Slot, Exec, NamesOK, Live, ExecOK, board, lanes, names
<1>19. ASSUME NEW c \in Conns, Shutdown(c) PROVE NamesOK'
      BY <1>19 DEF Shutdown, ShutLane, Empty, NoWrite, WakeTypes, Slot, Exec, NamesOK, Live, ExecOK, board, lanes, names
<1>20. ASSUME NEW c \in Conns, NEW s \in Subs, Take(c, s) PROVE NamesOK'
      BY <1>20 DEF Take, NoWrite, WakeTypes, Slot, Exec, NamesOK, Live, ExecOK, board, lanes, names
<1> QED BY <1>1, <1>2, <1>3, <1>4, <1>5, <1>6, <1>7, <1>8, <1>9, <1>10, <1>11, <1>12, <1>13, <1>14, <1>15, <1>16, <1>17, <1>18, <1>19, <1>20 DEF Next, Executor, Writers

\* Every step keeps the executor's cursor.
LEMMA ExecOKStep ==
    ASSUME WakeInv, Next PROVE ExecOK'
<1> USE WakeAssumption DEF WakeInv
<1>1. ASSUME NEW k \in Keys, Record(k) \/ Observe(k) PROVE ExecOK'
      BY <1>1 DEF Record, Observe, WakeTypes, Slot, Exec, ExecOK, board, lanes, names
<1>2. ASSUME Mark PROVE ExecOK'
      BY <1>2 DEF Mark, Larger, WakeTypes, Slot, Exec, ExecOK, board, lanes, names
<1>3. ASSUME NEW s \in Subs, NEW k \in Keys, NEW c \in Conns, Open(s, k, c) PROVE ExecOK'
      BY <1>3 DEF Open, WakeTypes, Slot, Exec, ExecOK, board, lanes, names
<1>4. ASSUME CaptureFails PROVE ExecOK'
      BY <1>4 DEF CaptureFails, Untrack, Idle, WakeTypes, Slot, Exec, ExecOK, board, lanes, names
<1>5. ASSUME Capture PROVE ExecOK'
      BY <1>5 DEF Capture, WakeTypes, Slot, Exec, ExecOK, board, lanes, names
<1>6. ASSUME Metadata PROVE ExecOK'
      BY <1>6 DEF Metadata, WakeTypes, Slot, Exec, ExecOK, board, lanes, names
<1>7. ASSUME CatchUp PROVE ExecOK'
      BY <1>7 DEF CatchUp, AdmitAll, Admitted, Wakes, Larger, Idle, WakeTypes, Slot, Exec, ExecOK, board, lanes, names
<1>8. ASSUME StartFanOut PROVE ExecOK'
      BY <1>8 DEF StartFanOut, FanOut, Idle, WakeTypes, Slot, Exec, ExecOK, board, lanes, names
<1>9. ASSUME ClearKey PROVE ExecOK'
      BY <1>9 DEF ClearKey, WakeTypes, Slot, Exec, ExecOK, board, lanes, names
<1>10. ASSUME EndFanOut PROVE ExecOK'
      BY <1>10 DEF EndFanOut, Idle, WakeTypes, Slot, Exec, ExecOK, board, lanes, names
<1>11. ASSUME NEW k \in Keys, FanKey(k) PROVE ExecOK'
      BY <1>11 DEF FanKey, AdmitAll, Admitted, Wakes, Larger, Targets, WakeTypes, Slot, Exec, ExecOK, board, lanes, names
<1>12. ASSUME NEW s \in Subs, Release(s) PROVE ExecOK'
      BY <1>12 DEF Release, Remove, RemoveKey, Untrack, Empty, WakeTypes, Slot, Exec, ExecOK, board, lanes, names
<1>13. ASSUME NEW s \in Subs, DetachOne(s) PROVE ExecOK'
      BY <1>13 DEF DetachOne, Remove, RemoveKey, Untrack, Empty, WakeTypes, Slot, Exec, ExecOK, board, lanes, names
<1>14. ASSUME NEW c \in Conns, Detach(c) PROVE ExecOK'
      BY <1>14 DEF Detach, WakeTypes, Slot, Exec, ExecOK, board, lanes, names
<1>15. ASSUME Detached PROVE ExecOK'
      BY <1>15 DEF Detached, ShutLane, Empty, Idle, WakeTypes, Slot, Exec, ExecOK, board, lanes, names
<1>16. ASSUME NEW c \in Conns, Finish(c) PROVE ExecOK'
      BY <1>16 DEF Finish, FinishKey, RemoveKey, Empty, NoWrite, WakeTypes, Slot, Exec, ExecOK, board, lanes, names
<1>17. ASSUME NEW c \in Conns, Park(c) PROVE ExecOK'
      BY <1>17 DEF Park, WakeTypes, Slot, Exec, ExecOK, board, lanes, names
<1>18. ASSUME NEW c \in Conns, Wake(c) PROVE ExecOK'
      BY <1>18 DEF Wake, WakeTypes, Slot, Exec, ExecOK, board, lanes, names
<1>19. ASSUME NEW c \in Conns, Shutdown(c) PROVE ExecOK'
      BY <1>19 DEF Shutdown, ShutLane, Empty, NoWrite, WakeTypes, Slot, Exec, ExecOK, board, lanes, names
<1>20. ASSUME NEW c \in Conns, NEW s \in Subs, Take(c, s) PROVE ExecOK'
      BY <1>20 DEF Take, NoWrite, WakeTypes, Slot, Exec, ExecOK, board, lanes, names
<1> QED BY <1>1, <1>2, <1>3, <1>4, <1>5, <1>6, <1>7, <1>8, <1>9, <1>10, <1>11, <1>12, <1>13, <1>14, <1>15, <1>16, <1>17, <1>18, <1>19, <1>20 DEF Next, Executor, Writers

\* Every step keeps that marks stay behind the journal.
LEMMA BoardOKStep ==
    ASSUME WakeInv, Next PROVE BoardOK'
<1> USE WakeAssumption DEF WakeInv
<1>1. ASSUME NEW k \in Keys, Record(k) \/ Observe(k) PROVE BoardOK'
  <2>1. CASE Record(k)
    BY <2>1 DEF Record, BoardOK, WakeTypes, board
  <2>2. CASE Observe(k)
    BY <2>2 DEF Observe, BoardOK, WakeTypes, board
  <2> QED BY <1>1, <2>1, <2>2
<1>2. ASSUME Mark PROVE BoardOK'
  <2>1. marking \in Keys /\ marking' = NoKey /\ journal' = journal /\ announced' = announced
    BY <1>2 DEF Mark, WakeTypes
  <2>2. \A k \in Keys : dirty[k] \in Nat /\ announced[k] \in Nat /\ journal[k] \in Nat
    BY DEF WakeTypes
  <2>3. Larger(dirty[marking], journal[marking]) = announced[marking]
    BY <2>1, <2>2 DEF BoardOK, Larger
  <2>4. dirty \in [Keys -> Nat] /\ (dirty' = dirty \/ dirty' = [dirty EXCEPT ![marking] = announced[marking]])
    BY <1>2, <2>3 DEF Mark, WakeTypes, board
  <2>5. \A k \in Keys : dirty'[k] = dirty[k] \/ dirty'[k] = announced[k]
    BY <2>1, <2>4
  <2> QED BY <2>1, <2>2, <2>5 DEF BoardOK
<1>3. ASSUME NEW s \in Subs, NEW k \in Keys, NEW c \in Conns, Open(s, k, c) PROVE BoardOK'
      BY <1>3 DEF Open, WakeTypes, Slot, Exec, BoardOK, ExecOK, board, lanes, names
<1>4. ASSUME CaptureFails PROVE BoardOK'
  <2>1. exec.key \in Keys /\ Untrack(exec.key)
    BY <1>4 DEF CaptureFails, ExecOK
  <2>2. \A k \in Keys : dirty'[k] = dirty[k] \/ dirty'[k] = 0
    BY <2>1, UntrackLowers
  <2> QED BY <1>4, <2>2 DEF CaptureFails, BoardOK, WakeTypes
<1>5. ASSUME Capture PROVE BoardOK'
      BY <1>5 DEF Capture, WakeTypes, Slot, Exec, BoardOK, ExecOK, board, lanes, names
<1>6. ASSUME Metadata PROVE BoardOK'
      BY <1>6 DEF Metadata, WakeTypes, Slot, Exec, BoardOK, ExecOK, board, lanes, names
<1>7. ASSUME CatchUp PROVE BoardOK'
      BY <1>7 DEF CatchUp, AdmitAll, Admitted, Wakes, Larger, Idle, WakeTypes, Slot, Exec, BoardOK, ExecOK, board, lanes, names
<1>8. ASSUME StartFanOut PROVE BoardOK'
      BY <1>8 DEF StartFanOut, FanOut, Idle, WakeTypes, Slot, Exec, BoardOK, ExecOK, board, lanes, names
<1>9. ASSUME ClearKey PROVE BoardOK'
  <2>1. \A k \in Keys : dirty'[k] = dirty[k] \/ dirty'[k] = 0
    BY <1>9 DEF ClearKey, WakeTypes
  <2> QED BY <1>9, <2>1 DEF ClearKey, BoardOK, WakeTypes
<1>10. ASSUME EndFanOut PROVE BoardOK'
      BY <1>10 DEF EndFanOut, Idle, WakeTypes, Slot, Exec, BoardOK, ExecOK, board, lanes, names
<1>11. ASSUME NEW k \in Keys, FanKey(k) PROVE BoardOK'
      BY <1>11 DEF FanKey, AdmitAll, Admitted, Wakes, Larger, Targets, WakeTypes, Slot, Exec, BoardOK, ExecOK, board, lanes, names
<1>12. ASSUME NEW s \in Subs, Release(s) PROVE BoardOK'
  <2>1. keyOf[s] \in Keys /\ Untrack(keyOf[s])
    BY <1>12 DEF Release, Remove, NamesOK
  <2>2. \A k \in Keys : dirty'[k] = dirty[k] \/ dirty'[k] = 0
    BY <2>1, UntrackLowers
  <2> QED BY <1>12, <2>2 DEF Release, Remove, BoardOK, WakeTypes
<1>13. ASSUME NEW s \in Subs, DetachOne(s) PROVE BoardOK'
  <2>1. keyOf[s] \in Keys /\ Untrack(keyOf[s])
    BY <1>13 DEF DetachOne, Remove, NamesOK
  <2>2. \A k \in Keys : dirty'[k] = dirty[k] \/ dirty'[k] = 0
    BY <2>1, UntrackLowers
  <2> QED BY <1>13, <2>2 DEF DetachOne, Remove, BoardOK, WakeTypes
<1>14. ASSUME NEW c \in Conns, Detach(c) PROVE BoardOK'
      BY <1>14 DEF Detach, WakeTypes, Slot, Exec, BoardOK, ExecOK, board, lanes, names
<1>15. ASSUME Detached PROVE BoardOK'
      BY <1>15 DEF Detached, ShutLane, Empty, Idle, WakeTypes, Slot, Exec, BoardOK, ExecOK, board, lanes, names
<1>16. ASSUME NEW c \in Conns, Finish(c) PROVE BoardOK'
      BY <1>16 DEF Finish, FinishKey, RemoveKey, Empty, NoWrite, WakeTypes, Slot, Exec, BoardOK, ExecOK, board, lanes, names
<1>17. ASSUME NEW c \in Conns, Park(c) PROVE BoardOK'
      BY <1>17 DEF Park, WakeTypes, Slot, Exec, BoardOK, ExecOK, board, lanes, names
<1>18. ASSUME NEW c \in Conns, Wake(c) PROVE BoardOK'
      BY <1>18 DEF Wake, WakeTypes, Slot, Exec, BoardOK, ExecOK, board, lanes, names
<1>19. ASSUME NEW c \in Conns, Shutdown(c) PROVE BoardOK'
      BY <1>19 DEF Shutdown, ShutLane, Empty, NoWrite, WakeTypes, Slot, Exec, BoardOK, ExecOK, board, lanes, names
<1>20. ASSUME NEW c \in Conns, NEW s \in Subs, Take(c, s) PROVE BoardOK'
      BY <1>20 DEF Take, NoWrite, WakeTypes, Slot, Exec, BoardOK, ExecOK, board, lanes, names
<1> QED BY <1>1, <1>2, <1>3, <1>4, <1>5, <1>6, <1>7, <1>8, <1>9, <1>10, <1>11, <1>12, <1>13, <1>14, <1>15, <1>16, <1>17, <1>18, <1>19, <1>20 DEF Next, Executor, Writers

\* Every step keeps the fan-out's promise.
LEMMA FanOKStep ==
    ASSUME WakeInv, Next PROVE FanOK'
<1> USE WakeAssumption DEF WakeInv
<1>1. ASSUME NEW k \in Keys, Record(k) \/ Observe(k) PROVE FanOK'
      BY <1>1 DEF Record, Observe, FanOK, Live, Reachable, board, lanes, names
<1>2. ASSUME Mark PROVE FanOK'
      BY <1>2 DEF Mark, Larger, WakeTypes, Slot, Exec, FanOK, Live, Reachable, board, lanes, names
<1>3. ASSUME NEW s \in Subs, NEW k \in Keys, NEW c \in Conns, Open(s, k, c) PROVE FanOK'
      BY <1>3 DEF Open, WakeTypes, Slot, Exec, FanOK, Live, Reachable, board, lanes, names
<1>4. ASSUME CaptureFails PROVE FanOK'
      BY <1>4 DEF CaptureFails, Untrack, Idle, WakeTypes, Slot, Exec, FanOK, Live, Reachable, board, lanes, names
<1>5. ASSUME Capture PROVE FanOK'
      BY <1>5 DEF Capture, WakeTypes, Slot, Exec, FanOK, Live, Reachable, board, lanes, names
<1>6. ASSUME Metadata PROVE FanOK'
      BY <1>6 DEF Metadata, WakeTypes, Slot, Exec, FanOK, Live, Reachable, board, lanes, names
<1>7. ASSUME CatchUp PROVE FanOK'
      BY <1>7 DEF CatchUp, AdmitAll, Admitted, Wakes, Larger, Idle, WakeTypes, Slot, Exec, FanOK, Live, Reachable, board, lanes, names
<1>8. ASSUME StartFanOut PROVE FanOK'
      BY <1>8 DEF StartFanOut, FanOut, Idle, WakeTypes, Slot, Exec, FanOK, Live, Reachable, board, lanes, names
<1>9. ASSUME ClearKey PROVE FanOK'
      BY <1>9 DEF ClearKey, WakeTypes, Slot, Exec, FanOK, Live, Reachable, board, lanes, names
<1>10. ASSUME EndFanOut PROVE FanOK'
      BY <1>10 DEF EndFanOut, Idle, WakeTypes, Slot, Exec, FanOK, Live, Reachable, board, lanes, names
<1>11. ASSUME NEW k \in Keys, FanKey(k) PROVE FanOK'
  <2>1. exec.todo[k] \in Nat
    BY <1>11 DEF WakeTypes, Exec
  <2>2. exec'.key = k /\ exec'.hw = exec.todo[k] /\ exec'.todo = exec.todo
    BY <1>11 DEF FanKey, WakeTypes, Exec
  <2>3. ASSUME NEW s \in Subs, Live(s)', Reachable(s)', keyOf'[s] = k
        PROVE  notified'[s] >= exec.todo[k]
    <3>1. Live(s) /\ Reachable(s) /\ keyOf[s] = k
      BY <1>11, <2>3 DEF FanKey, Live, Reachable, names
    <3>2. notified[s] \in Nat
      BY DEF WakeTypes
    <3>3. CASE notified[s] < exec.todo[k]
      BY <1>11, <2>1, <3>1, <3>2, <3>3, LargerType DEF FanKey, AdmitAll, Targets
    <3>4. CASE ~(notified[s] < exec.todo[k])
      BY <1>11, <2>1, <3>2, <3>4, LargerType DEF FanKey, AdmitAll, Targets
    <3> QED BY <3>3, <3>4
  <2> QED BY <2>2, <2>3 DEF FanOK
<1>12. ASSUME NEW s \in Subs, Release(s) PROVE FanOK'
      BY <1>12 DEF Release, Remove, RemoveKey, Untrack, Empty, WakeTypes, Slot, Exec, FanOK, Live, Reachable, board, lanes, names
<1>13. ASSUME NEW s \in Subs, DetachOne(s) PROVE FanOK'
      BY <1>13 DEF DetachOne, Remove, RemoveKey, Untrack, Empty, WakeTypes, Slot, Exec, FanOK, Live, Reachable, board, lanes, names
<1>14. ASSUME NEW c \in Conns, Detach(c) PROVE FanOK'
      BY <1>14 DEF Detach, WakeTypes, Slot, Exec, FanOK, Live, Reachable, board, lanes, names
<1>15. ASSUME Detached PROVE FanOK'
      BY <1>15 DEF Detached, ShutLane, Empty, Idle, WakeTypes, Slot, Exec, FanOK, Live, Reachable, board, lanes, names
<1>16. ASSUME NEW c \in Conns, Finish(c) PROVE FanOK'
      BY <1>16 DEF Finish, FinishKey, RemoveKey, Empty, NoWrite, WakeTypes, Slot, Exec, FanOK, Live, Reachable, board, lanes, names
<1>17. ASSUME NEW c \in Conns, Park(c) PROVE FanOK'
      BY <1>17 DEF Park, WakeTypes, Slot, Exec, FanOK, Live, Reachable, board, lanes, names
<1>18. ASSUME NEW c \in Conns, Wake(c) PROVE FanOK'
      BY <1>18 DEF Wake, WakeTypes, Slot, Exec, FanOK, Live, Reachable, board, lanes, names
<1>19. ASSUME NEW c \in Conns, Shutdown(c) PROVE FanOK'
      BY <1>19 DEF Shutdown, ShutLane, Empty, NoWrite, WakeTypes, Slot, Exec, FanOK, Live, Reachable, board, lanes, names
<1>20. ASSUME NEW c \in Conns, NEW s \in Subs, Take(c, s) PROVE FanOK'
      BY <1>20 DEF Take, NoWrite, WakeTypes, Slot, Exec, FanOK, Live, Reachable, board, lanes, names
<1> QED BY <1>1, <1>2, <1>3, <1>4, <1>5, <1>6, <1>7, <1>8, <1>9, <1>10, <1>11, <1>12, <1>13, <1>14, <1>15, <1>16, <1>17, <1>18, <1>19, <1>20 DEF Next, Executor, Writers

\* Every step keeps that pending slots are the queued ones.
LEMMA PendingOKStep ==
    ASSUME WakeInv, Next PROVE PendingOK'
<1> USE WakeAssumption DEF WakeInv
<1>1. ASSUME NEW k \in Keys, Record(k) \/ Observe(k) PROVE PendingOK'
      BY <1>1 DEF Record, Observe, PendingOK, lanes
<1>2. ASSUME Mark PROVE PendingOK'
      BY <1>2 DEF Mark, PendingOK, lanes
<1>3. ASSUME NEW s \in Subs, NEW k \in Keys, NEW c \in Conns, Open(s, k, c) PROVE PendingOK'
      BY <1>3 DEF Open, PendingOK, lanes
<1>4. ASSUME CaptureFails PROVE PendingOK'
      BY <1>4 DEF CaptureFails, PendingOK, lanes
<1>5. ASSUME Capture PROVE PendingOK'
      BY <1>5 DEF Capture, PendingOK, lanes
<1>6. ASSUME Metadata PROVE PendingOK'
      BY <1>6 DEF Metadata, PendingOK, lanes
<1>7. ASSUME CatchUp PROVE PendingOK'
  <2>1. CASE UNCHANGED <<slot, pending, token, notified>>
    BY <2>1 DEF PendingOK
  <2>2. ASSUME NEW S \in SUBSET Subs, NEW h \in Nat, News(S, h) PROVE PendingOK'
    <3>1. ASSUME NEW s \in Subs PROVE s \in pending' <=> slot'[s].phase = "queued"
      <4>1. s \in pending <=> slot[s].phase = "queued"
        BY DEF PendingOK
      <4>2. s \in pending' <=> s \in pending \/ (s \in S /\ slot[s].phase = "none")
        BY <2>2, NewsPending
      <4>3. slot'[s].phase = IF s \in S /\ slot[s].phase = "none" THEN "queued" ELSE slot[s].phase
        BY <2>2, NewsSlots
      <4> QED BY <4>1, <4>2, <4>3
    <3> QED BY <3>1 DEF PendingOK
  <2> QED BY <1>7, <2>1, <2>2, CatchUpNews
<1>8. ASSUME StartFanOut PROVE PendingOK'
      BY <1>8 DEF StartFanOut, PendingOK, lanes
<1>9. ASSUME ClearKey PROVE PendingOK'
      BY <1>9 DEF ClearKey, PendingOK, lanes
<1>10. ASSUME EndFanOut PROVE PendingOK'
      BY <1>10 DEF EndFanOut, PendingOK, lanes
<1>11. ASSUME NEW k \in Keys, FanKey(k) PROVE PendingOK'
  <2>1. PICK S \in SUBSET Subs, h \in Nat : News(S, h)
    BY <1>11, FanKeyNews
  <2> QED
    <3>1. ASSUME NEW s \in Subs PROVE s \in pending' <=> slot'[s].phase = "queued"
      <4>1. s \in pending <=> slot[s].phase = "queued"
        BY DEF PendingOK
      <4>2. s \in pending' <=> s \in pending \/ (s \in S /\ slot[s].phase = "none")
        BY <2>1, NewsPending
      <4>3. slot'[s].phase = IF s \in S /\ slot[s].phase = "none" THEN "queued" ELSE slot[s].phase
        BY <2>1, NewsSlots
      <4> QED BY <4>1, <4>2, <4>3
    <3> QED BY <3>1 DEF PendingOK
<1>12. ASSUME NEW s \in Subs, Release(s) PROVE PendingOK'
      BY <1>12 DEF Release, Remove, RemoveKey, Empty, PendingOK, WakeTypes
<1>13. ASSUME NEW s \in Subs, DetachOne(s) PROVE PendingOK'
      BY <1>13 DEF DetachOne, Remove, RemoveKey, Empty, PendingOK, WakeTypes
<1>14. ASSUME NEW c \in Conns, Detach(c) PROVE PendingOK'
      BY <1>14 DEF Detach, PendingOK, lanes
<1>15. ASSUME Detached PROVE PendingOK'
      BY <1>15 DEF Detached, ShutLane, Empty, PendingOK, WakeTypes
<1>16. ASSUME NEW c \in Conns, Finish(c) PROVE PendingOK'
  <2>1. CASE shut[c]
    BY <1>16, <2>1 DEF Finish, PendingOK
  <2>2. CASE ~shut[c]
    <3>1. writer[c].sub \in Subs /\ writer[c].rev \in Nat
      BY <1>16 DEF Finish, WakeTypes
    <3>2. FinishKey(writer[c].sub, writer[c].rev)
      BY <1>16, <2>2 DEF Finish
    <3> QED BY <3>1, <3>2, FinishSlots DEF PendingOK, Empty
  <2> QED BY <2>1, <2>2
<1>17. ASSUME NEW c \in Conns, Park(c) PROVE PendingOK'
      BY <1>17 DEF Park, PendingOK, lanes
<1>18. ASSUME NEW c \in Conns, Wake(c) PROVE PendingOK'
      BY <1>18 DEF Wake, PendingOK, lanes
<1>19. ASSUME NEW c \in Conns, Shutdown(c) PROVE PendingOK'
      BY <1>19 DEF Shutdown, ShutLane, Empty, PendingOK, WakeTypes
<1>20. ASSUME NEW c \in Conns, NEW s \in Subs, Take(c, s) PROVE PendingOK'
      BY <1>20 DEF Take, PendingOK, WakeTypes, Slot
<1> QED BY <1>1, <1>2, <1>3, <1>4, <1>5, <1>6, <1>7, <1>8, <1>9, <1>10, <1>11, <1>12, <1>13, <1>14, <1>15, <1>16, <1>17, <1>18, <1>19, <1>20 DEF Next, Executor, Writers

\* Every step keeps that slots belong to open subscriptions.
LEMMA OwnerOKStep ==
    ASSUME WakeInv, Next PROVE OwnerOK'
<1> USE WakeAssumption DEF WakeInv
<1>1. ASSUME NEW k \in Keys, Record(k) \/ Observe(k) PROVE OwnerOK'
      BY <1>1 DEF Record, Observe, OwnerOK, lanes, names
<1>2. ASSUME Mark PROVE OwnerOK'
      BY <1>2 DEF Mark, OwnerOK, lanes, names
<1>3. ASSUME NEW s \in Subs, NEW k \in Keys, NEW c \in Conns, Open(s, k, c) PROVE OwnerOK'
      BY <1>3 DEF Open, OwnerOK, lanes, WakeTypes
<1>4. ASSUME CaptureFails PROVE OwnerOK'
      BY <1>4 DEF CaptureFails, OwnerOK, lanes, WakeTypes, ExecOK
<1>5. ASSUME Capture PROVE OwnerOK'
      BY <1>5 DEF Capture, OwnerOK, lanes, WakeTypes, ExecOK
<1>6. ASSUME Metadata PROVE OwnerOK'
      BY <1>6 DEF Metadata, OwnerOK, lanes, names
<1>7. ASSUME CatchUp PROVE OwnerOK'
  <2>1. CASE UNCHANGED <<slot, pending, token, notified>>
    BY <1>7, <2>1 DEF CatchUp, OwnerOK, names
  <2>2. ASSUME NEW S \in SUBSET Subs, NEW h \in Nat, News(S, h) PROVE OwnerOK'
    <3>1. ASSUME NEW s \in Subs, slot'[s].phase # "none"
          PROVE  stage'[s] = "open" /\ connOf'[s] \in Conns /\ ~shut'[connOf'[s]]
      <4>1. stage' = stage /\ connOf' = connOf /\ shut' = shut
        BY <1>7 DEF CatchUp, names
      <4>2. CASE s \in S
        BY <2>2, <4>1, <4>2 DEF News
      <4>3. CASE s \notin S
        BY <2>2, <3>1, <4>1, <4>3, NewsSlots DEF OwnerOK
      <4> QED BY <4>2, <4>3
    <3> QED BY <3>1 DEF OwnerOK
  <2> QED BY <1>7, <2>1, <2>2, CatchUpNews
<1>8. ASSUME StartFanOut PROVE OwnerOK'
      BY <1>8 DEF StartFanOut, OwnerOK, lanes, names
<1>9. ASSUME ClearKey PROVE OwnerOK'
      BY <1>9 DEF ClearKey, OwnerOK, lanes, names
<1>10. ASSUME EndFanOut PROVE OwnerOK'
      BY <1>10 DEF EndFanOut, OwnerOK, lanes, names
<1>11. ASSUME NEW k \in Keys, FanKey(k) PROVE OwnerOK'
  <2>1. PICK S \in SUBSET Subs, h \in Nat : News(S, h)
    BY <1>11, FanKeyNews
  <2> QED
    <3>1. ASSUME NEW s \in Subs, slot'[s].phase # "none"
          PROVE  stage'[s] = "open" /\ connOf'[s] \in Conns /\ ~shut'[connOf'[s]]
      <4>1. stage' = stage /\ connOf' = connOf /\ shut' = shut
        BY <1>11 DEF FanKey, names
      <4>2. CASE s \in S
        BY <2>1, <4>1, <4>2 DEF News
      <4>3. CASE s \notin S
        BY <2>1, <3>1, <4>1, <4>3, NewsSlots DEF OwnerOK
      <4> QED BY <4>2, <4>3
    <3> QED BY <3>1 DEF OwnerOK
<1>12. ASSUME NEW s \in Subs, Release(s) PROVE OwnerOK'
      BY <1>12 DEF Release, Remove, RemoveKey, Empty, OwnerOK, WakeTypes
<1>13. ASSUME NEW s \in Subs, DetachOne(s) PROVE OwnerOK'
      BY <1>13 DEF DetachOne, Remove, RemoveKey, Empty, OwnerOK, WakeTypes
<1>14. ASSUME NEW c \in Conns, Detach(c) PROVE OwnerOK'
      BY <1>14 DEF Detach, OwnerOK, lanes, names
<1>15. ASSUME Detached PROVE OwnerOK'
      BY <1>15 DEF Detached, ShutLane, Empty, OwnerOK, WakeTypes, ExecOK, names
<1>16. ASSUME NEW c \in Conns, Finish(c) PROVE OwnerOK'
  <2>1. CASE shut[c]
    BY <1>16, <2>1 DEF Finish, OwnerOK, names
  <2>2. CASE ~shut[c]
    <3>1. writer[c].sub \in Subs /\ writer[c].rev \in Nat
      BY <1>16 DEF Finish, WakeTypes
    <3>2. FinishKey(writer[c].sub, writer[c].rev)
      BY <1>16, <2>2 DEF Finish
    <3>3. \A x \in Subs : slot'[x].phase # "none" => slot[x].phase # "none"
      BY <3>1, <3>2, FinishSlots DEF Empty
    <3> QED BY <1>16, <3>3 DEF Finish, OwnerOK, names
  <2> QED BY <2>1, <2>2
<1>17. ASSUME NEW c \in Conns, Park(c) PROVE OwnerOK'
      BY <1>17 DEF Park, OwnerOK, lanes, names
<1>18. ASSUME NEW c \in Conns, Wake(c) PROVE OwnerOK'
      BY <1>18 DEF Wake, OwnerOK, lanes, names
<1>19. ASSUME NEW c \in Conns, Shutdown(c) PROVE OwnerOK'
      BY <1>19 DEF Shutdown, ShutLane, Empty, OwnerOK, WakeTypes, names
<1>20. ASSUME NEW c \in Conns, NEW s \in Subs, Take(c, s) PROVE OwnerOK'
  <2>1. slot[s].phase # "none" /\ \A x \in Subs : x # s => slot'[x] = slot[x]
    BY <1>20 DEF Take, PendingOK, WakeTypes
  <2> QED BY <1>20, <2>1 DEF Take, OwnerOK, names
<1> QED BY <1>1, <1>2, <1>3, <1>4, <1>5, <1>6, <1>7, <1>8, <1>9, <1>10, <1>11, <1>12, <1>13, <1>14, <1>15, <1>16, <1>17, <1>18, <1>19, <1>20 DEF Next, Executor, Writers

\* Every step keeps that a sleeping writer has a token.
LEMMA TokenOKStep ==
    ASSUME WakeInv, Next PROVE TokenOK'
<1> USE WakeAssumption DEF WakeInv
<1>1. ASSUME NEW k \in Keys, Record(k) \/ Observe(k) PROVE TokenOK'
      BY <1>1 DEF Record, Observe, TokenOK, lanes, names
<1>2. ASSUME Mark PROVE TokenOK'
      BY <1>2 DEF Mark, TokenOK, lanes, names
<1>3. ASSUME NEW s \in Subs, NEW k \in Keys, NEW c \in Conns, Open(s, k, c) PROVE TokenOK'
      BY <1>3 DEF Open, TokenOK, OwnerOK, PendingOK, lanes, WakeTypes
<1>4. ASSUME CaptureFails PROVE TokenOK'
      BY <1>4 DEF CaptureFails, TokenOK, lanes, names
<1>5. ASSUME Capture PROVE TokenOK'
      BY <1>5 DEF Capture, TokenOK, lanes, names
<1>6. ASSUME Metadata PROVE TokenOK'
      BY <1>6 DEF Metadata, TokenOK, lanes, names
<1>7. ASSUME CatchUp PROVE TokenOK'
  <2>1. CASE UNCHANGED <<slot, pending, token, notified>>
    BY <1>7, <2>1 DEF CatchUp, TokenOK, names
  <2>2. ASSUME NEW S \in SUBSET Subs, NEW h \in Nat, News(S, h) PROVE TokenOK'
    <3>1. ASSUME NEW s \in Subs, s \in pending', parked'[connOf'[s]]
          PROVE  token'[connOf'[s]]
      <4>1. connOf' = connOf /\ parked' = parked
        BY <1>7 DEF CatchUp, names
      <4>2. connOf[s] \in Conns
        BY <2>2, <3>1, NewsPending DEF News, PendingOK, OwnerOK
      <4> QED BY <2>2, <3>1, <4>1, <4>2, NewsPending DEF TokenOK
    <3> QED BY <3>1 DEF TokenOK
  <2> QED BY <1>7, <2>1, <2>2, CatchUpNews
<1>8. ASSUME StartFanOut PROVE TokenOK'
      BY <1>8 DEF StartFanOut, TokenOK, lanes, names
<1>9. ASSUME ClearKey PROVE TokenOK'
      BY <1>9 DEF ClearKey, TokenOK, lanes, names
<1>10. ASSUME EndFanOut PROVE TokenOK'
      BY <1>10 DEF EndFanOut, TokenOK, lanes, names
<1>11. ASSUME NEW k \in Keys, FanKey(k) PROVE TokenOK'
  <2>1. PICK S \in SUBSET Subs, h \in Nat : News(S, h)
    BY <1>11, FanKeyNews
  <2> QED
    <3>1. ASSUME NEW s \in Subs, s \in pending', parked'[connOf'[s]]
          PROVE  token'[connOf'[s]]
      <4>1. connOf' = connOf /\ parked' = parked
        BY <1>11 DEF FanKey, names
      <4>2. connOf[s] \in Conns
        BY <2>1, <3>1, NewsPending DEF News, PendingOK, OwnerOK
      <4> QED BY <2>1, <3>1, <4>1, <4>2, NewsPending DEF TokenOK
    <3> QED BY <3>1 DEF TokenOK
<1>12. ASSUME NEW s \in Subs, Release(s) PROVE TokenOK'
      BY <1>12 DEF Release, Remove, RemoveKey, TokenOK
<1>13. ASSUME NEW s \in Subs, DetachOne(s) PROVE TokenOK'
      BY <1>13 DEF DetachOne, Remove, RemoveKey, TokenOK
<1>14. ASSUME NEW c \in Conns, Detach(c) PROVE TokenOK'
      BY <1>14 DEF Detach, TokenOK, lanes, names
<1>15. ASSUME Detached PROVE TokenOK'
      BY <1>15 DEF Detached, ShutLane, TokenOK, WakeTypes, ExecOK, names
<1>16. ASSUME NEW c \in Conns, Finish(c) PROVE TokenOK'
  <2>1. CASE shut[c]
    BY <1>16, <2>1 DEF Finish, TokenOK, names
  <2>2. CASE ~shut[c]
    <3>1. writer[c].sub \in Subs /\ writer[c].rev \in Nat /\ connOf[writer[c].sub] = c
      BY <1>16 DEF Finish, WakeTypes, HoldsOK, Holds
    <3>2. FinishKey(writer[c].sub, writer[c].rev)
      BY <1>16, <2>2 DEF Finish
    <3>3. token' = [token EXCEPT ![c] = @ \/ pending' # pending] /\ connOf' = connOf /\ parked' = parked
      BY <1>16, <2>2 DEF Finish, names
    <3>4. ASSUME NEW s \in Subs, s \in pending', parked'[connOf'[s]] PROVE token'[connOf'[s]]
      <4>1. CASE s \in pending
        BY <3>3, <3>4, <4>1 DEF TokenOK, WakeTypes
      <4>2. CASE s \notin pending
        <5>1. s = writer[c].sub /\ pending' # pending
          BY <3>1, <3>2, <3>4, <4>2, FinishSlots
        <5> QED BY <3>1, <3>3, <5>1 DEF WakeTypes
      <4> QED BY <4>1, <4>2
    <3> QED BY <3>4 DEF TokenOK
  <2> QED BY <2>1, <2>2
<1>17. ASSUME NEW c \in Conns, Park(c) PROVE TokenOK'
      BY <1>17 DEF Park, TokenOK, WakeTypes, names
<1>18. ASSUME NEW c \in Conns, Wake(c) PROVE TokenOK'
      BY <1>18 DEF Wake, TokenOK, WakeTypes, names
<1>19. ASSUME NEW c \in Conns, Shutdown(c) PROVE TokenOK'
      BY <1>19 DEF Shutdown, ShutLane, TokenOK, WakeTypes, names
<1>20. ASSUME NEW c \in Conns, NEW s \in Subs, Take(c, s) PROVE TokenOK'
      BY <1>20 DEF Take, TokenOK, names
<1> QED BY <1>1, <1>2, <1>3, <1>4, <1>5, <1>6, <1>7, <1>8, <1>9, <1>10, <1>11, <1>12, <1>13, <1>14, <1>15, <1>16, <1>17, <1>18, <1>19, <1>20 DEF Next, Executor, Writers

\* Every step keeps what a writer holds.
LEMMA HoldsOKStep ==
    ASSUME WakeInv, Next PROVE HoldsOK'
<1> USE WakeAssumption DEF WakeInv
<1>1. ASSUME NEW k \in Keys, Record(k) \/ Observe(k) PROVE HoldsOK'
      BY <1>1 DEF Record, Observe, HoldsOK, Holds, Live, lanes, names
<1>2. ASSUME Mark PROVE HoldsOK'
      BY <1>2 DEF Mark, HoldsOK, Holds, Live, lanes, names
<1>3. ASSUME NEW s \in Subs, NEW k \in Keys, NEW c \in Conns, Open(s, k, c) PROVE HoldsOK'
  <2>1. ASSUME NEW d \in Conns, writer[d].sub # NoSub
        PROVE  writer[d].sub # s /\ writer[d].sub \in Subs
    BY <1>3, <2>1 DEF Open, HoldsOK, Holds, WakeTypes
  <2>2. \A x \in Subs : x # s => connOf'[x] = connOf[x]
    BY <1>3 DEF Open, WakeTypes
  <2> QED BY <1>3, <2>1, <2>2 DEF Open, HoldsOK, Holds, Live, lanes
<1>4. ASSUME CaptureFails PROVE HoldsOK'
  <2>1. exec.sub \in Subs /\ stage[exec.sub] = "new"
    BY <1>4 DEF CaptureFails, ExecOK
  <2>2. ASSUME NEW d \in Conns, writer[d].sub # NoSub
        PROVE  writer[d].sub # exec.sub /\ writer[d].sub \in Subs
    BY <2>1, <2>2 DEF HoldsOK, Holds, WakeTypes
  <2>3. \A x \in Subs : x # exec.sub => stage'[x] = stage[x] /\ told'[x] = told[x]
    BY <1>4 DEF CaptureFails, WakeTypes
  <2> QED BY <1>4, <2>2, <2>3 DEF CaptureFails, HoldsOK, Holds, Live, lanes
<1>5. ASSUME Capture PROVE HoldsOK'
  <2>1. exec.sub \in Subs /\ stage[exec.sub] = "new"
    BY <1>5 DEF Capture, ExecOK
  <2>2. ASSUME NEW d \in Conns, writer[d].sub # NoSub
        PROVE  writer[d].sub # exec.sub /\ writer[d].sub \in Subs
    BY <2>1, <2>2 DEF HoldsOK, Holds, WakeTypes
  <2>3. \A x \in Subs : x # exec.sub => stage'[x] = stage[x] /\ told'[x] = told[x]
    BY <1>5 DEF Capture, WakeTypes
  <2> QED BY <1>5, <2>2, <2>3 DEF Capture, HoldsOK, Holds, Live, lanes
<1>6. ASSUME Metadata PROVE HoldsOK'
      BY <1>6 DEF Metadata, HoldsOK, Holds, Live, lanes, names
<1>7. ASSUME CatchUp PROVE HoldsOK'
  <2>1. CASE UNCHANGED <<slot, pending, token, notified>>
    BY <1>7, <2>1 DEF CatchUp, HoldsOK, Holds, Live, names
  <2>2. ASSUME NEW S \in SUBSET Subs, NEW h \in Nat, News(S, h) PROVE HoldsOK'
    <3>1. writer' = writer /\ connOf' = connOf /\ stage' = stage /\ told' = told /\ shut' = shut
      BY <1>7 DEF CatchUp, names
    <3>2. ASSUME NEW d \in Conns, writer[d].sub # NoSub
          PROVE  LET s == writer[d].sub IN
                 /\ slot[s].phase = "inflight" <=> slot'[s].phase = "inflight"
                 /\ slot'[s].phase = "inflight" =>
                      /\ writer[d].rev <= slot'[s].rev
                      /\ writer[d].rev = slot'[s].rev => writer[d].msg = slot'[s].hw
                      /\ writer[d].rev < slot'[s].rev => writer[d].msg < slot'[s].hw
      <4> DEFINE s == writer[d].sub
      <4>1. s \in Subs /\ writer[d].rev \in Nat /\ writer[d].msg \in Nat
        BY <3>2 DEF WakeTypes
      <4>2. slot[s].rev \in Nat /\ slot[s].hw \in Nat /\ notified[s] \in Nat
        BY <4>1 DEF WakeTypes, Slot
      <4>3. slot[s].phase = "inflight" =>
              /\ slot[s].hw = notified[s] /\ writer[d].rev <= slot[s].rev
              /\ writer[d].rev = slot[s].rev => writer[d].msg = slot[s].hw
              /\ writer[d].rev < slot[s].rev => writer[d].msg < slot[s].hw
        BY <3>2, <4>1 DEF HoldsOK, Holds, SlotOK
      <4>4. CASE s \notin S
        BY <2>2, <4>1, <4>3, <4>4, NewsSlots
      <4>5. CASE s \in S
        <5>1. /\ slot'[s].phase = IF slot[s].phase = "none" THEN "queued" ELSE slot[s].phase
              /\ slot'[s].rev = slot[s].rev + 1 /\ slot'[s].hw = h /\ h > notified[s]
          BY <2>2, <4>1, <4>5, NewsSlots
        <5> QED BY <4>1, <4>2, <4>3, <5>1
      <4> QED BY <4>4, <4>5
    <3> QED BY <3>1, <3>2 DEF HoldsOK, Holds, Live
  <2> QED BY <1>7, <2>1, <2>2, CatchUpNews
<1>8. ASSUME StartFanOut PROVE HoldsOK'
      BY <1>8 DEF StartFanOut, HoldsOK, Holds, Live, lanes, names
<1>9. ASSUME ClearKey PROVE HoldsOK'
      BY <1>9 DEF ClearKey, HoldsOK, Holds, Live, lanes, names
<1>10. ASSUME EndFanOut PROVE HoldsOK'
      BY <1>10 DEF EndFanOut, HoldsOK, Holds, Live, lanes, names
<1>11. ASSUME NEW k \in Keys, FanKey(k) PROVE HoldsOK'
  <2>1. PICK S \in SUBSET Subs, h \in Nat : News(S, h)
    BY <1>11, FanKeyNews
  <2> QED
    <3>1. writer' = writer /\ connOf' = connOf /\ stage' = stage /\ told' = told /\ shut' = shut
      BY <1>11 DEF FanKey, names
    <3>2. ASSUME NEW d \in Conns, writer[d].sub # NoSub
          PROVE  LET s == writer[d].sub IN
                 /\ slot[s].phase = "inflight" <=> slot'[s].phase = "inflight"
                 /\ slot'[s].phase = "inflight" =>
                      /\ writer[d].rev <= slot'[s].rev
                      /\ writer[d].rev = slot'[s].rev => writer[d].msg = slot'[s].hw
                      /\ writer[d].rev < slot'[s].rev => writer[d].msg < slot'[s].hw
      <4> DEFINE s == writer[d].sub
      <4>1. s \in Subs /\ writer[d].rev \in Nat /\ writer[d].msg \in Nat
        BY <3>2 DEF WakeTypes
      <4>2. slot[s].rev \in Nat /\ slot[s].hw \in Nat /\ notified[s] \in Nat
        BY <4>1 DEF WakeTypes, Slot
      <4>3. slot[s].phase = "inflight" =>
              /\ slot[s].hw = notified[s] /\ writer[d].rev <= slot[s].rev
              /\ writer[d].rev = slot[s].rev => writer[d].msg = slot[s].hw
              /\ writer[d].rev < slot[s].rev => writer[d].msg < slot[s].hw
        BY <3>2, <4>1 DEF HoldsOK, Holds, SlotOK
      <4>4. CASE s \notin S
        BY <2>1, <4>1, <4>3, <4>4, NewsSlots
      <4>5. CASE s \in S
        <5>1. /\ slot'[s].phase = IF slot[s].phase = "none" THEN "queued" ELSE slot[s].phase
              /\ slot'[s].rev = slot[s].rev + 1 /\ slot'[s].hw = h /\ h > notified[s]
          BY <2>1, <4>1, <4>5, NewsSlots
        <5> QED BY <4>1, <4>2, <4>3, <5>1
      <4> QED BY <4>4, <4>5
    <3> QED BY <3>1, <3>2 DEF HoldsOK, Holds, Live
<1>12. ASSUME NEW s \in Subs, Release(s) PROVE HoldsOK'
  <2>1. /\ slot'[s].phase = "none" /\ stage'[s] = "gone"
        /\ \A x \in Subs : x # s => slot'[x] = slot[x] /\ stage'[x] = stage[x]
    BY <1>12 DEF Release, Remove, RemoveKey, Empty, WakeTypes
  <2>2. \A d \in Conns : writer[d].sub # NoSub => writer[d].sub \in Subs
    BY DEF WakeTypes
  <2> QED BY <1>12, <2>1, <2>2 DEF Release, Remove, HoldsOK, Holds, Live
<1>13. ASSUME NEW s \in Subs, DetachOne(s) PROVE HoldsOK'
  <2>1. /\ slot'[s].phase = "none" /\ stage'[s] = "gone"
        /\ \A x \in Subs : x # s => slot'[x] = slot[x] /\ stage'[x] = stage[x]
    BY <1>13 DEF DetachOne, Remove, RemoveKey, Empty, WakeTypes
  <2>2. \A d \in Conns : writer[d].sub # NoSub => writer[d].sub \in Subs
    BY DEF WakeTypes
  <2> QED BY <1>13, <2>1, <2>2 DEF DetachOne, Remove, HoldsOK, Holds, Live
<1>14. ASSUME NEW c \in Conns, Detach(c) PROVE HoldsOK'
      BY <1>14 DEF Detach, HoldsOK, Holds, Live, lanes, names
<1>15. ASSUME Detached PROVE HoldsOK'
  <2>1. \A x \in Subs : slot'[x] = IF connOf[x] = exec.conn THEN Empty ELSE slot[x]
    BY <1>15 DEF Detached, ShutLane
  <2>2. \A d \in Conns : writer[d].sub # NoSub => writer[d].sub \in Subs
    BY DEF WakeTypes
  <2>3. shut'[exec.conn] /\ \A d \in Conns : d # exec.conn => shut'[d] = shut[d]
    BY <1>15 DEF Detached, ShutLane, WakeTypes, ExecOK
  <2> QED BY <1>15, <2>1, <2>2, <2>3 DEF Detached, HoldsOK, Holds, Live, Empty, names
<1>16. ASSUME NEW c \in Conns, Finish(c) PROVE HoldsOK'
  <2> DEFINE w == writer[c].sub
  <2>1. w \in Subs /\ connOf[w] = c /\ writer[c].rev \in Nat
    BY <1>16 DEF Finish, WakeTypes, HoldsOK, Holds
  <2>2. \A x \in Subs : x # w => slot'[x] = slot[x] /\ told'[x] = told[x]
    <3>1. \A x \in Subs : x # w => told'[x] = told[x]
      BY <1>16, <2>1 DEF Finish, WakeTypes
    <3>2. CASE shut[c]
      BY <1>16, <3>1, <3>2 DEF Finish
    <3>3. CASE ~shut[c]
      BY <1>16, <2>1, <3>1, <3>3, FinishSlots DEF Finish
    <3> QED BY <3>2, <3>3
  <2>3. writer'[c].sub = NoSub /\ \A d \in Conns : d # c => writer'[d] = writer[d]
    BY <1>16 DEF Finish, WakeTypes, NoWrite
  <2>4. \A d \in Conns : d # c /\ writer[d].sub # NoSub => writer[d].sub \in Subs /\ writer[d].sub # w
    BY <2>1 DEF WakeTypes, HoldsOK, Holds
  <2>5. connOf' = connOf /\ stage' = stage /\ shut' = shut
    BY <1>16 DEF Finish, names
  <2> HIDE DEF w
  <2> QED BY <2>2, <2>3, <2>4, <2>5 DEF HoldsOK, Holds, Live
<1>17. ASSUME NEW c \in Conns, Park(c) PROVE HoldsOK'
      BY <1>17 DEF Park, HoldsOK, Holds, Live, lanes, names
<1>18. ASSUME NEW c \in Conns, Wake(c) PROVE HoldsOK'
      BY <1>18 DEF Wake, HoldsOK, Holds, Live, lanes, names
<1>19. ASSUME NEW c \in Conns, Shutdown(c) PROVE HoldsOK'
  <2>1. \A x \in Subs : slot'[x] = IF connOf[x] = c THEN Empty ELSE slot[x]
    BY <1>19 DEF Shutdown, ShutLane
  <2>2. \A d \in Conns : writer[d].sub # NoSub => writer[d].sub \in Subs
    BY DEF WakeTypes
  <2>3. writer'[c].sub = NoSub /\ \A d \in Conns : d # c => shut'[d] = shut[d] /\ writer'[d] = writer[d]
    BY <1>19 DEF Shutdown, ShutLane, WakeTypes, NoWrite
  <2> QED BY <1>19, <2>1, <2>2, <2>3 DEF Shutdown, HoldsOK, Holds, Live, Empty, names
<1>20. ASSUME NEW c \in Conns, NEW s \in Subs, Take(c, s) PROVE HoldsOK'
  <2>1. /\ slot[s].phase = "queued" /\ stage[s] = "open" /\ slot[s].hw > told[s]
        /\ connOf[s] = c /\ ~shut[c]
    BY <1>20 DEF Take, PendingOK, OwnerOK, SlotOK
  <2>2. /\ writer'[c].sub = s /\ writer'[c].rev = slot[s].rev /\ writer'[c].msg = slot[s].hw
        /\ \A d \in Conns : d # c => writer'[d] = writer[d]
    BY <1>20, <2>1 DEF Take, WakeTypes
  <2>3. /\ slot'[s].phase = "inflight" /\ slot'[s].rev = slot[s].rev /\ slot'[s].hw = slot[s].hw
        /\ slot[s].rev \in Nat
        /\ \A x \in Subs : x # s => slot'[x] = slot[x]
    BY <1>20 DEF Take, WakeTypes, Slot
  <2>4. \A d \in Conns : d # c /\ writer[d].sub # NoSub => writer[d].sub \in Subs /\ writer[d].sub # s
    BY <2>1 DEF WakeTypes, HoldsOK, Holds
  <2>5. connOf' = connOf /\ stage' = stage /\ shut' = shut /\ told' = told
    BY <1>20 DEF Take, names
  <2>6. Holds(c, s)'
    BY <2>1, <2>2, <2>3, <2>5 DEF Holds
  <2>7. ASSUME NEW d \in Conns, d # c, writer'[d].sub # NoSub PROVE Holds(d, writer[d].sub)'
    BY <2>2, <2>3, <2>4, <2>5, <2>7 DEF HoldsOK, Holds, Live
  <2>8. ASSUME NEW d \in Conns, writer'[d].sub # NoSub PROVE Holds(d, writer[d].sub)'
    BY <2>2, <2>6, <2>7, <2>8
  <2> QED BY <2>8 DEF HoldsOK
<1> QED BY <1>1, <1>2, <1>3, <1>4, <1>5, <1>6, <1>7, <1>8, <1>9, <1>10, <1>11, <1>12, <1>13, <1>14, <1>15, <1>16, <1>17, <1>18, <1>19, <1>20 DEF Next, Executor, Writers

\* Every step keeps that an idle writer holds nothing.
LEMMA IdleOKStep ==
    ASSUME WakeInv, Next PROVE IdleOK'
<1> USE WakeAssumption DEF WakeInv
<1>1. ASSUME NEW k \in Keys, Record(k) \/ Observe(k) PROVE IdleOK'
      BY <1>1 DEF Record, Observe, IdleOK, lanes
<1>2. ASSUME Mark PROVE IdleOK'
      BY <1>2 DEF Mark, IdleOK, lanes
<1>3. ASSUME NEW s \in Subs, NEW k \in Keys, NEW c \in Conns, Open(s, k, c) PROVE IdleOK'
      BY <1>3 DEF Open, IdleOK, lanes
<1>4. ASSUME CaptureFails PROVE IdleOK'
      BY <1>4 DEF CaptureFails, IdleOK, lanes
<1>5. ASSUME Capture PROVE IdleOK'
      BY <1>5 DEF Capture, IdleOK, lanes
<1>6. ASSUME Metadata PROVE IdleOK'
      BY <1>6 DEF Metadata, IdleOK, lanes
<1>7. ASSUME CatchUp PROVE IdleOK'
      BY <1>7 DEF CatchUp, IdleOK, lanes
<1>8. ASSUME StartFanOut PROVE IdleOK'
      BY <1>8 DEF StartFanOut, IdleOK, lanes
<1>9. ASSUME ClearKey PROVE IdleOK'
      BY <1>9 DEF ClearKey, IdleOK, lanes
<1>10. ASSUME EndFanOut PROVE IdleOK'
      BY <1>10 DEF EndFanOut, IdleOK, lanes
<1>11. ASSUME NEW k \in Keys, FanKey(k) PROVE IdleOK'
      BY <1>11 DEF FanKey, IdleOK, lanes
<1>12. ASSUME NEW s \in Subs, Release(s) PROVE IdleOK'
      BY <1>12 DEF Release, Remove, IdleOK
<1>13. ASSUME NEW s \in Subs, DetachOne(s) PROVE IdleOK'
      BY <1>13 DEF DetachOne, Remove, IdleOK
<1>14. ASSUME NEW c \in Conns, Detach(c) PROVE IdleOK'
      BY <1>14 DEF Detach, IdleOK, lanes
<1>15. ASSUME Detached PROVE IdleOK'
      BY <1>15 DEF Detached, IdleOK, lanes
<1>16. ASSUME NEW c \in Conns, Finish(c) PROVE IdleOK'
      BY <1>16 DEF Finish, IdleOK, WakeTypes
<1>17. ASSUME NEW c \in Conns, Park(c) PROVE IdleOK'
      BY <1>17 DEF Park, IdleOK, lanes
<1>18. ASSUME NEW c \in Conns, Wake(c) PROVE IdleOK'
      BY <1>18 DEF Wake, IdleOK, lanes
<1>19. ASSUME NEW c \in Conns, Shutdown(c) PROVE IdleOK'
      BY <1>19 DEF Shutdown, IdleOK, WakeTypes
<1>20. ASSUME NEW c \in Conns, NEW s \in Subs, Take(c, s) PROVE IdleOK'
      BY <1>20 DEF Take, IdleOK, WakeTypes
<1> QED BY <1>1, <1>2, <1>3, <1>4, <1>5, <1>6, <1>7, <1>8, <1>9, <1>10, <1>11, <1>12, <1>13, <1>14, <1>15, <1>16, <1>17, <1>18, <1>19, <1>20 DEF Next, Executor, Writers

\* Every step keeps that a slot in flight has its writer.
LEMMA InflightOKStep ==
    ASSUME WakeInv, Next PROVE InflightOK'
<1> USE WakeAssumption DEF WakeInv
<1>1. ASSUME NEW k \in Keys, Record(k) \/ Observe(k) PROVE InflightOK'
      BY <1>1 DEF Record, Observe, InflightOK, lanes, names
<1>2. ASSUME Mark PROVE InflightOK'
      BY <1>2 DEF Mark, InflightOK, lanes, names
<1>3. ASSUME NEW s \in Subs, NEW k \in Keys, NEW c \in Conns, Open(s, k, c) PROVE InflightOK'
  <2>1. slot[s].phase = "none" /\ \A x \in Subs : x # s => connOf'[x] = connOf[x]
    BY <1>3 DEF Open, OwnerOK, WakeTypes
  <2> QED BY <1>3, <2>1 DEF Open, InflightOK, lanes
<1>4. ASSUME CaptureFails PROVE InflightOK'
      BY <1>4 DEF CaptureFails, InflightOK, lanes, names
<1>5. ASSUME Capture PROVE InflightOK'
      BY <1>5 DEF Capture, InflightOK, lanes, names
<1>6. ASSUME Metadata PROVE InflightOK'
      BY <1>6 DEF Metadata, InflightOK, lanes, names
<1>7. ASSUME CatchUp PROVE InflightOK'
  <2>1. CASE UNCHANGED <<slot, pending, token, notified>>
    BY <1>7, <2>1 DEF CatchUp, InflightOK, names
  <2>2. ASSUME NEW S \in SUBSET Subs, NEW h \in Nat, News(S, h) PROVE InflightOK'
    <3>1. \A s \in Subs : slot'[s].phase = "inflight" => slot[s].phase = "inflight"
      BY <2>2, NewsSlots
    <3> QED BY <1>7, <3>1 DEF CatchUp, InflightOK, names
  <2> QED BY <1>7, <2>1, <2>2, CatchUpNews
<1>8. ASSUME StartFanOut PROVE InflightOK'
      BY <1>8 DEF StartFanOut, InflightOK, lanes, names
<1>9. ASSUME ClearKey PROVE InflightOK'
      BY <1>9 DEF ClearKey, InflightOK, lanes, names
<1>10. ASSUME EndFanOut PROVE InflightOK'
      BY <1>10 DEF EndFanOut, InflightOK, lanes, names
<1>11. ASSUME NEW k \in Keys, FanKey(k) PROVE InflightOK'
  <2>1. PICK S \in SUBSET Subs, h \in Nat : News(S, h)
    BY <1>11, FanKeyNews
  <2> QED
    <3>1. \A s \in Subs : slot'[s].phase = "inflight" => slot[s].phase = "inflight"
      BY <2>1, NewsSlots
    <3> QED BY <1>11, <3>1 DEF FanKey, InflightOK, names
<1>12. ASSUME NEW s \in Subs, Release(s) PROVE InflightOK'
      BY <1>12 DEF Release, Remove, RemoveKey, Empty, InflightOK, WakeTypes
<1>13. ASSUME NEW s \in Subs, DetachOne(s) PROVE InflightOK'
      BY <1>13 DEF DetachOne, Remove, RemoveKey, Empty, InflightOK, WakeTypes
<1>14. ASSUME NEW c \in Conns, Detach(c) PROVE InflightOK'
      BY <1>14 DEF Detach, InflightOK, lanes, names
<1>15. ASSUME Detached PROVE InflightOK'
      BY <1>15 DEF Detached, ShutLane, Empty, InflightOK, names
<1>16. ASSUME NEW c \in Conns, Finish(c) PROVE InflightOK'
  <2> DEFINE w == writer[c].sub
  <2>1. w \in Subs /\ connOf[w] = c /\ writer[c].rev \in Nat
    BY <1>16 DEF Finish, WakeTypes, HoldsOK, Holds
  <2>2. \A d \in Conns : d # c => writer'[d] = writer[d]
    BY <1>16 DEF Finish, WakeTypes
  <2>3. CASE shut[c]
    BY <1>16, <2>2, <2>3 DEF Finish, InflightOK, OwnerOK, names
  <2>4. CASE ~shut[c]
    <3>1. /\ \A x \in Subs : x # w => slot'[x] = slot[x]
          /\ slot'[w].phase # "inflight"
      BY <1>16, <2>1, <2>4, FinishSlots DEF Finish, Empty
    <3> QED BY <1>16, <2>1, <2>2, <3>1 DEF Finish, InflightOK, OwnerOK, names
  <2> QED BY <2>3, <2>4
<1>17. ASSUME NEW c \in Conns, Park(c) PROVE InflightOK'
      BY <1>17 DEF Park, InflightOK, lanes, names
<1>18. ASSUME NEW c \in Conns, Wake(c) PROVE InflightOK'
      BY <1>18 DEF Wake, InflightOK, lanes, names
<1>19. ASSUME NEW c \in Conns, Shutdown(c) PROVE InflightOK'
      BY <1>19 DEF Shutdown, ShutLane, Empty, InflightOK, OwnerOK, WakeTypes, names
<1>20. ASSUME NEW c \in Conns, NEW s \in Subs, Take(c, s) PROVE InflightOK'
  <2>1. \A x \in Subs : connOf[x] = c => slot[x].phase # "inflight"
    BY <1>20 DEF Take, InflightOK, NoWrite
  <2>2. \A x \in Subs : x # s => slot'[x] = slot[x]
    BY <1>20 DEF Take, WakeTypes
  <2>3. /\ writer'[c].sub = s /\ connOf[s] = c
        /\ \A d \in Conns : d # c => writer'[d] = writer[d]
    BY <1>20 DEF Take, WakeTypes
  <2> QED BY <1>20, <2>1, <2>2, <2>3 DEF Take, InflightOK, OwnerOK, names
<1> QED BY <1>1, <1>2, <1>3, <1>4, <1>5, <1>6, <1>7, <1>8, <1>9, <1>10, <1>11, <1>12, <1>13, <1>14, <1>15, <1>16, <1>17, <1>18, <1>19, <1>20 DEF Next, Executor, Writers

\* Every step keeps what a slot holds.
LEMMA SlotOKStep ==
    ASSUME WakeInv, Next PROVE SlotOK'
<1> USE WakeAssumption DEF WakeInv
<1>1. ASSUME NEW k \in Keys, Record(k) \/ Observe(k) PROVE SlotOK'
      BY <1>1 DEF Record, Observe, SlotOK, Live, lanes, names
<1>2. ASSUME Mark PROVE SlotOK'
      BY <1>2 DEF Mark, SlotOK, Live, lanes, names
<1>3. ASSUME NEW s \in Subs, NEW k \in Keys, NEW c \in Conns, Open(s, k, c) PROVE SlotOK'
  <2>1. stage[s] = "new" /\ slot[s].phase = "none" /\ \A x \in Subs : x # s => connOf'[x] = connOf[x]
    BY <1>3 DEF Open, OwnerOK, WakeTypes
  <2> QED BY <1>3, <2>1 DEF Open, SlotOK, Live, lanes
<1>4. ASSUME CaptureFails PROVE SlotOK'
  <2>1. exec.sub \in Subs /\ slot[exec.sub].phase = "none"
    BY <1>4 DEF CaptureFails, ExecOK, OwnerOK
  <2>2. \A x \in Subs : x # exec.sub => stage'[x] = stage[x] /\ told'[x] = told[x] /\ notified'[x] = notified[x]
    BY <1>4 DEF CaptureFails, WakeTypes
  <2>3. stage'[exec.sub] = "open" => told'[exec.sub] = notified'[exec.sub]
    BY <1>4, <2>1 DEF CaptureFails, WakeTypes
  <2> QED BY <1>4, <2>1, <2>2, <2>3 DEF CaptureFails, SlotOK, Live, lanes
<1>5. ASSUME Capture PROVE SlotOK'
  <2>1. exec.sub \in Subs /\ slot[exec.sub].phase = "none"
    BY <1>5 DEF Capture, ExecOK, OwnerOK
  <2>2. \A x \in Subs : x # exec.sub => stage'[x] = stage[x] /\ told'[x] = told[x] /\ notified'[x] = notified[x]
    BY <1>5 DEF Capture, WakeTypes
  <2>3. stage'[exec.sub] = "open" => told'[exec.sub] = notified'[exec.sub]
    BY <1>5, <2>1 DEF Capture, WakeTypes
  <2> QED BY <1>5, <2>1, <2>2, <2>3 DEF Capture, SlotOK, Live, lanes
<1>6. ASSUME Metadata PROVE SlotOK'
      BY <1>6 DEF Metadata, SlotOK, Live, lanes, names
<1>7. ASSUME CatchUp PROVE SlotOK'
  <2>1. CASE UNCHANGED <<slot, pending, token, notified>>
    BY <1>7, <2>1 DEF CatchUp, SlotOK, Live, names
  <2>2. ASSUME NEW S \in SUBSET Subs, NEW h \in Nat, News(S, h) PROVE SlotOK'
    <3>1. connOf' = connOf /\ stage' = stage /\ told' = told /\ shut' = shut
      BY <1>7 DEF CatchUp, names
    <3>2. ASSUME NEW s \in Subs, s \in S
          PROVE  slot'[s].phase # "none" /\ slot'[s].hw = notified'[s]
                 /\ (slot'[s].phase = "queued" => slot'[s].hw > told[s])
      <4>1. slot[s].hw \in Nat /\ notified[s] \in Nat /\ told[s] \in Nat
        BY DEF WakeTypes, Slot
      <4>2. stage[s] = "open" /\ ~shut[connOf[s]]
        BY <2>2, <3>2 DEF News
      <4>3. /\ slot'[s].phase = IF slot[s].phase = "none" THEN "queued" ELSE slot[s].phase
            /\ slot'[s].hw = h /\ notified'[s] = h /\ h > notified[s]
        BY <2>2, <3>2, NewsSlots
      <4>4. CASE slot[s].phase = "none"
        BY <4>1, <4>2, <4>3, <4>4 DEF SlotOK, Live
      <4>5. CASE slot[s].phase # "none"
        BY <4>1, <4>3, <4>5 DEF SlotOK
      <4> QED BY <4>4, <4>5
    <3>3. ASSUME NEW s \in Subs, s \notin S
          PROVE  slot'[s] = slot[s] /\ notified'[s] = notified[s]
      BY <2>2, <3>3, NewsSlots
    <3> QED BY <3>1, <3>2, <3>3 DEF SlotOK, Live
  <2> QED BY <1>7, <2>1, <2>2, CatchUpNews
<1>8. ASSUME StartFanOut PROVE SlotOK'
      BY <1>8 DEF StartFanOut, SlotOK, Live, lanes, names
<1>9. ASSUME ClearKey PROVE SlotOK'
      BY <1>9 DEF ClearKey, SlotOK, Live, lanes, names
<1>10. ASSUME EndFanOut PROVE SlotOK'
      BY <1>10 DEF EndFanOut, SlotOK, Live, lanes, names
<1>11. ASSUME NEW k \in Keys, FanKey(k) PROVE SlotOK'
  <2>1. PICK S \in SUBSET Subs, h \in Nat : News(S, h)
    BY <1>11, FanKeyNews
  <2> QED
    <3>1. connOf' = connOf /\ stage' = stage /\ told' = told /\ shut' = shut
      BY <1>11 DEF FanKey, names
    <3>2. ASSUME NEW s \in Subs, s \in S
          PROVE  slot'[s].phase # "none" /\ slot'[s].hw = notified'[s]
                 /\ (slot'[s].phase = "queued" => slot'[s].hw > told[s])
      <4>1. slot[s].hw \in Nat /\ notified[s] \in Nat /\ told[s] \in Nat
        BY DEF WakeTypes, Slot
      <4>2. stage[s] = "open" /\ ~shut[connOf[s]]
        BY <2>1, <3>2 DEF News
      <4>3. /\ slot'[s].phase = IF slot[s].phase = "none" THEN "queued" ELSE slot[s].phase
            /\ slot'[s].hw = h /\ notified'[s] = h /\ h > notified[s]
        BY <2>1, <3>2, NewsSlots
      <4>4. CASE slot[s].phase = "none"
        BY <4>1, <4>2, <4>3, <4>4 DEF SlotOK, Live
      <4>5. CASE slot[s].phase # "none"
        BY <4>1, <4>3, <4>5 DEF SlotOK
      <4> QED BY <4>4, <4>5
    <3>3. ASSUME NEW s \in Subs, s \notin S
          PROVE  slot'[s] = slot[s] /\ notified'[s] = notified[s]
      BY <2>1, <3>3, NewsSlots
    <3> QED BY <3>1, <3>2, <3>3 DEF SlotOK, Live
<1>12. ASSUME NEW s \in Subs, Release(s) PROVE SlotOK'
  <2>1. /\ slot'[s].phase = "none" /\ stage'[s] = "gone"
        /\ \A x \in Subs : x # s => slot'[x] = slot[x] /\ stage'[x] = stage[x]
    BY <1>12 DEF Release, Remove, RemoveKey, Empty, WakeTypes
  <2> QED BY <1>12, <2>1 DEF Release, Remove, SlotOK, Live
<1>13. ASSUME NEW s \in Subs, DetachOne(s) PROVE SlotOK'
  <2>1. /\ slot'[s].phase = "none" /\ stage'[s] = "gone"
        /\ \A x \in Subs : x # s => slot'[x] = slot[x] /\ stage'[x] = stage[x]
    BY <1>13 DEF DetachOne, Remove, RemoveKey, Empty, WakeTypes
  <2> QED BY <1>13, <2>1 DEF DetachOne, Remove, SlotOK, Live
<1>14. ASSUME NEW c \in Conns, Detach(c) PROVE SlotOK'
      BY <1>14 DEF Detach, SlotOK, Live, lanes, names
<1>15. ASSUME Detached PROVE SlotOK'
  <2>1. \A x \in Subs : slot'[x] = IF connOf[x] = exec.conn THEN Empty ELSE slot[x]
    BY <1>15 DEF Detached, ShutLane
  <2>2. shut'[exec.conn] /\ \A d \in Conns : d # exec.conn => shut'[d] = shut[d]
    BY <1>15 DEF Detached, ShutLane, WakeTypes, ExecOK
  <2>3. \A x \in Subs : Live(x) => connOf[x] \in Conns
    BY DEF NamesOK
  <2> QED BY <1>15, <2>1, <2>2, <2>3 DEF Detached, SlotOK, Live, Empty, names
<1>16. ASSUME NEW c \in Conns, Finish(c) PROVE SlotOK'
  <2> DEFINE w == writer[c].sub
             m == writer[c].msg
  <2>1. w \in Subs /\ writer[c].rev \in Nat /\ m \in Nat /\ Holds(c, w)
    BY <1>16 DEF Finish, WakeTypes, HoldsOK
  <2>2. told[w] \in Nat /\ slot[w].rev \in Nat /\ connOf[w] = c /\ m > told[w]
    BY <2>1 DEF WakeTypes, Slot, Holds
  <2>3. told' = [told EXCEPT ![w] = m]
    BY <1>16, <2>1, <2>2 DEF Finish
  <2>4. told'[w] = m /\ \A x \in Subs : x # w => told'[x] = told[x]
    BY <2>1, <2>3 DEF WakeTypes
  <2>5. connOf' = connOf /\ stage' = stage /\ shut' = shut /\ notified' = notified
    BY <1>16 DEF Finish, names
  <2>6. CASE shut[c]
    <3>1. slot' = slot /\ slot[w].phase = "none"
      BY <1>16, <2>1, <2>2, <2>6 DEF Finish, OwnerOK
    <3> QED BY <2>2, <2>4, <2>5, <2>6, <3>1 DEF SlotOK, Live
  <2>7. CASE ~shut[c]
    <3>1. FinishKey(w, writer[c].rev)
      BY <1>16, <2>7 DEF Finish
    <3>2. \A x \in Subs : x # w => slot'[x] = slot[x]
      BY <2>1, <3>1, FinishSlots
    <3>3. CASE slot[w].phase # "inflight"
      <4>1. slot'[w] = slot[w] /\ slot[w].phase = "none" /\ ~Live(w)
        BY <2>1, <2>7, <3>1, <3>3, FinishSlots DEF Holds, OwnerOK, Live
      <4> QED BY <2>4, <2>5, <3>2, <4>1 DEF SlotOK, Live
    <3>4. CASE slot[w].phase = "inflight" /\ slot[w].rev > writer[c].rev
      <4>1. slot'[w].phase = "queued" /\ slot'[w].hw = slot[w].hw /\ slot[w].hw > m /\ slot[w].hw = notified[w]
        BY <2>1, <2>2, <3>1, <3>4, FinishSlots DEF Holds, SlotOK, WakeTypes, Slot
      <4> QED BY <2>4, <2>5, <3>2, <4>1 DEF SlotOK, Live
    <3>5. CASE slot[w].phase = "inflight" /\ ~(slot[w].rev > writer[c].rev)
      <4>1. slot'[w] = Empty /\ m = notified[w]
        BY <2>1, <2>2, <3>1, <3>5, FinishSlots DEF Holds, SlotOK
      <4> QED BY <2>4, <2>5, <3>2, <4>1 DEF SlotOK, Live, Empty
    <3> QED BY <3>3, <3>4, <3>5
  <2> QED BY <2>6, <2>7
<1>17. ASSUME NEW c \in Conns, Park(c) PROVE SlotOK'
      BY <1>17 DEF Park, SlotOK, Live, lanes, names
<1>18. ASSUME NEW c \in Conns, Wake(c) PROVE SlotOK'
      BY <1>18 DEF Wake, SlotOK, Live, lanes, names
<1>19. ASSUME NEW c \in Conns, Shutdown(c) PROVE SlotOK'
  <2>1. \A x \in Subs : slot'[x] = IF connOf[x] = c THEN Empty ELSE slot[x]
    BY <1>19 DEF Shutdown, ShutLane
  <2>2. shut'[c] /\ \A d \in Conns : d # c => shut'[d] = shut[d]
    BY <1>19 DEF Shutdown, ShutLane, WakeTypes, ExecOK
  <2>3. \A x \in Subs : Live(x) => connOf[x] \in Conns
    BY DEF NamesOK
  <2> QED BY <1>19, <2>1, <2>2, <2>3 DEF Shutdown, SlotOK, Live, Empty, names
<1>20. ASSUME NEW c \in Conns, NEW s \in Subs, Take(c, s) PROVE SlotOK'
  <2>1. /\ slot[s].phase = "queued" /\ slot'[s].phase = "inflight" /\ slot'[s].hw = slot[s].hw
        /\ \A x \in Subs : x # s => slot'[x] = slot[x]
    BY <1>20 DEF Take, PendingOK, WakeTypes, Slot
  <2> QED BY <1>20, <2>1 DEF Take, SlotOK, Live, names
<1> QED BY <1>1, <1>2, <1>3, <1>4, <1>5, <1>6, <1>7, <1>8, <1>9, <1>10, <1>11, <1>12, <1>13, <1>14, <1>15, <1>16, <1>17, <1>18, <1>19, <1>20 DEF Next, Executor, Writers

\* Every step keeps that records are on their way.
LEMMA OnItsWayStep ==
    ASSUME WakeInv, Next PROVE OnItsWay'
<1> USE WakeAssumption DEF WakeInv
<1>1. ASSUME NEW k \in Keys, Record(k) \/ Observe(k) PROVE OnItsWay'
  <2>1. /\ \A j \in Keys : j # k => announced'[j] = announced[j]
        /\ marking = NoKey /\ (marking' = k \/ (announced' = announced /\ marking' = marking))
    BY <1>1 DEF Record, Observe, WakeTypes
  <2> QED BY <1>1, <2>1 DEF Record, Observe, OnItsWay, RecordIsOnItsWay, NamesOK, Live, Reachable, board, names, lanes
<1>2. ASSUME Mark PROVE OnItsWay'
  <2>1. /\ marking \in Keys /\ dirty[marking] < announced[marking]
        /\ announced[marking] = journal[marking] /\ announced' = announced /\ marking' = NoKey
    BY <1>2 DEF Mark, WakeTypes, BoardOK
  <2>2. announced[marking] \in Nat /\ dirty[marking] \in Nat
    BY <2>1 DEF WakeTypes
  <2>3. \A j \in Keys : j # marking => dirty'[j] = dirty[j] /\ (edge => edge')
    BY <1>2 DEF Mark, WakeTypes, board
  <2>4. watched[marking] > 0 => dirty'[marking] = announced[marking] /\ edge'
    <3> SUFFICES ASSUME watched[marking] > 0 PROVE dirty'[marking] = announced[marking] /\ edge'
      OBVIOUS
    <3>1. /\ dirty' = [dirty EXCEPT ![marking] = Larger(@, announced[marking])]
          /\ edge' = (edge \/ dirty[marking] = 0 \/ announced[marking] > dirty[marking])
      BY <1>2, <2>1 DEF Mark, WakeTypes
    <3>2. Larger(dirty[marking], announced[marking]) = announced[marking]
      BY <2>1, <2>2 DEF Larger
    <3> QED BY <2>1, <2>2, <3>1, <3>2 DEF WakeTypes
  <2>5. exec' = exec /\ notified' = notified /\ keyOf' = keyOf
    BY <1>2 DEF Mark, names
  <2>6. ASSUME NEW s \in Subs, Live(s)', Reachable(s)' PROVE RecordIsOnItsWay(s)'
    <3>1. Live(s) /\ Reachable(s) /\ keyOf[s] \in Keys
      BY <1>2, <2>6 DEF Mark, Live, Reachable, NamesOK, names, lanes
    <3>2. CASE keyOf[s] = marking
      <4>1. watched[marking] > 0
        BY <2>1, <3>1, <3>2, WatchedOnce DEF Watching
      <4> QED BY <2>1, <2>4, <2>5, <3>2, <4>1 DEF RecordIsOnItsWay
    <3>3. CASE keyOf[s] # marking
      BY <2>1, <2>3, <2>5, <3>1, <3>3 DEF RecordIsOnItsWay, OnItsWay
    <3> QED BY <3>2, <3>3
  <2> QED BY <2>6 DEF OnItsWay
<1>3. ASSUME NEW s \in Subs, NEW k \in Keys, NEW c \in Conns, Open(s, k, c) PROVE OnItsWay'
  <2>1. stage[s] = "new" /\ \A x \in Subs : x # s => connOf'[x] = connOf[x] /\ keyOf'[x] = keyOf[x]
    BY <1>3 DEF Open, WakeTypes
  <2>2. exec.op = "idle" /\ exec'.op = "capture"
    BY <1>3 DEF Open, WakeTypes, Exec
  <2> QED BY <1>3, <2>1, <2>2 DEF Open, OnItsWay, RecordIsOnItsWay, Live, Reachable, lanes
<1>4. ASSUME CaptureFails PROVE OnItsWay'
  <2>1. exec.sub \in Subs /\ keyOf[exec.sub] \in Keys /\ exec.sub \in Watching(keyOf[exec.sub]) /\ Untrack(keyOf[exec.sub])
    BY <1>4 DEF CaptureFails, Watching, ExecOK, NamesOK
  <2>2. exec.op \notin {"snapshot", "fan"} /\ outputs' = outputs /\ shut' = shut
    BY <1>4 DEF CaptureFails, lanes
  <2>3. /\ stage'[exec.sub] = "gone" /\ \A x \in Subs : x # exec.sub => stage'[x] = stage[x]
        /\ UNCHANGED <<journal, announced, marking, keyOf, connOf, notified>>
    BY <1>4, <2>1 DEF CaptureFails, WakeTypes
  <2>4. ASSUME NEW x \in Subs, Live(x)', Reachable(x)' PROVE RecordIsOnItsWay(x)'
    <3>1. x # exec.sub /\ Live(x) /\ Reachable(x)
      BY <2>2, <2>3, <2>4 DEF Live, Reachable
    <3>2. dirty'[keyOf[x]] = dirty[keyOf[x]] /\ edge' = edge
      BY <2>1, <3>1, UntrackOthers
    <3> QED BY <2>2, <2>3, <3>1, <3>2 DEF OnItsWay, RecordIsOnItsWay
  <2> QED BY <2>4 DEF OnItsWay
<1>5. ASSUME Capture PROVE OnItsWay'
  <2>1. /\ exec.sub \in Subs /\ keyOf[exec.sub] = exec.key /\ exec.key \in Keys
        /\ notified'[exec.sub] = journal[exec.key] /\ announced[exec.key] <= journal[exec.key]
    BY <1>5 DEF Capture, ExecOK, WakeTypes, BoardOK
  <2>2. \A x \in Subs : x # exec.sub => stage'[x] = stage[x] /\ notified'[x] = notified[x]
    BY <1>5 DEF Capture, WakeTypes
  <2>3. exec.op = "capture" /\ exec'.op = "metadata"
    BY <1>5 DEF Capture, WakeTypes, Exec
  <2>4. announced[exec.key] \in Nat /\ journal[exec.key] \in Nat
    BY <2>1 DEF WakeTypes
  <2> QED BY <1>5, <2>1, <2>2, <2>3, <2>4 DEF Capture, OnItsWay, RecordIsOnItsWay, Live, Reachable, lanes, board
<1>6. ASSUME Metadata PROVE OnItsWay'
  <2>1. exec.op = "metadata" /\ exec'.op = "catch up"
    BY <1>6 DEF Metadata, WakeTypes, Exec
  <2> QED BY <1>6, <2>1 DEF Metadata, OnItsWay, RecordIsOnItsWay, Live, Reachable, lanes, names, board
<1>7. ASSUME CatchUp PROVE OnItsWay'
  <2>1. \A s \in Subs : notified'[s] \in Nat /\ notified'[s] >= notified[s] /\ notified[s] \in Nat
    <3>1. notified \in [Subs -> Nat]
      BY DEF WakeTypes
    <3>2. CASE UNCHANGED <<slot, pending, token, notified>>
      BY <3>1, <3>2
    <3>3. ASSUME NEW S \in SUBSET Subs, NEW h \in Nat, News(S, h), NEW s \in Subs
          PROVE  notified'[s] \in Nat /\ notified'[s] >= notified[s] /\ notified[s] \in Nat
      BY <3>3, NewsRaises
    <3> QED BY <1>7, <3>2, <3>3, CatchUpNews
  <2>2. /\ UNCHANGED <<journal, announced, marking, board, outputs, names, shut>>
        /\ exec.op = "catch up" /\ exec'.op = "snapshot"
    BY <1>7 DEF CatchUp, Idle
  <2>3. \A k \in Keys : announced[k] \in Nat
    BY DEF WakeTypes
  <2>4. ASSUME NEW s \in Subs, Live(s)', Reachable(s)' PROVE RecordIsOnItsWay(s)'
    <3>1. Live(s) /\ Reachable(s) /\ keyOf[s] \in Keys
      BY <2>2, <2>4 DEF Live, Reachable, NamesOK, names
    <3>2. announced'[keyOf[s]] > notified'[s] => announced[keyOf[s]] > notified[s]
      <4>1. announced' = announced /\ announced[keyOf[s]] \in Nat
        BY <2>2, <2>3, <3>1
      <4> QED BY <2>1, <4>1
    <3> QED BY <2>2, <3>1, <3>2 DEF OnItsWay, RecordIsOnItsWay, board, names
  <2> QED BY <2>4 DEF OnItsWay
<1>8. ASSUME StartFanOut PROVE OnItsWay'
  <2>1. /\ exec'.op = "fan" /\ UNCHANGED <<journal, announced, marking, watched, dirty, outputs, names, notified, shut>>
        /\ exec.op \in {"idle", "snapshot"}
        /\ \A k \in Keys : exec'.todo[k] = IF watched[k] > 0 THEN dirty[k] ELSE 0
    BY <1>8 DEF StartFanOut, FanOut, Idle, lanes
  <2>2. ASSUME NEW s \in Subs, Live(s)', Reachable(s)' PROVE RecordIsOnItsWay(s)'
    <3>1. Live(s) /\ Reachable(s) /\ keyOf[s] \in Keys
      BY <2>1, <2>2 DEF Live, Reachable, NamesOK, names
    <3>2. watched[keyOf[s]] > 0
      BY <3>1, WatchedOnce DEF Watching
    <3> QED BY <2>1, <3>1, <3>2 DEF OnItsWay, RecordIsOnItsWay, names
  <2> QED BY <2>2 DEF OnItsWay
<1>9. ASSUME ClearKey PROVE OnItsWay'
  <2>1. /\ exec.op = "fan" /\ exec.key \in Keys /\ exec'.op = "fan" /\ exec.todo \in [Keys -> Nat]
        /\ exec'.todo = [exec.todo EXCEPT ![exec.key] = 0] /\ exec.hw \in Nat
    BY <1>9 DEF ClearKey, WakeTypes, Exec
  <2>2. /\ \A j \in Keys : j # exec.key => dirty'[j] = dirty[j]
        /\ dirty[exec.key] > exec.hw => dirty'[exec.key] = dirty[exec.key]
    BY <1>9, <2>1 DEF ClearKey, WakeTypes
  <2>3. UNCHANGED <<journal, announced, marking, edge, outputs, names, notified, shut>>
    BY <1>9 DEF ClearKey, lanes
  <2>4. ASSUME NEW s \in Subs, Live(s)', Reachable(s)' PROVE RecordIsOnItsWay(s)'
    <3>1. Live(s) /\ Reachable(s) /\ keyOf[s] \in Keys
      BY <2>3, <2>4 DEF Live, Reachable, NamesOK, names
    <3>2. RecordIsOnItsWay(s)
      BY <3>1 DEF OnItsWay
    <3>3. CASE keyOf[s] = exec.key
      <4>1. notified[s] >= exec.hw /\ exec.hw = exec.todo[exec.key]
        BY <1>9, <3>1, <3>3 DEF ClearKey, FanOK
      <4>2. notified[s] \in Nat /\ announced[exec.key] \in Nat /\ dirty[exec.key] \in Nat
        BY <2>1 DEF WakeTypes
      <4>3. announced[exec.key] > notified[s] =>
              \/ marking = exec.key
              \/ dirty[exec.key] = announced[exec.key] /\ dirty[exec.key] > exec.hw /\ edge
        BY <2>1, <3>2, <3>3, <4>1, <4>2 DEF RecordIsOnItsWay
      <4> QED BY <2>1, <2>2, <2>3, <3>3, <4>3 DEF RecordIsOnItsWay, names
    <3>4. CASE keyOf[s] # exec.key
      BY <2>1, <2>2, <2>3, <3>1, <3>2, <3>4 DEF RecordIsOnItsWay, names
    <3> QED BY <3>3, <3>4
  <2> QED BY <2>4 DEF OnItsWay
<1>10. ASSUME EndFanOut PROVE OnItsWay'
  <2>1. exec.op = "fan" /\ \A k \in Keys : exec.todo[k] = 0
    BY <1>10 DEF EndFanOut
  <2>2. UNCHANGED <<journal, announced, marking, board, outputs, names, notified, shut>>
    BY <1>10 DEF EndFanOut, lanes
  <2>3. ASSUME NEW s \in Subs, Live(s)', Reachable(s)' PROVE RecordIsOnItsWay(s)'
    <3>1. Live(s) /\ Reachable(s) /\ keyOf[s] \in Keys
      BY <2>2, <2>3 DEF Live, Reachable, NamesOK, names
    <3>2. notified[s] \in Nat /\ announced[keyOf[s]] \in Nat
      BY <3>1 DEF WakeTypes
    <3> QED BY <2>1, <2>2, <3>1, <3>2 DEF OnItsWay, RecordIsOnItsWay, board, names
  <2> QED BY <2>3 DEF OnItsWay
<1>11. ASSUME NEW k \in Keys, FanKey(k) PROVE OnItsWay'
  <2>1. \A s \in Subs : notified'[s] \in Nat /\ notified'[s] >= notified[s] /\ notified[s] \in Nat
    <3>1. notified \in [Subs -> Nat]
      BY DEF WakeTypes
    <3>2. PICK S \in SUBSET Subs, h \in Nat : News(S, h)
      BY <1>11, FanKeyNews
    <3> QED BY <3>2, NewsRaises
  <2>2. /\ UNCHANGED <<journal, announced, marking, board, outputs, names, shut>>
        /\ exec.op = "fan" /\ exec'.op = "fan" /\ exec'.todo = exec.todo
    BY <1>11 DEF FanKey, WakeTypes, Exec
  <2>3. \A kk \in Keys : announced[kk] \in Nat
    BY DEF WakeTypes
  <2>4. ASSUME NEW s \in Subs, Live(s)', Reachable(s)' PROVE RecordIsOnItsWay(s)'
    <3>1. Live(s) /\ Reachable(s) /\ keyOf[s] \in Keys
      BY <2>2, <2>4 DEF Live, Reachable, NamesOK, names
    <3>2. announced'[keyOf[s]] > notified'[s] => announced[keyOf[s]] > notified[s]
      <4>1. announced' = announced /\ announced[keyOf[s]] \in Nat
        BY <2>2, <2>3, <3>1
      <4> QED BY <2>1, <4>1
    <3> QED BY <2>2, <3>1, <3>2 DEF OnItsWay, RecordIsOnItsWay, board, names
  <2> QED BY <2>4 DEF OnItsWay
<1>12. ASSUME NEW s \in Subs, Release(s) PROVE OnItsWay'
  <2>1. s \in Subs /\ keyOf[s] \in Keys /\ s \in Watching(keyOf[s]) /\ Untrack(keyOf[s])
    BY <1>12 DEF Release, Remove, Watching, ExecOK, NamesOK
  <2>2. exec.op \notin {"snapshot", "fan"} /\ outputs' = outputs /\ shut' = shut
    BY <1>12 DEF Release, Remove, lanes
  <2>3. /\ stage'[s] = "gone" /\ \A x \in Subs : x # s => stage'[x] = stage[x]
        /\ UNCHANGED <<journal, announced, marking, keyOf, connOf, notified>>
    BY <1>12, <2>1 DEF Release, Remove, WakeTypes
  <2>4. ASSUME NEW x \in Subs, Live(x)', Reachable(x)' PROVE RecordIsOnItsWay(x)'
    <3>1. x # s /\ Live(x) /\ Reachable(x)
      BY <2>2, <2>3, <2>4 DEF Live, Reachable
    <3>2. dirty'[keyOf[x]] = dirty[keyOf[x]] /\ edge' = edge
      BY <2>1, <3>1, UntrackOthers
    <3> QED BY <2>2, <2>3, <3>1, <3>2 DEF OnItsWay, RecordIsOnItsWay
  <2> QED BY <2>4 DEF OnItsWay
<1>13. ASSUME NEW s \in Subs, DetachOne(s) PROVE OnItsWay'
  <2>1. s \in Subs /\ keyOf[s] \in Keys /\ s \in Watching(keyOf[s]) /\ Untrack(keyOf[s])
    BY <1>13 DEF DetachOne, Remove, Watching, ExecOK, NamesOK
  <2>2. exec.op \notin {"snapshot", "fan"} /\ outputs' = outputs /\ shut' = shut
    BY <1>13 DEF DetachOne, Remove, lanes
  <2>3. /\ stage'[s] = "gone" /\ \A x \in Subs : x # s => stage'[x] = stage[x]
        /\ UNCHANGED <<journal, announced, marking, keyOf, connOf, notified>>
    BY <1>13, <2>1 DEF DetachOne, Remove, WakeTypes
  <2>4. ASSUME NEW x \in Subs, Live(x)', Reachable(x)' PROVE RecordIsOnItsWay(x)'
    <3>1. x # s /\ Live(x) /\ Reachable(x)
      BY <2>2, <2>3, <2>4 DEF Live, Reachable
    <3>2. dirty'[keyOf[x]] = dirty[keyOf[x]] /\ edge' = edge
      BY <2>1, <3>1, UntrackOthers
    <3> QED BY <2>2, <2>3, <3>1, <3>2 DEF OnItsWay, RecordIsOnItsWay
  <2> QED BY <2>4 DEF OnItsWay
<1>14. ASSUME NEW c \in Conns, Detach(c) PROVE OnItsWay'
  <2>1. exec.op = "idle" /\ outputs' \subseteq outputs
    BY <1>14 DEF Detach
  <2> QED BY <1>14, <2>1 DEF Detach, OnItsWay, RecordIsOnItsWay, Live, Reachable, board, names, lanes
<1>15. ASSUME Detached PROVE OnItsWay'
  <2>1. \A d \in Conns : shut[d] => shut'[d]
    BY <1>15 DEF Detached, ShutLane, WakeTypes, ExecOK
  <2>2. \A s \in Subs : Live(s)' /\ Reachable(s)' => Live(s) /\ Reachable(s)
    BY <1>15, <2>1 DEF Detached, Live, Reachable, names, WakeTypes
  <2> QED BY <1>15, <2>2 DEF Detached, OnItsWay, RecordIsOnItsWay, Idle, Live, board, names
<1>16. ASSUME NEW c \in Conns, Finish(c) PROVE OnItsWay'
      BY <1>16 DEF Finish, OnItsWay, RecordIsOnItsWay, Live, Reachable, board, names
<1>17. ASSUME NEW c \in Conns, Park(c) PROVE OnItsWay'
      BY <1>17 DEF Park, OnItsWay, RecordIsOnItsWay, Live, Reachable, board, names
<1>18. ASSUME NEW c \in Conns, Wake(c) PROVE OnItsWay'
      BY <1>18 DEF Wake, OnItsWay, RecordIsOnItsWay, Live, Reachable, board, names
<1>19. ASSUME NEW c \in Conns, Shutdown(c) PROVE OnItsWay'
  <2>1. \A d \in Conns : shut[d] => shut'[d]
    BY <1>19 DEF Shutdown, ShutLane, WakeTypes, ExecOK
  <2>2. \A s \in Subs : Live(s)' /\ Reachable(s)' => Live(s) /\ Reachable(s)
    BY <1>19, <2>1 DEF Shutdown, Live, Reachable, names, WakeTypes
  <2> QED BY <1>19, <2>2 DEF Shutdown, OnItsWay, RecordIsOnItsWay, Live, board, names
<1>20. ASSUME NEW c \in Conns, NEW s \in Subs, Take(c, s) PROVE OnItsWay'
      BY <1>20 DEF Take, OnItsWay, RecordIsOnItsWay, Live, Reachable, board, names
<1> QED BY <1>1, <1>2, <1>3, <1>4, <1>5, <1>6, <1>7, <1>8, <1>9, <1>10, <1>11, <1>12, <1>13, <1>14, <1>15, <1>16, <1>17, <1>18, <1>19, <1>20 DEF Next, Executor, Writers

\* Every step keeps the reference counts.
LEMMA WatchCountsSubscriptionsStep ==
    ASSUME WakeInv, Next PROVE WatchCountsSubscriptions'
<1> USE WakeAssumption DEF WakeInv
<1>1. ASSUME NEW k \in Keys, Record(k) \/ Observe(k) PROVE WatchCountsSubscriptions'
  <2>1. watched' = watched /\ UNCHANGED names /\ exec' = exec
    BY <1>1 DEF Record, Observe, board
  <2>2. \A j \in Keys : Watching(j)' = Watching(j)
    BY <2>1 DEF Watching, Live, names
  <2> QED BY <2>1, <2>2, WatchStays
<1>2. ASSUME Mark PROVE WatchCountsSubscriptions'
  <2>1. watched' = watched /\ UNCHANGED names /\ exec' = exec
    BY <1>2 DEF Mark, board
  <2>2. \A j \in Keys : Watching(j)' = Watching(j)
    BY <2>1 DEF Watching, Live, names
  <2> QED BY <2>1, <2>2, WatchStays
<1>3. ASSUME NEW s \in Subs, NEW k \in Keys, NEW c \in Conns, Open(s, k, c) PROVE WatchCountsSubscriptions'
  <2>1. /\ stage[s] = "new" /\ exec.op = "idle" /\ exec'.op = "capture" /\ exec'.sub = s /\ stage' = stage
        /\ keyOf'[s] = k /\ \A x \in Subs : x # s => keyOf'[x] = keyOf[x]
    BY <1>3 DEF Open, WakeTypes, Exec
  <2>2. Watching(k)' = Watching(k) \cup {s} /\ s \notin Watching(k)
    BY <2>1 DEF Watching, Live
  <2>3. \A j \in Keys : j # k => Watching(j)' = Watching(j)
    BY <2>1 DEF Watching, Live
  <2>4. Cardinality(Watching(k) \cup {s}) = Cardinality(Watching(k)) + 1
    BY <2>2, WatchingFinite, FS_AddElement
  <2>5. watched'[k] = watched[k] + 1 /\ \A j \in Keys : j # k => watched'[j] = watched[j]
    BY <1>3 DEF Open, WakeTypes
  <2> QED BY <2>2, <2>3, <2>4, <2>5 DEF WatchCountsSubscriptions
<1>4. ASSUME CaptureFails PROVE WatchCountsSubscriptions'
  <2>1. exec.sub \in Subs /\ keyOf[exec.sub] \in Keys /\ exec.sub \in Watching(keyOf[exec.sub]) /\ Untrack(keyOf[exec.sub])
    BY <1>4 DEF CaptureFails, Idle, Watching, ExecOK, NamesOK
  <2>2. /\ stage'[exec.sub] = "gone" /\ \A x \in Subs : x # exec.sub => stage'[x] = stage[x]
        /\ keyOf' = keyOf /\ exec'.op # "capture" /\ (exec.op = "capture" => exec.sub = exec.sub)
    BY <1>4, <2>1 DEF CaptureFails, Idle, WakeTypes
  <2>3. \A k \in Keys : Watching(k)' = Watching(k) \ {exec.sub}
    BY <2>2 DEF Watching, Live
  <2> QED BY <2>1, <2>3, WatchDrops
<1>5. ASSUME Capture PROVE WatchCountsSubscriptions'
  <2>1. /\ watched' = watched /\ keyOf' = keyOf /\ exec.op = "capture" /\ exec'.op = "metadata"
        /\ exec.sub \in Subs /\ stage'[exec.sub] = "open" /\ stage[exec.sub] = "new"
        /\ \A x \in Subs : x # exec.sub => stage'[x] = stage[x]
    BY <1>5 DEF Capture, board, ExecOK, WakeTypes, Exec
  <2>2. \A j \in Keys : Watching(j)' = Watching(j)
    BY <2>1 DEF Watching, Live
  <2> QED BY <2>1, <2>2, WatchStays
<1>6. ASSUME Metadata PROVE WatchCountsSubscriptions'
  <2>1. watched' = watched /\ UNCHANGED names /\ exec.op # "capture" /\ exec'.op # "capture"
    BY <1>6 DEF Metadata, board, FanOut, Idle, WakeTypes, Exec
  <2>2. \A j \in Keys : Watching(j)' = Watching(j)
    BY <2>1 DEF Watching, Live, names
  <2> QED BY <2>1, <2>2, WatchStays
<1>7. ASSUME CatchUp PROVE WatchCountsSubscriptions'
  <2>1. watched' = watched /\ UNCHANGED names /\ exec.op # "capture" /\ exec'.op # "capture"
    BY <1>7 DEF CatchUp, board, FanOut, Idle, WakeTypes, Exec
  <2>2. \A j \in Keys : Watching(j)' = Watching(j)
    BY <2>1 DEF Watching, Live, names
  <2> QED BY <2>1, <2>2, WatchStays
<1>8. ASSUME StartFanOut PROVE WatchCountsSubscriptions'
  <2>1. watched' = watched /\ UNCHANGED names /\ exec.op # "capture" /\ exec'.op # "capture"
    BY <1>8 DEF StartFanOut, board, FanOut, Idle, WakeTypes, Exec
  <2>2. \A j \in Keys : Watching(j)' = Watching(j)
    BY <2>1 DEF Watching, Live, names
  <2> QED BY <2>1, <2>2, WatchStays
<1>9. ASSUME ClearKey PROVE WatchCountsSubscriptions'
  <2>1. watched' = watched /\ UNCHANGED names /\ exec.op # "capture" /\ exec'.op # "capture"
    BY <1>9 DEF ClearKey, board, FanOut, Idle, WakeTypes, Exec
  <2>2. \A j \in Keys : Watching(j)' = Watching(j)
    BY <2>1 DEF Watching, Live, names
  <2> QED BY <2>1, <2>2, WatchStays
<1>10. ASSUME EndFanOut PROVE WatchCountsSubscriptions'
  <2>1. watched' = watched /\ UNCHANGED names /\ exec.op # "capture" /\ exec'.op # "capture"
    BY <1>10 DEF EndFanOut, board, FanOut, Idle, WakeTypes, Exec
  <2>2. \A j \in Keys : Watching(j)' = Watching(j)
    BY <2>1 DEF Watching, Live, names
  <2> QED BY <2>1, <2>2, WatchStays
<1>11. ASSUME NEW k \in Keys, FanKey(k) PROVE WatchCountsSubscriptions'
  <2>1. watched' = watched /\ UNCHANGED names /\ exec.op # "capture" /\ exec'.op # "capture"
    BY <1>11 DEF FanKey, board, FanOut, Idle, WakeTypes, Exec
  <2>2. \A j \in Keys : Watching(j)' = Watching(j)
    BY <2>1 DEF Watching, Live, names
  <2> QED BY <2>1, <2>2, WatchStays
<1>12. ASSUME NEW s \in Subs, Release(s) PROVE WatchCountsSubscriptions'
  <2>1. s \in Subs /\ keyOf[s] \in Keys /\ s \in Watching(keyOf[s]) /\ Untrack(keyOf[s])
    BY <1>12 DEF Release, Remove, Watching, ExecOK, NamesOK
  <2>2. /\ stage'[s] = "gone" /\ \A x \in Subs : x # s => stage'[x] = stage[x]
        /\ keyOf' = keyOf /\ exec'.op # "capture" /\ (exec.op = "capture" => exec.sub = s)
    BY <1>12, <2>1 DEF Release, Remove, WakeTypes
  <2>3. \A k \in Keys : Watching(k)' = Watching(k) \ {s}
    BY <2>2 DEF Watching, Live
  <2> QED BY <2>1, <2>3, WatchDrops
<1>13. ASSUME NEW s \in Subs, DetachOne(s) PROVE WatchCountsSubscriptions'
  <2>1. s \in Subs /\ keyOf[s] \in Keys /\ s \in Watching(keyOf[s]) /\ Untrack(keyOf[s])
    BY <1>13 DEF DetachOne, Remove, Watching, ExecOK, NamesOK
  <2>2. /\ stage'[s] = "gone" /\ \A x \in Subs : x # s => stage'[x] = stage[x]
        /\ keyOf' = keyOf /\ exec'.op # "capture" /\ (exec.op = "capture" => exec.sub = s)
    BY <1>13, <2>1 DEF DetachOne, Remove, WakeTypes
  <2>3. \A k \in Keys : Watching(k)' = Watching(k) \ {s}
    BY <2>2 DEF Watching, Live
  <2> QED BY <2>1, <2>3, WatchDrops
<1>14. ASSUME NEW c \in Conns, Detach(c) PROVE WatchCountsSubscriptions'
  <2>1. watched' = watched /\ UNCHANGED names /\ exec.op # "capture" /\ exec'.op # "capture"
    BY <1>14 DEF Detach, board, FanOut, Idle, WakeTypes, Exec
  <2>2. \A j \in Keys : Watching(j)' = Watching(j)
    BY <2>1 DEF Watching, Live, names
  <2> QED BY <2>1, <2>2, WatchStays
<1>15. ASSUME Detached PROVE WatchCountsSubscriptions'
  <2>1. watched' = watched /\ UNCHANGED names /\ exec.op # "capture" /\ exec'.op # "capture"
    BY <1>15 DEF Detached, board, FanOut, Idle, WakeTypes, Exec
  <2>2. \A j \in Keys : Watching(j)' = Watching(j)
    BY <2>1 DEF Watching, Live, names
  <2> QED BY <2>1, <2>2, WatchStays
<1>16. ASSUME NEW c \in Conns, Finish(c) PROVE WatchCountsSubscriptions'
  <2>1. watched' = watched /\ UNCHANGED names /\ exec' = exec
    BY <1>16 DEF Finish, board
  <2>2. \A j \in Keys : Watching(j)' = Watching(j)
    BY <2>1 DEF Watching, Live, names
  <2> QED BY <2>1, <2>2, WatchStays
<1>17. ASSUME NEW c \in Conns, Park(c) PROVE WatchCountsSubscriptions'
  <2>1. watched' = watched /\ UNCHANGED names /\ exec' = exec
    BY <1>17 DEF Park, board
  <2>2. \A j \in Keys : Watching(j)' = Watching(j)
    BY <2>1 DEF Watching, Live, names
  <2> QED BY <2>1, <2>2, WatchStays
<1>18. ASSUME NEW c \in Conns, Wake(c) PROVE WatchCountsSubscriptions'
  <2>1. watched' = watched /\ UNCHANGED names /\ exec' = exec
    BY <1>18 DEF Wake, board
  <2>2. \A j \in Keys : Watching(j)' = Watching(j)
    BY <2>1 DEF Watching, Live, names
  <2> QED BY <2>1, <2>2, WatchStays
<1>19. ASSUME NEW c \in Conns, Shutdown(c) PROVE WatchCountsSubscriptions'
  <2>1. watched' = watched /\ UNCHANGED names /\ exec' = exec
    BY <1>19 DEF Shutdown, board
  <2>2. \A j \in Keys : Watching(j)' = Watching(j)
    BY <2>1 DEF Watching, Live, names
  <2> QED BY <2>1, <2>2, WatchStays
<1>20. ASSUME NEW c \in Conns, NEW s \in Subs, Take(c, s) PROVE WatchCountsSubscriptions'
  <2>1. watched' = watched /\ UNCHANGED names /\ exec' = exec
    BY <1>20 DEF Take, board
  <2>2. \A j \in Keys : Watching(j)' = Watching(j)
    BY <2>1 DEF Watching, Live, names
  <2> QED BY <2>1, <2>2, WatchStays
<1> QED BY <1>1, <1>2, <1>3, <1>4, <1>5, <1>6, <1>7, <1>8, <1>9, <1>10, <1>11, <1>12, <1>13, <1>14, <1>15, <1>16, <1>17, <1>18, <1>19, <1>20 DEF Next, Executor, Writers

\* Every step keeps the cap on an output.
LEMMA RoomOKStep ==
    ASSUME WakeInv, Next PROVE RoomOK'
<1> USE WakeAssumption DEF WakeInv
<1>1. ASSUME NEW k \in Keys, Record(k) \/ Observe(k) PROVE RoomOK'
      BY <1>1 DEF Record, Observe, RoomOK, OnOutput, Live, names
<1>2. ASSUME Mark PROVE RoomOK'
      BY <1>2 DEF Mark, RoomOK, OnOutput, Live, names
<1>3. ASSUME NEW s \in Subs, NEW k \in Keys, NEW c \in Conns, Open(s, k, c) PROVE RoomOK'
  <2>1. stage[s] = "new" /\ stage' = stage /\ \A x \in Subs : x # s => connOf'[x] = connOf[x]
    BY <1>3 DEF Open, WakeTypes
  <2>2. \A d \in Conns : OnOutput(d)' = OnOutput(d)
    BY <2>1 DEF OnOutput, Live
  <2>3. exec'.conn = c /\ Cardinality(OnOutput(c)) < PerOutput
    BY <1>3 DEF Open, HasRoom, WakeTypes, Exec
  <2> QED BY <2>2, <2>3 DEF RoomOK
<1>4. ASSUME CaptureFails PROVE RoomOK'
  <2>1. /\ stage'[exec.sub] = "gone" /\ \A x \in Subs : x # exec.sub => stage'[x] = stage[x]
        /\ connOf' = connOf /\ exec'.op # "capture"
    BY <1>4 DEF CaptureFails, Idle, WakeTypes, ExecOK
  <2>2. \A d \in Conns : OnOutput(d)' \subseteq OnOutput(d)
    BY <2>1 DEF OnOutput, Live
  <2> QED BY <2>1, <2>2, RoomStays
<1>5. ASSUME Capture PROVE RoomOK'
  <2>1. /\ exec.op = "capture" /\ exec'.op = "metadata" /\ exec.sub \in Subs /\ exec.conn \in Conns
        /\ connOf[exec.sub] = exec.conn /\ connOf' = connOf /\ stage[exec.sub] = "new"
        /\ stage'[exec.sub] = "open" /\ \A x \in Subs : x # exec.sub => stage'[x] = stage[x]
    BY <1>5 DEF Capture, ExecOK, WakeTypes, Exec
  <2>2. PICK e \in Conns, s \in Subs : e = exec.conn /\ s = exec.sub
    BY <2>1
  <2>3. OnOutput(e)' = OnOutput(e) \cup {s} /\ s \notin OnOutput(e)
    BY <2>1, <2>2 DEF OnOutput, Live
  <2>4. \A d \in Conns : d # e => OnOutput(d)' = OnOutput(d)
    BY <2>1, <2>2 DEF OnOutput, Live
  <2>5. IsFiniteSet(OnOutput(e)) /\ Cardinality(OnOutput(e)) \in Nat
    BY FS_Subset, FS_CardinalityType DEF OnOutput
  <2>6. Cardinality(OnOutput(e) \cup {s}) = Cardinality(OnOutput(e)) + 1
    BY <2>3, <2>5, FS_AddElement
  <2>7. Cardinality(OnOutput(e)) < PerOutput
    BY <2>1, <2>2 DEF RoomOK
  <2>8. Cardinality(OnOutput(e)') <= PerOutput
    BY <2>3, <2>5, <2>6, <2>7
  <2> QED BY <2>1, <2>4, <2>8 DEF RoomOK
<1>6. ASSUME Metadata PROVE RoomOK'
  <2>1. UNCHANGED names /\ exec'.op # "capture"
    BY <1>6 DEF Metadata, FanOut, Idle, WakeTypes, Exec
  <2>2. \A d \in Conns : OnOutput(d)' \subseteq OnOutput(d)
    BY <2>1 DEF OnOutput, Live, names
  <2> QED BY <2>1, <2>2, RoomStays
<1>7. ASSUME CatchUp PROVE RoomOK'
  <2>1. UNCHANGED names /\ exec'.op # "capture"
    BY <1>7 DEF CatchUp, FanOut, Idle, WakeTypes, Exec
  <2>2. \A d \in Conns : OnOutput(d)' \subseteq OnOutput(d)
    BY <2>1 DEF OnOutput, Live, names
  <2> QED BY <2>1, <2>2, RoomStays
<1>8. ASSUME StartFanOut PROVE RoomOK'
  <2>1. UNCHANGED names /\ exec'.op # "capture"
    BY <1>8 DEF StartFanOut, FanOut, Idle, WakeTypes, Exec
  <2>2. \A d \in Conns : OnOutput(d)' \subseteq OnOutput(d)
    BY <2>1 DEF OnOutput, Live, names
  <2> QED BY <2>1, <2>2, RoomStays
<1>9. ASSUME ClearKey PROVE RoomOK'
  <2>1. UNCHANGED names /\ exec'.op # "capture"
    BY <1>9 DEF ClearKey, FanOut, Idle, WakeTypes, Exec
  <2>2. \A d \in Conns : OnOutput(d)' \subseteq OnOutput(d)
    BY <2>1 DEF OnOutput, Live, names
  <2> QED BY <2>1, <2>2, RoomStays
<1>10. ASSUME EndFanOut PROVE RoomOK'
  <2>1. UNCHANGED names /\ exec'.op # "capture"
    BY <1>10 DEF EndFanOut, FanOut, Idle, WakeTypes, Exec
  <2>2. \A d \in Conns : OnOutput(d)' \subseteq OnOutput(d)
    BY <2>1 DEF OnOutput, Live, names
  <2> QED BY <2>1, <2>2, RoomStays
<1>11. ASSUME NEW k \in Keys, FanKey(k) PROVE RoomOK'
  <2>1. UNCHANGED names /\ exec'.op # "capture"
    BY <1>11 DEF FanKey, FanOut, Idle, WakeTypes, Exec
  <2>2. \A d \in Conns : OnOutput(d)' \subseteq OnOutput(d)
    BY <2>1 DEF OnOutput, Live, names
  <2> QED BY <2>1, <2>2, RoomStays
<1>12. ASSUME NEW s \in Subs, Release(s) PROVE RoomOK'
  <2>1. /\ stage'[s] = "gone" /\ \A x \in Subs : x # s => stage'[x] = stage[x]
        /\ connOf' = connOf /\ exec'.op # "capture"
    BY <1>12 DEF Release, Remove, WakeTypes, ExecOK
  <2>2. \A d \in Conns : OnOutput(d)' \subseteq OnOutput(d)
    BY <2>1 DEF OnOutput, Live
  <2> QED BY <2>1, <2>2, RoomStays
<1>13. ASSUME NEW s \in Subs, DetachOne(s) PROVE RoomOK'
  <2>1. /\ stage'[s] = "gone" /\ \A x \in Subs : x # s => stage'[x] = stage[x]
        /\ connOf' = connOf /\ exec'.op # "capture"
    BY <1>13 DEF DetachOne, Remove, WakeTypes, ExecOK
  <2>2. \A d \in Conns : OnOutput(d)' \subseteq OnOutput(d)
    BY <2>1 DEF OnOutput, Live
  <2> QED BY <2>1, <2>2, RoomStays
<1>14. ASSUME NEW c \in Conns, Detach(c) PROVE RoomOK'
  <2>1. UNCHANGED names /\ exec'.op # "capture"
    BY <1>14 DEF Detach, FanOut, Idle, WakeTypes, Exec
  <2>2. \A d \in Conns : OnOutput(d)' \subseteq OnOutput(d)
    BY <2>1 DEF OnOutput, Live, names
  <2> QED BY <2>1, <2>2, RoomStays
<1>15. ASSUME Detached PROVE RoomOK'
  <2>1. UNCHANGED names /\ exec'.op # "capture"
    BY <1>15 DEF Detached, FanOut, Idle, WakeTypes, Exec
  <2>2. \A d \in Conns : OnOutput(d)' \subseteq OnOutput(d)
    BY <2>1 DEF OnOutput, Live, names
  <2> QED BY <2>1, <2>2, RoomStays
<1>16. ASSUME NEW c \in Conns, Finish(c) PROVE RoomOK'
      BY <1>16 DEF Finish, RoomOK, OnOutput, Live, names
<1>17. ASSUME NEW c \in Conns, Park(c) PROVE RoomOK'
      BY <1>17 DEF Park, RoomOK, OnOutput, Live, names
<1>18. ASSUME NEW c \in Conns, Wake(c) PROVE RoomOK'
      BY <1>18 DEF Wake, RoomOK, OnOutput, Live, names
<1>19. ASSUME NEW c \in Conns, Shutdown(c) PROVE RoomOK'
      BY <1>19 DEF Shutdown, RoomOK, OnOutput, Live, names
<1>20. ASSUME NEW c \in Conns, NEW s \in Subs, Take(c, s) PROVE RoomOK'
      BY <1>20 DEF Take, RoomOK, OnOutput, Live, names
<1> QED BY <1>1, <1>2, <1>3, <1>4, <1>5, <1>6, <1>7, <1>8, <1>9, <1>10, <1>11, <1>12, <1>13, <1>14, <1>15, <1>16, <1>17, <1>18, <1>19, <1>20 DEF Next, Executor, Writers

-----------------------------------------------------------------------------
(* The invariant and what follows from it.                                   *)

\* The invariant holds before anything happened.
LEMMA WakeInvInit == Init => WakeInv
<1> SUFFICES ASSUME Init PROVE WakeInv
  OBVIOUS
<1> USE WakeAssumption
<1>1. WakeTypes
  BY DEF Init, WakeTypes, Slot, Exec, Empty, Idle, NoWrite
<1>2. NamesOK /\ ExecOK /\ BoardOK /\ FanOK
  BY DEF Init, NamesOK, ExecOK, BoardOK, FanOK, Live, Idle
<1>3. PendingOK /\ OwnerOK /\ TokenOK
  BY DEF Init, PendingOK, OwnerOK, TokenOK, Empty
<1>4. HoldsOK /\ IdleOK /\ InflightOK /\ SlotOK
  BY DEF Init, HoldsOK, IdleOK, InflightOK, SlotOK, Empty, NoWrite, Live
<1>5. \A k \in Keys : Watching(k) = {} /\ watched[k] = 0
  BY DEF Init, Watching, Live, Idle
<1>6. WatchCountsSubscriptions
  BY <1>5, FS_EmptySet DEF WatchCountsSubscriptions
<1>7. \A c \in Conns : OnOutput(c) = {}
  BY DEF Init, OnOutput, Live
<1>8. RoomOK
  <2>1. \A c \in Conns : Cardinality(OnOutput(c)) = 0
    BY <1>7, FS_EmptySet
  <2>2. exec.op # "capture"
    BY DEF Init, Idle
  <2> QED BY <2>1, <2>2 DEF RoomOK
<1>9. OnItsWay
  BY DEF Init, OnItsWay, Live
<1> QED BY <1>1, <1>2, <1>3, <1>4, <1>6, <1>8, <1>9 DEF WakeInv

\* A stuttering step keeps it.
LEMMA WakeInvStutter ==
    ASSUME WakeInv, UNCHANGED vars PROVE WakeInv'
<1> USE DEF vars, board, lanes, names
<1>1. WakeTypes' /\ NamesOK' /\ ExecOK' /\ BoardOK' /\ FanOK'
  BY DEF WakeInv, WakeTypes, NamesOK, ExecOK, BoardOK, FanOK, Live, Reachable
<1>2. PendingOK' /\ OwnerOK' /\ TokenOK'
  BY DEF WakeInv, PendingOK, OwnerOK, TokenOK
<1>3. HoldsOK' /\ IdleOK' /\ InflightOK' /\ SlotOK'
  BY DEF WakeInv, HoldsOK, Holds, IdleOK, InflightOK, SlotOK, Live
<1>4. WatchCountsSubscriptions' /\ RoomOK'
  BY DEF WakeInv, WatchCountsSubscriptions, Watching, RoomOK, OnOutput, Live
<1>5. OnItsWay'
  BY DEF WakeInv, OnItsWay, RecordIsOnItsWay, Live, Reachable
<1> QED BY <1>1, <1>2, <1>3, <1>4, <1>5 DEF WakeInv

\* Every step of the producers, the executor and the writers keeps the invariant.
LEMMA WakeInvStep ==
    ASSUME WakeInv, Next PROVE WakeInv'
BY WakeTypesStep, NamesOKStep, ExecOKStep, BoardOKStep, FanOKStep, PendingOKStep,
   OwnerOKStep, TokenOKStep, HoldsOKStep, IdleOKStep, InflightOKStep, SlotOKStep,
   OnItsWayStep, WatchCountsSubscriptionsStep, RoomOKStep
   DEF WakeInv

\* The inductive invariant of the wake path.
THEOREM WakeInvariant == Spec => []WakeInv
<1>1. WakeInv /\ [Next]_vars => WakeInv'
  BY WakeInvStep, WakeInvStutter
<1> QED BY <1>1, WakeInvInit, PTL DEF Spec

\* Variables keep their types and no output carries more subscriptions than
\* MAX_CONVERSATION_SUBSCRIPTIONS_PER_OUTPUT, whatever its value.
THEOREM WakeTypeCorrect == Spec => []WakeTypeOK
<1>1. WakeInv => WakeTypeOK
  BY DEF WakeInv, WakeTypes, RoomOK, WakeTypeOK
<1> QED BY <1>1, WakeInvariant, PTL

\* The reference counts of the dirty board agree with the registry on every path
\* that opens, fails, releases or detaches a subscription (track, untrack).
THEOREM WatchCountsAreExact == Spec => []WatchCountsSubscriptions
<1>1. WakeInv => WatchCountsSubscriptions
  BY DEF WakeInv
<1> QED BY <1>1, WakeInvariant, PTL

\* A writer never sleeps on a pending notice without a token, and exactly the
\* queued slots are pending (admit, take_pending, finish).
THEOREM WakesAreNotLost == Spec => []NoLostWake
<1>1. WakeInv => NoLostWake
  <2> SUFFICES ASSUME WakeInv PROVE NoLostWake
    OBVIOUS
  <2>1. pending = {s \in Subs : slot[s].phase = "queued"}
    BY DEF WakeInv, WakeTypes, PendingOK
  <2>2. \A c \in Conns : parked[c] /\ (\E s \in pending : connOf[s] = c) => token[c]
    BY DEF WakeInv, WakeTypes, TokenOK
  <2> QED BY <2>1, <2>2 DEF NoLostWake
<1> QED BY <1>1, WakeInvariant, PTL

\* No record is lost on its way to a reader whose connection lives (mark,
\* race_catch_up_high_water, clear_if_at_most, finish).
THEOREM NoticesAreNotLost == Spec => []NoLostNotice
<1>1. WakeInv => NoLostNotice
  <2> SUFFICES ASSUME WakeInv, NEW s \in Subs, Live(s), Reachable(s)
               PROVE  NotifiedIsOnItsWay(s) /\ RecordIsOnItsWay(s)
    BY DEF NoLostNotice
  <2>1. NotifiedIsOnItsWay(s)
    BY DEF WakeInv, SlotOK, NotifiedIsOnItsWay, Reachable
  <2> QED BY <2>1 DEF WakeInv, OnItsWay
<1> QED BY <1>1, WakeInvariant, PTL

\* What a writer is about to write is news to its client (note_notified, finish).
THEOREM NoticesAreNews == Spec => []NoticeIsNews
<1>1. WakeInv => NoticeIsNews
  BY DEF WakeInv, HoldsOK, Holds, IdleOK, NoWrite, NoticeIsNews
<1> QED BY <1>1, WakeInvariant, PTL
=============================================================================
