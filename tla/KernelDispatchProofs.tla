------------------------ MODULE KernelDispatchProofs ------------------------
(***************************************************************************)
(* Proofs, for every number of tasks, resources, sessions and operations,  *)
(* every horizon and every set of lease lengths, of what KernelDispatch    *)
(* promises.                                                               *)
(***************************************************************************)
EXTENDS KernelDispatchProperties, TLAPS

-----------------------------------------------------------------------------
(* Lemmas about the helpers.                                                 *)

\* The later of two times is one of them and precedes neither.
LEMMA MaxOfFacts ==
    ASSUME NEW a \in Int, NEW b \in Int
    PROVE  MaxOf(a, b) \in Int /\ a <= MaxOf(a, b) /\ b <= MaxOf(a, b)
BY DEF MaxOf

Columns == {"state", "gen", "attempts", "avail", "lease", "started", "proof", "provedAt", "err"}

\* A function on the columns with values of the columns' types is a row.
LEMMA RowFromColumns ==
    ASSUME NEW r, r = [x \in DOMAIN r |-> r[x]], DOMAIN r = Columns,
           r.state \in OutboxStates, r.gen \in Nat, r.attempts \in Nat, r.avail \in Int,
           r.lease \in Int, r.started \in Int, r.proof \in Nat, r.provedAt \in Int,
           r.err \in ErrorClasses
    PROVE  r \in OutboxRow
BY DEF Columns, OutboxRow

\* What transition_outbox writes, column by column.
LEMMA TransitionFacts ==
    ASSUME NEW r \in OutboxRow, NEW state \in OutboxStates, NEW err \in ErrorClasses
    PROVE  LET q == TransitionOutbox(r, state, err) IN
           /\ q \in OutboxRow
           /\ q.state = state /\ q.gen = r.gen /\ q.attempts = r.attempts
           /\ q.avail = r.avail /\ q.lease = NoTime /\ q.started = r.started
           /\ q.proof = 0 /\ q.provedAt = NoTime /\ q.err = err
<1> DEFINE q == TransitionOutbox(r, state, err)
<1>1. q = [x \in DOMAIN q |-> q[x]]
  BY Zenon DEF TransitionOutbox
<1>2. DOMAIN q = Columns
  BY DEF OutboxRow, Columns, TransitionOutbox
<1>3. /\ q.state = state /\ q.gen = r.gen /\ q.attempts = r.attempts
      /\ q.avail = r.avail /\ q.lease = NoTime /\ q.started = r.started
      /\ q.proof = 0 /\ q.provedAt = NoTime /\ q.err = err
  BY DEF OutboxRow, TransitionOutbox
<1>4. /\ r.state \in OutboxStates /\ r.gen \in Nat /\ r.attempts \in Nat /\ r.avail \in Int
      /\ r.lease \in Int /\ r.started \in Int /\ r.proof \in Nat /\ r.provedAt \in Int
      /\ r.err \in ErrorClasses
  BY DEF OutboxRow
<1>5. state \in OutboxStates /\ NoTime \in Int /\ 0 \in Nat /\ NoTime \in Int /\ err \in ErrorClasses
  BY <1>4 DEF NoTime, OutboxStates, ErrorClasses
<1> HIDE DEF q
<1>6. q \in OutboxRow
  BY <1>1, <1>2, <1>3, <1>4, <1>5, RowFromColumns
<1> QED BY <1>3, <1>6 DEF q

\* What claim_outbox_row writes.
LEMMA ClaimedFacts ==
    ASSUME NEW r \in OutboxRow, NEW d \in Nat, now \in Nat
    PROVE  LET q == Claimed(r, d) IN
           /\ q \in OutboxRow
           /\ q.state = "claimed" /\ q.gen = r.gen + 1 /\ q.attempts = r.attempts
           /\ q.avail = r.avail /\ q.lease = now + d /\ q.started = r.started
           /\ q.proof = r.proof /\ q.provedAt = r.provedAt /\ q.err = r.err
<1> DEFINE q == Claimed(r, d)
<1>1. q = [x \in DOMAIN q |-> q[x]]
  BY Zenon DEF Claimed
<1>2. DOMAIN q = Columns
  BY DEF OutboxRow, Columns, Claimed
<1>3. /\ q.state = "claimed" /\ q.gen = r.gen + 1 /\ q.attempts = r.attempts
      /\ q.avail = r.avail /\ q.lease = now + d /\ q.started = r.started
      /\ q.proof = r.proof /\ q.provedAt = r.provedAt /\ q.err = r.err
  BY DEF OutboxRow, Claimed
<1>4. /\ r.state \in OutboxStates /\ r.gen \in Nat /\ r.attempts \in Nat /\ r.avail \in Int
      /\ r.lease \in Int /\ r.started \in Int /\ r.proof \in Nat /\ r.provedAt \in Int
      /\ r.err \in ErrorClasses
  BY DEF OutboxRow
<1>5. "claimed" \in OutboxStates /\ r.gen + 1 \in Nat /\ now + d \in Int
  BY <1>4 DEF NoTime, OutboxStates, ErrorClasses
<1> HIDE DEF q
<1>6. q \in OutboxRow
  BY <1>1, <1>2, <1>3, <1>4, <1>5, RowFromColumns
<1> QED BY <1>3, <1>6 DEF q

\* What release_dispatch_claim writes.
LEMMA HandedBackFacts ==
    ASSUME NEW r \in OutboxRow, NEW until \in Int
    PROVE  LET q == HandedBack(r, until) IN
           /\ q \in OutboxRow
           /\ q.state = "pending" /\ q.gen = r.gen /\ q.attempts = r.attempts
           /\ q.avail = until /\ q.lease = NoTime /\ q.started = r.started
           /\ q.proof = r.proof /\ q.provedAt = r.provedAt /\ q.err = r.err
<1> DEFINE q == HandedBack(r, until)
<1>1. q = [x \in DOMAIN q |-> q[x]]
  BY Zenon DEF HandedBack
<1>2. DOMAIN q = Columns
  BY DEF OutboxRow, Columns, HandedBack
<1>3. /\ q.state = "pending" /\ q.gen = r.gen /\ q.attempts = r.attempts
      /\ q.avail = until /\ q.lease = NoTime /\ q.started = r.started
      /\ q.proof = r.proof /\ q.provedAt = r.provedAt /\ q.err = r.err
  BY DEF OutboxRow, HandedBack
<1>4. /\ r.state \in OutboxStates /\ r.gen \in Nat /\ r.attempts \in Nat /\ r.avail \in Int
      /\ r.lease \in Int /\ r.started \in Int /\ r.proof \in Nat /\ r.provedAt \in Int
      /\ r.err \in ErrorClasses
  BY DEF OutboxRow
<1>5. "pending" \in OutboxStates /\ until \in Int /\ NoTime \in Int
  BY <1>4 DEF NoTime, OutboxStates, ErrorClasses
<1> HIDE DEF q
<1>6. q \in OutboxRow
  BY <1>1, <1>2, <1>3, <1>4, <1>5, RowFromColumns
<1> QED BY <1>3, <1>6 DEF q

\* What begin_dispatch writes.
LEMMA BegunFacts ==
    ASSUME NEW r \in OutboxRow, NEW at \in Int
    PROVE  LET q == Begun(r, at) IN
           /\ q \in OutboxRow
           /\ q.state = "dispatching" /\ q.gen = r.gen /\ q.attempts = r.attempts + 1
           /\ q.avail = r.avail /\ q.lease = r.lease /\ q.started = at
           /\ q.proof = 0 /\ q.provedAt = NoTime /\ q.err = r.err
<1> DEFINE q == Begun(r, at)
<1>1. q = [x \in DOMAIN q |-> q[x]]
  BY Zenon DEF Begun
<1>2. DOMAIN q = Columns
  BY DEF OutboxRow, Columns, Begun
<1>3. /\ q.state = "dispatching" /\ q.gen = r.gen /\ q.attempts = r.attempts + 1
      /\ q.avail = r.avail /\ q.lease = r.lease /\ q.started = at
      /\ q.proof = 0 /\ q.provedAt = NoTime /\ q.err = r.err
  BY DEF OutboxRow, Begun
<1>4. /\ r.state \in OutboxStates /\ r.gen \in Nat /\ r.attempts \in Nat /\ r.avail \in Int
      /\ r.lease \in Int /\ r.started \in Int /\ r.proof \in Nat /\ r.provedAt \in Int
      /\ r.err \in ErrorClasses
  BY DEF OutboxRow
<1>5. "dispatching" \in OutboxStates /\ r.attempts + 1 \in Nat /\ at \in Int /\ 0 \in Nat /\ NoTime \in Int
  BY <1>4 DEF NoTime, OutboxStates, ErrorClasses
<1> HIDE DEF q
<1>6. q \in OutboxRow
  BY <1>1, <1>2, <1>3, <1>4, <1>5, RowFromColumns
<1> QED BY <1>3, <1>6 DEF q

\* What defer_dispatch_before_boundary writes.
LEMMA TakenBackFacts ==
    ASSUME NEW r \in OutboxRow, NEW until \in Int, r.attempts # 0
    PROVE  LET q == TakenBack(r, until) IN
           /\ q \in OutboxRow
           /\ q.state = "pending" /\ q.gen = r.gen /\ q.attempts = r.attempts - 1
           /\ q.avail = until /\ q.lease = NoTime /\ q.started = NoTime
           /\ q.proof = r.proof /\ q.provedAt = r.provedAt /\ q.err = r.err
<1> DEFINE q == TakenBack(r, until)
<1>1. q = [x \in DOMAIN q |-> q[x]]
  BY Zenon DEF TakenBack, HandedBack
<1>2. DOMAIN q = Columns
  BY DEF OutboxRow, Columns, TakenBack, HandedBack
<1>3. /\ q.state = "pending" /\ q.gen = r.gen /\ q.attempts = r.attempts - 1
      /\ q.avail = until /\ q.lease = NoTime /\ q.started = NoTime
      /\ q.proof = r.proof /\ q.provedAt = r.provedAt /\ q.err = r.err
  BY DEF OutboxRow, TakenBack, HandedBack
<1>4. /\ r.state \in OutboxStates /\ r.gen \in Nat /\ r.attempts \in Nat /\ r.avail \in Int
      /\ r.lease \in Int /\ r.started \in Int /\ r.proof \in Nat /\ r.provedAt \in Int
      /\ r.err \in ErrorClasses
  BY DEF OutboxRow
<1>5. "pending" \in OutboxStates /\ r.attempts - 1 \in Nat /\ until \in Int /\ NoTime \in Int /\ NoTime \in Int
  BY <1>4 DEF NoTime, OutboxStates, ErrorClasses
<1> HIDE DEF q
<1>6. q \in OutboxRow
  BY <1>1, <1>2, <1>3, <1>4, <1>5, RowFromColumns
<1> QED BY <1>3, <1>6 DEF q

\* What an unresolved attempt or lookup leaves behind.
LEMMA PostponedFacts ==
    ASSUME NEW r \in OutboxRow,
           NEW state \in OutboxStates, NEW err \in ErrorClasses, NEW until \in Int
    PROVE  LET q == Postponed(r, state, err, until) IN
           /\ q \in OutboxRow
           /\ q.state = state /\ q.gen = r.gen /\ q.attempts = r.attempts
           /\ q.avail = until /\ q.lease = NoTime /\ q.started = r.started
           /\ q.proof = 0 /\ q.provedAt = NoTime /\ q.err = err
<1> DEFINE q == Postponed(r, state, err, until)
<1>1. q = [x \in DOMAIN q |-> q[x]]
  BY Zenon DEF Postponed
<1>2. DOMAIN q = Columns
  BY DEF OutboxRow, Columns, Postponed
<1>3. /\ q.state = state /\ q.gen = r.gen /\ q.attempts = r.attempts
      /\ q.avail = until /\ q.lease = NoTime /\ q.started = r.started
      /\ q.proof = 0 /\ q.provedAt = NoTime /\ q.err = err
  BY DEF OutboxRow, Postponed
<1>4. /\ r.state \in OutboxStates /\ r.gen \in Nat /\ r.attempts \in Nat /\ r.avail \in Int
      /\ r.lease \in Int /\ r.started \in Int /\ r.proof \in Nat /\ r.provedAt \in Int
      /\ r.err \in ErrorClasses
  BY DEF OutboxRow
<1>5. state \in OutboxStates /\ until \in Int /\ NoTime \in Int /\ 0 \in Nat /\ NoTime \in Int /\ err \in ErrorClasses
  BY <1>4 DEF NoTime, OutboxStates, ErrorClasses
<1> HIDE DEF q
<1>6. q \in OutboxRow
  BY <1>1, <1>2, <1>3, <1>4, <1>5, RowFromColumns
<1> QED BY <1>3, <1>6 DEF q

\* What a proof of absence writes.
LEMMA ProvedAbsentFacts ==
    ASSUME NEW r \in OutboxRow, NEW at \in Int, NEW d \in Nat
    PROVE  LET q == ProvedAbsent(r, at, d) IN
           /\ q \in OutboxRow
           /\ q.state = "pending" /\ q.gen = r.gen /\ q.attempts = r.attempts
           /\ q.avail = at + d /\ q.lease = NoTime /\ q.started = r.started
           /\ q.proof = r.attempts /\ q.provedAt = at /\ q.err = "none"
<1> DEFINE q == ProvedAbsent(r, at, d)
<1>1. q = [x \in DOMAIN q |-> q[x]]
  BY Zenon DEF ProvedAbsent, Postponed
<1>2. DOMAIN q = Columns
  BY DEF OutboxRow, Columns, ProvedAbsent, Postponed
<1>3. /\ q.state = "pending" /\ q.gen = r.gen /\ q.attempts = r.attempts
      /\ q.avail = at + d /\ q.lease = NoTime /\ q.started = r.started
      /\ q.proof = r.attempts /\ q.provedAt = at /\ q.err = "none"
  BY DEF OutboxRow, ProvedAbsent, Postponed
<1>4. /\ r.state \in OutboxStates /\ r.gen \in Nat /\ r.attempts \in Nat /\ r.avail \in Int
      /\ r.lease \in Int /\ r.started \in Int /\ r.proof \in Nat /\ r.provedAt \in Int
      /\ r.err \in ErrorClasses
  BY DEF OutboxRow
<1>5. "pending" \in OutboxStates /\ at + d \in Int /\ NoTime \in Int /\ r.attempts \in Nat /\ at \in Int /\ "none" \in ErrorClasses
  BY <1>4 DEF NoTime, OutboxStates, ErrorClasses
<1> HIDE DEF q
<1>6. q \in OutboxRow
  BY <1>1, <1>2, <1>3, <1>4, <1>5, RowFromColumns
<1> QED BY <1>3, <1>6 DEF q

\* What claim_next_reconciliation writes.
LEMMA LookedUpFacts ==
    ASSUME NEW r \in OutboxRow, NEW d \in Nat, now \in Nat
    PROVE  LET q == LookedUp(r, d) IN
           /\ q \in OutboxRow
           /\ q.state = "reconciling" /\ q.gen = r.gen + 1 /\ q.attempts = r.attempts
           /\ q.avail = r.avail /\ q.lease = now + d /\ q.started = r.started
           /\ q.proof = r.proof /\ q.provedAt = r.provedAt /\ q.err = r.err
<1> DEFINE q == LookedUp(r, d)
<1>1. q = [x \in DOMAIN q |-> q[x]]
  BY Zenon DEF LookedUp
<1>2. DOMAIN q = Columns
  BY DEF OutboxRow, Columns, LookedUp
<1>3. /\ q.state = "reconciling" /\ q.gen = r.gen + 1 /\ q.attempts = r.attempts
      /\ q.avail = r.avail /\ q.lease = now + d /\ q.started = r.started
      /\ q.proof = r.proof /\ q.provedAt = r.provedAt /\ q.err = r.err
  BY DEF OutboxRow, LookedUp
<1>4. /\ r.state \in OutboxStates /\ r.gen \in Nat /\ r.attempts \in Nat /\ r.avail \in Int
      /\ r.lease \in Int /\ r.started \in Int /\ r.proof \in Nat /\ r.provedAt \in Int
      /\ r.err \in ErrorClasses
  BY DEF OutboxRow
<1>5. "reconciling" \in OutboxStates /\ r.gen + 1 \in Nat /\ now + d \in Int
  BY <1>4 DEF NoTime, OutboxStates, ErrorClasses
<1> HIDE DEF q
<1>6. q \in OutboxRow
  BY <1>1, <1>2, <1>3, <1>4, <1>5, RowFromColumns
<1> QED BY <1>3, <1>6 DEF q

\* Advancing the lease generation writes nothing else.
LEMMA NextGenFacts ==
    ASSUME NEW r \in OutboxRow
    PROVE  LET q == NextGeneration(r) IN
           /\ q \in OutboxRow
           /\ q.state = r.state /\ q.gen = r.gen + 1 /\ q.attempts = r.attempts
           /\ q.avail = r.avail /\ q.lease = r.lease /\ q.started = r.started
           /\ q.proof = r.proof /\ q.provedAt = r.provedAt /\ q.err = r.err
<1> DEFINE q == NextGeneration(r)
<1>1. q = [x \in DOMAIN q |-> q[x]]
  BY Zenon DEF NextGeneration
<1>2. DOMAIN q = Columns
  BY DEF OutboxRow, Columns, NextGeneration
<1>3. /\ q.state = r.state /\ q.gen = r.gen + 1 /\ q.attempts = r.attempts
      /\ q.avail = r.avail /\ q.lease = r.lease /\ q.started = r.started
      /\ q.proof = r.proof /\ q.provedAt = r.provedAt /\ q.err = r.err
  BY DEF OutboxRow, NextGeneration
<1>4. /\ r.state \in OutboxStates /\ r.gen \in Nat /\ r.attempts \in Nat /\ r.avail \in Int
      /\ r.lease \in Int /\ r.started \in Int /\ r.proof \in Nat /\ r.provedAt \in Int
      /\ r.err \in ErrorClasses
  BY DEF OutboxRow
<1>5. r.gen + 1 \in Nat
  BY <1>4 DEF NoTime, OutboxStates, ErrorClasses
<1> HIDE DEF q
<1>6. q \in OutboxRow
  BY <1>1, <1>2, <1>3, <1>4, <1>5, RowFromColumns
<1> QED BY <1>3, <1>6 DEF q

\* Moving the lease writes nothing else.
LEMMA LeaseFacts ==
    ASSUME NEW r \in OutboxRow, NEW until \in Int
    PROVE  LET q == [r EXCEPT !.lease = until] IN
           /\ q \in OutboxRow
           /\ q.state = r.state /\ q.gen = r.gen /\ q.attempts = r.attempts
           /\ q.avail = r.avail /\ q.lease = until /\ q.started = r.started
           /\ q.proof = r.proof /\ q.provedAt = r.provedAt /\ q.err = r.err
<1> DEFINE q == [r EXCEPT !.lease = until]
<1>1. q = [x \in DOMAIN q |-> q[x]]
  BY Zenon
<1>2. DOMAIN q = Columns
  BY DEF OutboxRow, Columns
<1>3. /\ q.state = r.state /\ q.gen = r.gen /\ q.attempts = r.attempts
      /\ q.avail = r.avail /\ q.lease = until /\ q.started = r.started
      /\ q.proof = r.proof /\ q.provedAt = r.provedAt /\ q.err = r.err
  BY DEF OutboxRow
<1>4. /\ r.state \in OutboxStates /\ r.gen \in Nat /\ r.attempts \in Nat /\ r.avail \in Int
      /\ r.lease \in Int /\ r.started \in Int /\ r.proof \in Nat /\ r.provedAt \in Int
      /\ r.err \in ErrorClasses
  BY DEF OutboxRow
<1>5. until \in Int
  BY <1>4 DEF NoTime, OutboxStates, ErrorClasses
<1> HIDE DEF q
<1>6. q \in OutboxRow
  BY <1>1, <1>2, <1>3, <1>4, <1>5, RowFromColumns
<1> QED BY <1>3, <1>6 DEF q

\* Dating a row writes nothing else.
LEMMA AvailFacts ==
    ASSUME NEW r \in OutboxRow, NEW at \in Int
    PROVE  LET q == [r EXCEPT !.avail = at] IN
           /\ q \in OutboxRow
           /\ q.state = r.state /\ q.gen = r.gen /\ q.attempts = r.attempts
           /\ q.avail = at /\ q.lease = r.lease /\ q.started = r.started
           /\ q.proof = r.proof /\ q.provedAt = r.provedAt /\ q.err = r.err
<1> DEFINE q == [r EXCEPT !.avail = at]
<1>1. q = [x \in DOMAIN q |-> q[x]]
  BY Zenon
<1>2. DOMAIN q = Columns
  BY DEF OutboxRow, Columns
<1>3. /\ q.state = r.state /\ q.gen = r.gen /\ q.attempts = r.attempts
      /\ q.avail = at /\ q.lease = r.lease /\ q.started = r.started
      /\ q.proof = r.proof /\ q.provedAt = r.provedAt /\ q.err = r.err
  BY DEF OutboxRow
<1>4. /\ r.state \in OutboxStates /\ r.gen \in Nat /\ r.attempts \in Nat /\ r.avail \in Int
      /\ r.lease \in Int /\ r.started \in Int /\ r.proof \in Nat /\ r.provedAt \in Int
      /\ r.err \in ErrorClasses
  BY DEF OutboxRow
<1>5. at \in Int
  BY <1>4 DEF NoTime, OutboxStates, ErrorClasses
<1> HIDE DEF q
<1>6. q \in OutboxRow
  BY <1>1, <1>2, <1>3, <1>4, <1>5, RowFromColumns
<1> QED BY <1>3, <1>6 DEF q

\* What recording an outcome writes into an operation.
LEMMA ConcludedFacts ==
    ASSUME NEW p \in Operation, NEW outcome \in Outcomes \cup {"uncertain"}, NEW at \in Int
    PROVE  LET q == Concluded(p, outcome, at) IN
           /\ q \in Operation
           /\ q.state = outcome /\ q.outcomeAt = at /\ q.kind = p.kind /\ q.task = p.task
           /\ q.epoch = p.epoch /\ q.target = p.target /\ q.acceptedAt = p.acceptedAt
           /\ q.reconciled = p.reconciled
<1> DEFINE a == [p EXCEPT !.state = outcome]
           q == [a EXCEPT !.outcomeAt = at]
<1>1. Concluded(p, outcome, at) = q
  BY Zenon DEF Concluded
<1>2. a \in Operation
  BY DEF Operation, Outcomes
<1>3. /\ q.state = outcome /\ q.outcomeAt = at /\ q.kind = p.kind /\ q.task = p.task
      /\ q.epoch = p.epoch /\ q.target = p.target /\ q.acceptedAt = p.acceptedAt
      /\ q.reconciled = p.reconciled
  BY DEF Operation
<1> HIDE DEF a
<1>4. q \in Operation
  BY <1>2 DEF Operation
<1> QED BY <1>1, <1>3, <1>4 DEF a

\* Marking an operation reconciled writes nothing else.
LEMMA ReconciledFacts ==
    ASSUME NEW p \in Operation
    PROVE  LET q == Reconciled(p) IN
           /\ q \in Operation
           /\ q.state = p.state /\ q.outcomeAt = p.outcomeAt /\ q.kind = p.kind /\ q.task = p.task
           /\ q.epoch = p.epoch /\ q.target = p.target /\ q.acceptedAt = p.acceptedAt
           /\ q.reconciled = TRUE
BY DEF Operation, Reconciled

-----------------------------------------------------------------------------
(* Type correctness.                                                         *)

\* The columns of a stored operation and of its row.
LEMMA StoredTypes ==
    ASSUME TypeOK, NEW o \in Ops
    PROVE  /\ now \in Nat
           /\ row[o] \in OutboxRow /\ op[o] \in Operation
           /\ row[o].gen \in Nat /\ row[o].attempts \in Nat /\ row[o].avail \in Int
           /\ row[o].lease \in Int /\ row[o].started \in Int /\ row[o].proof \in Nat
           /\ row[o].provedAt \in Int
           /\ op[o].kind \in EffectKinds /\ op[o].task \in Tasks /\ op[o].epoch \in Nat
           /\ op[o].acceptedAt \in Int /\ op[o].outcomeAt \in Int
<1>1. now \in Nat
  BY BoundsAssumption DEF TypeOK
<1>2. row[o] \in OutboxRow /\ op[o] \in Operation
  BY DEF TypeOK
<1> QED BY <1>1, <1>2 DEF OutboxRow, Operation

\* The dates the kernel writes are dates.
LEMMA DateTypes ==
    ASSUME TypeOK, NEW o \in Ops
    PROVE  /\ \A d \in Durations : /\ d \in Nat /\ PutBackUntil(o, d) \in Int
                                   /\ ObservedAt(o) + d \in Int
           /\ ObservedAt(o) \in Int /\ CompletedAt(o) \in Int /\ UncertainAt(o) \in Int
           /\ MaxOf(now, row[o].avail) \in Int
           /\ MaxOf(now, MaxOf(op[o].acceptedAt, row[o].avail)) \in Int
<1>1. /\ now \in Int /\ row[o].avail \in Int /\ row[o].started \in Int
      /\ op[o].acceptedAt \in Int
  BY StoredTypes
<1>2. ObservedAt(o) \in Int /\ MaxOf(now, row[o].avail) \in Int
  BY <1>1, MaxOfFacts DEF ObservedAt
<1>3. CompletedAt(o) \in Int /\ UncertainAt(o) \in Int
  BY <1>1, MaxOfFacts DEF CompletedAt, UncertainAt
<1>4. MaxOf(now, MaxOf(op[o].acceptedAt, row[o].avail)) \in Int
  BY <1>1, MaxOfFacts
<1>5. ASSUME NEW d \in Durations
      PROVE  d \in Nat /\ PutBackUntil(o, d) \in Int /\ ObservedAt(o) + d \in Int
  BY <1>2, DurationsAssumption DEF PutBackUntil
<1> QED BY <1>2, <1>3, <1>4, <1>5

\* Accepting an effect adds one operation and its untouched row.
LEMMA AcceptType ==
    ASSUME TypeOK, NEW kind \in EffectKinds, NEW t \in Tasks, NEW epoch \in Nat,
           NEW target \in Resources \cup Sessions \cup {NoTarget},
           Accept(kind, t, epoch, target)
    PROVE  op' \in [Ops -> Operation] /\ row' \in [Ops -> OutboxRow]
<1>1. PICK o \in Ops :
        /\ op' = [op EXCEPT ![o] = [kind |-> kind, task |-> t, epoch |-> epoch, target |-> target,
                                    state |-> "accepted", acceptedAt |-> now,
                                    outcomeAt |-> NoTime, reconciled |-> FALSE]]
        /\ row' = [row EXCEPT ![o].avail = now]
  BY DEF Accept
<1>2. op' \in [Ops -> Operation]
  BY <1>1, StoredTypes DEF TypeOK, Operation, NoTime
<1>3. [row[o] EXCEPT !.avail = now] \in OutboxRow
  BY <1>1, StoredTypes, AvailFacts
<1>4. row' \in [Ops -> OutboxRow]
  BY <1>1, <1>3 DEF TypeOK
<1> QED BY <1>2, <1>4

\* Replacing one row keeps the outbox well typed.
LEMMA OneRowType ==
    ASSUME TypeOK, NEW o \in Ops, NEW r \in OutboxRow
    PROVE  [row EXCEPT ![o] = r] \in [Ops -> OutboxRow]
BY DEF TypeOK

\* Changing one operation keeps the operations well typed.
LEMMA OneOperationType ==
    ASSUME TypeOK, NEW o \in Ops, NEW p \in Operation
    PROVE  [op EXCEPT ![o] = p] \in [Ops -> Operation]
BY DEF TypeOK

\* An outcome's derived event keeps tasks and resources well typed.
LEMMA ApplyResultType ==
    ASSUME TypeOK, NEW o \in Ops, NEW outcome, ApplyResult(o, outcome)
    PROVE  /\ task' \in [Tasks -> [life: TaskStates, epoch: Nat]]
           /\ res' \in [Resources -> [owner: Tasks, life: ResStates]]
BY DEF TypeOK, ApplyResult, TaskStates, ResStates

\* Claims, permits and lookups name operations.
LEMMA TokenTypes ==
    ASSUME TypeOK
    PROVE  /\ \A c \in claims : c[1] \in Ops /\ c[2] \in Nat
           /\ \A p \in permits : p[1] \in Ops /\ p[2] \in Nat /\ p[3] \in Nat /\ p[3] # 0
           /\ \A l \in lookups : l[1] \in Ops /\ l[2] \in Nat /\ l[3] \in Nat
BY DEF TypeOK

\* Commands and the clock preserve the types.
LEMMA CommandsKeepType ==
    ASSUME TypeOK,
           \/ Tick \/ ClockStepsBack
           \/ \E t \in Tasks : \/ BeginCloseTask(t) \/ SubmitProviderInput(t) \/ HoldBrowserHost(t)
                               \/ SettleTask(t) \/ DeleteTask(t) \/ RebindSession(t)
                               \/ CloseSpecialist(t)
           \/ \E r \in Resources : RegisterResource(r) \/ ReleaseResource(r)
    PROVE  TypeOK'
<1> USE DEF domainVars, workerVars, TaskStates, ResStates
<1>1. CASE Tick
  BY <1>1, BoundsAssumption DEF Tick, TypeOK
<1>2. CASE ClockStepsBack
  BY <1>2, BoundsAssumption DEF ClockStepsBack, TypeOK
<1>3. ASSUME NEW t \in Tasks, BeginCloseTask(t) PROVE TypeOK'
  <2>1. task[t].epoch + 1 \in Nat
    BY DEF TypeOK
  <2>2. op' \in [Ops -> Operation] /\ row' \in [Ops -> OutboxRow]
    BY <1>3, <2>1, AcceptType DEF BeginCloseTask, EffectKinds
  <2>3. task' \in [Tasks -> [life: TaskStates, epoch: Nat]]
    BY <1>3, <2>1 DEF BeginCloseTask, TypeOK
  <2> QED BY <1>3, <2>2, <2>3 DEF BeginCloseTask, TypeOK
<1>4. ASSUME NEW t \in Tasks, SubmitProviderInput(t) PROVE TypeOK'
  <2>1. op' \in [Ops -> Operation] /\ row' \in [Ops -> OutboxRow]
    <3>1. session[t] \in Sessions /\ task[t].epoch \in Nat
      BY <1>4 DEF SubmitProviderInput, TypeOK
    <3> QED BY <1>4, <3>1, AcceptType DEF SubmitProviderInput, EffectKinds
  <2> QED BY <1>4, <2>1 DEF SubmitProviderInput, TypeOK
<1>5. ASSUME NEW t \in Tasks, HoldBrowserHost(t) PROVE TypeOK'
  <2>1. op' \in [Ops -> Operation] /\ row' \in [Ops -> OutboxRow]
    <3>1. task[t].epoch \in Nat
      BY DEF TypeOK
    <3> QED BY <1>5, <3>1, AcceptType DEF HoldBrowserHost, EffectKinds
  <2> QED BY <1>5, <2>1 DEF HoldBrowserHost, TypeOK
<1>6. ASSUME NEW t \in Tasks, SettleTask(t) PROVE TypeOK'
  BY <1>6 DEF SettleTask, TypeOK
<1>7. ASSUME NEW t \in Tasks, DeleteTask(t) PROVE TypeOK'
  BY <1>7 DEF DeleteTask, TypeOK
<1>8. ASSUME NEW t \in Tasks, RebindSession(t) PROVE TypeOK'
  BY <1>8 DEF RebindSession, TypeOK
<1>9. ASSUME NEW t \in Tasks, CloseSpecialist(t) PROVE TypeOK'
  BY <1>9 DEF CloseSpecialist, TypeOK
<1>10. ASSUME NEW r \in Resources, RegisterResource(r) PROVE TypeOK'
  BY <1>10 DEF RegisterResource, TypeOK
<1>11. ASSUME NEW r \in Resources, ReleaseResource(r) PROVE TypeOK'
  <2>1. op' \in [Ops -> Operation] /\ row' \in [Ops -> OutboxRow]
    <3>1. res[r].owner \in Tasks /\ task[res[r].owner].epoch \in Nat
      BY DEF TypeOK
    <3> QED BY <1>11, <3>1, AcceptType DEF ReleaseResource, EffectKinds
  <2>2. res' \in [Resources -> [owner: Tasks, life: ResStates]]
    BY <1>11 DEF ReleaseResource, TypeOK
  <2> QED BY <1>11, <2>1, <2>2 DEF ReleaseResource, TypeOK
<1> QED
  BY <1>1, <1>2, <1>3, <1>4, <1>5, <1>6, <1>7, <1>8, <1>9, <1>10, <1>11

\* Reopening preserves the types, with or without a close to cancel.
LEMMA ReopenKeepsType ==
    ASSUME TypeOK, NEW t \in Tasks, ReopenTask(t)
    PROVE  TypeOK'
<1>1. op' \in [Ops -> Operation] /\ row' \in [Ops -> OutboxRow]
  <2>1. CASE CancelUntouchedClose(t)
    <3>1. PICK o \in Ops :
            /\ op' = [op EXCEPT ![o] = Concluded(@, "cancelled", now)]
            /\ row' = [row EXCEPT ![o] = TransitionOutbox(@, "cancelled", "superseded")]
      BY <2>1 DEF CancelUntouchedClose
    <3>2. Concluded(op[o], "cancelled", now) \in Operation
      BY StoredTypes, ConcludedFacts DEF Outcomes
    <3>3. TransitionOutbox(row[o], "cancelled", "superseded") \in OutboxRow
      BY StoredTypes, TransitionFacts DEF OutboxStates, ErrorClasses
    <3> QED BY <3>1, <3>2, <3>3, OneRowType, OneOperationType
  <2>2. CASE UNCHANGED <<op, row>>
    BY <2>2 DEF TypeOK
  <2> QED BY <2>1, <2>2 DEF ReopenTask
<1> QED BY <1>1 DEF ReopenTask, TypeOK, workerVars, TaskStates

\* Settling in one transaction preserves the types.
LEMMA SettleNowKeepsType ==
    ASSUME TypeOK, NEW o \in Ops, SettleNow(o)
    PROVE  TypeOK'
<1> DEFINE at == MaxOf(now, row[o].avail)
           next == NextGeneration(row[o])
           end == TransitionOutbox(Begun(next, at), "settled", "none")
<1>1. at \in Int /\ MaxOf(at, op[o].acceptedAt) \in Int
  BY StoredTypes, MaxOfFacts
<1>2. next \in OutboxRow
  BY StoredTypes, NextGenFacts
<1>3. Concluded(op[o], "settled", MaxOf(at, op[o].acceptedAt)) \in Operation
  BY <1>1, StoredTypes, ConcludedFacts DEF Outcomes
<1> HIDE DEF at, next
<1>4. Begun(next, at) \in OutboxRow
  BY <1>1, <1>2, BegunFacts
<1>5. end \in OutboxRow
  BY <1>4, TransitionFacts DEF OutboxStates, ErrorClasses
<1>6. op' = [op EXCEPT ![o] = Concluded(@, "settled", MaxOf(at, op[o].acceptedAt))]
      /\ row' = [row EXCEPT ![o] = end]
  BY DEF SettleNow, at, next
<1> HIDE DEF end
<1>7. op' \in [Ops -> Operation] /\ row' \in [Ops -> OutboxRow]
  BY <1>3, <1>5, <1>6, OneRowType, OneOperationType
<1>8. ApplyResult(o, "settled") /\ UNCHANGED <<now, session, workerVars>>
  BY DEF SettleNow
<1> QED BY <1>7, <1>8, ApplyResultType DEF TypeOK, workerVars

\* Claiming, and what a claim allows, preserves the types.
LEMMA ClaimsKeepType ==
    ASSUME TypeOK,
           \/ \E kinds \in SUBSET EffectKinds : ClaimNextDispatch(kinds)
           \/ ClaimNextProviderInput \/ ReleaseDispatchClaim \/ RenewDispatchClaim
           \/ BeginDispatch
    PROVE  TypeOK'
<1>1. ASSUME NEW kinds \in SUBSET EffectKinds, ClaimNextDispatch(kinds) PROVE TypeOK'
  <2>1. PICK o \in Ops, d \in Durations :
          /\ row' = [row EXCEPT ![o] = Claimed(@, d)]
          /\ claims' = claims \cup {<<o, row[o].gen + 1>>}
    BY <1>1 DEF ClaimNextDispatch
  <2>2. Claimed(row[o], d) \in OutboxRow
    BY StoredTypes, DateTypes, ClaimedFacts
  <2>3. row' \in [Ops -> OutboxRow]
    BY <2>1, <2>2, OneRowType
  <2>4. claims' \subseteq Ops \X Nat
    BY <2>1, StoredTypes DEF TypeOK
  <2> QED BY <1>1, <2>3, <2>4 DEF ClaimNextDispatch, TypeOK, domainVars
<1>2. CASE ClaimNextProviderInput
  <2> DEFINE claimable == Claimable({"provider"})
             Retired == {o \in DispatchCandidates({"provider"}) :
                           PermanentlyStale(o) /\ \A p \in claimable : First(claimable, p) => Before(o, p)}
  <2>1. PICK d \in Durations :
          /\ row' = [o \in Ops |->
                       IF o \in Retired THEN TransitionOutbox(row[o], "failed", "stale_fence")
                       ELSE IF First(claimable, o) THEN Claimed(row[o], d) ELSE row[o]]
          /\ op' = [o \in Ops |-> IF o \in Retired THEN RetiredOperation(o) ELSE op[o]]
          /\ claims' = claims \cup {<<o, row[o].gen + 1>> : o \in {p \in Ops : First(claimable, p)}}
    BY <1>2, Zenon DEF ClaimNextProviderInput
  <2> HIDE DEF claimable, Retired
  <2>2. ASSUME NEW o \in Ops
        PROVE  /\ TransitionOutbox(row[o], "failed", "stale_fence") \in OutboxRow
               /\ Claimed(row[o], d) \in OutboxRow
               /\ RetiredOperation(o) \in Operation
    <3>1. TransitionOutbox(row[o], "failed", "stale_fence") \in OutboxRow
      BY StoredTypes, TransitionFacts DEF OutboxStates, ErrorClasses
    <3>2. Claimed(row[o], d) \in OutboxRow
      BY StoredTypes, DateTypes, ClaimedFacts
    <3>3. RetiredOperation(o) \in Operation
      BY StoredTypes, DateTypes, ConcludedFacts DEF RetiredOperation, Outcomes
    <3> QED BY <3>1, <3>2, <3>3
  <2>3. row' \in [Ops -> OutboxRow] /\ op' \in [Ops -> Operation]
    BY <2>1, <2>2, StoredTypes
  <2>4. claims' \subseteq Ops \X Nat
    BY <2>1, StoredTypes DEF TypeOK
  <2> QED BY <1>2, <2>3, <2>4 DEF ClaimNextProviderInput, TypeOK, domainVars
<1>3. CASE ReleaseDispatchClaim
  <2>1. PICK c \in claims, d \in Durations :
          row' = [row EXCEPT ![c[1]] = HandedBack(@, PutBackUntil(c[1], d))]
    BY <1>3 DEF ReleaseDispatchClaim
  <2>2. HandedBack(row[c[1]], PutBackUntil(c[1], d)) \in OutboxRow
    BY TokenTypes, StoredTypes, DateTypes, HandedBackFacts
  <2>3. row' \in [Ops -> OutboxRow]
    BY <2>1, <2>2, TokenTypes, OneRowType
  <2> QED BY <1>3, <2>3 DEF ReleaseDispatchClaim, TypeOK, domainVars, workerVars
<1>4. CASE RenewDispatchClaim
  <2>1. PICK c \in claims, d \in Durations :
          row' = [row EXCEPT ![c[1]] = [@ EXCEPT !.lease = MaxOf(row[c[1]].lease, now + d)]]
    BY <1>4 DEF RenewDispatchClaim
  <2>2. MaxOf(row[c[1]].lease, now + d) \in Int
    BY TokenTypes, StoredTypes, DateTypes, MaxOfFacts
  <2>3. [row[c[1]] EXCEPT !.lease = MaxOf(row[c[1]].lease, now + d)] \in OutboxRow
    BY <2>2, TokenTypes, StoredTypes, LeaseFacts
  <2>4. row' \in [Ops -> OutboxRow]
    BY <2>1, <2>3, TokenTypes, OneRowType
  <2> QED BY <1>4, <2>4 DEF RenewDispatchClaim, TypeOK, domainVars, workerVars
<1>5. CASE BeginDispatch
  <2>1. PICK c \in claims :
          /\ row' = [row EXCEPT ![c[1]] = Begun(@, MaxOf(now, row[c[1]].avail))]
          /\ permits' = permits \cup {<<c[1], c[2], row[c[1]].attempts + 1>>}
    BY <1>5 DEF BeginDispatch
  <2>2. Begun(row[c[1]], MaxOf(now, row[c[1]].avail)) \in OutboxRow
    <3>1. MaxOf(now, row[c[1]].avail) \in Int /\ row[c[1]] \in OutboxRow
      <4>1. c[1] \in Ops
        BY TokenTypes
      <4>2. now \in Int /\ row[c[1]].avail \in Int /\ row[c[1]] \in OutboxRow
        BY <4>1, StoredTypes
      <4> QED BY <4>2, MaxOfFacts
    <3> QED BY <3>1, BegunFacts
  <2>3. row' \in [Ops -> OutboxRow]
    BY <2>1, <2>2, TokenTypes, OneRowType
  <2>4. permits' \subseteq Ops \X Nat \X (Nat \ {0}) /\ permits \subseteq permits'
    BY <2>1, TokenTypes, StoredTypes DEF TypeOK
  <2> QED BY <1>5, <2>3, <2>4 DEF BeginDispatch, TypeOK, domainVars
<1> QED BY <1>1, <1>2, <1>3, <1>4, <1>5

\* What a permit allows, and recovery, preserve the types.
LEMMA PermitsKeepType ==
    ASSUME TypeOK,
           \/ WriteProviderInput \/ TearProviderInput \/ DeferBeforeBoundary \/ CompleteDispatch
           \/ RecordDispatchAmbiguity \/ RecoverNextExpiredDispatch
    PROVE  TypeOK'
<1>1. CASE WriteProviderInput \/ TearProviderInput
  BY <1>1 DEF WriteProviderInput, TearProviderInput, TypeOK, domainVars
<1>2. CASE DeferBeforeBoundary
  <2>1. PICK p \in permits, d \in Durations :
          /\ p \notin crossed
          /\ row[p[1]].attempts = p[3]
          /\ row' = [row EXCEPT ![p[1]] = TakenBack(@, PutBackUntil(p[1], d))]
          /\ permits' = permits \ {p}
    BY <1>2 DEF DeferBeforeBoundary, BeforeBoundary, PermitMatches
  <2>2. TakenBack(row[p[1]], PutBackUntil(p[1], d)) \in OutboxRow
    <3>1. row[p[1]].attempts # 0
      BY <2>1, TokenTypes
    <3> QED BY <3>1, TokenTypes, StoredTypes, DateTypes, TakenBackFacts
  <2>3. row' \in [Ops -> OutboxRow]
    BY <2>1, <2>2, TokenTypes, OneRowType
  <2>4. permits' \subseteq Ops \X Nat \X (Nat \ {0}) /\ crossed \subseteq permits'
    BY <2>1 DEF TypeOK
  <2> QED BY <1>2, <2>3, <2>4 DEF DeferBeforeBoundary, TypeOK, domainVars
<1>3. CASE CompleteDispatch
  <2>1. PICK p \in permits, outcome \in Outcomes :
          /\ op' = [op EXCEPT ![p[1]] = Concluded(@, outcome, CompletedAt(p[1]))]
          /\ row' = [row EXCEPT ![p[1]] = TransitionOutbox(@, outcome, ErrorClassOf(outcome))]
          /\ ApplyResult(p[1], outcome)
          /\ UNCHANGED <<now, session, workerVars>>
    BY <1>3 DEF CompleteDispatch
  <2>2. CompletedAt(p[1]) \in Int
    BY TokenTypes, DateTypes
  <2>3. Concluded(op[p[1]], outcome, CompletedAt(p[1])) \in Operation
    BY <2>2, TokenTypes, StoredTypes, ConcludedFacts
  <2>4. outcome \in OutboxStates /\ ErrorClassOf(outcome) \in ErrorClasses
    BY DEF Outcomes, OutboxStates, ErrorClasses, ErrorClassOf
  <2>5. TransitionOutbox(row[p[1]], outcome, ErrorClassOf(outcome)) \in OutboxRow
    BY <2>4, TokenTypes, StoredTypes, TransitionFacts
  <2>6. op' \in [Ops -> Operation] /\ row' \in [Ops -> OutboxRow]
    BY <2>1, <2>3, <2>5, TokenTypes, OneRowType, OneOperationType
  <2> QED BY <2>1, <2>6, TokenTypes, ApplyResultType DEF TypeOK, workerVars
<1>4. ASSUME NEW o \in Ops, NEW d \in Durations
      PROVE  /\ Ambiguous(o, d) \in OutboxRow
             /\ RecordNoRetryUncertainty(o) =>
                  op' \in [Ops -> Operation] /\ row' \in [Ops -> OutboxRow]
  <2>1. Ambiguous(o, d) \in OutboxRow
    <3>1. row[o] \in OutboxRow /\ ObservedAt(o) + d \in Int
      BY StoredTypes, DateTypes
    <3>2. /\ {"pending", "reconcile_required"} \subseteq OutboxStates
          /\ {"none", "ambiguous_dispatch"} \subseteq ErrorClasses
      BY DEF OutboxStates, ErrorClasses
    <3> QED BY <3>1, <3>2, PostponedFacts DEF Ambiguous
  <2>2. Concluded(op[o], "uncertain", UncertainAt(o)) \in Operation
    BY StoredTypes, DateTypes, ConcludedFacts
  <2>3. TransitionOutbox(row[o], "uncertain", "ambiguous_dispatch") \in OutboxRow
    BY StoredTypes, TransitionFacts DEF OutboxStates, ErrorClasses
  <2> QED BY <2>1, <2>2, <2>3, OneRowType, OneOperationType DEF RecordNoRetryUncertainty
<1>5. CASE RecordDispatchAmbiguity
  <2>1. PICK p \in permits, d \in Durations :
          \/ RecordNoRetryUncertainty(p[1])
          \/ row' = [row EXCEPT ![p[1]] = Ambiguous(p[1], d)] /\ UNCHANGED op
    BY <1>5 DEF RecordDispatchAmbiguity
  <2>2. op' \in [Ops -> Operation] /\ row' \in [Ops -> OutboxRow]
    BY <2>1, <1>4, TokenTypes, OneRowType DEF TypeOK
  <2> QED BY <1>5, <2>2 DEF RecordDispatchAmbiguity, TypeOK, domainVars, workerVars
<1>6. CASE RecoverNextExpiredDispatch
  <2>1. PICK o \in Ops, d \in Durations :
          \/ RecordNoRetryUncertainty(o)
          \/ row' = [row EXCEPT ![o] = NextGeneration(Ambiguous(o, d))] /\ UNCHANGED op
    BY <1>6 DEF RecoverNextExpiredDispatch
  <2>2. NextGeneration(Ambiguous(o, d)) \in OutboxRow
    BY <1>4, NextGenFacts
  <2>3. op' \in [Ops -> Operation] /\ row' \in [Ops -> OutboxRow]
    BY <2>1, <2>2, <1>4, OneRowType DEF TypeOK
  <2> QED BY <1>6, <2>3 DEF RecoverNextExpiredDispatch, TypeOK, domainVars, workerVars
<1> QED BY <1>1, <1>2, <1>3, <1>5, <1>6

\* Lookups preserve the types.
LEMMA LookupsKeepType ==
    ASSUME TypeOK,
           \/ ClaimNextReconciliation \/ RenewReconciliationClaim \/ ReleaseReconciliationClaim
           \/ ReconcileAbsent \/ ReconcileInconclusive \/ ReconcilePresent
    PROVE  TypeOK'
<1>1. CASE ClaimNextReconciliation
  <2>1. PICK o \in Ops, d \in Durations :
          /\ row' = [row EXCEPT ![o] = LookedUp(@, d)]
          /\ lookups' = lookups \cup {<<o, row[o].gen + 1, row[o].attempts>>}
    BY <1>1 DEF ClaimNextReconciliation
  <2>2. LookedUp(row[o], d) \in OutboxRow
    BY StoredTypes, DateTypes, LookedUpFacts
  <2>3. row' \in [Ops -> OutboxRow]
    BY <2>1, <2>2, OneRowType
  <2>4. lookups' \subseteq Ops \X Nat \X Nat
    BY <2>1, StoredTypes DEF TypeOK
  <2> QED BY <1>1, <2>3, <2>4 DEF ClaimNextReconciliation, TypeOK, domainVars
<1>2. CASE RenewReconciliationClaim
  <2>1. PICK l \in lookups, d \in Durations :
          row' = [row EXCEPT ![l[1]] = [@ EXCEPT !.lease = MaxOf(row[l[1]].lease, now + d)]]
    BY <1>2 DEF RenewReconciliationClaim
  <2>2. l[1] \in Ops
    BY TokenTypes
  <2>3. MaxOf(row[l[1]].lease, now + d) \in Int
    <3>1. row[l[1]].lease \in Int /\ now + d \in Int
      BY <2>2, StoredTypes, DateTypes
    <3> QED BY <3>1, MaxOfFacts
  <2>4. [row[l[1]] EXCEPT !.lease = MaxOf(row[l[1]].lease, now + d)] \in OutboxRow
    BY <2>2, <2>3, StoredTypes, LeaseFacts
  <2>5. row' \in [Ops -> OutboxRow]
    BY <2>1, <2>2, <2>4, OneRowType
  <2> QED BY <1>2, <2>5 DEF RenewReconciliationClaim, TypeOK, domainVars, workerVars
<1>3. ASSUME NEW o \in Ops, NEW d \in Durations
      PROVE  /\ Postponed(row[o], "reconcile_required", "ambiguous_dispatch", ObservedAt(o) + d)
                  \in OutboxRow
             /\ ProvedAbsent(row[o], ObservedAt(o), d) \in OutboxRow
  <2>1. row[o] \in OutboxRow /\ ObservedAt(o) \in Int /\ ObservedAt(o) + d \in Int /\ d \in Nat
    BY StoredTypes, DateTypes
  <2>2. "reconcile_required" \in OutboxStates /\ "ambiguous_dispatch" \in ErrorClasses
    BY DEF OutboxStates, ErrorClasses
  <2> QED BY <2>1, <2>2, PostponedFacts, ProvedAbsentFacts
<1>4. CASE ReleaseReconciliationClaim
  <2>1. PICK l \in lookups, d \in Durations :
          row' = [row EXCEPT ![l[1]] =
                    NextGeneration(Postponed(@, "reconcile_required", "ambiguous_dispatch",
                                             ObservedAt(l[1]) + d))]
    BY <1>4 DEF ReleaseReconciliationClaim
  <2>2. l[1] \in Ops
    BY TokenTypes
  <2>3. row' \in [Ops -> OutboxRow]
    BY <2>1, <2>2, <1>3, NextGenFacts, OneRowType
  <2> QED BY <1>4, <2>3 DEF ReleaseReconciliationClaim, TypeOK, domainVars, workerVars
<1>5. CASE ReconcileAbsent
  <2>1. PICK l \in lookups, d \in Durations :
          /\ row' = [row EXCEPT ![l[1]] = ProvedAbsent(@, ObservedAt(l[1]), d)]
          /\ absences' = absences \cup {<<l[1], l[3]>>}
    BY <1>5 DEF ReconcileAbsent
  <2>2. l[1] \in Ops /\ l[3] \in Nat
    BY TokenTypes
  <2>3. row' \in [Ops -> OutboxRow]
    BY <2>1, <2>2, <1>3, OneRowType
  <2>4. absences' \subseteq Ops \X Nat
    BY <2>1, <2>2 DEF TypeOK
  <2> QED BY <1>5, <2>3, <2>4 DEF ReconcileAbsent, TypeOK, domainVars
<1>6. CASE ReconcileInconclusive
  <2>1. PICK l \in lookups, d \in Durations :
          row' = [row EXCEPT ![l[1]] =
                    Postponed(@, "reconcile_required", "ambiguous_dispatch", ObservedAt(l[1]) + d)]
    BY <1>6 DEF ReconcileInconclusive
  <2>2. l[1] \in Ops
    BY TokenTypes
  <2>3. row' \in [Ops -> OutboxRow]
    BY <2>1, <2>2, <1>3, OneRowType
  <2> QED BY <1>6, <2>3 DEF ReconcileInconclusive, TypeOK, domainVars, workerVars
<1>7. CASE ReconcilePresent
  <2>1. PICK l \in lookups, outcome \in {"settled", "failed"} :
          /\ op' = [op EXCEPT ![l[1]] = Reconciled(Concluded(@, outcome, ObservedAt(l[1])))]
          /\ row' = [row EXCEPT ![l[1]] = TransitionOutbox(@, outcome, ErrorClassOf(outcome))]
          /\ ApplyResult(l[1], outcome)
          /\ UNCHANGED <<now, session, workerVars>>
    BY <1>7 DEF ReconcilePresent
  <2>2. l[1] \in Ops
    BY TokenTypes
  <2>3. ObservedAt(l[1]) \in Int
    BY <2>2, DateTypes
  <2>4. Reconciled(Concluded(op[l[1]], outcome, ObservedAt(l[1]))) \in Operation
    BY <2>2, <2>3, StoredTypes, ConcludedFacts, ReconciledFacts DEF Outcomes
  <2>5. outcome \in OutboxStates /\ ErrorClassOf(outcome) \in ErrorClasses
    BY DEF OutboxStates, ErrorClasses, ErrorClassOf
  <2>6. TransitionOutbox(row[l[1]], outcome, ErrorClassOf(outcome)) \in OutboxRow
    BY <2>2, <2>5, StoredTypes, TransitionFacts
  <2>7. op' \in [Ops -> Operation] /\ row' \in [Ops -> OutboxRow]
    BY <2>1, <2>2, <2>4, <2>6, OneRowType, OneOperationType
  <2> QED BY <2>1, <2>2, <2>7, ApplyResultType DEF TypeOK, workerVars
<1> QED BY <1>1, <1>2, <1>4, <1>5, <1>6, <1>7

\* The steps that create nothing durable, by group.
LEMMA NextKeepsType ==
    ASSUME TypeOK, [Next]_vars
    PROVE  TypeOK'
<1>1. CASE UNCHANGED vars
  BY <1>1 DEF vars, TypeOK
<1>2. CASE \/ Tick \/ ClockStepsBack
           \/ \E t \in Tasks : \/ BeginCloseTask(t) \/ SubmitProviderInput(t) \/ HoldBrowserHost(t)
                               \/ SettleTask(t) \/ DeleteTask(t) \/ RebindSession(t)
                               \/ CloseSpecialist(t)
           \/ \E r \in Resources : RegisterResource(r) \/ ReleaseResource(r)
  BY <1>2, CommandsKeepType
<1>3. CASE \E t \in Tasks : ReopenTask(t)
  BY <1>3, ReopenKeepsType
<1>4. CASE \E r \in Resources : SettleResourceReleaseFor(r)
  BY <1>4, SettleNowKeepsType DEF SettleResourceReleaseFor
<1>5. CASE SettleNextProcessEmptyTaskTeardown
  BY <1>5, SettleNowKeepsType DEF SettleNextProcessEmptyTaskTeardown
<1>6. CASE \/ ClaimNextDispatch(EffectKinds) \/ ClaimNextDispatch({"release"})
           \/ ClaimNextProviderInput \/ ReleaseDispatchClaim \/ RenewDispatchClaim
           \/ BeginDispatch
  <2>1. EffectKinds \in SUBSET EffectKinds /\ {"release"} \in SUBSET EffectKinds
    BY DEF EffectKinds
  <2> QED BY <1>6, <2>1, ClaimsKeepType
<1>7. CASE \/ WriteProviderInput \/ TearProviderInput \/ DeferBeforeBoundary \/ CompleteDispatch
           \/ RecordDispatchAmbiguity \/ RecoverNextExpiredDispatch
  BY <1>7, PermitsKeepType
<1>8. CASE \/ ClaimNextReconciliation \/ RenewReconciliationClaim \/ ReleaseReconciliationClaim
           \/ ReconcileAbsent \/ ReconcileInconclusive \/ ReconcilePresent
  BY <1>8, LookupsKeepType
<1> QED BY <1>1, <1>2, <1>3, <1>4, <1>5, <1>6, <1>7, <1>8 DEF Next

\* The initial store is well typed.
LEMMA InitType == Init => TypeOK
<1> SUFFICES ASSUME Init PROVE TypeOK
  OBVIOUS
<1>1. now \in 0 .. MaxTime
  BY BoundsAssumption DEF Init
<1>2. op \in [Ops -> Operation]
  BY TasksAssumption DEF Init, Operation, EffectKinds, NoTime
<1>3. row \in [Ops -> OutboxRow]
  BY DEF Init, OutboxRow, OutboxStates, ErrorClasses, NoTime
<1> QED BY <1>1, <1>2, <1>3 DEF Init, TypeOK, TaskStates, ResStates

\* Every reachable store is well typed, for every number of tasks, resources and
\* operations: no chain of deferrals takes a row's attempt counter below zero and
\* every claim, permit and lookup names a stored operation.
THEOREM TypeCorrect == Spec => []TypeOK
<1>1. Init => TypeOK
  BY InitType
<1>2. TypeOK /\ [Next]_vars => TypeOK'
  BY NextKeepsType
<1> QED BY <1>1, <1>2, PTL DEF Spec

-----------------------------------------------------------------------------
(* The dispatch kernel never writes a live row that its own validator calls  *)
(* corrupt, whatever the wall clock does.  That is not inductive.  LiveRow   *)
(* strengthens the validator by what the code relies on without checking it: *)
(* which columns an unclaimed row still has, that a provider input is only   *)
(* ever on its first attempt and that a hold never leaves pending.           *)

LiveStates == {"pending", "claimed", "dispatching", "reconcile_required", "reconciling"}

LiveRow(r, kind, acceptedAt) ==
    /\ r.state \in LiveStates
    /\ acceptedAt \in Nat
    /\ ValidNonterminalRow(r, kind, acceptedAt)
    /\ r.state = "pending" => r.err = "none"
    /\ kind = "provider" => IF r.state = "dispatching" THEN r.attempts = 1 ELSE r.attempts = 0
    /\ kind = "hold" => r.state = "pending" /\ r.attempts = 0

PristineRow(r) ==
    /\ r.state = "pending" /\ r.gen = 0 /\ r.attempts = 0 /\ r.err = "none"
    /\ r.lease = NoTime /\ r.started = NoTime /\ r.proof = 0

RowInv(o) ==
    /\ op[o].state = "none" => PristineRow(row[o])
    /\ op[o].state = "accepted" => LiveRow(row[o], op[o].kind, op[o].acceptedAt)

RowsInv == TypeOK /\ \A o \in Ops : RowInv(o)

-----------------------------------------------------------------------------
(* What each kind of write does to a live row.                               *)

\* The types of a row's columns.
LEMMA RowColumns ==
    ASSUME NEW r \in OutboxRow
    PROVE  /\ r.gen \in Nat /\ r.attempts \in Nat /\ r.avail \in Int /\ r.lease \in Int
           /\ r.started \in Int /\ r.proof \in Nat /\ r.provedAt \in Int
BY DEF OutboxRow

\* A claim on an available pending row, or on a claimed one whose lease ran out.
LEMMA ClaimedLive ==
    ASSUME NEW r \in OutboxRow, NEW kind \in EffectKinds, NEW a, LiveRow(r, kind, a),
           NEW d \in Nat \ {0}, now \in Nat,
           r.state \in {"pending", "claimed"}, r.avail <= now, kind # "hold"
    PROVE  LiveRow(Claimed(r, d), kind, a)
<1> DEFINE q == Claimed(r, d)
<1>1. /\ q.state = "claimed" /\ q.gen = r.gen + 1 /\ q.attempts = r.attempts
      /\ q.avail = r.avail /\ q.lease = now + d /\ q.started = r.started
      /\ q.proof = r.proof /\ q.provedAt = r.provedAt /\ q.err = r.err
  BY ClaimedFacts
<1> HIDE DEF q
<1>2. a \in Nat
  BY DEF LiveRow
<1>3. ValidClaimedRow(q, kind, a)
  BY <1>1, <1>2, RowColumns
  DEF LiveRow, ValidNonterminalRow, ValidWaitingRow, ValidClaimedRow, RetryAuthorized, AbsenceAuthorizes
<1> QED
  BY <1>1, <1>2, <1>3, RowColumns DEF LiveRow, LiveStates, ValidNonterminalRow, q

\* A claim handed back, never earlier than the row was available.
LEMMA HandedBackLive ==
    ASSUME NEW r \in OutboxRow, NEW kind \in EffectKinds, NEW a, LiveRow(r, kind, a),
           NEW until \in Int, until >= r.avail, r.state = "claimed"
    PROVE  LiveRow(HandedBack(r, until), kind, a)
<1> DEFINE q == HandedBack(r, until)
<1>1. /\ q.state = "pending" /\ q.gen = r.gen /\ q.attempts = r.attempts
      /\ q.avail = until /\ q.lease = NoTime /\ q.started = r.started
      /\ q.proof = r.proof /\ q.provedAt = r.provedAt /\ q.err = r.err
  BY HandedBackFacts
<1> HIDE DEF q
<1>2. a \in Nat
  BY DEF LiveRow
<1>3. ValidWaitingRow(q, kind, a) /\ q.err = "none"
  BY <1>1, <1>2, RowColumns
  DEF LiveRow, ValidNonterminalRow, ValidWaitingRow, ValidClaimedRow, RetryAuthorized, AbsenceAuthorizes
<1> QED
  BY <1>1, <1>2, <1>3, RowColumns DEF LiveRow, LiveStates, ValidNonterminalRow, q

\* A lease that is moved to a later time.
LEMMA RenewedLive ==
    ASSUME NEW r \in OutboxRow, NEW kind \in EffectKinds, NEW a, LiveRow(r, kind, a),
           NEW until \in Int, until >= r.lease,
           r.state \in {"claimed", "dispatching", "reconciling"}
    PROVE  LiveRow([r EXCEPT !.lease = until], kind, a)
<1> DEFINE q == [r EXCEPT !.lease = until]
<1>1. /\ q.state = r.state /\ q.gen = r.gen /\ q.attempts = r.attempts
      /\ q.avail = r.avail /\ q.lease = until /\ q.started = r.started
      /\ q.proof = r.proof /\ q.provedAt = r.provedAt /\ q.err = r.err
  BY LeaseFacts
<1> HIDE DEF q
<1>2. a \in Nat
  BY DEF LiveRow
<1>3. ValidNonterminalRow(q, kind, a)
  BY <1>1, <1>2, RowColumns
  DEF LiveRow, ValidNonterminalRow, ValidClaimedRow, ValidDispatchingRow, ValidReconcilingRow,
      RetryAuthorized, AbsenceAuthorizes
<1> QED
  BY <1>1, <1>2, <1>3, RowColumns DEF LiveRow, LiveStates, q

\* An attempt begun under a claim, before the lease ends.
LEMMA BegunLive ==
    ASSUME NEW r \in OutboxRow, NEW kind \in EffectKinds, NEW a, LiveRow(r, kind, a),
           NEW at \in Nat, at >= r.avail, at < r.lease, r.state = "claimed"
    PROVE  LiveRow(Begun(r, at), kind, a)
<1> DEFINE q == Begun(r, at)
<1>1. /\ q.state = "dispatching" /\ q.gen = r.gen /\ q.attempts = r.attempts + 1
      /\ q.avail = r.avail /\ q.lease = r.lease /\ q.started = at
      /\ q.proof = 0 /\ q.provedAt = NoTime /\ q.err = r.err
  BY BegunFacts
<1> HIDE DEF q
<1>2. a \in Nat
  BY DEF LiveRow
<1>3. ValidDispatchingRow(q, a) /\ q.attempts <= q.gen
  BY <1>1, <1>2, RowColumns
  DEF LiveRow, ValidNonterminalRow, ValidClaimedRow, ValidDispatchingRow, NoTime
<1>4. kind # "hold" /\ (kind = "provider" => q.attempts = 1)
  BY <1>1 DEF LiveRow
<1> QED
  BY <1>1, <1>2, <1>3, <1>4 DEF LiveRow, LiveStates, ValidNonterminalRow, q

\* An input whose attempt is taken back before the boundary.
LEMMA TakenBackLive ==
    ASSUME NEW r \in OutboxRow, NEW a, LiveRow(r, "provider", a),
           NEW until \in Int, until >= r.avail, r.state = "dispatching"
    PROVE  LiveRow(TakenBack(r, until), "provider", a)
<1> DEFINE q == TakenBack(r, until)
<1>1. r.attempts = 1
  BY DEF LiveRow
<1>2. /\ q.state = "pending" /\ q.gen = r.gen /\ q.attempts = r.attempts - 1
      /\ q.avail = until /\ q.lease = NoTime /\ q.started = NoTime
      /\ q.proof = r.proof /\ q.err = r.err
  BY <1>1, TakenBackFacts
<1> HIDE DEF q
<1>3. a \in Nat
  BY DEF LiveRow
<1>4. ValidWaitingRow(q, "provider", a) /\ q.err = "none" /\ q.attempts <= q.gen
  BY <1>1, <1>2, <1>3, RowColumns
  DEF LiveRow, ValidNonterminalRow, ValidWaitingRow, ValidDispatchingRow
<1> QED
  BY <1>1, <1>2, <1>3, <1>4 DEF LiveRow, LiveStates, ValidNonterminalRow, q

\* A teardown of unknown outcome goes back to pending, a release waits for a lookup.
LEMMA AmbiguousLive ==
    ASSUME NEW r \in OutboxRow, NEW kind \in {"teardown", "release"}, NEW a, LiveRow(r, kind, a),
           NEW until \in Int, until >= r.avail, until >= r.started, r.state = "dispatching"
    PROVE  /\ kind = "teardown" => LiveRow(Postponed(r, "pending", "none", until), kind, a)
           /\ kind = "release" =>
                LiveRow(Postponed(r, "reconcile_required", "ambiguous_dispatch", until), kind, a)
<1>0. a \in Nat
  BY DEF LiveRow
<1>1. CASE kind = "teardown"
  <2> DEFINE q == Postponed(r, "pending", "none", until)
  <2>1. /\ q.state = "pending" /\ q.gen = r.gen /\ q.attempts = r.attempts
        /\ q.avail = until /\ q.lease = NoTime /\ q.started = r.started
        /\ q.proof = 0 /\ q.err = "none"
    BY PostponedFacts DEF OutboxStates, ErrorClasses
  <2> HIDE DEF q
  <2>2. ValidWaitingRow(q, kind, a) /\ q.attempts <= q.gen
    BY <1>0, <1>1, <2>1, RowColumns
    DEF LiveRow, ValidNonterminalRow, ValidWaitingRow, ValidDispatchingRow, RetryAuthorized
  <2> QED BY <1>0, <1>1, <2>1, <2>2 DEF LiveRow, LiveStates, ValidNonterminalRow, q
<1>2. CASE kind = "release"
  <2> DEFINE q == Postponed(r, "reconcile_required", "ambiguous_dispatch", until)
  <2>1. /\ q.state = "reconcile_required" /\ q.gen = r.gen /\ q.attempts = r.attempts
        /\ q.avail = until /\ q.lease = NoTime /\ q.started = r.started
        /\ q.proof = 0 /\ q.err = "ambiguous_dispatch"
    BY PostponedFacts DEF OutboxStates, ErrorClasses
  <2> HIDE DEF q
  <2>2. ValidReconcilingRow(q, kind, a) /\ q.attempts <= q.gen
    BY <1>0, <1>2, <2>1, RowColumns
    DEF LiveRow, ValidNonterminalRow, ValidReconcilingRow, ValidDispatchingRow
  <2> QED BY <1>0, <1>2, <2>1, <2>2 DEF LiveRow, LiveStates, ValidNonterminalRow, q
<1> QED BY <1>1, <1>2

\* A row that waits for its next attempt or lookup survives a new generation.
LEMMA NextGenLive ==
    ASSUME NEW r \in OutboxRow, NEW kind \in EffectKinds, NEW a, LiveRow(r, kind, a),
           r.state \in {"pending", "reconcile_required"}, r.attempts # 0
    PROVE  LiveRow(NextGeneration(r), kind, a)
<1> DEFINE q == NextGeneration(r)
<1>1. /\ q.state = r.state /\ q.gen = r.gen + 1 /\ q.attempts = r.attempts
      /\ q.avail = r.avail /\ q.lease = r.lease /\ q.started = r.started
      /\ q.proof = r.proof /\ q.provedAt = r.provedAt /\ q.err = r.err
  BY NextGenFacts
<1> HIDE DEF q
<1>2. a \in Nat
  BY DEF LiveRow
<1>3. ValidNonterminalRow(q, kind, a)
  BY <1>1, <1>2, RowColumns
  DEF LiveRow, ValidNonterminalRow, ValidWaitingRow, ValidReconcilingRow, RetryAuthorized,
      AbsenceAuthorizes
<1> QED
  BY <1>1, <1>2, <1>3 DEF LiveRow, LiveStates, q

\* A lookup claimed on an available ambiguous row.
LEMMA LookedUpLive ==
    ASSUME NEW r \in OutboxRow, NEW kind \in EffectKinds, NEW a, LiveRow(r, kind, a),
           NEW d \in Nat \ {0}, now \in Nat, r.avail <= now,
           r.state \in {"reconcile_required", "reconciling"}
    PROVE  LiveRow(LookedUp(r, d), kind, a)
<1> DEFINE q == LookedUp(r, d)
<1>1. /\ q.state = "reconciling" /\ q.gen = r.gen + 1 /\ q.attempts = r.attempts
      /\ q.avail = r.avail /\ q.lease = now + d /\ q.started = r.started
      /\ q.proof = r.proof /\ q.err = r.err
  BY LookedUpFacts
<1> HIDE DEF q
<1>2. a \in Nat
  BY DEF LiveRow
<1>3. ValidReconcilingRow(q, kind, a) /\ q.attempts <= q.gen
  BY <1>1, <1>2, RowColumns DEF LiveRow, ValidNonterminalRow, ValidReconcilingRow
<1>4. kind = "release"
  BY DEF LiveRow, ValidNonterminalRow, ValidReconcilingRow
<1> QED
  BY <1>1, <1>2, <1>3, <1>4 DEF LiveRow, LiveStates, ValidNonterminalRow, q

\* A lookup given back, or one that found nothing certain.
LEMMA InconclusiveLive ==
    ASSUME NEW r \in OutboxRow, NEW kind \in EffectKinds, NEW a, LiveRow(r, kind, a),
           NEW until \in Int, until >= r.started, r.state = "reconciling"
    PROVE  /\ LiveRow(Postponed(r, "reconcile_required", "ambiguous_dispatch", until), kind, a)
           /\ Postponed(r, "reconcile_required", "ambiguous_dispatch", until) \in OutboxRow
           /\ Postponed(r, "reconcile_required", "ambiguous_dispatch", until).state =
                "reconcile_required"
           /\ Postponed(r, "reconcile_required", "ambiguous_dispatch", until).attempts # 0
<1> DEFINE q == Postponed(r, "reconcile_required", "ambiguous_dispatch", until)
<1>1. /\ q.state = "reconcile_required" /\ q.gen = r.gen /\ q.attempts = r.attempts
      /\ q.avail = until /\ q.lease = NoTime /\ q.started = r.started
      /\ q.proof = 0 /\ q.err = "ambiguous_dispatch" /\ q \in OutboxRow
  BY PostponedFacts DEF OutboxStates, ErrorClasses
<1> HIDE DEF q
<1>2. a \in Nat
  BY DEF LiveRow
<1>3. ValidReconcilingRow(q, kind, a) /\ q.attempts <= q.gen /\ q.attempts # 0
  BY <1>1, <1>2, RowColumns DEF LiveRow, ValidNonterminalRow, ValidReconcilingRow
<1>4. kind = "release"
  BY DEF LiveRow, ValidNonterminalRow, ValidReconcilingRow
<1>5. LiveRow(q, kind, a)
  BY <1>1, <1>2, <1>3, <1>4 DEF LiveRow, LiveStates, ValidNonterminalRow
<1> QED BY <1>1, <1>3, <1>5 DEF q

\* A lookup that proved the attempt absent.
LEMMA ProvedAbsentLive ==
    ASSUME NEW r \in OutboxRow, NEW kind \in EffectKinds, NEW a, LiveRow(r, kind, a),
           NEW at \in Int, NEW d \in Nat, at >= r.started, at >= r.avail, r.state = "reconciling"
    PROVE  LiveRow(ProvedAbsent(r, at, d), kind, a)
<1> DEFINE q == ProvedAbsent(r, at, d)
<1>1. /\ q.state = "pending" /\ q.gen = r.gen /\ q.attempts = r.attempts
      /\ q.avail = at + d /\ q.lease = NoTime /\ q.started = r.started
      /\ q.proof = r.attempts /\ q.provedAt = at /\ q.err = "none"
  BY ONLY r \in OutboxRow, at \in Int, d \in Nat, ProvedAbsentFacts
<1> HIDE DEF q
<1>2. a \in Nat
  BY DEF LiveRow
<1>3. kind = "release"
  BY DEF LiveRow, ValidNonterminalRow, ValidReconcilingRow
<1>4. ValidWaitingRow(q, kind, a) /\ q.attempts <= q.gen
  BY <1>1, <1>2, <1>3, RowColumns
  DEF LiveRow, ValidNonterminalRow, ValidReconcilingRow, ValidWaitingRow, RetryAuthorized,
      AbsenceAuthorizes
<1> QED
  BY <1>1, <1>2, <1>3, <1>4 DEF LiveRow, LiveStates, ValidNonterminalRow, q

-----------------------------------------------------------------------------
(* Every step keeps every row.                                               *)

\* A step that writes one live row and no operation.
LEMMA OneRowStep ==
    ASSUME RowsInv, TypeOK', NEW o \in Ops, NEW r, op[o].state = "accepted",
           row' = [row EXCEPT ![o] = r], UNCHANGED op,
           LiveRow(r, op[o].kind, op[o].acceptedAt)
    PROVE  RowsInv'
<1>1. \A p \in Ops : op'[p] = op[p] /\ (p # o => row'[p] = row[p]) /\ (p = o => row'[p] = r)
  BY DEF RowsInv, TypeOK
<1>2. \A p \in Ops : RowInv(p)'
  BY <1>1 DEF RowsInv, RowInv
<1> QED BY <1>2 DEF RowsInv

\* A step that gives one operation its outcome.
LEMMA OutcomeStep ==
    ASSUME RowsInv, TypeOK', NEW o \in Ops, NEW r, NEW p, p.state \notin {"none", "accepted"},
           row' = [row EXCEPT ![o] = r], op' = [op EXCEPT ![o] = p]
    PROVE  RowsInv'
<1>1. \A q \in Ops : /\ q # o => op'[q] = op[q] /\ row'[q] = row[q]
                     /\ q = o => op'[q] = p
  BY DEF RowsInv, TypeOK
<1>2. \A q \in Ops : RowInv(q)'
  BY <1>1 DEF RowsInv, RowInv
<1> QED BY <1>2 DEF RowsInv

\* A step that writes neither.
LEMMA NoRowStep ==
    ASSUME RowsInv, TypeOK', UNCHANGED <<op, row>>
    PROVE  RowsInv'
BY DEF RowsInv, RowInv

\* Acceptance writes a row that is available from the moment it was accepted.
LEMMA AcceptStep ==
    ASSUME RowsInv, TypeOK', NEW kind \in EffectKinds, NEW t, NEW epoch, NEW target,
           Accept(kind, t, epoch, target)
    PROVE  RowsInv'
<1>1. PICK o \in Ops :
        /\ op[o].state = "none"
        /\ op' = [op EXCEPT ![o] = [kind |-> kind, task |-> t, epoch |-> epoch, target |-> target,
                                    state |-> "accepted", acceptedAt |-> now,
                                    outcomeAt |-> NoTime, reconciled |-> FALSE]]
        /\ row' = [row EXCEPT ![o].avail = now]
  BY DEF Accept
<1> DEFINE q == [row[o] EXCEPT !.avail = now]
<1>2. TypeOK /\ now \in Nat /\ row[o] \in OutboxRow
  BY StoredTypes DEF RowsInv
<1>3. PristineRow(row[o])
  BY <1>1 DEF RowsInv, RowInv
<1>4. /\ q.state = "pending" /\ q.gen = 0 /\ q.attempts = 0 /\ q.err = "none"
      /\ q.lease = NoTime /\ q.started = NoTime /\ q.proof = 0 /\ q.avail = now
  BY <1>2, <1>3, AvailFacts DEF PristineRow
<1>5. row'[o] = q /\ op'[o].state = "accepted" /\ op'[o].kind = kind /\ op'[o].acceptedAt = now
  BY <1>1, <1>2 DEF TypeOK
<1>6. \A p \in Ops \ {o} : op'[p] = op[p] /\ row'[p] = row[p]
  BY <1>1, <1>2 DEF TypeOK
<1> HIDE DEF q
<1>7. LiveRow(q, kind, now)
  BY <1>2, <1>4 DEF LiveRow, LiveStates, ValidNonterminalRow, ValidWaitingRow
<1>8. RowInv(o)'
  BY <1>5, <1>7 DEF RowInv
<1>9. \A p \in Ops \ {o} : RowInv(p)'
  BY <1>6 DEF RowsInv, RowInv
<1> QED BY <1>8, <1>9 DEF RowsInv

\* The dates a worker writes are no earlier than the ones the row already has.
LEMMA DatesOrdered ==
    ASSUME TypeOK, NEW o \in Ops, NEW d \in Durations
    PROVE  /\ d \in Nat \ {0} /\ now \in Nat
           /\ PutBackUntil(o, d) >= row[o].avail
           /\ ObservedAt(o) >= row[o].started /\ ObservedAt(o) >= row[o].avail
           /\ ObservedAt(o) + d >= row[o].started /\ ObservedAt(o) + d >= row[o].avail
<1>1. d \in Nat \ {0} /\ now \in Nat /\ row[o].avail \in Int /\ row[o].started \in Int
  BY StoredTypes, DurationsAssumption
<1>2. /\ ObservedAt(o) \in Int /\ ObservedAt(o) >= row[o].avail
      /\ ObservedAt(o) >= row[o].started
  BY <1>1 DEF ObservedAt, MaxOf
<1>3. PutBackUntil(o, d) >= row[o].avail
  BY <1>1 DEF PutBackUntil, MaxOf
<1> QED BY <1>1, <1>2, <1>3

\* What a claimable row is, as far as its columns are concerned.
LEMMA ClaimableRow ==
    ASSUME RowsInv, NEW kinds, NEW o \in Claimable(kinds)
    PROVE  /\ o \in Ops /\ op[o].state = "accepted"
           /\ row[o].state \in {"pending", "claimed"} /\ row[o].avail <= now
           /\ op[o].kind # "hold"
<1>1. /\ o \in Ops /\ op[o].state = "accepted"
      /\ row[o].state \in {"pending", "claimed"} /\ row[o].avail <= now
      /\ row[o].state = "pending" => Authorized(o)
  BY DEF Claimable, DispatchCandidates
<1>2. LiveRow(row[o], op[o].kind, op[o].acceptedAt)
  BY <1>1 DEF RowsInv, RowInv
<1>3. op[o].kind # "hold"
  BY <1>1, <1>2 DEF LiveRow, Authorized
<1> QED BY <1>1, <1>3

\* The live row of an accepted operation.
LEMMA AcceptedRow ==
    ASSUME RowsInv, NEW o \in Ops, op[o].state = "accepted"
    PROVE  /\ row[o] \in OutboxRow /\ op[o].kind \in EffectKinds
           /\ LiveRow(row[o], op[o].kind, op[o].acceptedAt)
BY StoredTypes DEF RowsInv, RowInv

\* Claims, and what a claim allows.
LEMMA ClaimsKeepRows ==
    ASSUME RowsInv, TypeOK',
           \/ \E kinds \in SUBSET EffectKinds : ClaimNextDispatch(kinds)
           \/ ClaimNextProviderInput \/ ReleaseDispatchClaim \/ RenewDispatchClaim
           \/ BeginDispatch
    PROVE  RowsInv'
<1>0. TypeOK
  BY DEF RowsInv
<1>1. ASSUME NEW kinds \in SUBSET EffectKinds, ClaimNextDispatch(kinds) PROVE RowsInv'
  <2>1. PICK o \in Ops, d \in Durations :
          /\ o \in Claimable(kinds)
          /\ row' = [row EXCEPT ![o] = Claimed(@, d)]
          /\ UNCHANGED op
    BY <1>1 DEF ClaimNextDispatch, First
  <2>2. LiveRow(Claimed(row[o], d), op[o].kind, op[o].acceptedAt)
    BY <1>0, <2>1, ClaimableRow, AcceptedRow, DatesOrdered, ClaimedLive
  <2> QED BY <2>1, <2>2, ClaimableRow, OneRowStep
<1>2. CASE ClaimNextProviderInput
  <2> DEFINE claimable == Claimable({"provider"})
             Retired == {o \in DispatchCandidates({"provider"}) :
                           PermanentlyStale(o) /\ \A p \in claimable : First(claimable, p) => Before(o, p)}
  <2>1. PICK d \in Durations :
          /\ row' = [o \in Ops |->
                       IF o \in Retired THEN TransitionOutbox(row[o], "failed", "stale_fence")
                       ELSE IF First(claimable, o) THEN Claimed(row[o], d) ELSE row[o]]
          /\ op' = [o \in Ops |-> IF o \in Retired THEN RetiredOperation(o) ELSE op[o]]
    BY <1>2, Zenon DEF ClaimNextProviderInput
  <2> HIDE DEF Retired
  <2>2. ASSUME NEW o \in Ops PROVE RowInv(o)'
    <3>1. CASE o \in Retired
      <4>1. op'[o] = RetiredOperation(o)
        BY <2>1, <3>1
      <4>2. RetiredOperation(o).state = "failed"
        <5>1. /\ op[o] \in Operation /\ "failed" \in Outcomes \cup {"uncertain"}
              /\ MaxOf(now, MaxOf(op[o].acceptedAt, row[o].avail)) \in Int
          BY <1>0, StoredTypes, DateTypes DEF Outcomes
        <5> QED BY <5>1, ConcludedFacts DEF RetiredOperation
      <4> QED BY <4>1, <4>2 DEF RowInv
    <3>2. CASE o \notin Retired /\ First(claimable, o)
      <4>1. op'[o] = op[o] /\ row'[o] = Claimed(row[o], d)
        BY <2>1, <3>2
      <4>2. o \in Claimable({"provider"})
        BY <3>2 DEF First
      <4>3. /\ op[o].state = "accepted" /\ row[o].state \in {"pending", "claimed"}
            /\ row[o].avail <= now /\ op[o].kind # "hold"
        BY <4>2, ClaimableRow
      <4>4. LiveRow(Claimed(row[o], d), op[o].kind, op[o].acceptedAt)
        BY <1>0, <4>3, AcceptedRow, DatesOrdered, ClaimedLive
      <4> QED BY <4>1, <4>3, <4>4 DEF RowInv
    <3>3. CASE o \notin Retired /\ ~First(claimable, o)
      <4>1. op'[o] = op[o] /\ row'[o] = row[o]
        BY <2>1, <3>3
      <4> QED BY <4>1 DEF RowsInv, RowInv
    <3> QED BY <3>1, <3>2, <3>3
  <2> QED BY <2>2 DEF RowsInv
<1>3. CASE ReleaseDispatchClaim
  <2>1. PICK c \in claims, d \in Durations :
          /\ row[c[1]].state = "claimed" /\ op[c[1]].state = "accepted"
          /\ row' = [row EXCEPT ![c[1]] = HandedBack(@, PutBackUntil(c[1], d))]
          /\ UNCHANGED op
    BY <1>3 DEF ReleaseDispatchClaim, HoldsClaim
  <2>2. c[1] \in Ops
    BY <1>0, TokenTypes
  <2>3. LiveRow(HandedBack(row[c[1]], PutBackUntil(c[1], d)), op[c[1]].kind, op[c[1]].acceptedAt)
    BY <1>0, <2>1, <2>2, AcceptedRow, DateTypes, DatesOrdered, HandedBackLive
  <2> QED BY <2>1, <2>2, <2>3, OneRowStep
<1>4. CASE RenewDispatchClaim
  <2>1. PICK c \in claims, d \in Durations :
          /\ row[c[1]].state \in {"claimed", "dispatching"} /\ op[c[1]].state = "accepted"
          /\ row' = [row EXCEPT ![c[1]] = [@ EXCEPT !.lease = MaxOf(row[c[1]].lease, now + d)]]
          /\ UNCHANGED op
    BY <1>4 DEF RenewDispatchClaim, HoldsClaim
  <2>2. c[1] \in Ops
    BY <1>0, TokenTypes
  <2>3. /\ MaxOf(row[c[1]].lease, now + d) \in Int
        /\ MaxOf(row[c[1]].lease, now + d) >= row[c[1]].lease
    <3>1. row[c[1]].lease \in Int /\ now + d \in Int
      BY <1>0, <2>2, StoredTypes, DatesOrdered
    <3> QED BY <3>1, MaxOfFacts
  <2>4. LiveRow([row[c[1]] EXCEPT !.lease = MaxOf(row[c[1]].lease, now + d)],
                op[c[1]].kind, op[c[1]].acceptedAt)
    BY <2>1, <2>2, <2>3, AcceptedRow, RenewedLive
  <2> QED BY <2>1, <2>2, <2>4, OneRowStep
<1>5. CASE BeginDispatch
  <2>1. PICK c \in claims :
          /\ row[c[1]].state = "claimed" /\ op[c[1]].state = "accepted"
          /\ MaxOf(now, row[c[1]].avail) < row[c[1]].lease
          /\ row' = [row EXCEPT ![c[1]] = Begun(@, MaxOf(now, row[c[1]].avail))]
          /\ UNCHANGED op
    BY <1>5 DEF BeginDispatch, HoldsClaim
  <2>2. c[1] \in Ops
    BY <1>0, TokenTypes
  <2>3. /\ MaxOf(now, row[c[1]].avail) \in Nat
        /\ MaxOf(now, row[c[1]].avail) >= row[c[1]].avail
    <3>1. now \in Nat /\ row[c[1]].avail \in Int
      BY <1>0, <2>2, StoredTypes
    <3> QED BY <3>1 DEF MaxOf
  <2>4. LiveRow(Begun(row[c[1]], MaxOf(now, row[c[1]].avail)), op[c[1]].kind, op[c[1]].acceptedAt)
    BY <2>1, <2>2, <2>3, AcceptedRow, BegunLive
  <2> QED BY <2>1, <2>2, <2>4, OneRowStep
<1> QED BY <1>1, <1>2, <1>3, <1>4, <1>5

\* An attempt of unknown outcome, or one that is recovered.
LEMMA AmbiguousKeepsRows ==
    ASSUME RowsInv, NEW o \in Ops, NEW d \in Durations, Dispatching(o), op[o].kind # "provider"
    PROVE  /\ LiveRow(Ambiguous(o, d), op[o].kind, op[o].acceptedAt)
           /\ LiveRow(NextGeneration(Ambiguous(o, d)), op[o].kind, op[o].acceptedAt)
<1>0. TypeOK
  BY DEF RowsInv
<1>1. /\ row[o] \in OutboxRow /\ op[o].kind \in EffectKinds /\ row[o].state = "dispatching"
      /\ LiveRow(row[o], op[o].kind, op[o].acceptedAt)
  BY AcceptedRow DEF Dispatching
<1>2. op[o].kind \in {"teardown", "release"}
  BY <1>1 DEF LiveRow, EffectKinds
<1>3. /\ ObservedAt(o) + d \in Int /\ ObservedAt(o) + d >= row[o].avail
      /\ ObservedAt(o) + d >= row[o].started
  BY <1>0, DateTypes, DatesOrdered
<1>4. LiveRow(Ambiguous(o, d), op[o].kind, op[o].acceptedAt)
  BY <1>1, <1>2, <1>3, AmbiguousLive DEF Ambiguous
<1>5. row[o].attempts # 0
  BY <1>1, RowColumns DEF LiveRow, ValidNonterminalRow, ValidDispatchingRow
<1>6. /\ Ambiguous(o, d) \in OutboxRow /\ Ambiguous(o, d).attempts = row[o].attempts
      /\ Ambiguous(o, d).state \in {"pending", "reconcile_required"}
  <2>1. ASSUME NEW state \in {"pending", "reconcile_required"},
               NEW err \in {"none", "ambiguous_dispatch"}
        PROVE  LET q == Postponed(row[o], state, err, ObservedAt(o) + d) IN
               q \in OutboxRow /\ q.attempts = row[o].attempts /\ q.state = state
    <3>1. state \in OutboxStates /\ err \in ErrorClasses
      BY DEF OutboxStates, ErrorClasses
    <3> QED BY <1>1, <1>3, <3>1, PostponedFacts
  <2> QED BY <2>1, Zenon DEF Ambiguous
<1>7. LiveRow(NextGeneration(Ambiguous(o, d)), op[o].kind, op[o].acceptedAt)
  BY <1>1, <1>4, <1>5, <1>6, NextGenLive
<1> QED BY <1>4, <1>7

\* An uncertain outcome is an outcome.
LEMMA UncertaintyKeepsRows ==
    ASSUME RowsInv, TypeOK', NEW o \in Ops, RecordNoRetryUncertainty(o)
    PROVE  RowsInv'
<1>1. op[o] \in Operation /\ UncertainAt(o) \in Int
  BY StoredTypes, DateTypes DEF RowsInv
<1>2. Concluded(op[o], "uncertain", UncertainAt(o)).state = "uncertain"
  BY <1>1, ConcludedFacts
<1> QED BY <1>2, OutcomeStep DEF RecordNoRetryUncertainty

\* What a permit allows, and recovery.
LEMMA PermitsKeepRows ==
    ASSUME RowsInv, TypeOK',
           \/ WriteProviderInput \/ TearProviderInput \/ DeferBeforeBoundary \/ CompleteDispatch
           \/ RecordDispatchAmbiguity \/ RecoverNextExpiredDispatch
    PROVE  RowsInv'
<1>0. TypeOK
  BY DEF RowsInv
<1>1. CASE WriteProviderInput \/ TearProviderInput
  BY <1>1, NoRowStep DEF WriteProviderInput, TearProviderInput
<1>2. CASE DeferBeforeBoundary
  <2>1. PICK p \in permits, d \in Durations :
          /\ op[p[1]].kind = "provider" /\ Dispatching(p[1])
          /\ row' = [row EXCEPT ![p[1]] = TakenBack(@, PutBackUntil(p[1], d))]
          /\ UNCHANGED op
    BY <1>2 DEF DeferBeforeBoundary
  <2>2. p[1] \in Ops /\ op[p[1]].state = "accepted" /\ row[p[1]].state = "dispatching"
    BY <1>0, <2>1, TokenTypes DEF Dispatching
  <2>3. PutBackUntil(p[1], d) \in Int /\ PutBackUntil(p[1], d) >= row[p[1]].avail
    BY <1>0, <2>2, DateTypes, DatesOrdered
  <2>4. LiveRow(TakenBack(row[p[1]], PutBackUntil(p[1], d)), op[p[1]].kind, op[p[1]].acceptedAt)
    BY <2>1, <2>2, <2>3, AcceptedRow, TakenBackLive
  <2> QED BY <2>1, <2>2, <2>4, OneRowStep
<1>3. CASE CompleteDispatch
  <2>1. PICK p \in permits, outcome \in Outcomes :
          /\ op' = [op EXCEPT ![p[1]] = Concluded(@, outcome, CompletedAt(p[1]))]
          /\ row' = [row EXCEPT ![p[1]] = TransitionOutbox(@, outcome, ErrorClassOf(outcome))]
    BY <1>3 DEF CompleteDispatch
  <2>2. p[1] \in Ops
    BY <1>0, TokenTypes
  <2>3. op[p[1]] \in Operation /\ CompletedAt(p[1]) \in Int
    BY <1>0, <2>2, StoredTypes, DateTypes
  <2>4. Concluded(op[p[1]], outcome, CompletedAt(p[1])).state = outcome
    BY <2>3, ConcludedFacts
  <2> QED BY <2>1, <2>2, <2>4, OutcomeStep DEF Outcomes
<1>4. CASE RecordDispatchAmbiguity
  <2>1. PICK p \in permits, d \in Durations :
          /\ Dispatching(p[1])
          /\ \/ RecordNoRetryUncertainty(p[1])
             \/ /\ op[p[1]].kind # "provider"
                /\ row' = [row EXCEPT ![p[1]] = Ambiguous(p[1], d)] /\ UNCHANGED op
    BY <1>4 DEF RecordDispatchAmbiguity
  <2>2. p[1] \in Ops /\ op[p[1]].state = "accepted"
    BY <1>0, <2>1, TokenTypes DEF Dispatching
  <2> QED BY <2>1, <2>2, UncertaintyKeepsRows, AmbiguousKeepsRows, OneRowStep
<1>5. CASE RecoverNextExpiredDispatch
  <2>1. PICK o \in Ops, d \in Durations :
          /\ Dispatching(o)
          /\ \/ RecordNoRetryUncertainty(o)
             \/ /\ op[o].kind # "provider"
                /\ row' = [row EXCEPT ![o] = NextGeneration(Ambiguous(o, d))] /\ UNCHANGED op
    BY <1>5 DEF RecoverNextExpiredDispatch, First, ExpiredDispatches
  <2>2. op[o].state = "accepted"
    BY <2>1 DEF Dispatching
  <2> QED BY <2>1, <2>2, UncertaintyKeepsRows, AmbiguousKeepsRows, OneRowStep
<1> QED BY <1>1, <1>2, <1>3, <1>4, <1>5

\* Lookups.
LEMMA LookupsKeepRows ==
    ASSUME RowsInv, TypeOK',
           \/ ClaimNextReconciliation \/ RenewReconciliationClaim \/ ReleaseReconciliationClaim
           \/ ReconcileAbsent \/ ReconcileInconclusive \/ ReconcilePresent
    PROVE  RowsInv'
<1>0. TypeOK
  BY DEF RowsInv
<1>1. CASE ClaimNextReconciliation
  <2>1. PICK o \in Ops, d \in Durations :
          /\ op[o].state = "accepted" /\ row[o].avail <= now
          /\ row[o].state \in {"reconcile_required", "reconciling"}
          /\ row' = [row EXCEPT ![o] = LookedUp(@, d)]
          /\ UNCHANGED op
    BY <1>1 DEF ClaimNextReconciliation, First, ReconciliationCandidates
  <2>2. LiveRow(LookedUp(row[o], d), op[o].kind, op[o].acceptedAt)
    BY <1>0, <2>1, AcceptedRow, DatesOrdered, LookedUpLive
  <2> QED BY <2>1, <2>2, OneRowStep
<1>2. CASE RenewReconciliationClaim
  <2>1. PICK l \in lookups, d \in Durations :
          /\ op[l[1]].state = "accepted" /\ row[l[1]].state = "reconciling"
          /\ row' = [row EXCEPT ![l[1]] = [@ EXCEPT !.lease = MaxOf(row[l[1]].lease, now + d)]]
          /\ UNCHANGED op
    BY <1>2 DEF RenewReconciliationClaim, HoldsLookup
  <2>2. l[1] \in Ops
    BY <1>0, TokenTypes
  <2>3. /\ MaxOf(row[l[1]].lease, now + d) \in Int
        /\ MaxOf(row[l[1]].lease, now + d) >= row[l[1]].lease
    <3>1. row[l[1]].lease \in Int /\ now + d \in Int
      BY <1>0, <2>2, StoredTypes, DatesOrdered
    <3> QED BY <3>1, MaxOfFacts
  <2>4. LiveRow([row[l[1]] EXCEPT !.lease = MaxOf(row[l[1]].lease, now + d)],
                op[l[1]].kind, op[l[1]].acceptedAt)
    BY <2>1, <2>2, <2>3, AcceptedRow, RenewedLive
  <2> QED BY <2>1, <2>2, <2>4, OneRowStep
<1>3. ASSUME NEW o \in Ops, NEW d \in Durations, op[o].state = "accepted",
             row[o].state = "reconciling"
      PROVE  LET q == Postponed(row[o], "reconcile_required", "ambiguous_dispatch", ObservedAt(o) + d)
             IN  /\ LiveRow(q, op[o].kind, op[o].acceptedAt)
                 /\ LiveRow(NextGeneration(q), op[o].kind, op[o].acceptedAt)
                 /\ LiveRow(ProvedAbsent(row[o], ObservedAt(o), d), op[o].kind, op[o].acceptedAt)
  <2> DEFINE q == Postponed(row[o], "reconcile_required", "ambiguous_dispatch", ObservedAt(o) + d)
  <2>1. /\ row[o] \in OutboxRow /\ op[o].kind \in EffectKinds
        /\ LiveRow(row[o], op[o].kind, op[o].acceptedAt)
    BY <1>3, AcceptedRow
  <2>2. /\ ObservedAt(o) \in Int /\ ObservedAt(o) + d \in Int /\ d \in Nat
        /\ ObservedAt(o) >= row[o].started /\ ObservedAt(o) >= row[o].avail
        /\ ObservedAt(o) + d >= row[o].started
    BY <1>0, DateTypes, DatesOrdered
  <2>3. /\ LiveRow(q, op[o].kind, op[o].acceptedAt)
        /\ q \in OutboxRow /\ q.state = "reconcile_required" /\ q.attempts # 0
    BY <1>3, <2>1, <2>2, InconclusiveLive
  <2>4. LiveRow(ProvedAbsent(row[o], ObservedAt(o), d), op[o].kind, op[o].acceptedAt)
    BY <1>3, <2>1, <2>2, ProvedAbsentLive
  <2> HIDE DEF q
  <2>5. LiveRow(NextGeneration(q), op[o].kind, op[o].acceptedAt)
    BY <2>1, <2>3, NextGenLive
  <2> QED BY <2>3, <2>4, <2>5 DEF q
<1>4. CASE ReleaseReconciliationClaim
  <2>1. PICK l \in lookups, d \in Durations :
          /\ op[l[1]].state = "accepted" /\ row[l[1]].state = "reconciling"
          /\ row' = [row EXCEPT ![l[1]] =
                    NextGeneration(Postponed(@, "reconcile_required", "ambiguous_dispatch",
                                             ObservedAt(l[1]) + d))]
          /\ UNCHANGED op
    BY <1>4 DEF ReleaseReconciliationClaim, HoldsLookup
  <2>2. l[1] \in Ops
    BY <1>0, TokenTypes
  <2> QED BY <1>3, <2>1, <2>2, OneRowStep
<1>5. CASE ReconcileAbsent
  <2>1. PICK l \in lookups, d \in Durations :
          /\ op[l[1]].state = "accepted" /\ row[l[1]].state = "reconciling"
          /\ row' = [row EXCEPT ![l[1]] = ProvedAbsent(@, ObservedAt(l[1]), d)]
          /\ UNCHANGED op
    BY <1>5 DEF ReconcileAbsent, HoldsLookup
  <2>2. l[1] \in Ops
    BY <1>0, TokenTypes
  <2> QED BY <1>3, <2>1, <2>2, OneRowStep
<1>6. CASE ReconcileInconclusive
  <2>1. PICK l \in lookups, d \in Durations :
          /\ op[l[1]].state = "accepted" /\ row[l[1]].state = "reconciling"
          /\ row' = [row EXCEPT ![l[1]] =
                    Postponed(@, "reconcile_required", "ambiguous_dispatch", ObservedAt(l[1]) + d)]
          /\ UNCHANGED op
    BY <1>6 DEF ReconcileInconclusive, HoldsLookup
  <2>2. l[1] \in Ops
    BY <1>0, TokenTypes
  <2> QED BY <1>3, <2>1, <2>2, OneRowStep
<1>7. CASE ReconcilePresent
  <2>1. PICK l \in lookups, outcome \in {"settled", "failed"} :
          /\ op' = [op EXCEPT ![l[1]] = Reconciled(Concluded(@, outcome, ObservedAt(l[1])))]
          /\ row' = [row EXCEPT ![l[1]] = TransitionOutbox(@, outcome, ErrorClassOf(outcome))]
    BY <1>7 DEF ReconcilePresent
  <2>2. l[1] \in Ops
    BY <1>0, TokenTypes
  <2>3. op[l[1]] \in Operation /\ ObservedAt(l[1]) \in Int
    BY <1>0, <2>2, StoredTypes, DateTypes
  <2>4. Reconciled(Concluded(op[l[1]], outcome, ObservedAt(l[1]))).state = outcome
    BY <2>3, ConcludedFacts, ReconciledFacts DEF Outcomes
  <2> QED BY <2>1, <2>2, <2>4, OutcomeStep
<1> QED BY <1>1, <1>2, <1>4, <1>5, <1>6, <1>7

\* Settling in one transaction, and reopening.
LEMMA SettleNowKeepsRows ==
    ASSUME RowsInv, TypeOK', NEW o \in Ops, SettleNow(o)
    PROVE  RowsInv'
<1> DEFINE at == MaxOf(MaxOf(now, row[o].avail), op[o].acceptedAt)
           r == TransitionOutbox(Begun(NextGeneration(row[o]), MaxOf(now, row[o].avail)), "settled", "none")
<1>1. at \in Int /\ op[o] \in Operation
  <2>1. now \in Int /\ row[o].avail \in Int /\ op[o].acceptedAt \in Int /\ op[o] \in Operation
    BY StoredTypes DEF RowsInv
  <2> QED BY <2>1, MaxOfFacts
<1>2. op' = [op EXCEPT ![o] = Concluded(@, "settled", at)] /\ row' = [row EXCEPT ![o] = r]
  BY DEF SettleNow
<1>3. Concluded(op[o], "settled", at).state = "settled"
  BY <1>1, ConcludedFacts DEF Outcomes
<1> HIDE DEF at, r
<1> QED BY <1>2, <1>3, OutcomeStep

\* Reopening a task, which may cancel its close, keeps the rows valid.
LEMMA ReopenKeepsRows ==
    ASSUME RowsInv, TypeOK', NEW t \in Tasks, ReopenTask(t)
    PROVE  RowsInv'
<1>1. CASE CancelUntouchedClose(t)
  <2>1. PICK o \in Ops :
          /\ op' = [op EXCEPT ![o] = Concluded(@, "cancelled", now)]
          /\ row' = [row EXCEPT ![o] = TransitionOutbox(@, "cancelled", "superseded")]
    BY <1>1 DEF CancelUntouchedClose
  <2>2. op[o] \in Operation /\ now \in Int
    BY StoredTypes DEF RowsInv
  <2>3. Concluded(op[o], "cancelled", now).state = "cancelled"
    BY <2>2, ConcludedFacts DEF Outcomes
  <2> QED BY <2>1, <2>3, OutcomeStep
<1>2. CASE UNCHANGED <<op, row>>
  BY <1>2, NoRowStep
<1> QED BY <1>1, <1>2 DEF ReopenTask

\* Every step keeps every row.
LEMMA NextKeepsRows ==
    ASSUME RowsInv, [Next]_vars
    PROVE  RowsInv'
<1>0. TypeOK'
  BY NextKeepsType DEF RowsInv
<1>1. CASE \/ UNCHANGED vars \/ Tick \/ ClockStepsBack
           \/ \E t \in Tasks : SettleTask(t) \/ DeleteTask(t) \/ RebindSession(t) \/ CloseSpecialist(t)
           \/ \E r \in Resources : RegisterResource(r)
  <2>1. UNCHANGED <<op, row>>
    BY <1>1 DEF vars, Tick, ClockStepsBack, SettleTask, DeleteTask, RebindSession,
                CloseSpecialist, RegisterResource
  <2> QED BY <1>0, <2>1, NoRowStep
<1>2. CASE \E t \in Tasks : BeginCloseTask(t) \/ SubmitProviderInput(t) \/ HoldBrowserHost(t)
  BY <1>0, <1>2, AcceptStep DEF BeginCloseTask, SubmitProviderInput, HoldBrowserHost, EffectKinds
<1>3. CASE \E r \in Resources : ReleaseResource(r)
  BY <1>0, <1>3, AcceptStep DEF ReleaseResource, EffectKinds
<1>4. CASE \E t \in Tasks : ReopenTask(t)
  BY <1>0, <1>4, ReopenKeepsRows
<1>5. CASE \/ \E r \in Resources : SettleResourceReleaseFor(r)
           \/ SettleNextProcessEmptyTaskTeardown
  BY <1>0, <1>5, SettleNowKeepsRows DEF SettleResourceReleaseFor, SettleNextProcessEmptyTaskTeardown
<1>6. CASE \/ ClaimNextDispatch(EffectKinds) \/ ClaimNextDispatch({"release"})
           \/ ClaimNextProviderInput \/ ReleaseDispatchClaim \/ RenewDispatchClaim
           \/ BeginDispatch
  <2>1. EffectKinds \in SUBSET EffectKinds /\ {"release"} \in SUBSET EffectKinds
    BY DEF EffectKinds
  <2> QED BY <1>0, <1>6, <2>1, ClaimsKeepRows
<1>7. CASE \/ WriteProviderInput \/ TearProviderInput \/ DeferBeforeBoundary \/ CompleteDispatch
           \/ RecordDispatchAmbiguity \/ RecoverNextExpiredDispatch
  BY <1>0, <1>7, PermitsKeepRows
<1>8. CASE \/ ClaimNextReconciliation \/ RenewReconciliationClaim \/ ReleaseReconciliationClaim
           \/ ReconcileAbsent \/ ReconcileInconclusive \/ ReconcilePresent
  BY <1>0, <1>8, LookupsKeepRows
<1> QED BY <1>1, <1>2, <1>3, <1>4, <1>5, <1>6, <1>7, <1>8 DEF Next

\* The initial outbox is untouched.
LEMMA InitRows == Init => RowsInv
<1> SUFFICES ASSUME Init PROVE RowsInv
  OBVIOUS
<1>1. \A o \in Ops : op[o].state = "none" /\ PristineRow(row[o])
  BY DEF Init, PristineRow
<1> QED BY <1>1, InitType DEF RowsInv, RowInv

\* No operation, no interleaving and no movement of the wall clock writes a live
\* row that validate_nonterminal_outbox_dispatch_metadata reports as corruption.
THEOREM LiveRowsAreValid == Spec => []LiveRowsPassValidator
<1>1. Init => RowsInv
  BY InitRows
<1>2. RowsInv /\ [Next]_vars => RowsInv'
  BY NextKeepsRows
<1>3. RowsInv => LiveRowsPassValidator
  BY DEF RowsInv, RowInv, LiveRow, LiveRowsPassValidator
<1> QED BY <1>1, <1>2, <1>3, PTL DEF Spec

-----------------------------------------------------------------------------
(* Beyond the validity of a live row: an outcome is final and its receipt  *)
(* can be replayed, an input's bytes reach a provider at most once, a      *)
(* release is retried only after a proof of absence, a live lease is       *)
(* exclusive, and closes and releases have exactly the operation that will *)
(* finish them.                                                            *)
(*                                                                         *)
(* At most once is not inductive: it rests on a permit for an unfinished   *)
(* input being the one its dispatching row speaks of, so that no second    *)
(* permit can be issued while the first one lives (OncePermit).            *)

\* What a step may do to one operation and its row.
Moves(o) ==
    \/ op'[o] = op[o] /\ row'[o] = row[o]
    \/ op[o].state = "none" /\ op'[o].state = "accepted"
    \/ op[o].state = "accepted" /\ op'[o] = op[o]
    \/ /\ op[o].state = "accepted" /\ op'[o].kind = op[o].kind
       /\ op'[o].state \in Outcomes \cup {"uncertain"}

\* An input being dispatched keeps its attempt until it has an outcome.
KeepsAttempt(o) ==
    op[o].kind = "provider" /\ Dispatching(o) /\ op'[o].state = "accepted" =>
        /\ row'[o].state = "dispatching"
        /\ row'[o].gen = row[o].gen /\ row'[o].attempts = row[o].attempts

Steady == \A o \in Ops : Moves(o) /\ KeepsAttempt(o)

-----------------------------------------------------------------------------
(* The shape of every step.                                                  *)

\* Nothing durable moves.
LEMMA NothingMoves ==
    ASSUME UNCHANGED <<op, row>>
    PROVE  Steady
BY DEF Steady, Moves, KeepsAttempt, Dispatching

\* One row moves.
LEMMA OneRowMoves ==
    ASSUME TypeOK, NEW o \in Ops, NEW r, op[o].state = "accepted", UNCHANGED op,
           row' = [row EXCEPT ![o] = r]
    PROVE  /\ \A p \in Ops : Moves(p)
           /\ \A p \in Ops \ {o} : KeepsAttempt(p)
           /\ row'[o] = r
<1>1. \A p \in Ops : op'[p] = op[p] /\ (p # o => row'[p] = row[p]) /\ (p = o => row'[p] = r)
  BY DEF TypeOK
<1> QED BY <1>1 DEF Moves, KeepsAttempt, Dispatching

\* One operation gets its outcome.
LEMMA OneOutcomeMoves ==
    ASSUME TypeOK, NEW o \in Ops, NEW r, NEW p, op[o].state = "accepted",
           row' = [row EXCEPT ![o] = r], op' = [op EXCEPT ![o] = p],
           p.kind = op[o].kind, p.state \in Outcomes \cup {"uncertain"}
    PROVE  Steady
<1>1. \A q \in Ops : /\ q # o => op'[q] = op[q] /\ row'[q] = row[q]
                     /\ q = o => op'[q] = p
  BY DEF TypeOK
<1>2. \A q \in Ops : Moves(q)
  BY <1>1 DEF Moves
<1>3. p.state # "accepted"
  BY DEF Outcomes
<1>4. \A q \in Ops : KeepsAttempt(q)
  BY <1>1, <1>3 DEF KeepsAttempt, Dispatching
<1> QED BY <1>2, <1>4 DEF Steady

\* An outcome changes what the operation came to, not what it is.
LEMMA ConcludedShape ==
    ASSUME NEW p \in Operation, NEW outcome \in Outcomes \cup {"uncertain"}, NEW at \in Int
    PROVE  Concluded(p, outcome, at).state = outcome /\ Concluded(p, outcome, at).kind = p.kind
BY ConcludedFacts

\* One operation is accepted.
LEMMA AcceptMoves ==
    ASSUME TypeOK, NEW kind, NEW t, NEW epoch, NEW target, Accept(kind, t, epoch, target)
    PROVE  Steady
<1>1. PICK o \in Ops :
        /\ op[o].state = "none"
        /\ op' = [op EXCEPT ![o] = [kind |-> kind, task |-> t, epoch |-> epoch, target |-> target,
                                    state |-> "accepted", acceptedAt |-> now,
                                    outcomeAt |-> NoTime, reconciled |-> FALSE]]
        /\ row' = [row EXCEPT ![o].avail = now]
  BY DEF Accept
<1>2. \A p \in Ops : /\ p # o => op'[p] = op[p] /\ row'[p] = row[p]
                     /\ p = o => op'[p].state = "accepted"
  BY <1>1 DEF TypeOK
<1> QED BY <1>1, <1>2 DEF Steady, Moves, KeepsAttempt, Dispatching

\* The commands and the clock.
LEMMA CommandsMove ==
    ASSUME TypeOK,
           \/ UNCHANGED vars \/ Tick \/ ClockStepsBack
           \/ \E t \in Tasks : \/ BeginCloseTask(t) \/ SubmitProviderInput(t) \/ HoldBrowserHost(t)
                               \/ SettleTask(t) \/ DeleteTask(t) \/ RebindSession(t)
                               \/ CloseSpecialist(t) \/ ReopenTask(t)
           \/ \E r \in Resources : RegisterResource(r) \/ ReleaseResource(r)
    PROVE  Steady /\ UNCHANGED workerVars
<1>1. CASE \/ UNCHANGED vars \/ Tick \/ ClockStepsBack
           \/ \E t \in Tasks : SettleTask(t) \/ DeleteTask(t) \/ RebindSession(t) \/ CloseSpecialist(t)
           \/ \E r \in Resources : RegisterResource(r)
  <2>1. UNCHANGED <<op, row>> /\ UNCHANGED workerVars
    BY <1>1 DEF vars, workerVars, Tick, ClockStepsBack, SettleTask, DeleteTask, RebindSession,
                CloseSpecialist, RegisterResource
  <2> QED BY <2>1, NothingMoves
<1>2. CASE \E t \in Tasks : BeginCloseTask(t) \/ SubmitProviderInput(t) \/ HoldBrowserHost(t)
  BY <1>2, AcceptMoves DEF BeginCloseTask, SubmitProviderInput, HoldBrowserHost
<1>3. CASE \E r \in Resources : ReleaseResource(r)
  BY <1>3, AcceptMoves DEF ReleaseResource
<1>4. ASSUME NEW t \in Tasks, ReopenTask(t) PROVE Steady /\ UNCHANGED workerVars
  <2>1. CASE CancelUntouchedClose(t)
    <3>1. PICK o \in Ops :
            /\ AcceptedAt(t, task[t].epoch) = {o}
            /\ op' = [op EXCEPT ![o] = Concluded(@, "cancelled", now)]
            /\ row' = [row EXCEPT ![o] = TransitionOutbox(@, "cancelled", "superseded")]
      BY <2>1 DEF CancelUntouchedClose
    <3>2. op[o].state = "accepted"
      <4>1. o \in AcceptedAt(t, task[t].epoch)
        BY <3>1
      <4> QED BY <4>1 DEF AcceptedAt
    <3>3. op[o] \in Operation /\ now \in Int
      BY StoredTypes
    <3>4. LET q == Concluded(op[o], "cancelled", now) IN q.state = "cancelled" /\ q.kind = op[o].kind
      BY <3>3, ConcludedFacts DEF Outcomes
    <3>5. Steady
      BY <3>1, <3>2, <3>4, OneOutcomeMoves DEF Outcomes
    <3> QED BY <1>4, <3>5 DEF ReopenTask
  <2>2. CASE UNCHANGED <<op, row>>
    BY <1>4, <2>2, NothingMoves DEF ReopenTask
  <2> QED BY <1>4, <2>1, <2>2 DEF ReopenTask
<1> QED BY <1>1, <1>2, <1>3, <1>4

\* Settling in one transaction.
LEMMA SettleNowMoves ==
    ASSUME TypeOK, NEW o \in Ops, op[o].state = "accepted", SettleNow(o)
    PROVE  Steady /\ UNCHANGED workerVars
<1> DEFINE at == MaxOf(MaxOf(now, row[o].avail), op[o].acceptedAt)
           r == TransitionOutbox(Begun(NextGeneration(row[o]), MaxOf(now, row[o].avail)), "settled", "none")
<1>1. at \in Int /\ op[o] \in Operation
  <2>1. now \in Int /\ row[o].avail \in Int /\ op[o].acceptedAt \in Int /\ op[o] \in Operation
    BY StoredTypes
  <2> QED BY <2>1, MaxOfFacts
<1>2. /\ op' = [op EXCEPT ![o] = Concluded(@, "settled", at)] /\ row' = [row EXCEPT ![o] = r]
      /\ UNCHANGED workerVars
  BY DEF SettleNow
<1> HIDE DEF at, r
<1>3. Concluded(op[o], "settled", at).state = "settled" /\ Concluded(op[o], "settled", at).kind = op[o].kind
  BY <1>1, ConcludedShape DEF Outcomes
<1> QED BY <1>2, <1>3, OneOutcomeMoves DEF Outcomes

\* Recording uncertainty.
LEMMA UncertaintyMoves ==
    ASSUME TypeOK, NEW o \in Ops, op[o].state = "accepted", RecordNoRetryUncertainty(o)
    PROVE  Steady
<1>1. op[o] \in Operation /\ UncertainAt(o) \in Int
  BY StoredTypes, DateTypes
<1>2. /\ Concluded(op[o], "uncertain", UncertainAt(o)).state = "uncertain"
      /\ Concluded(op[o], "uncertain", UncertainAt(o)).kind = op[o].kind
  BY <1>1, ConcludedShape
<1> QED BY <1>2, OneOutcomeMoves DEF RecordNoRetryUncertainty

\* The steps of the provider lane, the claims and the lookups that issue no permit
\* and take none back.
LEMMA WorkersMove ==
    ASSUME RowsInv,
           \/ \E kinds \in SUBSET EffectKinds : ClaimNextDispatch(kinds)
           \/ ClaimNextProviderInput \/ ReleaseDispatchClaim \/ RenewDispatchClaim
           \/ CompleteDispatch \/ RecordDispatchAmbiguity \/ RecoverNextExpiredDispatch
           \/ ClaimNextReconciliation \/ RenewReconciliationClaim \/ ReleaseReconciliationClaim
           \/ ReconcileAbsent \/ ReconcileInconclusive \/ ReconcilePresent
           \/ \E r \in Resources : SettleResourceReleaseFor(r)
           \/ SettleNextProcessEmptyTaskTeardown
    PROVE  Steady /\ UNCHANGED <<permits, crossed>>
<1>0. TypeOK
  BY DEF RowsInv
<1>1. ASSUME NEW o \in Ops, NEW r, op[o].state = "accepted", UNCHANGED op,
             row' = [row EXCEPT ![o] = r],
             row[o].state # "dispatching" \/ op[o].kind # "provider"
      PROVE  Steady
  BY <1>0, <1>1, OneRowMoves DEF Steady, KeepsAttempt, Dispatching
<1>2. ASSUME NEW kinds \in SUBSET EffectKinds, ClaimNextDispatch(kinds)
      PROVE  Steady /\ UNCHANGED <<permits, crossed>>
  <2>1. PICK o \in Ops, d \in Durations :
          o \in Claimable(kinds) /\ row' = [row EXCEPT ![o] = Claimed(@, d)] /\ UNCHANGED op
    BY <1>2 DEF ClaimNextDispatch, First
  <2>2. op[o].state = "accepted" /\ row[o].state # "dispatching"
    BY <2>1, ClaimableRow
  <2> QED BY <1>1, <1>2, <2>1, <2>2 DEF ClaimNextDispatch
<1>3. CASE ClaimNextProviderInput
  <2> DEFINE claimable == Claimable({"provider"})
             Retired == {o \in DispatchCandidates({"provider"}) :
                           PermanentlyStale(o) /\ \A p \in claimable : First(claimable, p) => Before(o, p)}
  <2>1. PICK d \in Durations :
          /\ row' = [o \in Ops |->
                       IF o \in Retired THEN TransitionOutbox(row[o], "failed", "stale_fence")
                       ELSE IF First(claimable, o) THEN Claimed(row[o], d) ELSE row[o]]
          /\ op' = [o \in Ops |-> IF o \in Retired THEN RetiredOperation(o) ELSE op[o]]
    BY <1>3, Zenon DEF ClaimNextProviderInput
  <2>2. ASSUME NEW o \in Retired
        PROVE  op[o].state = "accepted" /\ row[o].state \in {"pending", "claimed"} /\ o \in Ops
    BY DEF DispatchCandidates
  <2> HIDE DEF Retired
  <2>3. ASSUME NEW o \in Ops PROVE Moves(o) /\ KeepsAttempt(o)
    <3>1. CASE o \in Retired
      <4>1. /\ op[o] \in Operation
            /\ MaxOf(now, MaxOf(op[o].acceptedAt, row[o].avail)) \in Int
        BY <1>0, StoredTypes, DateTypes
      <4>2. RetiredOperation(o).state = "failed" /\ RetiredOperation(o).kind = op[o].kind
        BY <4>1, ConcludedShape DEF RetiredOperation, Outcomes
      <4>3. op'[o] = RetiredOperation(o)
        BY <2>1, <3>1
      <4> QED BY <2>2, <3>1, <4>2, <4>3 DEF Moves, KeepsAttempt, Dispatching, Outcomes
    <3>2. CASE o \notin Retired /\ First(claimable, o)
      <4>1. op'[o] = op[o]
        BY <2>1, <3>2
      <4>2. op[o].state = "accepted" /\ row[o].state # "dispatching"
        BY <3>2, ClaimableRow DEF First
      <4> QED BY <4>1, <4>2 DEF Moves, KeepsAttempt, Dispatching
    <3>3. CASE o \notin Retired /\ ~First(claimable, o)
      <4>1. op'[o] = op[o] /\ row'[o] = row[o]
        BY <2>1, <3>3
      <4> QED BY <4>1 DEF Moves, KeepsAttempt, Dispatching
    <3> QED BY <3>1, <3>2, <3>3
  <2> QED BY <1>3, <2>3 DEF Steady, ClaimNextProviderInput
<1>4. CASE ReleaseDispatchClaim
  <2>1. PICK c \in claims, d \in Durations :
          /\ row[c[1]].state = "claimed" /\ op[c[1]].state = "accepted"
          /\ row' = [row EXCEPT ![c[1]] = HandedBack(@, PutBackUntil(c[1], d))] /\ UNCHANGED op
    BY <1>4 DEF ReleaseDispatchClaim, HoldsClaim
  <2> QED BY <1>0, <1>1, <1>4, <2>1, TokenTypes DEF ReleaseDispatchClaim, workerVars
<1>5. CASE RenewDispatchClaim
  <2>1. PICK c \in claims, d \in Durations :
          /\ op[c[1]].state = "accepted" /\ UNCHANGED op
          /\ row' = [row EXCEPT ![c[1]] = [@ EXCEPT !.lease = MaxOf(row[c[1]].lease, now + d)]]
    BY <1>5 DEF RenewDispatchClaim, HoldsClaim
  <2> DEFINE o == c[1]
             r == [row[o] EXCEPT !.lease = MaxOf(row[o].lease, now + d)]
  <2>2. o \in Ops
    BY <1>0, TokenTypes
  <2>3. row[o] \in OutboxRow /\ row[o].lease \in Int /\ now + d \in Int
    BY <1>0, <2>2, StoredTypes, DateTypes
  <2>4. MaxOf(row[o].lease, now + d) \in Int
    BY <2>3, MaxOfFacts
  <2>5. r.state = row[o].state /\ r.gen = row[o].gen /\ r.attempts = row[o].attempts
    BY <2>3, <2>4, LeaseFacts
  <2>6. op[o].state = "accepted" /\ row' = [row EXCEPT ![o] = r]
    BY <2>1
  <2> HIDE DEF o, r
  <2>7. /\ \A p \in Ops : Moves(p)
        /\ \A p \in Ops \ {o} : KeepsAttempt(p)
        /\ row'[o] = r
    BY <1>0, <2>1, <2>2, <2>6, OneRowMoves
  <2>8. KeepsAttempt(o)
    BY <2>5, <2>7 DEF KeepsAttempt, Dispatching
  <2> QED BY <1>5, <2>7, <2>8 DEF RenewDispatchClaim, workerVars, Steady
<1>6. CASE CompleteDispatch
  <2>1. PICK p \in permits, outcome \in Outcomes :
          /\ Dispatching(p[1])
          /\ op' = [op EXCEPT ![p[1]] = Concluded(@, outcome, CompletedAt(p[1]))]
          /\ row' = [row EXCEPT ![p[1]] = TransitionOutbox(@, outcome, ErrorClassOf(outcome))]
    BY <1>6 DEF CompleteDispatch
  <2>2. p[1] \in Ops /\ op[p[1]].state = "accepted"
    BY <1>0, <2>1, TokenTypes DEF Dispatching
  <2>3. op[p[1]] \in Operation /\ CompletedAt(p[1]) \in Int
    BY <1>0, <2>2, StoredTypes, DateTypes
  <2>4. /\ Concluded(op[p[1]], outcome, CompletedAt(p[1])).state = outcome
        /\ Concluded(op[p[1]], outcome, CompletedAt(p[1])).kind = op[p[1]].kind
    BY <2>3, ConcludedShape
  <2>5. Steady
    BY <1>0, <2>1, <2>2, <2>4, OneOutcomeMoves
  <2> QED BY <1>6, <2>5 DEF CompleteDispatch, workerVars
<1>7. CASE RecordDispatchAmbiguity
  <2>1. PICK p \in permits, d \in Durations :
          /\ Dispatching(p[1])
          /\ \/ RecordNoRetryUncertainty(p[1])
             \/ /\ op[p[1]].kind # "provider"
                /\ row' = [row EXCEPT ![p[1]] = Ambiguous(p[1], d)] /\ UNCHANGED op
    BY <1>7 DEF RecordDispatchAmbiguity
  <2>2. p[1] \in Ops /\ op[p[1]].state = "accepted"
    BY <1>0, <2>1, TokenTypes DEF Dispatching
  <2>3. Steady
    BY <1>0, <1>1, <2>1, <2>2, UncertaintyMoves
  <2> QED BY <1>7, <2>3 DEF RecordDispatchAmbiguity, workerVars
<1>8. CASE RecoverNextExpiredDispatch
  <2>1. PICK o \in Ops, d \in Durations :
          /\ Dispatching(o)
          /\ \/ RecordNoRetryUncertainty(o)
             \/ /\ op[o].kind # "provider"
                /\ row' = [row EXCEPT ![o] = NextGeneration(Ambiguous(o, d))] /\ UNCHANGED op
    BY <1>8 DEF RecoverNextExpiredDispatch, First, ExpiredDispatches
  <2>2. op[o].state = "accepted"
    BY <2>1 DEF Dispatching
  <2>3. Steady
    BY <1>0, <1>1, <2>1, <2>2, UncertaintyMoves
  <2> QED BY <1>8, <2>3 DEF RecoverNextExpiredDispatch, workerVars
<1>9. CASE ClaimNextReconciliation
  <2>1. PICK o \in Ops, d \in Durations :
          /\ op[o].state = "accepted" /\ row[o].state \in {"reconcile_required", "reconciling"}
          /\ row' = [row EXCEPT ![o] = LookedUp(@, d)] /\ UNCHANGED op
    BY <1>9 DEF ClaimNextReconciliation, First, ReconciliationCandidates
  <2> QED BY <1>1, <1>9, <2>1 DEF ClaimNextReconciliation
<1>10. CASE \/ RenewReconciliationClaim \/ ReleaseReconciliationClaim
            \/ ReconcileAbsent \/ ReconcileInconclusive
  <2>1. PICK l \in lookups :
          /\ op[l[1]].state = "accepted" /\ row[l[1]].state = "reconciling"
          /\ \E r : row' = [row EXCEPT ![l[1]] = r]
          /\ UNCHANGED op
    <3>1. CASE RenewReconciliationClaim
      BY <3>1 DEF RenewReconciliationClaim, HoldsLookup
    <3>2. CASE ReleaseReconciliationClaim
      BY <3>2 DEF ReleaseReconciliationClaim, HoldsLookup
    <3>3. CASE ReconcileAbsent
      BY <3>3 DEF ReconcileAbsent, HoldsLookup
    <3>4. CASE ReconcileInconclusive
      BY <3>4 DEF ReconcileInconclusive, HoldsLookup
    <3> QED BY <1>10, <3>1, <3>2, <3>3, <3>4
  <2>2. l[1] \in Ops
    BY <1>0, TokenTypes
  <2>3. Steady
    BY <1>1, <2>1, <2>2
  <2>4. UNCHANGED <<permits, crossed>>
    BY <1>10 DEF RenewReconciliationClaim, ReleaseReconciliationClaim, ReconcileAbsent,
                 ReconcileInconclusive, workerVars
  <2> QED BY <2>3, <2>4
<1>11. CASE ReconcilePresent
  <2>1. PICK l \in lookups, outcome \in {"settled", "failed"} :
          /\ op[l[1]].state = "accepted"
          /\ op' = [op EXCEPT ![l[1]] = Reconciled(Concluded(@, outcome, ObservedAt(l[1])))]
          /\ row' = [row EXCEPT ![l[1]] = TransitionOutbox(@, outcome, ErrorClassOf(outcome))]
    BY <1>11 DEF ReconcilePresent, HoldsLookup
  <2> DEFINE p == Concluded(op[l[1]], outcome, ObservedAt(l[1]))
  <2>2. l[1] \in Ops
    BY <1>0, TokenTypes
  <2>3. op[l[1]] \in Operation /\ ObservedAt(l[1]) \in Int
    BY <1>0, <2>2, StoredTypes, DateTypes
  <2>4. p \in Operation /\ p.state = outcome /\ p.kind = op[l[1]].kind
    <3>1. outcome \in Outcomes \cup {"uncertain"}
      BY DEF Outcomes
    <3> QED BY <2>3, <3>1, ConcludedFacts, ConcludedShape
  <2> HIDE DEF p
  <2>5. Reconciled(p).state = outcome /\ Reconciled(p).kind = op[l[1]].kind
    BY <2>4, ReconciledFacts
  <2>6. Steady
    BY <1>0, <2>1, <2>2, <2>5, OneOutcomeMoves DEF Outcomes, p
  <2> QED BY <1>11, <2>6 DEF ReconcilePresent, workerVars
<1>12. CASE \/ \E r \in Resources : SettleResourceReleaseFor(r)
            \/ SettleNextProcessEmptyTaskTeardown
  <2>1. PICK o \in Ops : SettleNow(o) /\ \E kinds : o \in Claimable(kinds)
    BY <1>12 DEF SettleResourceReleaseFor, SettleNextProcessEmptyTaskTeardown, First
  <2>2. op[o].state = "accepted"
    BY <2>1, ClaimableRow
  <2> QED BY <1>0, <2>1, <2>2, SettleNowMoves DEF workerVars
<1> QED BY <1>2, <1>3, <1>4, <1>5, <1>6, <1>7, <1>8, <1>9, <1>10, <1>11, <1>12

-----------------------------------------------------------------------------
(* An outcome is final.                                                      *)

\* Every step moves every operation forward or not at all.
LEMMA NextMoves ==
    ASSUME RowsInv, [Next]_vars
    PROVE  \A o \in Ops : Moves(o)
<1>0. TypeOK
  BY DEF RowsInv
<1>1. CASE \/ UNCHANGED vars \/ Tick \/ ClockStepsBack
           \/ \E t \in Tasks : \/ BeginCloseTask(t) \/ SubmitProviderInput(t) \/ HoldBrowserHost(t)
                               \/ SettleTask(t) \/ DeleteTask(t) \/ RebindSession(t)
                               \/ CloseSpecialist(t) \/ ReopenTask(t)
           \/ \E r \in Resources : RegisterResource(r) \/ ReleaseResource(r)
  BY <1>0, <1>1, CommandsMove DEF Steady
<1>2. CASE \/ ClaimNextDispatch(EffectKinds) \/ ClaimNextDispatch({"release"})
           \/ ClaimNextProviderInput \/ ReleaseDispatchClaim \/ RenewDispatchClaim
           \/ CompleteDispatch \/ RecordDispatchAmbiguity \/ RecoverNextExpiredDispatch
           \/ ClaimNextReconciliation \/ RenewReconciliationClaim \/ ReleaseReconciliationClaim
           \/ ReconcileAbsent \/ ReconcileInconclusive \/ ReconcilePresent
           \/ \E r \in Resources : SettleResourceReleaseFor(r)
           \/ SettleNextProcessEmptyTaskTeardown
  <2>1. EffectKinds \in SUBSET EffectKinds /\ {"release"} \in SUBSET EffectKinds
    BY DEF EffectKinds
  <2> QED BY <1>2, <2>1, WorkersMove DEF Steady
<1>3. CASE BeginDispatch
  <2>1. PICK c \in claims :
          /\ op[c[1]].state = "accepted" /\ UNCHANGED op
          /\ row' = [row EXCEPT ![c[1]] = Begun(@, MaxOf(now, row[c[1]].avail))]
    BY <1>3 DEF BeginDispatch, HoldsClaim
  <2> QED BY <1>0, <2>1, TokenTypes, OneRowMoves
<1>4. CASE WriteProviderInput \/ TearProviderInput
  BY <1>4 DEF WriteProviderInput, TearProviderInput, Moves
<1>5. CASE DeferBeforeBoundary
  <2>1. PICK p \in permits, d \in Durations :
          /\ op[p[1]].state = "accepted" /\ UNCHANGED op
          /\ row' = [row EXCEPT ![p[1]] = TakenBack(@, PutBackUntil(p[1], d))]
    BY <1>5 DEF DeferBeforeBoundary, Dispatching
  <2> QED BY <1>0, <2>1, TokenTypes, OneRowMoves
<1> QED BY <1>1, <1>2, <1>3, <1>4, <1>5 DEF Next

\* A settled, failed, cancelled or uncertain operation and its row are never
\* written again: no late completion, recovery, lookup, retirement or reopen.
THEOREM OutcomesFinal == Spec => OutcomesAreFinal
<1>1. RowsInv /\ [Next]_vars =>
        [\A o \in Ops : op[o].state \in Outcomes \cup {"uncertain"} =>
            op'[o] = op[o] /\ row'[o] = row[o]]_vars
  BY NextMoves DEF Moves, Outcomes
<1>2. RowsInv /\ [Next]_vars => RowsInv'
  BY NextKeepsRows
<1>3. Init => RowsInv
  BY InitRows
<1> QED BY <1>1, <1>2, <1>3, PTL DEF Spec, OutcomesAreFinal

-----------------------------------------------------------------------------
(* At most once.                                                             *)

OncePermit(p) ==
    /\ op[p[1]].state # "none"
    /\ op[p[1]].kind = "provider" /\ op[p[1]].state = "accepted" =>
          row[p[1]].state = "dispatching" /\ PermitMatches(p)

PermitsInv ==
    /\ \A p \in permits : OncePermit(p)
    /\ \A p \in permits, q \in permits : op[p[1]].kind = "provider" /\ p[1] = q[1] => p = q
    /\ \A p \in crossed : op[p[1]].kind = "provider"

\* A step that issues no permit and takes none back.
LEMMA SteadyKeepsPermits ==
    ASSUME RowsInv, PermitsInv, Steady, UNCHANGED <<permits, crossed>>
    PROVE  PermitsInv'
<1>0. TypeOK
  BY DEF RowsInv
<1>1. ASSUME NEW p \in permits
      PROVE  OncePermit(p)' /\ op'[p[1]].kind = op[p[1]].kind
  <2>1. p[1] \in Ops /\ OncePermit(p)
    BY <1>0, TokenTypes DEF PermitsInv
  <2>2. Moves(p[1]) /\ KeepsAttempt(p[1])
    BY <2>1 DEF Steady
  <2>3. op'[p[1]].kind = op[p[1]].kind /\ op'[p[1]].state # "none"
    BY <2>1, <2>2 DEF Moves, OncePermit, Outcomes
  <2>4. op'[p[1]].state = "accepted" => op[p[1]].state = "accepted"
    BY <2>1, <2>2 DEF Moves, OncePermit
  <2>5. op'[p[1]].kind = "provider" /\ op'[p[1]].state = "accepted" =>
          row'[p[1]].state = "dispatching" /\ PermitMatches(p)'
    BY <2>1, <2>2, <2>3, <2>4 DEF OncePermit, KeepsAttempt, Dispatching, PermitMatches
  <2> QED BY <2>3, <2>5 DEF OncePermit
<1>2. crossed \subseteq permits
  BY <1>0 DEF TypeOK
<1>3. \A p \in permits' : OncePermit(p)'
  BY <1>1
<1>4. \A p \in permits', q \in permits' : op'[p[1]].kind = "provider" /\ p[1] = q[1] => p = q
  BY <1>1 DEF PermitsInv
<1>5. \A p \in crossed' : op'[p[1]].kind = "provider"
  BY <1>1, <1>2 DEF PermitsInv
<1> QED BY <1>3, <1>4, <1>5 DEF PermitsInv

\* The permit of a new attempt is the only one its input has.
LEMMA BeginKeepsPermits ==
    ASSUME RowsInv, PermitsInv, BeginDispatch
    PROVE  PermitsInv'
<1>0. TypeOK
  BY DEF RowsInv
<1>1. PICK c \in claims :
        /\ row[c[1]].state = "claimed" /\ op[c[1]].state = "accepted" /\ row[c[1]].gen = c[2]
        /\ row' = [row EXCEPT ![c[1]] = Begun(@, MaxOf(now, row[c[1]].avail))]
        /\ permits' = permits \cup {<<c[1], c[2], row[c[1]].attempts + 1>>}
        /\ UNCHANGED <<op, crossed>>
  BY DEF BeginDispatch, HoldsClaim
<1>n. PICK n : n = row[c[1]].attempts + 1
  OBVIOUS
<1> DEFINE o == c[1]
           new == <<o, c[2], n>>
<1>2. o \in Ops /\ row[o] \in OutboxRow
  BY <1>0, TokenTypes, StoredTypes
<1>3. row'[o].state = "dispatching" /\ row'[o].gen = c[2] /\ row'[o].attempts = n
  <2>1. MaxOf(now, row[o].avail) \in Int
    BY <1>0, <1>2, DateTypes
  <2>2. row'[o] = Begun(row[o], MaxOf(now, row[o].avail))
    BY <1>0, <1>1, <1>2 DEF TypeOK
  <2>3. /\ Begun(row[o], MaxOf(now, row[o].avail)).state = "dispatching"
        /\ Begun(row[o], MaxOf(now, row[o].avail)).gen = row[o].gen
        /\ Begun(row[o], MaxOf(now, row[o].avail)).attempts = row[o].attempts + 1
    BY <1>2, <2>1, BegunFacts
  <2> QED BY <1>1, <1>n, <2>2, <2>3
<1>4. new[1] = o /\ new[2] = c[2] /\ new[3] = n
  OBVIOUS
<1>5. OncePermit(new)'
  BY <1>1, <1>3, <1>4 DEF OncePermit, PermitMatches
<1>6. ASSUME NEW p \in permits, op[p[1]].kind = "provider" PROVE p[1] # o
  BY <1>1, <1>6 DEF PermitsInv, OncePermit
<1>7. ASSUME NEW p \in permits PROVE OncePermit(p)'
  <2>1. CASE p[1] = o
    BY <1>1, <1>6, <2>1 DEF OncePermit
  <2>2. CASE p[1] # o
    <3>1. p[1] \in Ops /\ OncePermit(p)
      BY <1>0, TokenTypes DEF PermitsInv
    <3>2. row'[p[1]] = row[p[1]]
      BY <1>0, <1>1, <1>2, <2>2, <3>1 DEF TypeOK
    <3> QED BY <1>1, <3>1, <3>2 DEF OncePermit, PermitMatches
  <2> QED BY <2>1, <2>2
<1>8. permits' = permits \cup {new} /\ op' = op /\ crossed' = crossed
  BY <1>1, <1>n
<1> HIDE DEF new, o
<1>9. \A p \in permits' : OncePermit(p)'
  BY <1>5, <1>7, <1>8
<1>10. \A p \in permits', q \in permits' : op'[p[1]].kind = "provider" /\ p[1] = q[1] => p = q
  BY <1>4, <1>6, <1>8 DEF PermitsInv
<1> QED BY <1>8, <1>9, <1>10 DEF PermitsInv

\* Taking an attempt back takes its only permit back with it.
LEMMA DeferKeepsPermits ==
    ASSUME RowsInv, PermitsInv, DeferBeforeBoundary
    PROVE  PermitsInv'
<1>0. TypeOK
  BY DEF RowsInv
<1>1. PICK p \in permits, d \in Durations :
        /\ op[p[1]].kind = "provider"
        /\ row' = [row EXCEPT ![p[1]] = TakenBack(@, PutBackUntil(p[1], d))]
        /\ permits' = permits \ {p}
        /\ UNCHANGED <<op, crossed>>
  BY DEF DeferBeforeBoundary
<1>2. ASSUME NEW q \in permits' PROVE OncePermit(q)'
  <2>1. q \in permits /\ q[1] # p[1] /\ q[1] \in Ops /\ p[1] \in Ops
    BY <1>0, <1>1, TokenTypes DEF PermitsInv
  <2>2. row'[q[1]] = row[q[1]]
    BY <1>0, <1>1, <2>1 DEF TypeOK
  <2> QED BY <1>1, <2>1, <2>2 DEF PermitsInv, OncePermit, PermitMatches
<1> QED BY <1>1, <1>2 DEF PermitsInv

\* Every step keeps the permits of an input down to one.
LEMMA NextKeepsPermits ==
    ASSUME RowsInv, PermitsInv, [Next]_vars
    PROVE  PermitsInv'
<1>0. TypeOK
  BY DEF RowsInv
<1>1. CASE \/ UNCHANGED vars \/ Tick \/ ClockStepsBack
           \/ \E t \in Tasks : \/ BeginCloseTask(t) \/ SubmitProviderInput(t) \/ HoldBrowserHost(t)
                               \/ SettleTask(t) \/ DeleteTask(t) \/ RebindSession(t)
                               \/ CloseSpecialist(t) \/ ReopenTask(t)
           \/ \E r \in Resources : RegisterResource(r) \/ ReleaseResource(r)
  <2>1. Steady /\ UNCHANGED <<permits, crossed>>
    BY <1>0, <1>1, CommandsMove DEF workerVars
  <2> QED BY <2>1, SteadyKeepsPermits
<1>2. CASE \/ ClaimNextDispatch(EffectKinds) \/ ClaimNextDispatch({"release"})
           \/ ClaimNextProviderInput \/ ReleaseDispatchClaim \/ RenewDispatchClaim
           \/ CompleteDispatch \/ RecordDispatchAmbiguity \/ RecoverNextExpiredDispatch
           \/ ClaimNextReconciliation \/ RenewReconciliationClaim \/ ReleaseReconciliationClaim
           \/ ReconcileAbsent \/ ReconcileInconclusive \/ ReconcilePresent
           \/ \E r \in Resources : SettleResourceReleaseFor(r)
           \/ SettleNextProcessEmptyTaskTeardown
  <2>1. EffectKinds \in SUBSET EffectKinds /\ {"release"} \in SUBSET EffectKinds
    BY DEF EffectKinds
  <2>2. Steady /\ UNCHANGED <<permits, crossed>>
    BY <1>2, <2>1, WorkersMove
  <2> QED BY <2>2, SteadyKeepsPermits
<1>3. CASE BeginDispatch
  BY <1>3, BeginKeepsPermits
<1>4. CASE DeferBeforeBoundary
  BY <1>4, DeferKeepsPermits
<1>5. CASE WriteProviderInput \/ TearProviderInput
  BY <1>5 DEF WriteProviderInput, TearProviderInput, PermitsInv, OncePermit, PermitMatches
<1> QED BY <1>1, <1>2, <1>3, <1>4, <1>5 DEF Next

-----------------------------------------------------------------------------
(* What a step may write into one operation and its row, column by column.   *)

\* The operation is accepted and its row becomes available.
Arrives(o) ==
    /\ op[o].state = "none" /\ op'[o].state = "accepted" /\ op'[o].reconciled = FALSE
    /\ row'[o].state = "pending" /\ row'[o].gen = row[o].gen /\ row'[o].attempts = 0

\* The row goes on under a claim, a permit or a lookup; r is the row before, q after.
Continues(o, r, q) ==
    \/ /\ r.state = "pending" \/ (r.state = "claimed" /\ r.lease <= now)
       /\ r.avail <= now
       /\ q.state = "claimed" /\ q.gen = r.gen + 1 /\ q.attempts = r.attempts
       /\ q.avail = r.avail /\ q.started = r.started
    \/ /\ r.state = "claimed" /\ q.state = "pending"
       /\ q.gen = r.gen /\ q.attempts = r.attempts
    \/ /\ q.state = r.state /\ q.gen = r.gen /\ q.attempts = r.attempts
       /\ q.avail = r.avail /\ q.started = r.started
    \/ /\ r.state = "claimed" /\ q.state = "dispatching"
       /\ q.gen = r.gen /\ q.attempts = r.attempts + 1
       /\ q.avail = r.avail /\ q.started = MaxOf(now, r.avail)
    \/ /\ r.state = "dispatching" /\ op[o].kind = "provider"
       /\ q.state = "pending" /\ q.gen = r.gen
    \/ /\ r.state = "dispatching" /\ op[o].kind # "provider"
       /\ q.state = (IF op[o].kind = "teardown" THEN "pending" ELSE "reconcile_required")
       /\ q.attempts = r.attempts
       /\ q.gen # r.gen => r.lease <= now
    \/ /\ r.state = "reconcile_required" \/ (r.state = "reconciling" /\ r.lease <= now)
       /\ q.state = "reconciling" /\ q.attempts = r.attempts
    \/ /\ r.state = "reconciling" /\ q.state = "reconcile_required" /\ q.attempts = r.attempts
    \/ /\ r.state = "reconciling" /\ q.state = "pending"
       /\ q.gen = r.gen /\ q.attempts = r.attempts /\ <<o, r.attempts>> \in absences'

Proceeds(o) ==
    op[o].state = "accepted" /\ op'[o] = op[o] /\ Continues(o, row[o], row'[o])

\* What an operation is, as opposed to what came of it.
SameEffect(p, q) ==
    p.kind = q.kind /\ p.task = q.task /\ p.epoch = q.epoch /\ p.target = q.target

\* The operation gets its outcome.
Ends(o) ==
    /\ op[o].state = "accepted" /\ op'[o].state \in Outcomes \cup {"uncertain"}
    /\ SameEffect(op'[o], op[o])
    /\ row'[o].gen # row[o].gen => row[o].state = "pending" \/ row[o].lease <= now

Writes(o) ==
    \/ op'[o] = op[o] /\ row'[o] = row[o]
    \/ Arrives(o) \/ Proceeds(o) \/ Ends(o)

\* A step that leaves operations and rows alone.
LEMMA NothingWritten ==
    ASSUME UNCHANGED <<op, row>>
    PROVE  \A o \in Ops : Writes(o)
BY DEF Writes

\* A step that moves one live row on.
LEMMA OneRowWritten ==
    ASSUME TypeOK, NEW o \in Ops, NEW q, op[o].state = "accepted", UNCHANGED op,
           row' = [row EXCEPT ![o] = q], Continues(o, row[o], q)
    PROVE  \A p \in Ops : Writes(p)
<1>1. \A p \in Ops : op'[p] = op[p] /\ (p # o => row'[p] = row[p]) /\ (p = o => row'[p] = q)
  BY DEF TypeOK
<1> QED BY <1>1 DEF Writes, Proceeds

\* A step that gives one operation its outcome.
LEMMA OneOutcomeWritten ==
    ASSUME TypeOK, NEW o \in Ops, NEW r, NEW p, op[o].state = "accepted",
           row' = [row EXCEPT ![o] = r], op' = [op EXCEPT ![o] = p],
           SameEffect(p, op[o]), p.state \in Outcomes \cup {"uncertain"},
           r.gen = row[o].gen \/ row[o].state = "pending" \/ row[o].lease <= now
    PROVE  \A q \in Ops : Writes(q)
<1>1. \A q \in Ops : /\ q # o => op'[q] = op[q] /\ row'[q] = row[q]
                     /\ q = o => op'[q] = p /\ row'[q] = r
  BY DEF TypeOK
<1> QED BY <1>1 DEF Writes, Ends

\* A step that accepts one operation.
LEMMA AcceptWritten ==
    ASSUME RowsInv, NEW kind, NEW t, NEW epoch, NEW target, Accept(kind, t, epoch, target)
    PROVE  \A p \in Ops : Writes(p)
<1>0. TypeOK
  BY DEF RowsInv
<1>1. PICK o \in Ops :
        /\ op[o].state = "none"
        /\ op' = [op EXCEPT ![o] = [kind |-> kind, task |-> t, epoch |-> epoch, target |-> target,
                                    state |-> "accepted", acceptedAt |-> now,
                                    outcomeAt |-> NoTime, reconciled |-> FALSE]]
        /\ row' = [row EXCEPT ![o].avail = now]
  BY DEF Accept
<1>2. \A p \in Ops : /\ p # o => op'[p] = op[p] /\ row'[p] = row[p]
                     /\ p = o => op'[p].state = "accepted" /\ op'[p].reconciled = FALSE
  BY <1>0, <1>1 DEF TypeOK
<1>3. row'[o] = [row[o] EXCEPT !.avail = now]
  BY <1>0, <1>1 DEF TypeOK
<1>4. now \in Int /\ row[o] \in OutboxRow
  BY <1>0, StoredTypes
<1>5. PristineRow(row[o])
  BY <1>1 DEF RowsInv, RowInv
<1>6. row'[o].state = "pending" /\ row'[o].gen = row[o].gen /\ row'[o].attempts = 0
  BY <1>3, <1>4, <1>5, AvailFacts DEF PristineRow
<1> QED BY <1>1, <1>2, <1>6 DEF Writes, Arrives

\* The row writes of claims, permits and lookups, as column tables.
LEMMA RowWrites ==
    ASSUME RowsInv, NEW o \in Ops, NEW d \in Durations
    PROVE  LET r == row[o] IN
           /\ \A kinds : o \in Claimable(kinds) => Continues(o, r, Claimed(r, d))
           /\ r.state = "claimed" => Continues(o, r, HandedBack(r, PutBackUntil(o, d)))
           /\ Continues(o, r, [r EXCEPT !.lease = MaxOf(r.lease, now + d)])
           /\ Dispatching(o) /\ op[o].kind = "provider" =>
                Continues(o, r, TakenBack(r, PutBackUntil(o, d)))
           /\ Dispatching(o) /\ op[o].kind # "provider" =>
                /\ Continues(o, r, Ambiguous(o, d))
                /\ LeaseFree(o) => Continues(o, r, NextGeneration(Ambiguous(o, d)))
           /\ o \in ReconciliationCandidates => Continues(o, r, LookedUp(r, d))
<1> DEFINE r == row[o]
<1>0. TypeOK /\ now \in Nat /\ r \in OutboxRow /\ d \in Nat
  BY StoredTypes, DateTypes DEF RowsInv
<1>1. /\ PutBackUntil(o, d) \in Int /\ MaxOf(r.lease, now + d) \in Int
      /\ ObservedAt(o) + d \in Int
  <2>1. r.lease \in Int /\ now + d \in Int
    BY <1>0, StoredTypes
  <2> QED BY <1>0, <2>1, DateTypes, MaxOfFacts
<1>2. ASSUME NEW kinds, o \in Claimable(kinds) PROVE Continues(o, r, Claimed(r, d))
  <2>1. /\ r.avail <= now
        /\ r.state = "pending" \/ (r.state = "claimed" /\ r.lease <= now)
    BY <1>2 DEF Claimable, DispatchCandidates, LeaseFree
  <2>2. /\ Claimed(r, d).state = "claimed" /\ Claimed(r, d).gen = r.gen + 1
        /\ Claimed(r, d).attempts = r.attempts /\ Claimed(r, d).avail = r.avail
        /\ Claimed(r, d).started = r.started
    BY <1>0, ClaimedFacts
  <2> QED BY <2>1, <2>2 DEF Continues
<1>3. ASSUME r.state = "claimed" PROVE Continues(o, r, HandedBack(r, PutBackUntil(o, d)))
  BY <1>0, <1>1, <1>3, HandedBackFacts DEF Continues
<1>4. Continues(o, r, [r EXCEPT !.lease = MaxOf(r.lease, now + d)])
  BY <1>0, <1>1, LeaseFacts DEF Continues
<1>6. ASSUME Dispatching(o), op[o].kind = "provider"
      PROVE  Continues(o, r, TakenBack(r, PutBackUntil(o, d)))
  <2>1. r.state = "dispatching" /\ r.attempts = 1
    BY <1>6, AcceptedRow DEF Dispatching, LiveRow
  <2> QED BY <1>0, <1>1, <1>6, <2>1, TakenBackFacts DEF Continues
<1>7. ASSUME Dispatching(o), op[o].kind # "provider"
      PROVE  /\ Continues(o, r, Ambiguous(o, d))
             /\ LeaseFree(o) => Continues(o, r, NextGeneration(Ambiguous(o, d)))
  <2> DEFINE q == Ambiguous(o, d)
  <2>1. /\ q \in OutboxRow /\ q.attempts = r.attempts /\ q.gen = r.gen
        /\ q.state = (IF op[o].kind = "teardown" THEN "pending" ELSE "reconcile_required")
    <3>1. ASSUME NEW state \in {"pending", "reconcile_required"},
                 NEW err \in {"none", "ambiguous_dispatch"}
          PROVE  LET p == Postponed(r, state, err, ObservedAt(o) + d) IN
                 p \in OutboxRow /\ p.attempts = r.attempts /\ p.gen = r.gen /\ p.state = state
      <4>1. state \in OutboxStates /\ err \in ErrorClasses
        BY DEF OutboxStates, ErrorClasses
      <4> QED BY <1>0, <1>1, <4>1, PostponedFacts
    <3> QED BY <3>1, Zenon DEF Ambiguous
  <2>2. r.state = "dispatching"
    BY <1>7 DEF Dispatching
  <2> HIDE DEF q
  <2>3. /\ NextGeneration(q).state = q.state /\ NextGeneration(q).attempts = q.attempts
    BY <2>1, NextGenFacts
  <2>4. Continues(o, r, q)
    BY <1>7, <2>1, <2>2 DEF Continues
  <2>5. LeaseFree(o) => Continues(o, r, NextGeneration(q))
    BY <1>7, <2>1, <2>2, <2>3 DEF Continues, LeaseFree
  <2> QED BY <2>4, <2>5 DEF q
<1>8. ASSUME o \in ReconciliationCandidates PROVE Continues(o, r, LookedUp(r, d))
  <2>1. r.state = "reconcile_required" \/ (r.state = "reconciling" /\ r.lease <= now)
    BY <1>8 DEF ReconciliationCandidates, LeaseFree
  <2>2. LookedUp(r, d).state = "reconciling" /\ LookedUp(r, d).attempts = r.attempts
    BY <1>0, LookedUpFacts
  <2> QED BY <2>1, <2>2 DEF Continues
<1> QED BY <1>2, <1>3, <1>4, <1>6, <1>7, <1>8, Zenon

\* What beginning an attempt writes.
LEMMA BegunWrites ==
    ASSUME TypeOK, NEW o \in Ops, row[o].state = "claimed"
    PROVE  Continues(o, row[o], Begun(row[o], MaxOf(now, row[o].avail)))
<1>1. row[o] \in OutboxRow /\ MaxOf(now, row[o].avail) \in Int
  BY StoredTypes, DateTypes
<1> QED BY <1>1, BegunFacts DEF Continues

\* What the verdict of a lookup writes.
LEMMA LookupWrites ==
    ASSUME RowsInv, NEW o \in Ops, NEW d \in Durations, row[o].state = "reconciling"
    PROVE  LET r == row[o]
               q == Postponed(r, "reconcile_required", "ambiguous_dispatch", ObservedAt(o) + d)
           IN  /\ Continues(o, r, q) /\ Continues(o, r, NextGeneration(q))
               /\ <<o, r.attempts>> \in absences' =>
                    Continues(o, r, ProvedAbsent(r, ObservedAt(o), d))
<1> DEFINE r == row[o]
           q == Postponed(r, "reconcile_required", "ambiguous_dispatch", ObservedAt(o) + d)
<1>0. TypeOK /\ r \in OutboxRow /\ d \in Nat /\ ObservedAt(o) \in Int /\ ObservedAt(o) + d \in Int
  BY StoredTypes, DateTypes DEF RowsInv
<1>1. q \in OutboxRow /\ q.state = "reconcile_required" /\ q.attempts = r.attempts
  <2>1. "reconcile_required" \in OutboxStates /\ "ambiguous_dispatch" \in ErrorClasses
    BY DEF OutboxStates, ErrorClasses
  <2> QED BY <1>0, <2>1, PostponedFacts
<1> HIDE DEF q
<1>2. NextGeneration(q).state = "reconcile_required" /\ NextGeneration(q).attempts = r.attempts
  BY <1>1, NextGenFacts
<1>3. /\ ProvedAbsent(r, ObservedAt(o), d).state = "pending"
      /\ ProvedAbsent(r, ObservedAt(o), d).gen = r.gen
      /\ ProvedAbsent(r, ObservedAt(o), d).attempts = r.attempts
  BY <1>0, ProvedAbsentFacts
<1>4. Continues(o, r, q) /\ Continues(o, r, NextGeneration(q))
  BY <1>1, <1>2 DEF Continues
<1>5. <<o, r.attempts>> \in absences' => Continues(o, r, ProvedAbsent(r, ObservedAt(o), d))
  BY <1>3 DEF Continues
<1> QED BY <1>4, <1>5 DEF q

\* The outcome an action gives an operation, and the generation it leaves.
LEMMA OutcomeWrites ==
    ASSUME RowsInv, NEW o \in Ops
    PROVE  /\ \A outcome \in Outcomes \cup {"uncertain"}, at \in Int :
                LET p == Concluded(op[o], outcome, at) IN
                /\ p \in Operation /\ SameEffect(p, op[o]) /\ p.state = outcome
                /\ SameEffect(Reconciled(p), op[o]) /\ Reconciled(p).state = outcome
           /\ \A state \in OutboxStates, err \in ErrorClasses :
                TransitionOutbox(row[o], state, err).gen = row[o].gen
<1>1. TypeOK /\ op[o] \in Operation /\ row[o] \in OutboxRow
  BY StoredTypes DEF RowsInv
<1>2. ASSUME NEW outcome \in Outcomes \cup {"uncertain"}, NEW at \in Int
      PROVE  LET p == Concluded(op[o], outcome, at) IN
             /\ p \in Operation /\ SameEffect(p, op[o]) /\ p.state = outcome
             /\ SameEffect(Reconciled(p), op[o]) /\ Reconciled(p).state = outcome
  <2> DEFINE p == Concluded(op[o], outcome, at)
  <2>1. p \in Operation /\ SameEffect(p, op[o]) /\ p.state = outcome
    BY <1>1, ConcludedFacts DEF SameEffect
  <2> HIDE DEF p
  <2>2. SameEffect(Reconciled(p), op[o]) /\ Reconciled(p).state = outcome
    BY <2>1, ReconciledFacts DEF SameEffect
  <2> QED BY <2>1, <2>2 DEF p
<1>3. ASSUME NEW state \in OutboxStates, NEW err \in ErrorClasses
      PROVE  TransitionOutbox(row[o], state, err).gen = row[o].gen
  BY <1>1, TransitionFacts
<1> QED BY <1>2, <1>3

\* A step that concludes one operation and its row with the same outcome.
LEMMA ConclusionWritten ==
    ASSUME RowsInv, NEW o \in Ops, op[o].state = "accepted",
           NEW outcome \in Outcomes \cup {"uncertain"}, NEW at \in Int, NEW err \in ErrorClasses,
           row' = [row EXCEPT ![o] = TransitionOutbox(@, outcome, err)],
           \/ op' = [op EXCEPT ![o] = Concluded(@, outcome, at)]
           \/ op' = [op EXCEPT ![o] = Reconciled(Concluded(@, outcome, at))]
    PROVE  \A q \in Ops : Writes(q)
<1> DEFINE p == Concluded(op[o], outcome, at)
           r == TransitionOutbox(row[o], outcome, err)
<1>1. TypeOK /\ outcome \in OutboxStates
  BY DEF RowsInv, Outcomes, OutboxStates
<1>2. /\ SameEffect(p, op[o]) /\ p.state = outcome
      /\ SameEffect(Reconciled(p), op[o]) /\ Reconciled(p).state = outcome
  BY OutcomeWrites
<1>3. r.gen = row[o].gen
  BY <1>1, OutcomeWrites
<1>4. row' = [row EXCEPT ![o] = r]
  OBVIOUS
<1>5. op' = [op EXCEPT ![o] = p] \/ op' = [op EXCEPT ![o] = Reconciled(p)]
  OBVIOUS
<1> HIDE DEF p, r
<1>6. CASE op' = [op EXCEPT ![o] = p]
  BY <1>1, <1>2, <1>3, <1>4, <1>6, OneOutcomeWritten
<1>7. CASE op' = [op EXCEPT ![o] = Reconciled(p)]
  <2> DEFINE z == Reconciled(p)
  <2>1. op' = [op EXCEPT ![o] = z] /\ SameEffect(z, op[o]) /\ z.state = outcome
    BY <1>2, <1>7
  <2> HIDE DEF z
  <2> QED BY <1>1, <1>3, <1>4, <2>1, OneOutcomeWritten
<1> QED BY <1>5, <1>6, <1>7

\* Every step writes every operation and row in one of these ways.
LEMMA NextWrites ==
    ASSUME RowsInv, [Next]_vars
    PROVE  \A o \in Ops : Writes(o)
<1>0. TypeOK
  BY DEF RowsInv
<1>1. CASE \/ UNCHANGED vars \/ Tick \/ ClockStepsBack
           \/ WriteProviderInput \/ TearProviderInput
           \/ \E t \in Tasks : SettleTask(t) \/ DeleteTask(t) \/ RebindSession(t) \/ CloseSpecialist(t)
           \/ \E r \in Resources : RegisterResource(r)
  <2>1. UNCHANGED <<op, row>>
    BY <1>1 DEF vars, Tick, ClockStepsBack, SettleTask, DeleteTask, RebindSession,
                CloseSpecialist, RegisterResource, WriteProviderInput, TearProviderInput
  <2> QED BY <2>1, NothingWritten
<1>2. CASE \E t \in Tasks : BeginCloseTask(t) \/ SubmitProviderInput(t) \/ HoldBrowserHost(t)
  BY <1>2, AcceptWritten DEF BeginCloseTask, SubmitProviderInput, HoldBrowserHost
<1>3. CASE \E r \in Resources : ReleaseResource(r)
  BY <1>3, AcceptWritten DEF ReleaseResource
<1>4. ASSUME NEW t \in Tasks, ReopenTask(t) PROVE \A o \in Ops : Writes(o)
  <2>1. CASE CancelUntouchedClose(t)
    <3>1. PICK o \in Ops :
            /\ AcceptedAt(t, task[t].epoch) = {o}
            /\ op' = [op EXCEPT ![o] = Concluded(@, "cancelled", now)]
            /\ row' = [row EXCEPT ![o] = TransitionOutbox(@, "cancelled", "superseded")]
      BY <2>1 DEF CancelUntouchedClose
    <3>2. op[o].state = "accepted"
      <4>1. o \in AcceptedAt(t, task[t].epoch)
        BY <3>1
      <4> QED BY <4>1 DEF AcceptedAt
    <3>3. /\ now \in Int /\ "cancelled" \in Outcomes \cup {"uncertain"}
          /\ "cancelled" \in OutboxStates /\ "superseded" \in ErrorClasses
      BY <1>0, StoredTypes DEF Outcomes, OutboxStates, ErrorClasses
    <3> QED BY <3>1, <3>2, <3>3, ConclusionWritten
  <2>2. CASE UNCHANGED <<op, row>>
    BY <2>2, NothingWritten
  <2> QED BY <1>4, <2>1, <2>2 DEF ReopenTask
<1>5. CASE \/ \E r \in Resources : SettleResourceReleaseFor(r)
           \/ SettleNextProcessEmptyTaskTeardown
  <2>1. PICK o \in Ops : SettleNow(o) /\ \E kinds : o \in Claimable(kinds)
    BY <1>5 DEF SettleResourceReleaseFor, SettleNextProcessEmptyTaskTeardown, First
  <2>2. /\ op[o].state = "accepted"
        /\ row[o].state = "pending" \/ row[o].lease <= now
    BY <2>1, ClaimableRow DEF Claimable, DispatchCandidates, LeaseFree
  <2> DEFINE at == MaxOf(MaxOf(now, row[o].avail), op[o].acceptedAt)
             q == TransitionOutbox(Begun(NextGeneration(row[o]), MaxOf(now, row[o].avail)), "settled", "none")
  <2>3. at \in Int /\ "settled" \in Outcomes \cup {"uncertain"}
    <3>1. now \in Int /\ row[o].avail \in Int /\ op[o].acceptedAt \in Int
      BY <1>0, StoredTypes
    <3> QED BY <3>1, MaxOfFacts DEF Outcomes
  <2>4. op' = [op EXCEPT ![o] = Concluded(@, "settled", at)] /\ row' = [row EXCEPT ![o] = q]
    BY <2>1 DEF SettleNow
  <2> HIDE DEF at, q
  <2>5. /\ SameEffect(Concluded(op[o], "settled", at), op[o])
        /\ Concluded(op[o], "settled", at).state = "settled"
    BY <2>3, OutcomeWrites
  <2> QED BY <1>0, <2>2, <2>3, <2>4, <2>5, OneOutcomeWritten
<1>6. ASSUME NEW kinds, ClaimNextDispatch(kinds) PROVE \A o \in Ops : Writes(o)
  <2>1. PICK o \in Ops, d \in Durations :
          o \in Claimable(kinds) /\ row' = [row EXCEPT ![o] = Claimed(@, d)] /\ UNCHANGED op
    BY <1>6 DEF ClaimNextDispatch, First
  <2> QED BY <1>0, <2>1, ClaimableRow, RowWrites, OneRowWritten
<1>7. CASE ClaimNextProviderInput
  <2> DEFINE claimable == Claimable({"provider"})
             Retired == {o \in DispatchCandidates({"provider"}) :
                           PermanentlyStale(o) /\ \A p \in claimable : First(claimable, p) => Before(o, p)}
  <2>1. PICK d \in Durations :
          /\ row' = [o \in Ops |->
                       IF o \in Retired THEN TransitionOutbox(row[o], "failed", "stale_fence")
                       ELSE IF First(claimable, o) THEN Claimed(row[o], d) ELSE row[o]]
          /\ op' = [o \in Ops |-> IF o \in Retired THEN RetiredOperation(o) ELSE op[o]]
    BY <1>7, Zenon DEF ClaimNextProviderInput
  <2>2. \A o \in Retired : op[o].state = "accepted"
    BY DEF DispatchCandidates
  <2> HIDE DEF Retired
  <2> SUFFICES ASSUME NEW o \in Ops PROVE Writes(o)
    OBVIOUS
  <2>3. CASE o \in Retired
    <3>1. /\ MaxOf(now, MaxOf(op[o].acceptedAt, row[o].avail)) \in Int
          /\ "failed" \in Outcomes \cup {"uncertain"}
          /\ "failed" \in OutboxStates /\ "stale_fence" \in ErrorClasses
      BY <1>0, DateTypes DEF Outcomes, OutboxStates, ErrorClasses
    <3>2. /\ RetiredOperation(o).state = "failed" /\ SameEffect(RetiredOperation(o), op[o])
          /\ TransitionOutbox(row[o], "failed", "stale_fence").gen = row[o].gen
      BY <3>1, OutcomeWrites DEF RetiredOperation
    <3>3. op'[o] = RetiredOperation(o) /\ row'[o] = TransitionOutbox(row[o], "failed", "stale_fence")
      BY <2>1, <2>3
    <3> QED BY <2>2, <2>3, <3>1, <3>2, <3>3 DEF Writes, Ends
  <2>4. CASE o \notin Retired /\ First(claimable, o)
    <3>1. op'[o] = op[o] /\ row'[o] = Claimed(row[o], d) /\ o \in Claimable({"provider"})
      BY <2>1, <2>4 DEF First
    <3> QED BY <3>1, ClaimableRow, RowWrites DEF Writes, Proceeds
  <2>5. CASE o \notin Retired /\ ~First(claimable, o)
    BY <2>1, <2>5 DEF Writes
  <2> QED BY <2>3, <2>4, <2>5
<1>8. CASE ReleaseDispatchClaim
  <2>1. PICK c \in claims, d \in Durations :
          /\ row[c[1]].state = "claimed" /\ op[c[1]].state = "accepted" /\ UNCHANGED op
          /\ row' = [row EXCEPT ![c[1]] = HandedBack(@, PutBackUntil(c[1], d))]
    BY <1>8 DEF ReleaseDispatchClaim, HoldsClaim
  <2>2. c[1] \in Ops
    BY <1>0, TokenTypes
  <2> QED BY <1>0, <2>1, <2>2, RowWrites, OneRowWritten
<1>9. CASE RenewDispatchClaim
  <2>1. PICK c \in claims, d \in Durations :
          /\ op[c[1]].state = "accepted" /\ UNCHANGED op
          /\ row' = [row EXCEPT ![c[1]] = [@ EXCEPT !.lease = MaxOf(row[c[1]].lease, now + d)]]
    BY <1>9 DEF RenewDispatchClaim, HoldsClaim
  <2>2. c[1] \in Ops
    BY <1>0, TokenTypes
  <2> QED BY <1>0, <2>1, <2>2, RowWrites, OneRowWritten
<1>10. CASE BeginDispatch
  <2>1. PICK c \in claims :
          /\ row[c[1]].state = "claimed" /\ op[c[1]].state = "accepted" /\ UNCHANGED op
          /\ row' = [row EXCEPT ![c[1]] = Begun(@, MaxOf(now, row[c[1]].avail))]
    BY <1>10 DEF BeginDispatch, HoldsClaim
  <2>2. c[1] \in Ops
    BY <1>0, TokenTypes
  <2>3. Continues(c[1], row[c[1]], Begun(row[c[1]], MaxOf(now, row[c[1]].avail)))
    BY <1>0, <2>1, <2>2, BegunWrites
  <2> QED BY <1>0, <2>1, <2>2, <2>3, OneRowWritten
<1>11. CASE DeferBeforeBoundary
  <2>1. PICK p \in permits, d \in Durations :
          /\ op[p[1]].kind = "provider" /\ Dispatching(p[1]) /\ UNCHANGED op
          /\ row' = [row EXCEPT ![p[1]] = TakenBack(@, PutBackUntil(p[1], d))]
    BY <1>11 DEF DeferBeforeBoundary
  <2>2. p[1] \in Ops /\ op[p[1]].state = "accepted"
    BY <1>0, <2>1, TokenTypes DEF Dispatching
  <2> QED BY <1>0, <2>1, <2>2, RowWrites, OneRowWritten
<1>12. CASE CompleteDispatch
  <2>1. PICK p \in permits, outcome \in Outcomes :
          /\ Dispatching(p[1])
          /\ op' = [op EXCEPT ![p[1]] = Concluded(@, outcome, CompletedAt(p[1]))]
          /\ row' = [row EXCEPT ![p[1]] = TransitionOutbox(@, outcome, ErrorClassOf(outcome))]
    BY <1>12 DEF CompleteDispatch
  <2>2. p[1] \in Ops /\ op[p[1]].state = "accepted"
    BY <1>0, <2>1, TokenTypes DEF Dispatching
  <2>3. /\ CompletedAt(p[1]) \in Int /\ outcome \in Outcomes \cup {"uncertain"}
        /\ outcome \in OutboxStates /\ ErrorClassOf(outcome) \in ErrorClasses
    BY <1>0, <2>2, DateTypes DEF Outcomes, OutboxStates, ErrorClasses, ErrorClassOf
  <2> QED BY <2>1, <2>2, <2>3, ConclusionWritten
<1>13. ASSUME NEW o \in Ops, op[o].state = "accepted", RecordNoRetryUncertainty(o)
       PROVE  \A p \in Ops : Writes(p)
  <2>1. /\ UncertainAt(o) \in Int /\ "uncertain" \in Outcomes \cup {"uncertain"}
        /\ "uncertain" \in OutboxStates /\ "ambiguous_dispatch" \in ErrorClasses
    BY <1>0, DateTypes DEF OutboxStates, ErrorClasses
  <2> QED BY <1>13, <2>1, ConclusionWritten DEF RecordNoRetryUncertainty
<1>14. CASE RecordDispatchAmbiguity
  <2>1. PICK p \in permits, d \in Durations :
          /\ Dispatching(p[1])
          /\ \/ RecordNoRetryUncertainty(p[1])
             \/ /\ op[p[1]].kind # "provider"
                /\ row' = [row EXCEPT ![p[1]] = Ambiguous(p[1], d)] /\ UNCHANGED op
    BY <1>14 DEF RecordDispatchAmbiguity
  <2>2. p[1] \in Ops /\ op[p[1]].state = "accepted"
    BY <1>0, <2>1, TokenTypes DEF Dispatching
  <2> QED BY <1>0, <1>13, <2>1, <2>2, RowWrites, OneRowWritten
<1>15. CASE RecoverNextExpiredDispatch
  <2>1. PICK o \in Ops, d \in Durations :
          /\ Dispatching(o) /\ LeaseFree(o)
          /\ \/ RecordNoRetryUncertainty(o)
             \/ /\ op[o].kind # "provider"
                /\ row' = [row EXCEPT ![o] = NextGeneration(Ambiguous(o, d))] /\ UNCHANGED op
    BY <1>15 DEF RecoverNextExpiredDispatch, First, ExpiredDispatches
  <2>2. op[o].state = "accepted"
    BY <2>1 DEF Dispatching
  <2> QED BY <1>0, <1>13, <2>1, <2>2, RowWrites, OneRowWritten
<1>16. CASE ClaimNextReconciliation
  <2>1. PICK o \in Ops, d \in Durations :
          /\ o \in ReconciliationCandidates /\ op[o].state = "accepted"
          /\ row' = [row EXCEPT ![o] = LookedUp(@, d)] /\ UNCHANGED op
    BY <1>16 DEF ClaimNextReconciliation, First, ReconciliationCandidates
  <2> QED BY <1>0, <2>1, RowWrites, OneRowWritten
<1>17. CASE RenewReconciliationClaim
  <2>1. PICK l \in lookups, d \in Durations :
          /\ op[l[1]].state = "accepted" /\ UNCHANGED op
          /\ row' = [row EXCEPT ![l[1]] = [@ EXCEPT !.lease = MaxOf(row[l[1]].lease, now + d)]]
    BY <1>17 DEF RenewReconciliationClaim, HoldsLookup
  <2>2. l[1] \in Ops
    BY <1>0, TokenTypes
  <2> QED BY <1>0, <2>1, <2>2, RowWrites, OneRowWritten
<1>18. CASE ReleaseReconciliationClaim
  <2>1. PICK l \in lookups, d \in Durations :
          /\ op[l[1]].state = "accepted" /\ row[l[1]].state = "reconciling" /\ UNCHANGED op
          /\ row' = [row EXCEPT ![l[1]] =
                    NextGeneration(Postponed(@, "reconcile_required", "ambiguous_dispatch",
                                             ObservedAt(l[1]) + d))]
    BY <1>18 DEF ReleaseReconciliationClaim, HoldsLookup
  <2>2. l[1] \in Ops
    BY <1>0, TokenTypes
  <2> QED BY <1>0, <2>1, <2>2, LookupWrites, OneRowWritten
<1>19. CASE ReconcileAbsent
  <2>1. PICK l \in lookups, d \in Durations :
          /\ op[l[1]].state = "accepted" /\ row[l[1]].state = "reconciling" /\ UNCHANGED op
          /\ row[l[1]].attempts = l[3] /\ <<l[1], l[3]>> \in absences'
          /\ row' = [row EXCEPT ![l[1]] = ProvedAbsent(@, ObservedAt(l[1]), d)]
    BY <1>19 DEF ReconcileAbsent, HoldsLookup, PermitMatches
  <2>2. l[1] \in Ops
    BY <1>0, TokenTypes
  <2> QED BY <1>0, <2>1, <2>2, LookupWrites, OneRowWritten
<1>20. CASE ReconcileInconclusive
  <2>1. PICK l \in lookups, d \in Durations :
          /\ op[l[1]].state = "accepted" /\ row[l[1]].state = "reconciling" /\ UNCHANGED op
          /\ row' = [row EXCEPT ![l[1]] =
                    Postponed(@, "reconcile_required", "ambiguous_dispatch", ObservedAt(l[1]) + d)]
    BY <1>20 DEF ReconcileInconclusive, HoldsLookup
  <2>2. l[1] \in Ops
    BY <1>0, TokenTypes
  <2> QED BY <1>0, <2>1, <2>2, LookupWrites, OneRowWritten
<1>21. CASE ReconcilePresent
  <2>1. PICK l \in lookups, outcome \in {"settled", "failed"} :
          /\ op[l[1]].state = "accepted"
          /\ op' = [op EXCEPT ![l[1]] = Reconciled(Concluded(@, outcome, ObservedAt(l[1])))]
          /\ row' = [row EXCEPT ![l[1]] = TransitionOutbox(@, outcome, ErrorClassOf(outcome))]
    BY <1>21 DEF ReconcilePresent, HoldsLookup
  <2>2. l[1] \in Ops
    BY <1>0, TokenTypes
  <2>3. /\ ObservedAt(l[1]) \in Int /\ outcome \in Outcomes \cup {"uncertain"}
        /\ outcome \in OutboxStates /\ ErrorClassOf(outcome) \in ErrorClasses
    BY <1>0, <2>2, DateTypes DEF Outcomes, OutboxStates, ErrorClasses, ErrorClassOf
  <2> QED BY <2>1, <2>2, <2>3, ConclusionWritten
<1> QED BY <1>1, <1>2, <1>3, <1>4, <1>5, <1>6, <1>7, <1>8, <1>9, <1>10, <1>11, <1>12,
           <1>14, <1>15, <1>16, <1>17, <1>18, <1>19, <1>20, <1>21 DEF Next

-----------------------------------------------------------------------------
(* At most once, torn writes included.                                       *)
(*                                                                           *)
(* A torn write is taken for one that never happened: its permit is taken    *)
(* back and the input is claimed again.  The claim is a new generation, so   *)
(* every torn write is older than the permit that may yet cross.             *)

TornPermit(q) ==
    /\ op[q[1]].state # "none" /\ op[q[1]].kind = "provider"
    /\ op[q[1]].state = "accepted" =>
          /\ q[2] <= row[q[1]].gen
          /\ row[q[1]].state = "claimed" => q[2] < row[q[1]].gen
    /\ q \notin crossed
    /\ \A p \in permits : p[1] = q[1] => p = q \/ q[2] < p[2]

TornInv == \A q \in torn : TornPermit(q)

\* Only begin_dispatch issues a permit, a proof of absence is never lost, and no
\* permit is both torn and past the boundary.
LEMMA NextTokens ==
    ASSUME [Next]_vars
    PROVE  /\ absences \subseteq absences'
           /\ permits' \subseteq permits \/ BeginDispatch
           /\ torn' = torn \/ TearProviderInput
           /\ crossed' \subseteq crossed \cup (permits \ torn)
<1> USE DEF workerVars
<1>1. CASE \/ UNCHANGED vars \/ Tick \/ ClockStepsBack
           \/ \E t \in Tasks : \/ BeginCloseTask(t) \/ SubmitProviderInput(t) \/ HoldBrowserHost(t)
                               \/ SettleTask(t) \/ DeleteTask(t) \/ RebindSession(t)
                               \/ CloseSpecialist(t) \/ ReopenTask(t)
           \/ \E r \in Resources : RegisterResource(r) \/ ReleaseResource(r)
  BY <1>1 DEF vars, Tick, ClockStepsBack, BeginCloseTask, SubmitProviderInput, HoldBrowserHost,
              SettleTask, DeleteTask, RebindSession, CloseSpecialist, ReopenTask, RegisterResource,
              ReleaseResource
<1>2. CASE \/ \E r \in Resources : SettleResourceReleaseFor(r)
           \/ SettleNextProcessEmptyTaskTeardown
  BY <1>2 DEF SettleResourceReleaseFor, SettleNextProcessEmptyTaskTeardown, SettleNow
<1>3. CASE \/ ClaimNextDispatch(EffectKinds) \/ ClaimNextDispatch({"release"})
           \/ ClaimNextProviderInput \/ ReleaseDispatchClaim \/ RenewDispatchClaim
  BY <1>3 DEF ClaimNextDispatch, ClaimNextProviderInput, ReleaseDispatchClaim, RenewDispatchClaim
<1>4. CASE BeginDispatch
  BY <1>4 DEF BeginDispatch
<1>5. CASE \/ WriteProviderInput \/ TearProviderInput \/ DeferBeforeBoundary \/ CompleteDispatch
           \/ RecordDispatchAmbiguity \/ RecoverNextExpiredDispatch
  BY <1>5 DEF WriteProviderInput, TearProviderInput, DeferBeforeBoundary, CompleteDispatch,
              RecordDispatchAmbiguity, RecoverNextExpiredDispatch
<1>6. CASE \/ ClaimNextReconciliation \/ RenewReconciliationClaim \/ ReleaseReconciliationClaim
           \/ ReconcileAbsent \/ ReconcileInconclusive \/ ReconcilePresent
  BY <1>6 DEF ClaimNextReconciliation, RenewReconciliationClaim, ReleaseReconciliationClaim,
              ReconcileAbsent, ReconcileInconclusive, ReconcilePresent
<1> QED BY <1>1, <1>2, <1>3, <1>4, <1>5, <1>6 DEF Next

\* Every step keeps the torn writes of an input older than its permit.
LEMMA NextKeepsTorn ==
    ASSUME RowsInv, PermitsInv, TornInv, [Next]_vars
    PROVE  TornInv'
<1>0. TypeOK /\ RowsInv'
  BY NextKeepsRows DEF RowsInv
<1>1. ASSUME NEW q \in torn PROVE TornPermit(q)'
  <2>1. q[1] \in Ops /\ q[2] \in Nat /\ TornPermit(q)
    BY <1>0 DEF TypeOK, TornInv
  <2>2. row[q[1]].gen \in Nat /\ row'[q[1]].gen \in Nat
    <3>1. row[q[1]] \in OutboxRow /\ row'[q[1]] \in OutboxRow
      BY <1>0, <2>1 DEF RowsInv, TypeOK
    <3> QED BY <3>1, RowColumns
  <2>3. Writes(q[1])
    BY <2>1, NextWrites
  <2>4. op'[q[1]].state # "none" /\ op'[q[1]].kind = "provider"
    BY <2>1, <2>3 DEF Writes, Arrives, Proceeds, Ends, SameEffect, TornPermit, Outcomes
  <2>5. ASSUME op'[q[1]].state = "accepted"
        PROVE  /\ q[2] <= row'[q[1]].gen
               /\ row'[q[1]].state = "claimed" => q[2] < row'[q[1]].gen
    <3>1. CASE op'[q[1]] = op[q[1]] /\ row'[q[1]] = row[q[1]]
      BY <2>1, <2>5, <3>1 DEF TornPermit
    <3>2. CASE Proceeds(q[1])
      <4>1. row[q[1]].state \notin {"reconcile_required", "reconciling"}
        <5>1. LiveRow(row[q[1]], op[q[1]].kind, op[q[1]].acceptedAt)
          BY <2>1, <3>2, AcceptedRow DEF Proceeds
        <5> QED BY <2>1, <5>1 DEF LiveRow, ValidNonterminalRow, ValidReconcilingRow, TornPermit
      <4> QED BY <2>1, <2>2, <3>2, <4>1 DEF Proceeds, Continues, TornPermit
    <3> QED BY <2>1, <2>3, <2>5, <3>1, <3>2 DEF Writes, Arrives, Ends, Outcomes, TornPermit
  <2>6. q \notin crossed'
    BY <2>1, NextTokens DEF TornPermit
  <2>7. ASSUME NEW p \in permits', p[1] = q[1] PROVE p = q \/ q[2] < p[2]
    <3>1. CASE p \in permits
      BY <2>1, <2>7, <3>1 DEF TornPermit
    <3>2. CASE p \notin permits
      <4>1. BeginDispatch
        BY <3>2, NextTokens
      <4>2. PICK c \in claims :
              /\ row[c[1]].state = "claimed" /\ op[c[1]].state = "accepted"
              /\ row[c[1]].gen = c[2]
              /\ permits' = permits \cup {<<c[1], c[2], row[c[1]].attempts + 1>>}
        BY <4>1 DEF BeginDispatch, HoldsClaim
      <4>3. p[1] = c[1] /\ p[2] = row[c[1]].gen
        BY <3>2, <4>2
      <4> QED BY <2>1, <2>7, <4>2, <4>3 DEF TornPermit
    <3> QED BY <3>1, <3>2
  <2> QED BY <2>4, <2>5, <2>6, <2>7 DEF TornPermit
<1>2. ASSUME TearProviderInput, NEW q \in torn' \ torn PROVE TornPermit(q)'
  <2>1. /\ q \in permits \ crossed /\ op[q[1]].kind = "provider"
        /\ UNCHANGED <<op, row, permits, crossed>>
    BY <1>2 DEF TearProviderInput
  <2>2. q[1] \in Ops /\ q[2] \in Nat /\ OncePermit(q)
    BY <1>0, <2>1, TokenTypes DEF PermitsInv
  <2>3. \A p \in permits : p[1] = q[1] => p = q
    BY <2>1 DEF PermitsInv
  <2>4. op[q[1]].state = "accepted" => q[2] = row[q[1]].gen /\ row[q[1]].state = "dispatching"
    BY <2>1, <2>2 DEF OncePermit, PermitMatches
  <2> QED BY <2>1, <2>2, <2>3, <2>4 DEF TornPermit, OncePermit
<1> QED BY <1>1, <1>2, NextTokens DEF TornInv

\* However workers crash, stall past their lease, tear a write, defer, or are
\* recovered and replaced, one attempt at most takes an input past the boundary,
\* and nothing of that input is written after it.
THEOREM ProviderDeliveredAtMostOnce == Spec => []ProviderAtMostOnce
<1>1. Init => RowsInv /\ PermitsInv /\ TornInv
  BY InitRows DEF Init, PermitsInv, TornInv
<1>2. RowsInv /\ PermitsInv /\ TornInv /\ [Next]_vars => RowsInv' /\ PermitsInv' /\ TornInv'
  BY NextKeepsRows, NextKeepsPermits, NextKeepsTorn
<1>3. RowsInv /\ PermitsInv /\ TornInv => ProviderAtMostOnce
  BY DEF RowsInv, TypeOK, PermitsInv, TornInv, TornPermit, ProviderAtMostOnce
<1> QED BY <1>1, <1>2, <1>3, PTL DEF Spec

-----------------------------------------------------------------------------
(* A live lease is exclusive.                                                *)

\* A row that waits for a claim or a lookup holds no lease.
LEMMA WaitingRowHasNoLease ==
    ASSUME RowsInv, NEW o \in Ops, op[o].state = "accepted",
           row[o].state \in {"pending", "reconcile_required"}
    PROVE  row[o].lease = NoTime
BY AcceptedRow DEF LiveRow, ValidNonterminalRow, ValidWaitingRow, ValidReconcilingRow

\* While a lease runs, only its holder moves the row to another generation, and
\* only by handing a reconciliation back: no claim, recovery, second lookup or
\* settlement in one transaction invalidates the tokens of a live lease.
THEOREM LeasesAreExclusive == Spec => LiveLeaseIsExclusive
<1>1. RowsInv /\ [Next]_vars =>
        [\A o \in Ops : row'[o].gen # row[o].gen /\ row[o].lease > now =>
            row[o].state = "reconciling" /\ row'[o].state = "reconcile_required"]_vars
  <2> SUFFICES ASSUME RowsInv, [Next]_vars, NEW o \in Ops,
                      row'[o].gen # row[o].gen, row[o].lease > now
               PROVE  row[o].state = "reconciling" /\ row'[o].state = "reconcile_required"
    OBVIOUS
  <2>1. TypeOK /\ now \in Nat /\ row[o].lease \in Int /\ ~(row[o].lease <= now) /\ row[o].lease # NoTime
    BY StoredTypes DEF RowsInv, NoTime
  <2>2. Writes(o)
    BY NextWrites
  <2>3. op[o].state = "accepted" => row[o].state \notin {"pending", "reconcile_required"}
    BY <2>1, WaitingRowHasNoLease
  <2>4. ~Arrives(o) /\ ~Ends(o)
    BY <2>1, <2>3 DEF Arrives, Ends
  <2>5. Proceeds(o)
    BY <2>2, <2>4 DEF Writes
  <2> QED BY <2>1, <2>3, <2>5 DEF Proceeds, Continues
<1>2. RowsInv /\ [Next]_vars => RowsInv'
  BY NextKeepsRows
<1>3. Init => RowsInv
  BY InitRows
<1> QED BY <1>1, <1>2, <1>3, PTL DEF Spec, LiveLeaseIsExclusive

-----------------------------------------------------------------------------
(* A release is retried only after a proof of absence.                       *)
(*                                                                           *)
(* The property speaks of permits already issued.  What makes it inductive   *)
(* is that a release that may be begun again carries, in its attempt count,  *)
(* the attempt that was proved absent.                                       *)

RetryInv ==
    /\ \A o \in Ops :
          ( /\ op[o].state = "accepted" /\ op[o].kind = "release"
            /\ row[o].state \in {"pending", "claimed"} /\ row[o].attempts # 0)
          => <<o, row[o].attempts>> \in absences
    /\ \A p \in permits : op[p[1]].state # "none"
    /\ RetryNeedsAbsenceProof

\* Every step keeps the proofs of absence beside the releases that rely on them.
LEMMA NextKeepsRetries ==
    ASSUME RowsInv, RetryInv, [Next]_vars
    PROVE  RetryInv'
<1>0. TypeOK
  BY DEF RowsInv
<1>1. /\ \A o \in Ops : Writes(o)
      /\ absences \subseteq absences' /\ (permits' \subseteq permits \/ BeginDispatch)
  BY NextWrites, NextTokens
<1>2. ASSUME NEW o \in Ops, op'[o].state = "accepted", op'[o].kind = "release",
             row'[o].state \in {"pending", "claimed"}, row'[o].attempts # 0
      PROVE  <<o, row'[o].attempts>> \in absences'
  <2>1. CASE op'[o] = op[o] /\ row'[o] = row[o]
    BY <1>1, <1>2, <2>1 DEF RetryInv
  <2>2. CASE Arrives(o)
    BY <1>2, <2>2 DEF Arrives
  <2>3. CASE Ends(o)
    BY <1>2, <2>3 DEF Ends, Outcomes
  <2>4. CASE Proceeds(o)
    BY <1>1, <1>2, <2>4 DEF Proceeds, Continues, RetryInv
  <2> QED BY <1>1, <2>1, <2>2, <2>3, <2>4 DEF Writes
<1>3. ASSUME NEW p \in permits
      PROVE  /\ op'[p[1]].state # "none"
             /\ op'[p[1]].kind = "release" /\ p[3] > 1 => <<p[1], p[3] - 1>> \in absences'
  <2>1. p[1] \in Ops /\ op[p[1]].state # "none"
    BY <1>0, TokenTypes DEF RetryInv
  <2>2. op'[p[1]].state # "none" /\ op'[p[1]].kind = op[p[1]].kind
    BY <1>1, <2>1 DEF Writes, Arrives, Proceeds, Ends, SameEffect, Outcomes
  <2> QED BY <1>1, <2>2 DEF RetryInv, RetryNeedsAbsenceProof
<1>4. ASSUME BeginDispatch, NEW p \in permits' \ permits
      PROVE  /\ op'[p[1]].state # "none"
             /\ op'[p[1]].kind = "release" /\ p[3] > 1 => <<p[1], p[3] - 1>> \in absences'
  <2>1. PICK c \in claims :
          /\ row[c[1]].state = "claimed" /\ op[c[1]].state = "accepted" /\ UNCHANGED op
          /\ permits' = permits \cup {<<c[1], c[2], row[c[1]].attempts + 1>>}
    BY <1>4 DEF BeginDispatch, HoldsClaim
  <2>2. c[1] \in Ops /\ row[c[1]].attempts \in Nat
    BY <1>0, TokenTypes, StoredTypes
  <2>3. p[1] = c[1] /\ p[3] = row[c[1]].attempts + 1
    BY <1>4, <2>1
  <2> QED BY <1>1, <2>1, <2>2, <2>3 DEF RetryInv
<1>5. \A p \in permits' : /\ op'[p[1]].state # "none"
                          /\ op'[p[1]].kind = "release" /\ p[3] > 1 => <<p[1], p[3] - 1>> \in absences'
  BY <1>1, <1>3, <1>4
<1> QED BY <1>2, <1>5 DEF RetryInv, RetryNeedsAbsenceProof

\* A release is begun again only after a lookup proved that the attempt before it
\* had no effect, whoever crashed, was recovered or came back late in between.
THEOREM RetriesAreProved == Spec => []RetryNeedsAbsenceProof
<1>1. Init => RowsInv /\ RetryInv
  BY InitRows DEF Init, RetryInv, RetryNeedsAbsenceProof
<1>2. RowsInv /\ RetryInv /\ [Next]_vars => RowsInv' /\ RetryInv'
  BY NextKeepsRows, NextKeepsRetries
<1>3. RetryInv => RetryNeedsAbsenceProof
  BY DEF RetryInv
<1> QED BY <1>1, <1>2, <1>3, PTL DEF Spec

-----------------------------------------------------------------------------
(* A finished row passes the terminal validator.                             *)

\* The receipt of an operation that has an outcome can be replayed.
Receipted(o) ==
    /\ row[o].state = op[o].state
    /\ ValidTerminalRow(row[o], op[o].acceptedAt, op[o].outcomeAt, op[o].reconciled)

\* A live row that is transitioned with the error class of its outcome, and dated
\* no earlier than its schedule and its attempt, passes the terminal validator.
LEMMA TransitionTerminal ==
    ASSUME NEW r \in OutboxRow, NEW kind \in EffectKinds, NEW a, LiveRow(r, kind, a),
           NEW state \in Outcomes \cup {"uncertain"}, NEW err \in ErrorClasses,
           NEW upper \in Int, NEW reconciled,
           state = "settled" => err = "none",
           state = "failed" => err = (IF r.attempts = 0 THEN "stale_fence" ELSE "side_effect_failed"),
           state = "cancelled" => err = "superseded",
           state = "uncertain" => err = "ambiguous_dispatch",
           r.attempts # 0 => upper >= r.avail /\ upper >= r.started,
           r.attempts # 0 => r.state = "dispatching" \/ (r.state = "reconciling" /\ reconciled)
    PROVE  LET q == TransitionOutbox(r, state, err) IN
           q.state = state /\ ValidTerminalRow(q, a, upper, reconciled)
<1> DEFINE q == TransitionOutbox(r, state, err)
<1>0. state \in OutboxStates
  BY DEF Outcomes, OutboxStates
<1>1. /\ q.state = state /\ q.gen = r.gen /\ q.attempts = r.attempts
      /\ q.avail = r.avail /\ q.lease = NoTime /\ q.started = r.started
      /\ q.proof = 0 /\ q.err = err
  BY <1>0, TransitionFacts
<1> HIDE DEF q
<1>2. q.err = TerminalErrorClass(q)
  BY <1>1 DEF TerminalErrorClass, Outcomes
<1>3. a \in Nat /\ r.state \in LiveStates /\ ValidNonterminalRow(r, kind, a)
  BY DEF LiveRow
<1>4. ASSUME r.attempts = 0 PROVE ValidTerminalRow(q, a, upper, reconciled)
  <2>1. ValidWaitingRow(r, kind, a) \/ ValidClaimedRow(r, kind, a)
    BY <1>3, <1>4, RowColumns
    DEF LiveStates, ValidNonterminalRow, ValidDispatchingRow, ValidReconcilingRow
  <2> QED BY <1>1, <1>2, <1>3, <1>4, <2>1, RowColumns
          DEF ValidTerminalRow, ValidNonterminalRow, ValidWaitingRow, ValidClaimedRow
<1>5. ASSUME r.attempts # 0, r.state = "dispatching" PROVE ValidTerminalRow(q, a, upper, reconciled)
  BY <1>1, <1>2, <1>3, <1>5, RowColumns
  DEF ValidTerminalRow, ValidNonterminalRow, ValidDispatchingRow
<1>6. ASSUME r.attempts # 0, r.state = "reconciling", reconciled
      PROVE  ValidTerminalRow(q, a, upper, reconciled)
  BY <1>1, <1>2, <1>3, <1>6, RowColumns
  DEF ValidTerminalRow, ValidNonterminalRow, ValidReconcilingRow
<1> QED BY <1>1, <1>4, <1>5, <1>6 DEF q

\* A row that is claimed, begun and settled in one transaction passes it too.
LEMMA SettledTerminal ==
    ASSUME NEW r \in OutboxRow, NEW kind \in EffectKinds, NEW a, LiveRow(r, kind, a),
           NEW at \in Nat, NEW upper \in Int, NEW reconciled,
           r.state \in {"pending", "claimed"}, r.avail <= at, at <= upper
    PROVE  LET q == TransitionOutbox(Begun(NextGeneration(r), at), "settled", "none") IN
           q.state = "settled" /\ ValidTerminalRow(q, a, upper, reconciled)
<1> DEFINE n == NextGeneration(r)
           b == Begun(n, at)
           q == TransitionOutbox(b, "settled", "none")
<1>1. /\ n \in OutboxRow /\ n.gen = r.gen + 1 /\ n.attempts = r.attempts /\ n.avail = r.avail
  BY NextGenFacts
<1> HIDE DEF n
<1>2. /\ b \in OutboxRow /\ b.gen = n.gen /\ b.attempts = n.attempts + 1 /\ b.avail = n.avail
      /\ b.started = at
  BY <1>1, BegunFacts
<1> HIDE DEF b
<1>3. "settled" \in OutboxStates /\ "none" \in ErrorClasses
  BY DEF OutboxStates, ErrorClasses
<1>4. /\ q.state = "settled" /\ q.gen = b.gen /\ q.attempts = b.attempts
      /\ q.avail = b.avail /\ q.lease = NoTime /\ q.started = b.started
      /\ q.proof = 0 /\ q.err = "none"
  BY <1>2, <1>3, TransitionFacts
<1> HIDE DEF q
<1>5. a \in Nat /\ r.attempts <= r.gen /\ a <= r.avail
  BY RowColumns DEF LiveRow, ValidNonterminalRow, ValidWaitingRow, ValidClaimedRow
<1>6. q.err = TerminalErrorClass(q)
  BY <1>4 DEF TerminalErrorClass
<1>7. /\ q.gen = r.gen + 1 /\ q.attempts = r.attempts + 1 /\ q.avail = r.avail /\ q.started = at
  BY <1>1, <1>2, <1>4
<1>8. ValidTerminalRow(q, a, upper, reconciled)
  BY <1>4, <1>5, <1>6, <1>7, RowColumns DEF ValidTerminalRow, NoTime
<1> QED BY <1>4, <1>8 DEF q, b, n

\* Recording an outcome leaves a receipt.
LEMMA ConclusionReceipted ==
    ASSUME TypeOK, NEW o \in Ops, NEW q,
           NEW outcome \in Outcomes \cup {"uncertain"}, NEW at \in Int,
           \/ /\ op'[o] = Concluded(op[o], outcome, at)
              /\ ValidTerminalRow(q, op[o].acceptedAt, at, op[o].reconciled)
           \/ /\ op'[o] = Reconciled(Concluded(op[o], outcome, at))
              /\ ValidTerminalRow(q, op[o].acceptedAt, at, TRUE),
           row'[o] = q, q.state = outcome
    PROVE  Receipted(o)'
<1> DEFINE p == Concluded(op[o], outcome, at)
<1>1. /\ p \in Operation /\ p.state = outcome /\ p.outcomeAt = at
      /\ p.acceptedAt = op[o].acceptedAt /\ p.reconciled = op[o].reconciled
  BY StoredTypes, ConcludedFacts
<1> HIDE DEF p
<1>2. /\ Reconciled(p).state = outcome /\ Reconciled(p).outcomeAt = at
      /\ Reconciled(p).acceptedAt = op[o].acceptedAt /\ Reconciled(p).reconciled = TRUE
  BY <1>1, ReconciledFacts
<1>3. CASE op'[o] = p /\ ValidTerminalRow(q, op[o].acceptedAt, at, op[o].reconciled)
  BY <1>1, <1>3 DEF Receipted
<1>4. CASE op'[o] = Reconciled(p) /\ ValidTerminalRow(q, op[o].acceptedAt, at, TRUE)
  BY <1>2, <1>4 DEF Receipted
<1> QED BY <1>3, <1>4 DEF p

\* When an operation is given an outcome, its row passes the terminal validator,
\* and so it does when it is left uncertain by a clock no attempt is ahead of.
LEMMA EndsReceipted ==
    ASSUME RowsInv, [Next]_vars, NEW o \in Ops, op[o].state = "accepted",
           op'[o].state \in Outcomes \cup {"uncertain"},
           \/ op'[o].state \in Outcomes
           \/ row[o].state = "dispatching" => row[o].avail <= now /\ row[o].started <= now
    PROVE  Receipted(o)'
<1>0. TypeOK
  BY DEF RowsInv
<1>1. /\ row[o] \in OutboxRow /\ op[o].kind \in EffectKinds
      /\ LiveRow(row[o], op[o].kind, op[o].acceptedAt)
  BY AcceptedRow
<1>2. /\ now \in Nat /\ row[o].avail \in Int /\ row[o].started \in Int
      /\ op[o].acceptedAt \in Nat /\ row[o].attempts \in Nat /\ op[o] \in Operation
  BY <1>0, <1>1, StoredTypes DEF LiveRow
<1>3. op'[o] # op[o]
  BY DEF Outcomes
<1>4. /\ row[o].state \in {"dispatching", "reconciling"} => row[o].attempts # 0
      /\ row[o].state = "reconciling" => op[o].kind = "release"
  BY <1>1, <1>2 DEF LiveRow, ValidNonterminalRow, ValidDispatchingRow, ValidReconcilingRow
<1>o. {"settled", "failed", "cancelled", "uncertain"} = Outcomes \cup {"uncertain"}
  BY DEF Outcomes
<1>5. CASE \E t \in Tasks : ReopenTask(t)
  <2>1. PICK t \in Tasks : CancelUntouchedClose(t)
    BY <1>3, <1>5 DEF ReopenTask
  <2>2. PICK p \in Ops :
          /\ row[p].attempts = 0
          /\ op' = [op EXCEPT ![p] = Concluded(@, "cancelled", now)]
          /\ row' = [row EXCEPT ![p] = TransitionOutbox(@, "cancelled", "superseded")]
    BY <2>1 DEF CancelUntouchedClose
  <2>3. p = o
    BY <1>0, <1>3, <2>2 DEF TypeOK
  <2>4. /\ op'[o] = Concluded(op[o], "cancelled", now) /\ row[o].attempts = 0
        /\ row'[o] = TransitionOutbox(row[o], "cancelled", "superseded")
    BY <1>0, <2>2, <2>3 DEF TypeOK
  <2>5. LET q == TransitionOutbox(row[o], "cancelled", "superseded") IN
        q.state = "cancelled" /\ ValidTerminalRow(q, op[o].acceptedAt, now, op[o].reconciled)
    BY <1>1, <1>2, <2>4, TransitionTerminal DEF Outcomes, ErrorClasses
  <2>6. now \in Int /\ "cancelled" \in Outcomes \cup {"uncertain"}
    BY <1>2, <1>o
  <2> QED BY <1>0, <2>4, <2>5, <2>6, ConclusionReceipted
<1>6. CASE \/ \E r \in Resources : SettleResourceReleaseFor(r)
           \/ SettleNextProcessEmptyTaskTeardown
  <2>1. PICK p \in Ops : SettleNow(p) /\ \E kinds : p \in Claimable(kinds)
    BY <1>6 DEF SettleResourceReleaseFor, SettleNextProcessEmptyTaskTeardown, First
  <2>2. p = o
    BY <1>0, <1>3, <2>1 DEF SettleNow, TypeOK
  <2> DEFINE at == MaxOf(now, row[o].avail)
             upper == MaxOf(at, op[o].acceptedAt)
             q == TransitionOutbox(Begun(NextGeneration(row[o]), at), "settled", "none")
  <2>3. /\ op'[o] = Concluded(op[o], "settled", upper) /\ row'[o] = q
    BY <1>0, <2>1, <2>2 DEF SettleNow, TypeOK
  <2>4. at \in Nat /\ row[o].avail <= at /\ upper \in Int /\ at <= upper
    BY <1>2 DEF MaxOf
  <2>5. row[o].state \in {"pending", "claimed"}
    BY <2>1, <2>2, ClaimableRow
  <2> HIDE DEF at, upper
  <2>6. q.state = "settled" /\ ValidTerminalRow(q, op[o].acceptedAt, upper, op[o].reconciled)
    BY <1>1, <2>4, <2>5, SettledTerminal
  <2> HIDE DEF q
  <2> QED BY <1>0, <2>3, <2>4, <2>6, ConclusionReceipted DEF Outcomes
<1>7. CASE ClaimNextProviderInput
  <2> DEFINE claimable == Claimable({"provider"})
             Retired == {p \in DispatchCandidates({"provider"}) :
                           PermanentlyStale(p) /\ \A u \in claimable : First(claimable, u) => Before(p, u)}
  <2>1. PICK d \in Durations :
          /\ row' = [p \in Ops |->
                       IF p \in Retired THEN TransitionOutbox(row[p], "failed", "stale_fence")
                       ELSE IF First(claimable, p) THEN Claimed(row[p], d) ELSE row[p]]
          /\ op' = [p \in Ops |-> IF p \in Retired THEN RetiredOperation(p) ELSE op[p]]
    BY <1>7, Zenon DEF ClaimNextProviderInput
  <2>2. o \in Retired => op[o].kind = "provider" /\ row[o].state \in {"pending", "claimed"}
    BY DEF DispatchCandidates
  <2> HIDE DEF Retired
  <2>3. o \in Retired
    BY <1>3, <2>1
  <2>4. row[o].attempts = 0
    BY <1>1, <2>2, <2>3 DEF LiveRow
  <2> DEFINE at == MaxOf(now, MaxOf(op[o].acceptedAt, row[o].avail))
  <2>5. at \in Int
    BY <1>0, DateTypes
  <2>6. /\ op'[o] = Concluded(op[o], "failed", at)
        /\ row'[o] = TransitionOutbox(row[o], "failed", "stale_fence")
    BY <2>1, <2>3 DEF RetiredOperation
  <2> HIDE DEF at
  <2>7. LET q == TransitionOutbox(row[o], "failed", "stale_fence") IN
        q.state = "failed" /\ ValidTerminalRow(q, op[o].acceptedAt, at, op[o].reconciled)
    BY <1>1, <2>4, <2>5, TransitionTerminal DEF Outcomes, ErrorClasses
  <2> QED BY <1>0, <2>5, <2>6, <2>7, ConclusionReceipted DEF Outcomes
<1>8. CASE CompleteDispatch
  <2>1. PICK p \in permits, outcome \in Outcomes :
          /\ Dispatching(p[1])
          /\ op' = [op EXCEPT ![p[1]] = Concluded(@, outcome, CompletedAt(p[1]))]
          /\ row' = [row EXCEPT ![p[1]] = TransitionOutbox(@, outcome, ErrorClassOf(outcome))]
    BY <1>8 DEF CompleteDispatch
  <2>2. p[1] = o
    BY <1>0, <1>3, <2>1, TokenTypes DEF TypeOK
  <2>3. /\ op'[o] = Concluded(op[o], outcome, CompletedAt(o)) /\ row[o].state = "dispatching"
        /\ row'[o] = TransitionOutbox(row[o], outcome, ErrorClassOf(outcome))
    BY <1>0, <2>1, <2>2 DEF TypeOK, Dispatching
  <2>4. /\ CompletedAt(o) \in Int /\ CompletedAt(o) >= row[o].avail
        /\ CompletedAt(o) >= row[o].started
    BY <1>2 DEF CompletedAt, MaxOf
  <2>5. /\ ErrorClassOf(outcome) \in ErrorClasses
        /\ outcome = "settled" => ErrorClassOf(outcome) = "none"
        /\ outcome = "failed" => ErrorClassOf(outcome) = "side_effect_failed"
        /\ outcome = "cancelled" => ErrorClassOf(outcome) = "superseded"
        /\ outcome # "uncertain" /\ outcome \in Outcomes \cup {"uncertain"}
    BY DEF ErrorClassOf, ErrorClasses, Outcomes
  <2> HIDE DEF CompletedAt, ErrorClassOf
  <2>6. LET q == TransitionOutbox(row[o], outcome, ErrorClassOf(outcome)) IN
        q.state = outcome /\ ValidTerminalRow(q, op[o].acceptedAt, CompletedAt(o), op[o].reconciled)
    BY <1>1, <1>4, <2>3, <2>4, <2>5, TransitionTerminal
  <2> QED BY <1>0, <2>3, <2>4, <2>6, ConclusionReceipted
<1>9. CASE RecordDispatchAmbiguity \/ RecoverNextExpiredDispatch
  <2>1. PICK p \in Ops : Dispatching(p) /\ RecordNoRetryUncertainty(p)
    <3>1. CASE RecordDispatchAmbiguity
      BY <1>0, <1>3, <3>1, TokenTypes DEF RecordDispatchAmbiguity
    <3>2. CASE RecoverNextExpiredDispatch
      BY <1>3, <3>2 DEF RecoverNextExpiredDispatch, First, ExpiredDispatches
    <3> QED BY <1>9, <3>1, <3>2
  <2>2. p = o
    BY <1>0, <1>3, <2>1 DEF RecordNoRetryUncertainty, TypeOK
  <2>3. /\ op'[o] = Concluded(op[o], "uncertain", UncertainAt(o)) /\ row[o].state = "dispatching"
        /\ row'[o] = TransitionOutbox(row[o], "uncertain", "ambiguous_dispatch")
    BY <1>0, <2>1, <2>2 DEF RecordNoRetryUncertainty, TypeOK, Dispatching
  <2>4. UncertainAt(o) \in Int /\ UncertainAt(o) >= now
    BY <1>2 DEF UncertainAt, MaxOf
  <2>5. op'[o].state = "uncertain"
    <3>1. op[o] \in Operation /\ UncertainAt(o) \in Int
      BY <1>2, <2>4
    <3>2. Concluded(op[o], "uncertain", UncertainAt(o)).state = "uncertain"
      BY <3>1, ConcludedShape
    <3> QED BY <2>3, <3>2
  <2>6. UncertainAt(o) >= row[o].avail /\ UncertainAt(o) >= row[o].started
    BY <1>2, <2>3, <2>4, <2>5 DEF Outcomes
  <2> HIDE DEF UncertainAt
  <2>7. LET q == TransitionOutbox(row[o], "uncertain", "ambiguous_dispatch") IN
        q.state = "uncertain" /\ ValidTerminalRow(q, op[o].acceptedAt, UncertainAt(o), op[o].reconciled)
    BY <1>1, <2>3, <2>4, <2>6, TransitionTerminal DEF ErrorClasses, Outcomes
  <2> QED BY <1>0, <2>3, <2>4, <2>7, ConclusionReceipted
<1>10. CASE ReconcilePresent
  <2>1. PICK l \in lookups, outcome \in {"settled", "failed"} :
          /\ row[l[1]].state = "reconciling"
          /\ op' = [op EXCEPT ![l[1]] = Reconciled(Concluded(@, outcome, ObservedAt(l[1])))]
          /\ row' = [row EXCEPT ![l[1]] = TransitionOutbox(@, outcome, ErrorClassOf(outcome))]
    BY <1>10 DEF ReconcilePresent, HoldsLookup
  <2>2. l[1] = o
    BY <1>0, <1>3, <2>1, TokenTypes DEF TypeOK
  <2>3. /\ op'[o] = Reconciled(Concluded(op[o], outcome, ObservedAt(o)))
        /\ row[o].state = "reconciling"
        /\ row'[o] = TransitionOutbox(row[o], outcome, ErrorClassOf(outcome))
    BY <1>0, <2>1, <2>2 DEF TypeOK
  <2>4. /\ ObservedAt(o) \in Int /\ ObservedAt(o) >= row[o].avail
        /\ ObservedAt(o) >= row[o].started /\ outcome \in Outcomes \cup {"uncertain"}
    BY <1>2 DEF ObservedAt, MaxOf, Outcomes
  <2>5. /\ ErrorClassOf(outcome) \in ErrorClasses
        /\ outcome = "settled" => ErrorClassOf(outcome) = "none"
        /\ outcome = "failed" => ErrorClassOf(outcome) = "side_effect_failed"
    BY DEF ErrorClassOf, ErrorClasses
  <2> HIDE DEF ObservedAt, ErrorClassOf
  <2>6. LET q == TransitionOutbox(row[o], outcome, ErrorClassOf(outcome)) IN
        q.state = outcome /\ ValidTerminalRow(q, op[o].acceptedAt, ObservedAt(o), TRUE)
    BY <1>1, <1>4, <2>3, <2>4, <2>5, TransitionTerminal
  <2> QED BY <1>0, <2>3, <2>4, <2>6, ConclusionReceipted
<1>11. CASE \/ UNCHANGED vars \/ Tick \/ ClockStepsBack
            \/ WriteProviderInput \/ TearProviderInput
            \/ \E t \in Tasks : SettleTask(t) \/ DeleteTask(t) \/ RebindSession(t) \/ CloseSpecialist(t)
            \/ \E r \in Resources : RegisterResource(r)
            \/ ClaimNextDispatch(EffectKinds) \/ ClaimNextDispatch({"release"})
            \/ ReleaseDispatchClaim \/ RenewDispatchClaim \/ BeginDispatch \/ DeferBeforeBoundary
            \/ ClaimNextReconciliation \/ RenewReconciliationClaim \/ ReleaseReconciliationClaim
            \/ ReconcileAbsent \/ ReconcileInconclusive
  <2>1. UNCHANGED op
    BY <1>11 DEF vars, Tick, ClockStepsBack, WriteProviderInput, TearProviderInput,
                 SettleTask, DeleteTask, RebindSession, CloseSpecialist, RegisterResource, ClaimNextDispatch,
                 ReleaseDispatchClaim, RenewDispatchClaim, BeginDispatch, DeferBeforeBoundary,
                 ClaimNextReconciliation, RenewReconciliationClaim, ReleaseReconciliationClaim,
                 ReconcileAbsent, ReconcileInconclusive
  <2> QED BY <1>3, <2>1
<1>12. CASE \/ \E t \in Tasks : BeginCloseTask(t) \/ SubmitProviderInput(t) \/ HoldBrowserHost(t)
            \/ \E r \in Resources : ReleaseResource(r)
  <2>1. \E kind, t, epoch, target : Accept(kind, t, epoch, target)
    BY <1>12 DEF BeginCloseTask, SubmitProviderInput, HoldBrowserHost, ReleaseResource
  <2>2. op'[o] = op[o]
    BY <1>0, <2>1 DEF Accept, TypeOK
  <2> QED BY <1>3, <2>2
<1> QED BY <1>5, <1>6, <1>7, <1>8, <1>9, <1>10, <1>11, <1>12 DEF Next

\* Every settled, failed or cancelled operation has a row the terminal validator
\* accepts, whatever the clock did between its attempt and its outcome, so the
\* receipt of its command can always be replayed.
THEOREM FinishedRowsAreValid == Spec => []FinishedRowsPassValidator
<1>1. Init => RowsInv /\ FinishedRowsPassValidator
  BY InitRows DEF Init, FinishedRowsPassValidator, Outcomes
<1>2. RowsInv /\ FinishedRowsPassValidator /\ [Next]_vars => RowsInv' /\ FinishedRowsPassValidator'
  <2> SUFFICES ASSUME RowsInv, FinishedRowsPassValidator, [Next]_vars
               PROVE  FinishedRowsPassValidator'
    BY NextKeepsRows
  <2>1. ASSUME NEW o \in Ops, op'[o].state \in Outcomes PROVE Receipted(o)'
    <3>1. Moves(o)
      BY NextMoves
    <3>2. CASE op'[o] = op[o] /\ row'[o] = row[o]
      BY <2>1, <3>2 DEF FinishedRowsPassValidator, Receipted
    <3>3. CASE op[o].state = "accepted" /\ op'[o].state \in Outcomes \cup {"uncertain"}
      BY <2>1, <3>3, EndsReceipted
    <3> QED BY <2>1, <3>1, <3>2, <3>3 DEF Moves, Outcomes
  <2> QED BY <2>1 DEF FinishedRowsPassValidator, Receipted
<1> QED BY <1>1, <1>2, PTL DEF Spec

-----------------------------------------------------------------------------
(* An attempt recorded uncertain passes it too, unless the clock has fallen  *)
(* behind the attempt's start.                                               *)

\* Whatever the wall clock did before, an attempt that is recorded uncertain while
\* the clock reads no earlier than the attempt's start leaves a row the terminal
\* validator accepts.  The condition is needed: see the instance ClockRollback.
THEOREM UncertaintyIsValid == Spec => UncertaintyPassesValidator
<1> DEFINE Good(o) ==
      op[o].state # "uncertain" /\ op'[o].state = "uncertain" /\ row[o].started <= now =>
         /\ row'[o].state = "uncertain"
         /\ ValidTerminalRow(row'[o], op'[o].acceptedAt, op'[o].outcomeAt, op'[o].reconciled)
<1>1. Init => RowsInv
  BY InitRows
<1>2. RowsInv /\ [Next]_vars => RowsInv'
  BY NextKeepsRows
<1>3. ASSUME RowsInv, [Next]_vars, NEW o \in Ops PROVE Good(o)
  <2> SUFFICES ASSUME op[o].state # "uncertain", op'[o].state = "uncertain", row[o].started <= now
               PROVE  /\ row'[o].state = "uncertain"
                      /\ ValidTerminalRow(row'[o], op'[o].acceptedAt, op'[o].outcomeAt,
                                          op'[o].reconciled)
    OBVIOUS
  <2>1. op[o].state = "accepted"
    BY <1>3, NextMoves DEF Moves, Outcomes
  <2>2. row[o].state = "dispatching" => row[o].avail <= row[o].started
    BY <1>3, <2>1, AcceptedRow DEF LiveRow, ValidNonterminalRow, ValidDispatchingRow
  <2>3. now \in Int /\ row[o].avail \in Int /\ row[o].started \in Int
    BY <1>3, StoredTypes DEF RowsInv
  <2>4. row[o].state = "dispatching" => row[o].avail <= now /\ row[o].started <= now
    BY <2>2, <2>3
  <2>5. op'[o].state \in Outcomes \cup {"uncertain"}
    OBVIOUS
  <2>6. Receipted(o)'
    BY <1>3, <2>1, <2>4, <2>5, EndsReceipted
  <2> QED BY <2>6 DEF Receipted
<1>4. RowsInv /\ [Next]_vars => [\A o \in Ops : Good(o)]_vars
  BY <1>3
<1> QED BY <1>1, <1>2, <1>4, PTL DEF Spec, UncertaintyPassesValidator

-----------------------------------------------------------------------------
(* What a worker's step does to tasks and resources.                         *)

\* Tasks and resources stay; at most provider inputs get an outcome.
Quiet ==
    /\ UNCHANGED <<task, res>>
    /\ \A o \in Ops :
          \/ op'[o] = op[o]
          \/ /\ op[o].kind = "provider" /\ SameEffect(op'[o], op[o])
             /\ op[o].state # "none" /\ op'[o].state \notin {"none", "accepted"}

\* One effect that still owns its target gets an outcome, with its derived event.
Delivers(o, outcome) ==
    /\ op[o].state = "accepted" /\ CurrentOwner(o)
    /\ SameEffect(op'[o], op[o]) /\ op'[o].state = outcome
    /\ \A p \in Ops \ {o} : op'[p] = op[p]
    /\ ApplyResult(o, outcome)
    /\ op[o].kind = "teardown" /\ outcome = "settled" => ~HasLiveResources(op[o].task)

\* A worker's step is quiet or delivers one outcome.
LEMMA WorkersDeliver ==
    ASSUME RowsInv,
           \/ UNCHANGED vars \/ Tick \/ ClockStepsBack
           \/ \E t \in Tasks : RebindSession(t) \/ CloseSpecialist(t)
           \/ \E r \in Resources : SettleResourceReleaseFor(r)
           \/ ClaimNextDispatch(EffectKinds) \/ ClaimNextDispatch({"release"})
           \/ ClaimNextProviderInput \/ ReleaseDispatchClaim \/ RenewDispatchClaim \/ BeginDispatch
           \/ WriteProviderInput \/ TearProviderInput \/ DeferBeforeBoundary \/ CompleteDispatch
           \/ RecordDispatchAmbiguity \/ RecoverNextExpiredDispatch
           \/ ClaimNextReconciliation \/ RenewReconciliationClaim \/ ReleaseReconciliationClaim
           \/ ReconcileAbsent \/ ReconcileInconclusive \/ ReconcilePresent
           \/ SettleNextProcessEmptyTaskTeardown
    PROVE  Quiet \/ \E o \in Ops, outcome \in Outcomes : Delivers(o, outcome)
<1>0. TypeOK
  BY DEF RowsInv
<1>1. CASE \/ UNCHANGED vars \/ Tick \/ ClockStepsBack
           \/ \E t \in Tasks : RebindSession(t) \/ CloseSpecialist(t)
           \/ ClaimNextDispatch(EffectKinds) \/ ClaimNextDispatch({"release"})
           \/ ReleaseDispatchClaim \/ RenewDispatchClaim \/ BeginDispatch
           \/ WriteProviderInput \/ TearProviderInput \/ DeferBeforeBoundary
           \/ ClaimNextReconciliation \/ RenewReconciliationClaim \/ ReleaseReconciliationClaim
           \/ ReconcileAbsent \/ ReconcileInconclusive
  <2>1. UNCHANGED <<task, res, op>>
    BY <1>1 DEF vars, domainVars, Tick, ClockStepsBack, RebindSession, CloseSpecialist,
                ClaimNextDispatch, ReleaseDispatchClaim, RenewDispatchClaim, BeginDispatch,
                WriteProviderInput, TearProviderInput, DeferBeforeBoundary, ClaimNextReconciliation,
                RenewReconciliationClaim, ReleaseReconciliationClaim, ReconcileAbsent,
                ReconcileInconclusive
  <2> QED BY <2>1 DEF Quiet
<1>2. CASE ClaimNextProviderInput
  <2> DEFINE claimable == Claimable({"provider"})
             Retired == {o \in DispatchCandidates({"provider"}) :
                           PermanentlyStale(o) /\ \A p \in claimable : First(claimable, p) => Before(o, p)}
  <2>1. /\ op' = [o \in Ops |-> IF o \in Retired THEN RetiredOperation(o) ELSE op[o]]
        /\ UNCHANGED domainVars
    BY <1>2, Zenon DEF ClaimNextProviderInput
  <2>2. \A o \in Retired : op[o].kind = "provider" /\ op[o].state = "accepted"
    BY DEF DispatchCandidates
  <2> HIDE DEF Retired
  <2>3. ASSUME NEW o \in Ops, o \in Retired
        PROVE  /\ op[o].kind = "provider" /\ SameEffect(op'[o], op[o])
               /\ op[o].state # "none" /\ op'[o].state \notin {"none", "accepted"}
    <3>1. op'[o] = RetiredOperation(o)
      BY <2>1, <2>3
    <3>2. MaxOf(now, MaxOf(op[o].acceptedAt, row[o].avail)) \in Int /\ "failed" \in Outcomes \cup {"uncertain"}
      BY <1>0, DateTypes DEF Outcomes
    <3>3. SameEffect(RetiredOperation(o), op[o]) /\ RetiredOperation(o).state = "failed"
      BY <3>2, OutcomeWrites DEF RetiredOperation
    <3> QED BY <2>2, <2>3, <3>1, <3>3
  <2>4. ASSUME NEW o \in Ops, o \notin Retired PROVE op'[o] = op[o]
    BY <2>1, <2>4
  <2>5. UNCHANGED <<task, res>>
    BY <2>1 DEF domainVars
  <2> QED BY <2>3, <2>4, <2>5 DEF Quiet
<1>3. CASE RecordDispatchAmbiguity \/ RecoverNextExpiredDispatch
  <2>1. UNCHANGED <<task, res>>
    BY <1>3 DEF RecordDispatchAmbiguity, RecoverNextExpiredDispatch, domainVars
  <2>2. CASE UNCHANGED op
    BY <2>1, <2>2 DEF Quiet
  <2>3. CASE ~ UNCHANGED op
    <3>1. PICK o \in Ops : Dispatching(o) /\ op[o].kind = "provider" /\ RecordNoRetryUncertainty(o)
      <4>1. CASE RecordDispatchAmbiguity
        BY <1>0, <2>3, <4>1, TokenTypes DEF RecordDispatchAmbiguity
      <4>2. CASE RecoverNextExpiredDispatch
        BY <2>3, <4>2 DEF RecoverNextExpiredDispatch, First, ExpiredDispatches
      <4> QED BY <1>3, <4>1, <4>2
    <3>2. op' = [op EXCEPT ![o] = Concluded(@, "uncertain", UncertainAt(o))]
      BY <3>1 DEF RecordNoRetryUncertainty
    <3>3. UncertainAt(o) \in Int /\ "uncertain" \in Outcomes \cup {"uncertain"}
      BY <1>0, DateTypes
    <3>4. LET p == Concluded(op[o], "uncertain", UncertainAt(o)) IN SameEffect(p, op[o]) /\ p.state = "uncertain"
      BY <3>3, OutcomeWrites
    <3>5. /\ \A p \in Ops \ {o} : op'[p] = op[p]
          /\ op'[o] = Concluded(op[o], "uncertain", UncertainAt(o))
      BY <1>0, <3>2 DEF TypeOK
    <3> QED BY <2>1, <3>1, <3>4, <3>5 DEF Quiet, Dispatching
  <2> QED BY <2>2, <2>3
<1>4. CASE CompleteDispatch
  <2>1. PICK p \in permits, outcome \in Outcomes :
          /\ Dispatching(p[1]) /\ CurrentOwner(p[1])
          /\ op[p[1]].kind = "teardown" /\ outcome = "settled" => ~HasLiveResources(op[p[1]].task)
          /\ op' = [op EXCEPT ![p[1]] = Concluded(@, outcome, CompletedAt(p[1]))]
          /\ ApplyResult(p[1], outcome)
    BY <1>4 DEF CompleteDispatch
  <2>2. p[1] \in Ops
    BY <1>0, TokenTypes
  <2>3. CompletedAt(p[1]) \in Int
    BY <1>0, <2>2, DateTypes
  <2>4. LET q == Concluded(op[p[1]], outcome, CompletedAt(p[1])) IN
        SameEffect(q, op[p[1]]) /\ q.state = outcome
    BY <2>2, <2>3, OutcomeWrites
  <2>5. /\ \A q \in Ops \ {p[1]} : op'[q] = op[q]
        /\ op'[p[1]] = Concluded(op[p[1]], outcome, CompletedAt(p[1]))
    BY <1>0, <2>1, <2>2 DEF TypeOK
  <2>6. Delivers(p[1], outcome)
    BY <2>1, <2>4, <2>5 DEF Delivers, Dispatching
  <2> QED BY <2>2, <2>6
<1>5. CASE ReconcilePresent
  <2>1. PICK l \in lookups, outcome \in {"settled", "failed"} :
          /\ op[l[1]].state = "accepted" /\ row[l[1]].state = "reconciling" /\ CurrentOwner(l[1])
          /\ op' = [op EXCEPT ![l[1]] = Reconciled(Concluded(@, outcome, ObservedAt(l[1])))]
          /\ ApplyResult(l[1], outcome)
    BY <1>5 DEF ReconcilePresent, HoldsLookup
  <2>2. l[1] \in Ops
    BY <1>0, TokenTypes
  <2>3. ObservedAt(l[1]) \in Int /\ outcome \in Outcomes \cup {"uncertain"}
    BY <1>0, <2>2, DateTypes DEF Outcomes
  <2>4. LET q == Reconciled(Concluded(op[l[1]], outcome, ObservedAt(l[1]))) IN
        SameEffect(q, op[l[1]]) /\ q.state = outcome
    BY <2>2, <2>3, OutcomeWrites
  <2>5. /\ \A q \in Ops \ {l[1]} : op'[q] = op[q]
        /\ op'[l[1]] = Reconciled(Concluded(op[l[1]], outcome, ObservedAt(l[1])))
    BY <1>0, <2>1, <2>2 DEF TypeOK
  <2>6. op[l[1]].kind = "release"
    BY <2>1, <2>2, AcceptedRow DEF LiveRow, ValidNonterminalRow, ValidReconcilingRow
  <2>7. Delivers(l[1], outcome)
    BY <2>1, <2>4, <2>5, <2>6 DEF Delivers
  <2> QED BY <2>2, <2>7 DEF Outcomes
<1>6. CASE \/ \E r \in Resources : SettleResourceReleaseFor(r)
           \/ SettleNextProcessEmptyTaskTeardown
  <2>1. PICK o \in Ops :
          /\ SettleNow(o)
          /\ \E kinds : o \in Claimable(kinds)
          /\ op[o].kind = "teardown" => ~HasLiveResources(op[o].task)
    <3>1. CASE \E r \in Resources : SettleResourceReleaseFor(r)
      <4>1. PICK o \in Ops : SettleNow(o) /\ o \in Claimable({"release"})
        BY <3>1 DEF SettleResourceReleaseFor, First
      <4>2. op[o].kind = "release"
        BY <4>1 DEF Claimable, DispatchCandidates
      <4> QED BY <4>1, <4>2
    <3>2. CASE SettleNextProcessEmptyTaskTeardown
      BY <3>2 DEF SettleNextProcessEmptyTaskTeardown, First
    <3> QED BY <1>6, <3>1, <3>2
  <2>2. op[o].state = "accepted" /\ CurrentOwner(o)
    BY <2>1, ClaimableRow DEF Claimable
  <2> DEFINE at == MaxOf(MaxOf(now, row[o].avail), op[o].acceptedAt)
  <2>3. at \in Int /\ "settled" \in Outcomes \cup {"uncertain"} /\ "settled" \in Outcomes
    <3>1. now \in Int /\ row[o].avail \in Int /\ op[o].acceptedAt \in Int
      BY <1>0, StoredTypes
    <3> QED BY <3>1, MaxOfFacts DEF Outcomes
  <2>4. op' = [op EXCEPT ![o] = Concluded(@, "settled", at)] /\ ApplyResult(o, "settled")
    BY <2>1 DEF SettleNow
  <2> HIDE DEF at
  <2>5. LET q == Concluded(op[o], "settled", at) IN SameEffect(q, op[o]) /\ q.state = "settled"
    BY <2>3, OutcomeWrites
  <2>6. (\A q \in Ops \ {o} : op'[q] = op[q]) /\ op'[o] = Concluded(op[o], "settled", at)
    BY <1>0, <2>4 DEF TypeOK
  <2>7. Delivers(o, "settled")
    BY <2>1, <2>2, <2>4, <2>5, <2>6 DEF Delivers
  <2> QED BY <2>3, <2>7
<1> QED BY <1>1, <1>2, <1>3, <1>4, <1>5, <1>6

\* What accepting an effect writes.
LEMMA AcceptShape ==
    ASSUME TypeOK, NEW kind, NEW t, NEW epoch, NEW target, Accept(kind, t, epoch, target)
    PROVE  \E o \in Ops :
              /\ op[o].state = "none" /\ \A p \in Ops \ {o} : op'[p] = op[p]
              /\ op'[o].kind = kind /\ op'[o].task = t /\ op'[o].epoch = epoch
              /\ op'[o].target = target /\ op'[o].state = "accepted"
<1>1. PICK o \in Ops :
        /\ op[o].state = "none"
        /\ op' = [op EXCEPT ![o] = [kind |-> kind, task |-> t, epoch |-> epoch, target |-> target,
                                    state |-> "accepted", acceptedAt |-> now,
                                    outcomeAt |-> NoTime, reconciled |-> FALSE]]
  BY DEF Accept
<1>2. /\ \A p \in Ops \ {o} : op'[p] = op[p]
      /\ op'[o] = [kind |-> kind, task |-> t, epoch |-> epoch, target |-> target,
                   state |-> "accepted", acceptedAt |-> now, outcomeAt |-> NoTime, reconciled |-> FALSE]
  BY <1>1 DEF TypeOK
<1> QED BY <1>1, <1>2

-----------------------------------------------------------------------------
(* A close that has no outcome yet is the one its task is in.                *)
(*                                                                           *)
(* That a task has at most one such close is part of the invariant: without  *)
(* it the outcome of one close could archive the task under another.         *)

OpenClose(o) == op[o].kind = "teardown" /\ op[o].state = "accepted"

CloseInv ==
    /\ AcceptedCloseIsCurrent
    /\ \A o \in Ops, p \in Ops : OpenClose(o) /\ OpenClose(p) /\ op[o].task = op[p].task => o = p

\* Every step keeps the close of a task the one it is in.
LEMMA NextKeepsCloses ==
    ASSUME RowsInv, CloseInv, [Next]_vars
    PROVE  CloseInv'
<1>0. TypeOK /\ \A o \in Ops : op[o].task \in Tasks
  BY StoredTypes DEF RowsInv
<1>1. ASSUME NEW t \in Tasks, BeginCloseTask(t) PROVE CloseInv'
  <2>1. PICK o \in Ops :
          /\ op[o].state = "none" /\ \A p \in Ops \ {o} : op'[p] = op[p]
          /\ op'[o].kind = "teardown" /\ op'[o].task = t /\ op'[o].epoch = task[t].epoch + 1
    BY <1>0, <1>1, AcceptShape DEF BeginCloseTask
  <2>2. /\ task'[t].life = "closing" /\ task'[t].epoch = task[t].epoch + 1
        /\ \A u \in Tasks \ {t} : task'[u] = task[u]
        /\ task[t].life \in {"open", "settled"}
    BY <1>0, <1>1 DEF BeginCloseTask, RuntimeCapable, TypeOK
  <2>3. \A p \in Ops \ {o} : OpenClose(p)' => OpenClose(p) /\ op[p].task # t
    BY <2>1, <2>2 DEF OpenClose, CloseInv, AcceptedCloseIsCurrent
  <2>4. AcceptedCloseIsCurrent'
    BY <1>0, <2>1, <2>2, <2>3 DEF OpenClose, CloseInv, AcceptedCloseIsCurrent
  <2>5. \A u \in Ops, p \in Ops : OpenClose(u)' /\ OpenClose(p)' /\ op'[u].task = op'[p].task => u = p
    BY <2>1, <2>3 DEF CloseInv
  <2> QED BY <2>4, <2>5 DEF CloseInv, OpenClose
<1>2. CASE \/ \E t \in Tasks : SubmitProviderInput(t) \/ HoldBrowserHost(t)
           \/ \E r \in Resources : ReleaseResource(r)
  <2>1. UNCHANGED task /\ \E kind, t, epoch, target : /\ kind \in {"provider", "hold", "release"}
                                                      /\ Accept(kind, t, epoch, target)
    BY <1>2 DEF SubmitProviderInput, HoldBrowserHost, ReleaseResource, domainVars
  <2>2. PICK o \in Ops :
          op'[o].kind \in {"provider", "hold", "release"} /\ \A p \in Ops \ {o} : op'[p] = op[p]
    BY <1>0, <2>1, AcceptShape
  <2>3. \A p \in Ops : OpenClose(p)' => op'[p] = op[p] /\ OpenClose(p)
    BY <2>2 DEF OpenClose
  <2> QED BY <2>1, <2>3 DEF CloseInv, AcceptedCloseIsCurrent, OpenClose
<1>3. ASSUME NEW t \in Tasks, SettleTask(t) \/ DeleteTask(t) PROVE CloseInv'
  <2>1. /\ UNCHANGED op /\ task[t].life \in {"open", "archived"}
        /\ \A u \in Tasks \ {t} : task'[u] = task[u]
    BY <1>0, <1>3 DEF SettleTask, DeleteTask, TypeOK
  <2> QED BY <1>0, <2>1 DEF CloseInv, AcceptedCloseIsCurrent, OpenClose
<1>4. ASSUME NEW t \in Tasks, ReopenTask(t) PROVE CloseInv'
  <2>1. \A u \in Tasks \ {t} : task'[u] = task[u]
    BY <1>0, <1>4 DEF ReopenTask, TypeOK
  <2>2. CASE task[t].life = "closing"
    <3>1. PICK o \in Ops :
            /\ AcceptedAt(t, task[t].epoch) = {o}
            /\ op' = [op EXCEPT ![o] = Concluded(@, "cancelled", now)]
      BY <1>4, <2>2 DEF ReopenTask, CancelUntouchedClose
    <3>2. now \in Int /\ "cancelled" \in Outcomes \cup {"uncertain"}
      BY <1>0, StoredTypes DEF Outcomes
    <3>3. Concluded(op[o], "cancelled", now).state = "cancelled"
      BY <3>2, OutcomeWrites
    <3>4. (\A p \in Ops \ {o} : op'[p] = op[p]) /\ op'[o].state = "cancelled"
      BY <1>0, <3>1, <3>3 DEF TypeOK
    <3>5. ASSUME NEW p \in Ops, OpenClose(p)' PROVE op'[p] = op[p] /\ OpenClose(p) /\ op[p].task # t
      <4>1. p # o /\ op'[p] = op[p] /\ OpenClose(p)
        BY <3>4, <3>5 DEF OpenClose
      <4>2. op[p].task = t => p \in AcceptedAt(t, task[t].epoch)
        BY <4>1 DEF AcceptedAt, OpenClose, CloseInv, AcceptedCloseIsCurrent
      <4> QED BY <3>1, <4>1, <4>2
    <3> QED BY <1>0, <2>1, <3>5 DEF CloseInv, AcceptedCloseIsCurrent, OpenClose
  <2>3. CASE task[t].life # "closing"
    <3>1. UNCHANGED op
      BY <1>4, <2>3 DEF ReopenTask
    <3> QED BY <1>0, <2>1, <2>3, <3>1 DEF CloseInv, AcceptedCloseIsCurrent, OpenClose
  <2> QED BY <2>2, <2>3
<1>5. CASE \E r \in Resources : RegisterResource(r)
  <2>1. UNCHANGED <<op, task>>
    BY <1>5 DEF RegisterResource
  <2> QED BY <2>1 DEF CloseInv, AcceptedCloseIsCurrent, OpenClose
<1>6. CASE Quiet
  <2>1. \A o \in Ops : OpenClose(o)' => op'[o] = op[o] /\ OpenClose(o)
    BY <1>6 DEF Quiet, OpenClose
  <2> QED BY <1>6, <2>1 DEF Quiet, CloseInv, AcceptedCloseIsCurrent, OpenClose
<1>7. ASSUME NEW o \in Ops, NEW outcome \in Outcomes, Delivers(o, outcome) PROVE CloseInv'
  <2>1. \A p \in Ops : OpenClose(p)' => p # o /\ op'[p] = op[p] /\ OpenClose(p)
    BY <1>7 DEF Delivers, OpenClose, Outcomes
  <2>2. \A p \in Ops : OpenClose(p)' => task'[op[p].task] = task[op[p].task]
    <3>1. CASE UNCHANGED task
      BY <3>1
    <3>2. CASE op[o].kind = "teardown" /\ task' = [task EXCEPT ![op[o].task].life = "archived"]
      <4>1. OpenClose(o)
        BY <1>7, <3>2 DEF Delivers, OpenClose
      <4>2. \A p \in Ops : OpenClose(p)' => op[p].task # op[o].task
        BY <2>1, <4>1 DEF CloseInv
      <4> QED BY <1>0, <3>2, <4>2 DEF TypeOK
    <3> QED BY <1>7, <3>1, <3>2 DEF Delivers, ApplyResult
  <2> QED BY <2>1, <2>2 DEF CloseInv, AcceptedCloseIsCurrent, OpenClose
<1> QED BY <1>1, <1>2, <1>3, <1>4, <1>5, <1>6, <1>7, WorkersDeliver DEF Next

\* A teardown without an outcome belongs to the close its task is in, so no slow
\* worker can archive a task that was reopened behind its back.
THEOREM ClosesAreCurrent == Spec => []AcceptedCloseIsCurrent
<1>1. Init => RowsInv /\ CloseInv
  BY InitRows DEF Init, CloseInv, AcceptedCloseIsCurrent, OpenClose
<1>2. RowsInv /\ CloseInv /\ [Next]_vars => RowsInv' /\ CloseInv'
  BY NextKeepsRows, NextKeepsCloses
<1>3. CloseInv => AcceptedCloseIsCurrent
  BY DEF CloseInv
<1> QED BY <1>1, <1>2, <1>3, PTL DEF Spec

-----------------------------------------------------------------------------
(* A resource in release has one release operation.                          *)
(*                                                                           *)
(* The invariant ties the life of a resource to the state of its release     *)
(* operation in both directions: a release that settled has released its     *)
(* resource, every other one leaves it in release, and no resource is in     *)
(* release without one.                                                      *)

IsRelease(o) == op[o].kind = "release"

ReleaseInv ==
    /\ \A o \in Ops : op[o].state = "none" => ~IsRelease(o)
    /\ \A o \in Ops : IsRelease(o) =>
          /\ op[o].target \in Resources
          /\ op[o].state \in {"accepted", "settled", "failed", "cancelled"}
          /\ res[op[o].target].life = IF op[o].state = "settled" THEN "released" ELSE "releasing"
    /\ \A o \in Ops, p \in Ops : IsRelease(o) /\ IsRelease(p) /\ op[o].target = op[p].target => o = p
    /\ \A r \in Resources : res[r].life = "releasing" => \E o \in Ops : IsRelease(o) /\ op[o].target = r

\* The invariant says what the property promises.
LEMMA ReleaseInvSuffices ==
    ASSUME ReleaseInv
    PROVE  ReleasingHasOneOperation
<1>1. ASSUME NEW r \in Resources, res[r].life = "releasing"
      PROVE  \E o \in Ops : /\ op[o].kind = "release" /\ op[o].target = r
                            /\ op[o].state \in {"accepted", "failed", "cancelled"}
                            /\ \A p \in Ops : op[p].kind = "release" /\ op[p].target = r => p = o
  <2>1. PICK o \in Ops : IsRelease(o) /\ op[o].target = r
    BY <1>1 DEF ReleaseInv
  <2>2. op[o].state \in {"accepted", "failed", "cancelled"}
    BY <1>1, <2>1 DEF ReleaseInv
  <2>3. \A p \in Ops : op[p].kind = "release" /\ op[p].target = r => p = o
    BY <2>1 DEF ReleaseInv, IsRelease
  <2> QED BY <2>1, <2>2, <2>3 DEF IsRelease
<1> QED BY <1>1 DEF ReleasingHasOneOperation

\* A step that leaves the resources and every release operation alone keeps the
\* invariant, whatever else it accepts or concludes.
LEMMA OtherOpsKeepReleases ==
    ASSUME ReleaseInv, UNCHANGED res,
           \A o \in Ops : \/ op'[o] = op[o]
                          \/ /\ op[o].state = "none" \/ ~IsRelease(o)
                             /\ op'[o].kind # "release" /\ op'[o].state # "none"
    PROVE  ReleaseInv'
<1>1. \A o \in Ops : IsRelease(o)' => op'[o] = op[o] /\ IsRelease(o)
  BY DEF IsRelease
<1>2. \A o \in Ops : IsRelease(o) => op'[o] = op[o] /\ IsRelease(o)'
  BY DEF IsRelease, ReleaseInv
<1>3. \A o \in Ops : (op[o].state = "none")' => op'[o] = op[o]
  OBVIOUS
<1> QED BY <1>1, <1>2, <1>3 DEF ReleaseInv

\* Every step keeps releases and their operations in step.
LEMMA NextKeepsReleases ==
    ASSUME RowsInv, ReleaseInv, [Next]_vars
    PROVE  ReleaseInv'
<1>0. TypeOK
  BY DEF RowsInv
<1>1. ASSUME NEW r \in Resources, ReleaseResource(r) PROVE ReleaseInv'
  <2>1. PICK o \in Ops :
          /\ op[o].state = "none" /\ \A p \in Ops \ {o} : op'[p] = op[p]
          /\ op'[o].kind = "release" /\ op'[o].target = r /\ op'[o].state = "accepted"
    BY <1>0, <1>1, AcceptShape DEF ReleaseResource
  <2>2. /\ res[r].life = "active" /\ res'[r].life = "releasing"
        /\ \A s \in Resources \ {r} : res'[s] = res[s]
    BY <1>0, <1>1 DEF ReleaseResource, TypeOK
  <2>3. \A p \in Ops \ {o} : IsRelease(p)' => IsRelease(p) /\ op'[p] = op[p] /\ op[p].target # r
    BY <2>1, <2>2 DEF IsRelease, ReleaseInv
  <2>4. \A p \in Ops : op'[p].state = "none" => op'[p] = op[p] /\ p # o
    BY <2>1
  <2>5. \A p \in Ops : IsRelease(p)' =>
          /\ op'[p].target \in Resources
          /\ op'[p].state \in {"accepted", "settled", "failed", "cancelled"}
          /\ res'[op'[p].target].life = IF op'[p].state = "settled" THEN "released" ELSE "releasing"
    BY <2>1, <2>2, <2>3 DEF ReleaseInv
  <2>6. \A q \in Ops, p \in Ops : IsRelease(q)' /\ IsRelease(p)' /\ op'[q].target = op'[p].target => q = p
    BY <2>1, <2>3 DEF ReleaseInv
  <2>7. ASSUME NEW s \in Resources, res'[s].life = "releasing"
        PROVE  \E p \in Ops : IsRelease(p)' /\ op'[p].target = s
    <3>1. CASE s = r
      BY <2>1, <3>1 DEF IsRelease
    <3>2. CASE s # r
      <4>1. PICK p \in Ops : IsRelease(p) /\ op[p].target = s
        BY <2>2, <2>7, <3>2 DEF ReleaseInv
      <4>2. p # o
        BY <2>1, <4>1 DEF ReleaseInv
      <4> QED BY <2>1, <4>1, <4>2 DEF IsRelease
    <3> QED BY <3>1, <3>2
  <2>8. \A p \in Ops : op'[p].state = "none" => ~IsRelease(p)'
    BY <2>4 DEF ReleaseInv, IsRelease
  <2> QED BY <2>5, <2>6, <2>7, <2>8 DEF ReleaseInv
<1>2. ASSUME NEW r \in Resources, RegisterResource(r) PROVE ReleaseInv'
  <2>1. /\ UNCHANGED op
        /\ res[r].life = "unregistered" /\ res'[r].life = "active"
        /\ \A s \in Resources \ {r} : res'[s] = res[s]
    BY <1>0, <1>2 DEF RegisterResource, TypeOK
  <2>2. \A o \in Ops : IsRelease(o) => op[o].target # r /\ res'[op[o].target] = res[op[o].target]
    BY <2>1 DEF ReleaseInv
  <2> QED BY <2>1, <2>2 DEF ReleaseInv, IsRelease
<1>3. CASE \E t \in Tasks : SubmitProviderInput(t) \/ HoldBrowserHost(t) \/ BeginCloseTask(t)
  <2>1. UNCHANGED res /\ \E kind, t, epoch, target : /\ kind \in {"provider", "hold", "teardown"}
                                                     /\ Accept(kind, t, epoch, target)
    BY <1>3 DEF SubmitProviderInput, HoldBrowserHost, BeginCloseTask, domainVars
  <2>2. PICK o \in Ops :
          /\ op[o].state = "none" /\ op'[o].state = "accepted"
          /\ op'[o].kind \in {"provider", "hold", "teardown"} /\ \A p \in Ops \ {o} : op'[p] = op[p]
    BY <1>0, <2>1, AcceptShape
  <2> QED BY <2>1, <2>2, OtherOpsKeepReleases
<1>4. CASE \E t \in Tasks : SettleTask(t) \/ DeleteTask(t)
  <2>1. UNCHANGED <<op, res>>
    BY <1>4 DEF SettleTask, DeleteTask
  <2> QED BY <2>1, OtherOpsKeepReleases
<1>5. ASSUME NEW t \in Tasks, ReopenTask(t) PROVE ReleaseInv'
  <2>0. UNCHANGED res
    BY <1>5 DEF ReopenTask
  <2>1. CASE UNCHANGED op
    BY <2>0, <2>1, OtherOpsKeepReleases
  <2>2. CASE CancelUntouchedClose(t)
    <3>1. PICK o \in Ops :
            /\ op[o].kind = "teardown"
            /\ op' = [op EXCEPT ![o] = Concluded(@, "cancelled", now)]
      BY <2>2 DEF CancelUntouchedClose
    <3>2. now \in Int /\ "cancelled" \in Outcomes \cup {"uncertain"}
      BY <1>0, StoredTypes DEF Outcomes
    <3>3. LET q == Concluded(op[o], "cancelled", now) IN SameEffect(q, op[o]) /\ q.state = "cancelled"
      BY <3>2, OutcomeWrites
    <3>4. /\ \A p \in Ops \ {o} : op'[p] = op[p]
          /\ op'[o] = Concluded(op[o], "cancelled", now)
      BY <1>0, <3>1 DEF TypeOK
    <3>5. op'[o].kind = "teardown" /\ op'[o].state = "cancelled"
      BY <3>1, <3>3, <3>4 DEF SameEffect
    <3> QED BY <2>0, <3>1, <3>4, <3>5, OtherOpsKeepReleases DEF IsRelease
  <2> QED BY <1>5, <2>1, <2>2 DEF ReopenTask
<1>6. CASE Quiet
  BY <1>6, OtherOpsKeepReleases DEF Quiet, IsRelease, SameEffect
<1>7. ASSUME NEW o \in Ops, NEW outcome \in Outcomes, Delivers(o, outcome) PROVE ReleaseInv'
  <2>0. /\ op[o].state = "accepted" /\ CurrentOwner(o)
        /\ SameEffect(op'[o], op[o]) /\ op'[o].state = outcome
        /\ \A p \in Ops \ {o} : op'[p] = op[p]
        /\ res' = IF op[o].kind = "release" /\ outcome = "settled"
                  THEN [res EXCEPT ![op[o].target].life = "released"] ELSE res
    BY <1>7 DEF Delivers, ApplyResult
  <2>1. CASE ~IsRelease(o)
    BY <2>0, <2>1, OtherOpsKeepReleases DEF IsRelease, SameEffect, Outcomes
  <2>2. CASE IsRelease(o)
    <3>1. op[o].target \in Resources /\ res[op[o].target].life = "releasing"
      BY <2>0, <2>2 DEF ReleaseInv
    <3>2. /\ res'[op[o].target].life = IF outcome = "settled" THEN "released" ELSE "releasing"
          /\ \A s \in Resources \ {op[o].target} : res'[s] = res[s]
      BY <1>0, <2>0, <2>2, <3>1 DEF TypeOK, IsRelease
    <3>3. op'[o].target = op[o].target /\ IsRelease(o)' /\ outcome \in {"settled", "failed", "cancelled"}
      BY <2>0, <2>2 DEF SameEffect, IsRelease, Outcomes
    <3>4. \A p \in Ops : /\ op'[p].target = op[p].target
                         /\ op'[p].kind = op[p].kind
                         /\ p # o /\ IsRelease(p) => op[p].target # op[o].target
      BY <2>0, <2>2, <3>3 DEF ReleaseInv, IsRelease
    <3>5. \A p \in Ops : op'[p].state = "none" => ~IsRelease(p)'
      BY <2>0, <3>3 DEF ReleaseInv, IsRelease
    <3>6. \A p \in Ops : IsRelease(p)' =>
            /\ op'[p].target \in Resources
            /\ op'[p].state \in {"accepted", "settled", "failed", "cancelled"}
            /\ res'[op'[p].target].life = IF op'[p].state = "settled" THEN "released" ELSE "releasing"
      BY <2>0, <3>1, <3>2, <3>3, <3>4 DEF ReleaseInv, IsRelease
    <3>7. \A q \in Ops, p \in Ops : IsRelease(q)' /\ IsRelease(p)' /\ op'[q].target = op'[p].target => q = p
      BY <3>4 DEF ReleaseInv, IsRelease
    <3>8. \A s \in Resources : res'[s].life = "releasing" => \E p \in Ops : IsRelease(p)' /\ op'[p].target = s
      BY <2>2, <3>2, <3>3, <3>4 DEF ReleaseInv, IsRelease
    <3> QED BY <3>5, <3>6, <3>7, <3>8 DEF ReleaseInv
  <2> QED BY <2>1, <2>2
<1> QED
  <2>1. CASE \/ \E t \in Tasks : \/ BeginCloseTask(t) \/ SubmitProviderInput(t) \/ HoldBrowserHost(t)
                                 \/ SettleTask(t) \/ ReopenTask(t) \/ DeleteTask(t)
             \/ \E r \in Resources : RegisterResource(r) \/ ReleaseResource(r)
    BY <1>1, <1>2, <1>3, <1>4, <1>5, <2>1
  <2>2. CASE Quiet \/ \E o \in Ops, outcome \in Outcomes : Delivers(o, outcome)
    BY <1>6, <1>7, <2>2
  <2> QED BY <2>1, <2>2, WorkersDeliver DEF Next

\* A resource in release has exactly one release operation, and that one has not
\* settled (begin_resource_release plans an effect only for an active resource,
\* and apply_new_outcome releases the resource in the transaction that settles
\* the effect).
THEOREM ReleasesHaveOneOperation == Spec => []ReleasingHasOneOperation
<1>1. Init => RowsInv /\ ReleaseInv
  BY InitRows DEF Init, ReleaseInv, IsRelease
<1>2. RowsInv /\ ReleaseInv /\ [Next]_vars => RowsInv' /\ ReleaseInv'
  BY NextKeepsRows, NextKeepsReleases
<1>3. ReleaseInv => ReleasingHasOneOperation
  BY ReleaseInvSuffices
<1> QED BY <1>1, <1>2, <1>3, PTL DEF Spec

-----------------------------------------------------------------------------
(* A task is archived only as its own history admits.                        *)

\* Only a settled teardown archives, and it has looked at the task's lifecycle,
\* its epoch and its resources in the same transaction.
LEMMA ArchivedBySettledClose ==
    ASSUME RowsInv, [Next]_vars, NEW t \in Tasks,
           task[t].life # "archived", task'[t].life = "archived"
    PROVE  /\ task[t].life = "closing"
           /\ \A r \in Resources : res[r].owner = t => res[r].life \notin {"active", "releasing"}
<1>0. TypeOK
  BY DEF RowsInv
<1>1. ASSUME NEW u \in Tasks,
             BeginCloseTask(u) \/ SettleTask(u) \/ ReopenTask(u) \/ DeleteTask(u)
      PROVE  FALSE
  <2>1. /\ \A v \in Tasks \ {u} : task'[v] = task[v]
        /\ task'[u].life \in {"closing", "settled", "open", "deleted"}
    BY <1>0, <1>1 DEF TypeOK, BeginCloseTask, SettleTask, ReopenTask, DeleteTask
  <2> QED BY <2>1
<1>2. CASE \/ \E u \in Tasks : SubmitProviderInput(u) \/ HoldBrowserHost(u)
           \/ \E r \in Resources : RegisterResource(r) \/ ReleaseResource(r)
           \/ Quiet
  BY <1>2 DEF SubmitProviderInput, HoldBrowserHost, RegisterResource, ReleaseResource, domainVars, Quiet
<1>3. ASSUME NEW o \in Ops, NEW outcome \in Outcomes, Delivers(o, outcome)
      PROVE  /\ task[t].life = "closing"
             /\ \A r \in Resources : res[r].owner = t => res[r].life \notin {"active", "releasing"}
  <2>1. /\ op[o].kind = "teardown" /\ outcome = "settled"
        /\ task' = [task EXCEPT ![op[o].task].life = "archived"]
    BY <1>3 DEF Delivers, ApplyResult
  <2>2. op[o].task = t
    BY <1>0, <2>1 DEF TypeOK
  <2> QED BY <1>3, <2>1, <2>2 DEF Delivers, CurrentOwner, HasLiveResources
<1> QED BY <1>1, <1>2, <1>3, WorkersDeliver DEF Next

\* Every step keeps archived tasks without runtime.
LEMMA NextKeepsArchived ==
    ASSUME RowsInv, ArchivedOwnsNothing, [Next]_vars
    PROVE  ArchivedOwnsNothing'
<1>0. TypeOK
  BY DEF RowsInv
<1> SUFFICES ASSUME NEW r \in Resources, task'[res'[r].owner].life \in {"archived", "deleted"}
             PROVE  res'[r].life \notin {"active", "releasing"}
  BY DEF ArchivedOwnsNothing
<1> DEFINE t == res[r].owner
<1>1. t \in Tasks /\ res[r].life \in ResStates
  BY <1>0 DEF TypeOK
<1>2. /\ res'[r].owner = t
      /\ task[t].life \in {"archived", "deleted"} \/ task'[t].life = "archived" =>
            res'[r].life \in {res[r].life, "released"}
      /\ task'[t].life \in {"archived", "deleted"} =>
            task'[t].life = "archived" \/ task[t].life \in {"archived", "deleted"}
  <2>1. ASSUME NEW u \in Tasks,
               BeginCloseTask(u) \/ SettleTask(u) \/ ReopenTask(u) \/ DeleteTask(u)
        PROVE  /\ UNCHANGED res
               /\ task'[t].life = "deleted" => task[t].life \in {"archived", "deleted"}
    <3>1. /\ UNCHANGED res
          /\ \A v \in Tasks \ {u} : task'[v] = task[v]
      BY <1>0, <2>1 DEF TypeOK, BeginCloseTask, SettleTask, ReopenTask, DeleteTask
    <3>2. task'[u].life = "deleted" => task[u].life = "archived"
      BY <1>0, <2>1 DEF TypeOK, BeginCloseTask, SettleTask, ReopenTask, DeleteTask
    <3> QED BY <1>1, <3>1, <3>2
  <2>2. CASE \/ \E u \in Tasks : SubmitProviderInput(u) \/ HoldBrowserHost(u)
             \/ Quiet
    BY <2>2 DEF SubmitProviderInput, HoldBrowserHost, domainVars, Quiet
  <2>3. ASSUME NEW q \in Resources, RegisterResource(q) \/ ReleaseResource(q)
        PROVE  /\ UNCHANGED task /\ res'[r].owner = t
               /\ task[t].life \in {"archived", "deleted"} => res'[r] = res[r]
    BY <1>0, <1>1, <2>3 DEF TypeOK, RegisterResource, ReleaseResource, RuntimeCapable
  <2>4. ASSUME NEW o \in Ops, NEW outcome \in Outcomes, Delivers(o, outcome)
        PROVE  /\ res'[r].owner = t /\ res'[r].life \in {res[r].life, "released"}
               /\ task'[t].life = task[t].life \/ task'[t].life = "archived"
    BY <1>0, <1>1, <2>4 DEF Delivers, ApplyResult, TypeOK
  <2> QED BY <2>1, <2>2, <2>3, <2>4, WorkersDeliver DEF Next
<1>3. CASE task[t].life \in {"archived", "deleted"}
  BY <1>1, <1>2, <1>3 DEF ArchivedOwnsNothing
<1>4. CASE task[t].life \notin {"archived", "deleted"}
  <2>1. task[t].life # "archived" /\ task'[t].life = "archived"
    BY <1>2, <1>4
  <2>2. res[r].life \notin {"active", "releasing"}
    BY <1>1, <2>1, ArchivedBySettledClose
  <2> QED BY <1>2, <2>1, <2>2
<1> QED BY <1>3, <1>4

\* An archived or deleted task owns no active or releasing resource: the close
\* looks at the resources in the transaction that archives, and an archived task
\* registers and releases nothing.
THEOREM ArchivedTasksOwnNothing == Spec => []ArchivedOwnsNothing
<1>1. Init => RowsInv /\ ArchivedOwnsNothing
  BY InitRows DEF Init, ArchivedOwnsNothing
<1>2. RowsInv /\ ArchivedOwnsNothing /\ [Next]_vars => RowsInv' /\ ArchivedOwnsNothing'
  BY NextKeepsRows, NextKeepsArchived
<1> QED BY <1>1, <1>2, PTL DEF Spec
=============================================================================
