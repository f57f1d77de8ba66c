---------------------- MODULE KernelDispatchProperties ----------------------
(***************************************************************************)
(* What the kernel's dispatch machinery promises.  The names are those of  *)
(* the runs and theorems that establish them.                              *)
(***************************************************************************)
EXTENDS KernelDispatch

\* Every variable keeps its type: tokens name operations, columns their domain.
TypeOK ==
    /\ now \in 0 .. MaxTime
    /\ task \in [Tasks -> [life: TaskStates, epoch: Nat]]
    /\ res \in [Resources -> [owner: Tasks, life: ResStates]]
    /\ session \in [Tasks -> Sessions \cup {"closed"}]
    /\ op \in [Ops -> Operation]
    /\ row \in [Ops -> OutboxRow]
    /\ claims \subseteq Ops \X Nat
    /\ permits \subseteq Ops \X Nat \X (Nat \ {0})
    /\ lookups \subseteq Ops \X Nat \X Nat
    /\ crossed \subseteq permits
    /\ torn \subseteq Ops \X Nat \X (Nat \ {0})
    /\ absences \subseteq Ops \X Nat

\* No sequence of claims, releases, renewals, attempts, deferrals, recoveries and
\* lookups, in any interleaving and under any movement of the wall clock, writes a
\* live row that validate_nonterminal_outbox_dispatch_metadata would call corrupt.
LiveRowsPassValidator ==
    \A o \in Ops : op[o].state = "accepted" =>
        ValidNonterminalRow(row[o], op[o].kind, op[o].acceptedAt)

\* A row that was settled, failed or cancelled passes the terminal validator, so
\* the command's receipt can be replayed whatever the clock did in between.
FinishedRowsPassValidator ==
    \A o \in Ops : op[o].state \in Outcomes =>
        /\ row[o].state = op[o].state
        /\ ValidTerminalRow(row[o], op[o].acceptedAt, op[o].outcomeAt, op[o].reconciled)

\* An attempt recorded uncertain while the clock reads no earlier than its start
\* leaves a row the terminal validator accepts, however the clock was set back
\* and forth before: "both durable clocks must still precede uncertainty/finality"
\* (validate_terminal_outbox_dispatch_metadata).
UncertaintyPassesValidator ==
    [][\A o \in Ops :
          op[o].state # "uncertain" /\ op'[o].state = "uncertain" /\ row[o].started <= now =>
             /\ row'[o].state = "uncertain"
             /\ ValidTerminalRow(row'[o], op'[o].acceptedAt, op'[o].outcomeAt,
                                 op'[o].reconciled)]_vars

\* The same without the condition on the clock, as the validator demands of every
\* uncertain row.  A clock set back below the attempt's start breaks it.
UncertainRowsPassValidator ==
    \A o \in Ops : op[o].state = "uncertain" =>
        /\ row[o].state = "uncertain"
        /\ ValidTerminalRow(row[o], op[o].acceptedAt, op[o].outcomeAt, op[o].reconciled)

\* NoAutomaticRetry: however workers crash, stall past their lease, defer or are
\* recovered, at most one attempt takes an input past the boundary, and after it
\* no byte of that input is written again, whole or torn: every torn write of it
\* belongs to an earlier lease generation.
ProviderAtMostOnce ==
    \A p \in crossed :
        /\ \A q \in crossed : p[1] = q[1] => p = q
        /\ \A q \in torn : p[1] = q[1] => q[2] < p[2]

\* What defer_dispatch_before_boundary asks of its callers: an attempt of which any
\* byte may have been written is the input's last.  A torn first write breaks it.
NoByteTwice ==
    \A p \in crossed \cup torn, q \in crossed \cup torn : p[1] = q[1] => p = q

\* ReconcileBeforeRetry: a release is attempted again only after a lookup proved
\* that the attempt before it had no effect.
RetryNeedsAbsenceProof ==
    \A p \in permits : op[p[1]].kind = "release" /\ p[3] > 1 => <<p[1], p[3] - 1>> \in absences

\* An outcome is final: no late completion, recovery, lookup, retirement or reopen
\* rewrites an operation that is settled, failed, cancelled or uncertain.
OutcomesAreFinal ==
    [][\A o \in Ops : op[o].state \in Outcomes \cup {"uncertain"} =>
          op'[o] = op[o] /\ row'[o] = row[o]]_vars

\* A live lease is exclusive: while it runs nobody else advances the row's
\* generation (its holder may, when it hands a reconciliation back).
LiveLeaseIsExclusive ==
    [][\A o \in Ops : row'[o].gen # row[o].gen /\ row[o].lease > now =>
          row[o].state = "reconciling" /\ row'[o].state = "reconcile_required"]_vars

\* A task that is archived or deleted owns no runtime: none of its resources is
\* active or still being released, although releases, closes, reopenings and late
\* workers of either may interleave.
ArchivedOwnsNothing ==
    \A r \in Resources : task[res[r].owner].life \in {"archived", "deleted"} =>
        res[r].life \notin {"active", "releasing"}

\* An archive step is one the domain admits when the task's history is replayed:
\* the projector and apply_into must agree.  An open specialist breaks it.
ArchiveReplays ==
    [][\A t \in Tasks : task[t].life # "archived" /\ task'[t].life = "archived" =>
          DomainAdmitsArchive(t)]_vars

\* A teardown that has no outcome yet is the close its task is in: reopening a
\* task leaves no teardown behind that a slow worker could still archive it with.
AcceptedCloseIsCurrent ==
    \A o \in Ops : op[o].kind = "teardown" /\ op[o].state = "accepted" =>
        task[op[o].task].life = "closing" /\ task[op[o].task].epoch = op[o].epoch

\* A resource in release has exactly one release operation, which has not settled;
\* nothing else will ever finish the release.
ReleasingHasOneOperation ==
    \A r \in Resources : res[r].life = "releasing" =>
        \E o \in Ops : /\ op[o].kind = "release" /\ op[o].target = r
                       /\ op[o].state \in {"accepted", "failed", "cancelled"}
                       /\ \A p \in Ops : op[p].kind = "release" /\ op[p].target = r => p = o

\* The model's clock stops at MaxTime: leases and delays beyond it never end.
WithinHorizon(o) == row[o].avail <= MaxTime /\ row[o].lease <= MaxTime

\* An input whose worker died between begin and outcome is not left dispatching:
\* recovery records it uncertain even if the session closed or the epoch moved.
InterruptedInputConverges ==
    \A o \in Ops :
        (op[o].kind = "provider" /\ row[o].state = "dispatching" /\ WithinHorizon(o))
            ~> (row[o].state # "dispatching" \/ row[o].lease > MaxTime)

\* An undelivered input that can never be delivered because its epoch has passed.
Outlived(o) ==
    /\ op[o].kind = "provider" /\ op[o].state = "accepted"
    /\ row[o].state \in {"pending", "claimed"}
    /\ task[op[o].task].epoch > op[o].epoch
    /\ WithinHorizon(o)

\* An undelivered input whose task epoch has advanced while its session stays bound
\* is retired by the lane instead of being examined on every maintenance tick
\* forever, whatever is claimed, closed, reopened or rebound meanwhile.
StaleInputConverges ==
    \A o \in Ops :
        Outlived(o) ~> (op[o].state # "accepted" \/ session[op[o].task] # op[o].target)

\* The same of every session: breaks once the session is rebound or closed, which
\* the fence reports before it reads the epoch and does not call permanent.
EveryStaleInputConverges ==
    \A o \in Ops : Outlived(o) ~> op[o].state # "accepted"
=============================================================================
