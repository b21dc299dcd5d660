-------------------------- MODULE BudgetReservation --------------------------
(* The budget repository at the grain of row locks: each worker is a pooled  *)
(* connection running one reserve or reconcile transaction at READ           *)
(* COMMITTED.  A row lock is taken per step, in the order of the statement's *)
(* ORDER BY; the INSERTs and UPDATEs that follow touch only rows the         *)
(* transaction has locked or created, so they form one step with COMMIT.     *)
EXTENDS BudgetTerms, Sequences

CONSTANTS
    Workers,            \* pooled connections
    NoWorker,           \* no holder of a row lock
    RoleBypassesRls     \* the connection's role is exempt from row-level security

ASSUME WorkersAssumption ==
    /\ NoWorker \notin Workers
    /\ RoleBypassesRls \in BOOLEAN

VARIABLES
    limit,          \* the budget_limit rows: committed, reserved, blocked
    reservation,    \* the budget_reservation rows
    allocation,     \* budget_ids of the budget_reservation_allocation rows
    ledger,         \* the budget_ledger_entry rows, in commit order
    reservationLock, limitLock,     \* the row locks and their holders
    tx,             \* the transaction of each worker
    reply           \* what the worker's last call returned

vars == <<limit, reservation, allocation, ledger, reservationLock, limitLock, tx, reply>>
rows == <<limit, reservation, allocation, ledger>>
locks == <<reservationLock, limitLock>>

LimitRow == [committed: Int, reserved: Int, blocked: BOOLEAN]

LedgerEntry ==
    [kind: {"reserved", "committed", "overage"}, amount: Nat,
     receipt: Receipts \cup {NoReceipt}]

Idle == [phase |-> "idle"]

EmptyRow == [committed |-> 0, reserved |-> 0, blocked |-> FALSE]

\* read is what SELECT ... FOR UPDATE returned for each limit row locked so far.
Reserving(c, read) == [phase |-> "reserving", cmd |-> c, read |-> read]

Settling(c, receipt, actual) ==
    [phase |-> "settling", cmd |-> c, receipt |-> receipt, actual |-> actual]

Transaction ==
    {Idle}
    \cup [phase: {"reserving"}, cmd: Commands, read: [Budgets -> LimitRow]]
    \cup [phase: {"settling"}, cmd: Commands, receipt: Receipts, actual: Actuals]

Outcomes ==
    {"none", "RESERVED", "prior", "denied", "settled", "conflict",
     "unique_violation", "not_found", "unavailable"}

TypeOK ==
    /\ limit \in [Budgets -> LimitRow]
    /\ reservation \in [Commands -> Reservation]
    /\ allocation \in [Commands -> SUBSET Budgets]
    /\ ledger \in [Commands -> Seq(LedgerEntry)]
    /\ reservationLock \in [Commands -> Workers \cup {NoWorker}]
    /\ limitLock \in [Budgets -> Workers \cup {NoWorker}]
    /\ tx \in [Workers -> Transaction]
    /\ reply \in [Workers -> Outcomes]

Init ==
    /\ limit = [b \in Budgets |-> EmptyRow]
    /\ reservation = [c \in Commands |-> NoReservation]
    /\ allocation = [c \in Commands |-> {}]
    /\ ledger = [c \in Commands |-> <<>>]
    /\ reservationLock = [c \in Commands |-> NoWorker]
    /\ limitLock = [b \in Budgets |-> NoWorker]
    /\ tx = [w \in Workers |-> Idle]
    /\ reply = [w \in Workers |-> "none"]
-----------------------------------------------------------------------------
(* Transactions.  COMMIT and ROLLBACK release every row lock.                *)

Held(w) == {b \in Budgets : limitLock[b] = w}

\* Mutant: limit rows stay locked after the transaction.
ReleaseReservationOnly(w) ==
    /\ reservationLock' =
        [c \in Commands |-> IF reservationLock[c] = w THEN NoWorker ELSE reservationLock[c]]
    /\ UNCHANGED limitLock

Release(w) ==
    /\ reservationLock' =
        [c \in Commands |-> IF reservationLock[c] = w THEN NoWorker ELSE reservationLock[c]]
    /\ limitLock' = [b \in Budgets |-> IF limitLock[b] = w THEN NoWorker ELSE limitLock[b]]

End(w, outcome) ==
    /\ Release(w)
    /\ tx' = [tx EXCEPT ![w] = Idle]
    /\ reply' = [reply EXCEPT ![w] = outcome]

\* A call answered by its first statement holds no lock when it returns.
Answer(w, outcome) ==
    /\ reply' = [reply EXCEPT ![w] = outcome]
    /\ UNCHANGED <<rows, locks, tx>>

\* The limit row a transaction must lock next, in the order of its ORDER BY.
Wanted(w) ==
    IF tx[w].phase = "reserving" THEN Rows(tx[w].cmd) \ Held(w)
    ELSE IF tx[w].phase = "settling" THEN allocation[tx[w].cmd] \ Held(w)
    ELSE {}

IsNext(w, b) ==
    /\ b \in Wanted(w)
    /\ \A other \in Wanted(w) :
        IF tx[w].phase = "reserving" THEN ScopeRank[b] <= ScopeRank[other]
        ELSE b <= other
-----------------------------------------------------------------------------
(* reserve                                                                   *)

\* Mutant: the reservation row is read without FOR UPDATE.
RowReadUnlocked(c) == TRUE

\* FOR UPDATE waits while another transaction holds the reservation row.
RowFree(c) == reservationLock[c] = NoWorker

\* SELECT ... WHERE idempotency_key FOR UPDATE, which waits for a locked row.
ReserveCall(w, c) ==
    LET prior == {p \in Commands : Key[p] = Key[c] /\ reservation[p].state # "none"} IN
    /\ tx[w] = Idle
    /\ \A p \in prior : RowFree(p)
    /\ IF prior # {}
         THEN Answer(w, IF c \in prior THEN "prior" ELSE "conflict")
         ELSE /\ tx' = [tx EXCEPT ![w] = Reserving(c, [b \in Budgets |-> EmptyRow])]
              /\ reply' = [reply EXCEPT ![w] = "none"]
              /\ UNCHANGED <<rows, locks>>

\* SELECT ... FROM budget_limit ... ORDER BY scope_type, scope_id FOR UPDATE, and
\* SELECT ... FROM budget_limit WHERE budget_id FOR UPDATE for each allocation.
LockLimit(w) ==
    \E b \in Budgets :
        /\ IsNext(w, b)
        /\ limitLock[b] = NoWorker
        /\ limitLock' = [limitLock EXCEPT ![b] = w]
        /\ IF tx[w].phase = "reserving"
             THEN tx' = [tx EXCEPT ![w].read[b] = limit[b]]
             ELSE UNCHANGED tx
        /\ UNCHANGED <<rows, reservationLock, reply>>

\* Mutant: amounts held by open reservations are not subtracted.
AdmitIgnoringReserved(c, read) ==
    /\ Scopes[c] # {} /\ Scopes[c] \subseteq Budgets
    /\ \A b \in Scopes[c] :
        ~read[b].blocked /\ Limit[b] - read[b].committed >= Estimate[c]

\* admitBudget over the rows read, and the check that no scope key lacks a row.
AdmitBudget(c, read) ==
    /\ Scopes[c] # {} /\ Scopes[c] \subseteq Budgets
    /\ \A b \in Scopes[c] :
        /\ ~read[b].blocked
        /\ read[b].committed >= 0 /\ read[b].reserved >= 0
        /\ read[b].committed + read[b].reserved <= Limit[b]
        /\ Limit[b] - read[b].committed - read[b].reserved >= Estimate[c]

\* Mutant: only the primary key is unique.
CollidesOnId(c) == reservation[c].state # "none"

\* The INSERT meets a row committed since the lookup: UNIQUE(tenant_id, idempotency_key).
Collides(c) == KeyTaken(reservation, Key[c])

Admit(w) ==
    LET c == tx[w].cmd IN
    /\ tx[w].phase = "reserving" /\ Wanted(w) = {}
    /\ AdmitBudget(c, tx[w].read)
    /\ ~Collides(c)
    /\ reservation' = [reservation EXCEPT ![c].state = "reserved"]
    /\ limit' = [b \in Budgets |->
            IF b \in Rows(c) THEN [limit[b] EXCEPT !.reserved = @ + Estimate[c]] ELSE limit[b]]
    /\ allocation' = [allocation EXCEPT ![c] = Rows(c)]
    /\ ledger' = [ledger EXCEPT ![c] =
            Append(@, [kind |-> "reserved", amount |-> Estimate[c], receipt |-> NoReceipt])]
    \* The connection may be lost after COMMIT took effect: the caller sees an error.
    /\ \E outcome \in {"RESERVED", "unavailable"} : End(w, outcome)

Deny(w) ==
    /\ tx[w].phase = "reserving" /\ Wanted(w) = {}
    /\ ~AdmitBudget(tx[w].cmd, tx[w].read)
    /\ End(w, "denied")
    /\ UNCHANGED rows

InsertCollides(w) ==
    /\ tx[w].phase = "reserving" /\ Wanted(w) = {}
    /\ AdmitBudget(tx[w].cmd, tx[w].read)
    /\ Collides(tx[w].cmd)
    /\ End(w, "unique_violation")
    /\ UNCHANGED rows
-----------------------------------------------------------------------------
(* reconcile                                                                 *)

\* The first SELECT runs before set_config: under the row-level policies it
\* compares tenant_id with NULL and returns no row.
Visible(c) == RoleBypassesRls /\ reservation[c].state # "none"

ReconcileCall(w, c, receipt, actual) ==
    /\ tx[w] = Idle
    /\ RowFree(c)
    /\ IF ~Visible(c) THEN Answer(w, "not_found")
       ELSE IF reservation[c].state = "reserved"
         THEN /\ reservationLock' = [reservationLock EXCEPT ![c] = w]
              /\ tx' = [tx EXCEPT ![w] = Settling(c, receipt, actual)]
              /\ reply' = [reply EXCEPT ![w] = "none"]
              /\ UNCHANGED <<rows, limitLock>>
         ELSE Answer(w, IF reservation[c].receipt = receipt /\ reservation[c].actual = actual
                        THEN "prior" ELSE "conflict")

\* Mutants: release what was spent; compare the limit with committed cost alone;
\* recompute blocked instead of latching it.
SettledReleasingActual(b, c, actual) ==
    [committed |-> limit[b].committed + actual,
     reserved |-> limit[b].reserved - actual,
     blocked |-> limit[b].blocked]

SettledIgnoringReserved(b, c, actual) ==
    [committed |-> limit[b].committed + actual,
     reserved |-> limit[b].reserved - Estimate[c],
     blocked |-> limit[b].blocked \/ limit[b].committed + actual > Limit[b]]

SettledUnlatched(b, c, actual) ==
    [committed |-> limit[b].committed + actual,
     reserved |-> limit[b].reserved - Estimate[c],
     blocked |-> limit[b].committed + limit[b].reserved - Estimate[c] + actual > Limit[b]]

SettledRow(b, c, actual) ==
    [committed |-> limit[b].committed + actual,
     reserved |-> limit[b].reserved - Estimate[c],
     blocked |-> \/ limit[b].blocked
                 \/ limit[b].committed + limit[b].reserved - Estimate[c] + actual > Limit[b]]

\* Mutant: the ledger records the estimate.
EntryOfEstimate(c, receipt, actual) ==
    [kind |-> IF Outcome(c, actual) = "committed" THEN "committed" ELSE "overage",
     amount |-> Estimate[c], receipt |-> receipt]

SettlementEntry(c, receipt, actual) ==
    [kind |-> IF Outcome(c, actual) = "committed" THEN "committed" ELSE "overage",
     amount |-> actual, receipt |-> receipt]

Settle(w) ==
    LET c == tx[w].cmd  receipt == tx[w].receipt  actual == tx[w].actual IN
    /\ tx[w].phase = "settling" /\ Wanted(w) = {}
    /\ limit' = [b \in Budgets |->
            IF b \in allocation[c] THEN SettledRow(b, c, actual) ELSE limit[b]]
    /\ reservation' = [reservation EXCEPT ![c] =
            [state |-> Outcome(c, actual), actual |-> actual, receipt |-> receipt]]
    /\ ledger' = [ledger EXCEPT ![c] = Append(@, SettlementEntry(c, receipt, actual))]
    /\ UNCHANGED allocation
    /\ \E outcome \in {"settled", "unavailable"} : End(w, outcome)
-----------------------------------------------------------------------------
\* w waits for a row lock that v holds.
WaitsFor(w, v) ==
    \E b \in Budgets : IsNext(w, b) /\ limitLock[b] = v /\ v # w

Deadlocked(S) == \A w \in S : \E v \in S : WaitsFor(w, v)

\* PostgreSQL ends a cycle of waits by failing one of its transactions.
DeadlockVictim(w) ==
    /\ \E S \in SUBSET Workers : w \in S /\ Deadlocked(S)
    /\ End(w, "unavailable")
    /\ UNCHANGED rows

\* A lost connection, a timeout or a crash of the process: ROLLBACK.
Abort(w) ==
    /\ tx[w] # Idle
    /\ End(w, "unavailable")
    /\ UNCHANGED rows

Finish(w) == Admit(w) \/ Deny(w) \/ InsertCollides(w) \/ Settle(w)

Next ==
    \E w \in Workers :
        \/ \E c \in Commands : ReserveCall(w, c)
        \/ \E c \in Commands, receipt \in Receipts, actual \in Actuals :
                ReconcileCall(w, c, receipt, actual)
        \/ LockLimit(w)
        \/ Finish(w)
        \/ DeadlockVictim(w)
        \/ Abort(w)

Spec == Init /\ [][Next]_vars

\* A statement that can run runs; a waiter is queued on the row, so a lock that
\* is free again and again is granted; the deadlock detector ends every cycle.
Fairness ==
    \A w \in Workers :
        WF_vars(Finish(w)) /\ SF_vars(LockLimit(w)) /\ WF_vars(DeadlockVictim(w))

FairSpec == Spec /\ Fairness
-----------------------------------------------------------------------------
(* Properties                                                                *)

\* The columns the transactions add to and subtract from always hold the sums
\* they stand for, whatever interleaving, abort or lost COMMIT came before; the
\* CHECKs reserved_minor >= 0 and committed_minor >= 0 therefore never fire.
CountersMatchReservations ==
    \A b \in Budgets :
        /\ limit[b].reserved = HeldOn(reservation, b)
        /\ limit[b].committed = SpentOn(reservation, b)

\* Concurrent calls never admit more than a limit: the estimates of the open
\* reservations and what the settled ones used of theirs fit in it.  Only an
\* overage, cost beyond the reserved estimate, can exceed it.
AdmittedWithinLimit ==
    \A b \in Budgets :
        HeldOn(reservation, b)
          + SumFunctionOnSet([c \in Commands |-> Min({reservation[c].actual, Estimate[c]})],
                {c \in Commands : reservation[c].state \in Settled /\ b \in Rows(c)})
        <= Limit[b]

\* CHECK(committed_minor + reserved_minor <= limit_minor OR blocked) never fails
\* a COMMIT: the settlement that overdraws a budget blocks it.
OverdrawnIsBlocked ==
    \A b \in Budgets :
        limit[b].committed + limit[b].reserved > Limit[b] => limit[b].blocked

\* Two calls racing with one idempotency key leave at most one reservation.
OneReservationPerKey ==
    \A c, d \in Commands :
        /\ reservation[c].state # "none" /\ reservation[d].state # "none"
        /\ Key[c] = Key[d]
        => c = d

\* The append-only ledger tells the same story as the reservation row: one
\* 'reserved' entry when it opens and exactly one more, with its receipt, when
\* it is settled; an aborted transaction leaves no entry behind.
LedgerMatchesReservation ==
    \A c \in Commands :
        LET r == reservation[c]
            opened == [kind |-> "reserved", amount |-> Estimate[c], receipt |-> NoReceipt]
            closed == [kind |-> IF r.state = "committed" THEN "committed" ELSE "overage",
                       amount |-> r.actual, receipt |-> r.receipt]
        IN ledger[c] = CASE r.state = "none" -> <<>>
                         [] r.state = "reserved" -> <<opened>>
                         [] OTHER -> <<opened, closed>>

\* A settled reservation keeps its outcome, cost and receipt: of two receipts
\* reconciled concurrently for one reservation, exactly one is charged.
SettledOnce ==
    [][\A c \in Commands :
        reservation[c].state \in Settled => UNCHANGED reservation[c]]_vars

\* Every transaction ends, whatever cycle of row locks it runs into.
CallsComplete ==
    \A w \in Workers : tx[w] # Idle ~> tx[w] = Idle

\* The transactions implement the one-at-a-time ledger.
Abstract ==
    INSTANCE BudgetLedger WITH overdrawn <- {b \in Budgets : limit[b].blocked}

ImplementsLedger == Abstract!LedgerSpec
=============================================================================
