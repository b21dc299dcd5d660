----------------------- MODULE BudgetReservationProofs -----------------------
(* Type correctness of the budget transactions, the lock discipline they     *)
(* keep, and what it protects: no budget is overdrawn unblocked, no          *)
(* reservation is settled twice, no idempotency key is reserved twice.  From *)
(* these: the counters hold the sums they stand for, admitted reservations   *)
(* fit their limits, the ledger tells the reservations, and the transactions *)
(* implement BudgetLedger.                                                   *)
EXTENDS BudgetReservation, BudgetSums, SequenceTheorems, TLAPS

\* The row type of a budget limit is closed under what a settlement writes.
LEMMA LimitRowUpdates ==
    ASSUME NEW row \in LimitRow, NEW n \in Int, NEW m \in Int, NEW p \in BOOLEAN
    PROVE  [committed |-> row.committed + n, reserved |-> row.reserved - m,
            blocked |-> p] \in LimitRow
    BY DEF LimitRow

\* Opening a reservation writes its state and leaves its other columns alone.
LEMMA OpenedRow ==
    ASSUME NEW row \in Reservation
    PROVE  /\ [row EXCEPT !.state = "reserved"] \in Reservation
           /\ [row EXCEPT !.state = "reserved"]
                = [state |-> "reserved", actual |-> row.actual, receipt |-> row.receipt]
<1> DEFINE actual == row.actual  receipt == row.receipt
<1>1. /\ row = [state |-> row.state, actual |-> actual, receipt |-> receipt]
      /\ actual \in Actuals \cup {0}
      /\ receipt \in Receipts \cup {NoReceipt}
    BY DEF Reservation
<1> HIDE DEF actual, receipt
<1>2. [row EXCEPT !.state = "reserved"]
        = [state |-> "reserved", actual |-> actual, receipt |-> receipt]
    BY <1>1
<1>3. [state |-> "reserved", actual |-> actual, receipt |-> receipt] \in Reservation
    BY <1>1 DEF Reservation
<1> QED BY <1>2, <1>3 DEF actual, receipt

\* The fields of a transaction, read off its phase.
LEMMA TransactionFields ==
    ASSUME NEW t \in Transaction
    PROVE  /\ t.phase \in {"idle", "reserving", "settling"}
           /\ t.phase = "idle" <=> t = Idle
           /\ t.phase = "reserving" => t.cmd \in Commands /\ t.read \in [Budgets -> LimitRow]
           /\ t.phase = "settling" =>
                t.cmd \in Commands /\ t.receipt \in Receipts /\ t.actual \in Actuals
    BY DEF Transaction, Idle

\* Ending a transaction keeps the types of the lock tables, tx and reply.
LEMMA EndTypes ==
    ASSUME TypeOK, NEW w \in Workers, NEW outcome \in Outcomes, End(w, outcome)
    PROVE  /\ reservationLock' \in [Commands -> Workers \cup {NoWorker}]
           /\ limitLock' \in [Budgets -> Workers \cup {NoWorker}]
           /\ tx' \in [Workers -> Transaction]
           /\ reply' \in [Workers -> Outcomes]
    BY DEF TypeOK, End, Release, Transaction

\* So does answering without a transaction.
LEMMA AnswerTypes ==
    ASSUME TypeOK, NEW w \in Workers, NEW outcome \in Outcomes, Answer(w, outcome)
    PROVE  TypeOK'
    BY DEF TypeOK, Answer, rows, locks

\* Every variable keeps its type: the counters stay integers, the rows records
\* of their table, the locks held by workers.
LEMMA TypeStep == TypeOK /\ [Next]_vars => TypeOK'
<1> SUFFICES ASSUME TypeOK, [Next]_vars PROVE TypeOK'
    OBVIOUS
<1> USE BudgetAssumption, WorkersAssumption
<1>1. ASSUME NEW w \in Workers, NEW c \in Commands, ReserveCall(w, c) PROVE TypeOK'
    <2>1. Reserving(c, [b \in Budgets |-> EmptyRow]) \in Transaction
        BY DEF Reserving, Transaction, LimitRow, EmptyRow
    <2>2. CASE \E outcome \in Outcomes : Answer(w, outcome)
        BY <2>2, AnswerTypes
    <2>3. CASE /\ tx' = [tx EXCEPT ![w] = Reserving(c, [b \in Budgets |-> EmptyRow])]
               /\ reply' = [reply EXCEPT ![w] = "none"]
               /\ UNCHANGED <<rows, locks>>
        BY <2>1, <2>3 DEF TypeOK, rows, locks, Outcomes
    <2> QED BY <1>1, <2>2, <2>3 DEF ReserveCall, Outcomes
<1>2. ASSUME NEW w \in Workers, NEW c \in Commands, NEW receipt \in Receipts,
             NEW actual \in Actuals, ReconcileCall(w, c, receipt, actual)
      PROVE  TypeOK'
    <2>1. Settling(c, receipt, actual) \in Transaction
        BY DEF Settling, Transaction
    <2>2. CASE \E outcome \in Outcomes : Answer(w, outcome)
        BY <2>2, AnswerTypes
    <2>3. CASE /\ reservationLock' = [reservationLock EXCEPT ![c] = w]
               /\ tx' = [tx EXCEPT ![w] = Settling(c, receipt, actual)]
               /\ reply' = [reply EXCEPT ![w] = "none"]
               /\ UNCHANGED <<rows, limitLock>>
        BY <2>1, <2>3 DEF TypeOK, rows, Outcomes
    <2> QED BY <1>2, <2>2, <2>3 DEF ReconcileCall, Outcomes
<1>3. ASSUME NEW w \in Workers, LockLimit(w) PROVE TypeOK'
    <2> PICK b \in Budgets : /\ limitLock' = [limitLock EXCEPT ![b] = w]
                             /\ IF tx[w].phase = "reserving"
                                  THEN tx' = [tx EXCEPT ![w].read[b] = limit[b]]
                                  ELSE UNCHANGED tx
        BY <1>3 DEF LockLimit
    <2>1. tx' \in [Workers -> Transaction]
        <3>1. CASE tx[w].phase = "reserving"
            <4>1. /\ tx[w] \in [phase: {"reserving"}, cmd: Commands,
                                read: [Budgets -> LimitRow]]
                  /\ limit[b] \in LimitRow
                BY <3>1 DEF TypeOK, Transaction, Idle
            <4>2. [tx[w] EXCEPT !.read[b] = limit[b]] \in Transaction
                BY <4>1 DEF Transaction
            <4> QED BY <3>1, <4>2 DEF TypeOK
        <3> QED BY <3>1 DEF TypeOK
    <2> QED BY <1>3, <2>1 DEF TypeOK, LockLimit, rows
<1>4. ASSUME NEW w \in Workers, Admit(w) PROVE TypeOK'
    <2> DEFINE c == tx[w].cmd
    <2>1. c \in Commands
        BY <1>4, TransactionFields DEF TypeOK, Admit
    <2>2. limit' \in [Budgets -> LimitRow]
        <3> SUFFICES ASSUME NEW b \in Budgets
                     PROVE  [limit[b] EXCEPT !.reserved = @ + Estimate[c]] \in LimitRow
            BY <1>4 DEF Admit, TypeOK
        <3>1. limit[b] \in LimitRow /\ Estimate[c] \in Int
            BY <2>1 DEF TypeOK
        <3> QED BY <3>1 DEF LimitRow
    <2>3. reservation' \in [Commands -> Reservation]
        <3>1. reservation' = [reservation EXCEPT ![c].state = "reserved"]
            BY <1>4 DEF Admit
        <3>2. [reservation[c] EXCEPT !.state = "reserved"] \in Reservation
            BY <2>1, OpenedRow DEF TypeOK
        <3> QED BY <3>1, <3>2 DEF TypeOK
    <2>4. allocation' \in [Commands -> SUBSET Budgets]
        BY <1>4, <2>1 DEF Admit, TypeOK, Rows
    <2>5. ledger' \in [Commands -> Seq(LedgerEntry)]
        <3>1. [kind |-> "reserved", amount |-> Estimate[c], receipt |-> NoReceipt]
                \in LedgerEntry
            BY <2>1 DEF LedgerEntry
        <3> QED BY <1>4, <2>1, <3>1 DEF Admit, TypeOK
    <2>6. \E outcome \in Outcomes : End(w, outcome)
        BY <1>4 DEF Admit, Outcomes
    <2> QED BY <2>2, <2>3, <2>4, <2>5, <2>6, EndTypes DEF TypeOK
<1>5. ASSUME NEW w \in Workers, Settle(w) PROVE TypeOK'
    <2> DEFINE c == tx[w].cmd  receipt == tx[w].receipt  actual == tx[w].actual
    <2>1. c \in Commands /\ receipt \in Receipts /\ actual \in Actuals /\ actual \in Nat
        BY <1>5, TransactionFields DEF TypeOK, Settle
    <2>2. limit' \in [Budgets -> LimitRow]
        <3> SUFFICES ASSUME NEW b \in Budgets PROVE SettledRow(b, c, actual) \in LimitRow
            BY <1>5 DEF Settle, TypeOK
        <3> DEFINE over == \/ limit[b].blocked
                           \/ limit[b].committed + limit[b].reserved - Estimate[c]
                                + actual > Limit[b]
        <3>1. over \in BOOLEAN
            BY DEF TypeOK, LimitRow
        <3>2. limit[b] \in LimitRow /\ Estimate[c] \in Int /\ actual \in Int
            BY <2>1 DEF TypeOK
        <3> HIDE DEF over
        <3>3. [committed |-> limit[b].committed + actual,
               reserved |-> limit[b].reserved - Estimate[c], blocked |-> over] \in LimitRow
            BY <3>1, <3>2, LimitRowUpdates
        <3> QED BY <3>3 DEF SettledRow, over
    <2>3. reservation' \in [Commands -> Reservation]
        <3>1. [state |-> Outcome(c, actual), actual |-> actual, receipt |-> receipt]
                \in Reservation
            BY <2>1 DEF Reservation, Outcome, Settled
        <3> QED BY <1>5, <3>1 DEF Settle, TypeOK
    <2>4. ledger' \in [Commands -> Seq(LedgerEntry)]
        <3>1. SettlementEntry(c, receipt, actual) \in LedgerEntry
            BY <2>1 DEF SettlementEntry, LedgerEntry
        <3> QED BY <1>5, <2>1, <3>1 DEF Settle, TypeOK
    <2>5. allocation' = allocation /\ \E outcome \in Outcomes : End(w, outcome)
        BY <1>5 DEF Settle, Outcomes
    <2> QED BY <2>2, <2>3, <2>4, <2>5, EndTypes DEF TypeOK
<1>6. ASSUME NEW w \in Workers,
             Deny(w) \/ InsertCollides(w) \/ DeadlockVictim(w) \/ Abort(w)
      PROVE  TypeOK'
    <2>1. UNCHANGED rows /\ \E outcome \in Outcomes : End(w, outcome)
        BY <1>6 DEF Deny, InsertCollides, DeadlockVictim, Abort, Outcomes
    <2> QED BY <2>1, EndTypes DEF TypeOK, rows
<1>7. CASE UNCHANGED vars
    BY <1>7 DEF TypeOK, vars
<1> QED BY <1>1, <1>2, <1>3, <1>4, <1>5, <1>6, <1>7 DEF Next, Finish

THEOREM TypeCorrect == Spec => []TypeOK
<1>1. Init => TypeOK
    BY BudgetAssumption, WorkersAssumption
       DEF Init, TypeOK, LimitRow, EmptyRow, Reservation, NoReservation, Transaction, Outcomes
<1> QED BY <1>1, TypeStep, PTL DEF Spec
-----------------------------------------------------------------------------
(* The lock discipline: a row lock belongs to a transaction that is running  *)
(* on that row, what reserve read under its locks is still what the rows     *)
(* hold, and a reservation being settled is still open.                      *)
LockDiscipline ==
    /\ \A b \in Budgets, w \in Workers : limitLock[b] = w =>
         \/ /\ tx[w].phase = "reserving"
            /\ tx[w].read[b] = limit[b]
         \/ tx[w].phase = "settling"
    /\ \A c \in Commands, w \in Workers :
         tx[w].phase = "settling" /\ tx[w].cmd = c =>
            reservationLock[c] = w /\ reservation[c].state = "reserved"

BudgetInv ==
    TypeOK /\ LockDiscipline /\ OverdrawnIsBlocked /\ OneReservationPerKey

\* A transaction that stays in its phase with the same locks and rows keeps
\* the discipline; the steps that only answer or roll back are of this kind.
LEMMA RollbackKeepsDiscipline ==
    ASSUME TypeOK, LockDiscipline, NEW w \in Workers, NEW outcome,
           End(w, outcome), UNCHANGED <<limit, reservation>>
    PROVE  LockDiscipline'
<1> USE WorkersAssumption
<1>1. \A v \in Workers : v # w => tx'[v] = tx[v]
    BY DEF End, TypeOK
<1>2. tx'[w].phase = "idle"
    BY DEF End, TypeOK, Idle
<1>3. \A b \in Budgets : limitLock'[b] # w /\ (limitLock'[b] = limitLock[b] \/ limitLock'[b] = NoWorker)
    BY DEF End, Release, TypeOK
<1>4. \A c \in Commands, v \in Workers :
        v # w /\ reservationLock[c] = v => reservationLock'[c] = v
    BY DEF End, Release, TypeOK
<1>5. ASSUME NEW b \in Budgets, NEW v \in Workers, limitLock'[b] = v
      PROVE  \/ tx'[v].phase = "reserving" /\ tx'[v].read[b] = limit'[b]
             \/ tx'[v].phase = "settling"
    BY <1>1, <1>3, <1>5 DEF LockDiscipline
<1>6. ASSUME NEW d \in Commands, NEW v \in Workers,
             tx'[v].phase = "settling", tx'[v].cmd = d
      PROVE  reservationLock'[d] = v /\ reservation'[d].state = "reserved"
    BY <1>1, <1>2, <1>4, <1>6 DEF LockDiscipline
<1> QED BY <1>5, <1>6 DEF LockDiscipline

\* What a committing transaction writes, seen by the others: it changes only
\* limit rows it has locked and the reservation it created or has locked.
LEMMA CommitKeepsDiscipline ==
    ASSUME TypeOK, LockDiscipline, NEW w \in Workers, NEW outcome, NEW c \in Commands,
           End(w, outcome),
           \A b \in Budgets : limitLock[b] # w => limit'[b] = limit[b],
           \A d \in Commands : d # c => reservation'[d] = reservation[d],
           \A v \in Workers : v # w => ~(tx[v].phase = "settling" /\ tx[v].cmd = c)
    PROVE  LockDiscipline'
<1> USE WorkersAssumption
<1>1. \A v \in Workers : v # w => tx'[v] = tx[v]
    BY DEF End, TypeOK
<1>2. tx'[w].phase = "idle"
    BY DEF End, TypeOK, Idle
<1>3. \A b \in Budgets, v \in Workers :
        limitLock'[b] = v => v # w /\ limitLock[b] = v /\ limit'[b] = limit[b]
    BY DEF End, Release, TypeOK
<1>4. \A d \in Commands, v \in Workers :
        v # w /\ reservationLock[d] = v => reservationLock'[d] = v
    BY DEF End, Release, TypeOK
<1>5. ASSUME NEW b \in Budgets, NEW v \in Workers, limitLock'[b] = v
      PROVE  \/ tx'[v].phase = "reserving" /\ tx'[v].read[b] = limit'[b]
             \/ tx'[v].phase = "settling"
    BY <1>1, <1>3, <1>5 DEF LockDiscipline
<1>6. ASSUME NEW d \in Commands, NEW v \in Workers,
             tx'[v].phase = "settling", tx'[v].cmd = d
      PROVE  reservationLock'[d] = v /\ reservation'[d].state = "reserved"
    <2>1. v # w /\ tx[v].phase = "settling" /\ tx[v].cmd = d /\ d # c
        BY <1>1, <1>2, <1>6
    <2> QED BY <2>1, <1>4 DEF LockDiscipline
<1> QED BY <1>5, <1>6 DEF LockDiscipline

LEMMA InitBudgetInv == Init => BudgetInv
<1> SUFFICES ASSUME Init PROVE BudgetInv
    OBVIOUS
<1> USE BudgetAssumption, WorkersAssumption
<1>1. TypeOK
    BY DEF Init, TypeOK, LimitRow, EmptyRow, Reservation, NoReservation, Transaction, Outcomes
<1>2. LockDiscipline
    BY DEF Init, LockDiscipline, Idle
<1>3. OverdrawnIsBlocked
    BY DEF Init, OverdrawnIsBlocked, EmptyRow
<1>4. OneReservationPerKey
    BY DEF Init, OneReservationPerKey, NoReservation
<1> QED BY <1>1, <1>2, <1>3, <1>4 DEF BudgetInv
-----------------------------------------------------------------------------
(* Each action keeps the inductive invariant.                                *)

LEMMA ReserveCallStep ==
    ASSUME TypeOK, BudgetInv, NEW w \in Workers, NEW c \in Commands, ReserveCall(w, c)
    PROVE  LockDiscipline' /\ OverdrawnIsBlocked' /\ OneReservationPerKey'
<1> USE WorkersAssumption
<1>1. UNCHANGED <<limit, reservation, reservationLock, limitLock>>
    BY DEF ReserveCall, Answer, rows, locks
<1>2. \A v \in Workers : v # w => tx'[v] = tx[v]
    BY DEF ReserveCall, Answer, TypeOK
<1>3. tx[w] = Idle /\ tx'[w].phase # "settling"
    BY DEF ReserveCall, Answer, TypeOK, Idle, Reserving
<1>4. \A b \in Budgets : limitLock[b] # w
    BY <1>3 DEF BudgetInv, LockDiscipline, Idle
<1>5. LockDiscipline'
    BY <1>1, <1>2, <1>3, <1>4 DEF BudgetInv, LockDiscipline
<1> QED BY <1>1, <1>5 DEF BudgetInv, OverdrawnIsBlocked, OneReservationPerKey

LEMMA ReconcileCallStep ==
    ASSUME TypeOK, BudgetInv, NEW w \in Workers, NEW c \in Commands, NEW receipt \in Receipts,
           NEW actual \in Actuals, ReconcileCall(w, c, receipt, actual)
    PROVE  LockDiscipline' /\ OverdrawnIsBlocked' /\ OneReservationPerKey'
<1> USE WorkersAssumption
<1>1. UNCHANGED <<limit, reservation, limitLock>>
    BY DEF ReconcileCall, Answer, rows, locks
<1>2. \A v \in Workers : v # w => tx'[v] = tx[v]
    BY DEF ReconcileCall, Answer, TypeOK
<1>3. tx[w] = Idle /\ RowFree(c)
    BY DEF ReconcileCall
<1>4. \A b \in Budgets : limitLock[b] # w
    BY <1>3 DEF BudgetInv, LockDiscipline, Idle
<1>5. \A d \in Commands, v \in Workers :
        v # w /\ reservationLock[d] = v => reservationLock'[d] = v
    BY <1>3 DEF ReconcileCall, Answer, locks, TypeOK, RowFree
<1>6. tx'[w].phase = "settling" =>
        tx'[w].cmd = c /\ reservationLock'[c] = w /\ reservation[c].state = "reserved"
    BY <1>3 DEF ReconcileCall, Answer, TypeOK, Idle, Settling
<1>7. LockDiscipline'
    <2>1. ASSUME NEW b \in Budgets, NEW v \in Workers, limitLock'[b] = v
          PROVE  \/ tx'[v].phase = "reserving" /\ tx'[v].read[b] = limit'[b]
                 \/ tx'[v].phase = "settling"
        BY <2>1, <1>1, <1>2, <1>4 DEF BudgetInv, LockDiscipline
    <2>2. ASSUME NEW d \in Commands, NEW v \in Workers,
                 tx'[v].phase = "settling", tx'[v].cmd = d
          PROVE  reservationLock'[d] = v /\ reservation'[d].state = "reserved"
        BY <2>2, <1>1, <1>2, <1>5, <1>6 DEF BudgetInv, LockDiscipline
    <2> QED BY <2>1, <2>2 DEF LockDiscipline
<1> QED BY <1>1, <1>7 DEF BudgetInv, OverdrawnIsBlocked, OneReservationPerKey

LEMMA LockLimitStep ==
    ASSUME TypeOK, BudgetInv, NEW w \in Workers, LockLimit(w)
    PROVE  LockDiscipline' /\ OverdrawnIsBlocked' /\ OneReservationPerKey'
<1> USE WorkersAssumption
<1> PICK b \in Budgets : /\ IsNext(w, b)
                         /\ limitLock[b] = NoWorker
                         /\ limitLock' = [limitLock EXCEPT ![b] = w]
                         /\ IF tx[w].phase = "reserving"
                              THEN tx' = [tx EXCEPT ![w].read[b] = limit[b]]
                              ELSE UNCHANGED tx
    BY DEF LockLimit
<1>1. UNCHANGED <<limit, reservation, reservationLock>>
    BY DEF LockLimit, rows
<1>2. \A v \in Workers : v # w => tx'[v] = tx[v]
    BY DEF TypeOK
<1>3. tx[w].phase \in {"reserving", "settling"}
    BY DEF IsNext, Wanted
<1>4. CASE tx[w].phase = "reserving"
    <2>1. /\ tx[w] \in [phase: {"reserving"}, cmd: Commands, read: [Budgets -> LimitRow]]
          /\ tx'[w] = [tx[w] EXCEPT !.read[b] = limit[b]]
        BY <1>4 DEF TypeOK, Transaction, Idle
    <2>2. /\ tx'[w].phase = "reserving"
          /\ tx'[w].read[b] = limit[b]
          /\ \A d \in Budgets : d # b => tx'[w].read[d] = tx[w].read[d]
        BY <2>1
    <2>3. ASSUME NEW d \in Budgets, NEW v \in Workers, limitLock'[d] = v
          PROVE  \/ tx'[v].phase = "reserving" /\ tx'[v].read[d] = limit'[d]
                 \/ tx'[v].phase = "settling"
        <3>1. CASE d = b
            BY <2>2, <2>3, <3>1, <1>1 DEF TypeOK
        <3>2. CASE d # b /\ v = w
            <4>1. limitLock[d] = w
                BY <2>3, <3>2 DEF TypeOK
            <4> QED BY <4>1, <3>2, <2>2, <1>1, <1>4 DEF BudgetInv, LockDiscipline
        <3>3. CASE d # b /\ v # w
            <4>1. limitLock[d] = v
                BY <2>3, <3>3 DEF TypeOK
            <4> QED BY <4>1, <3>3, <1>1, <1>2 DEF BudgetInv, LockDiscipline
        <3> QED BY <3>1, <3>2, <3>3
    <2> QED BY <2>2, <2>3, <1>1, <1>2 DEF BudgetInv, LockDiscipline, OverdrawnIsBlocked,
                                         OneReservationPerKey
<1>5. CASE tx[w].phase = "settling"
    <2>1. UNCHANGED tx /\ \A d \in Budgets : limitLock'[d] = limitLock[d] \/ limitLock'[d] = w
        BY <1>5 DEF TypeOK
    <2> QED BY <2>1, <1>1, <1>5 DEF BudgetInv, LockDiscipline, OverdrawnIsBlocked,
                                   OneReservationPerKey
<1> QED BY <1>3, <1>4, <1>5

\* The rows a transaction with nothing left to lock works on are all locked by it.
LEMMA AllLocked ==
    ASSUME NEW w \in Workers, Wanted(w) = {}
    PROVE  /\ tx[w].phase = "reserving" =>
                \A b \in Rows(tx[w].cmd) : b \in Budgets /\ limitLock[b] = w
           /\ tx[w].phase = "settling" =>
                \A b \in Budgets : b \in allocation[tx[w].cmd] => limitLock[b] = w
    BY DEF Wanted, Held, Rows

LEMMA AdmitStep ==
    ASSUME TypeOK, BudgetInv, NEW w \in Workers, Admit(w)
    PROVE  LockDiscipline' /\ OverdrawnIsBlocked' /\ OneReservationPerKey'
<1> USE BudgetAssumption, WorkersAssumption
<1> DEFINE c == tx[w].cmd  read == tx[w].read
<1>1. tx[w].phase = "reserving" /\ Wanted(w) = {} /\ AdmitBudget(c, read) /\ ~Collides(c)
    BY DEF Admit
<1>2. c \in Commands
    BY <1>1, TransactionFields DEF TypeOK
<1>3. \A b \in Rows(c) : b \in Budgets /\ limitLock[b] = w /\ read[b] = limit[b]
    <2>1. \A b \in Rows(c) : b \in Budgets /\ limitLock[b] = w
        BY <1>1, AllLocked
    <2>2. ASSUME NEW b \in Budgets, limitLock[b] = w
          PROVE  read[b] = limit[b]
        BY <1>1, <2>2 DEF BudgetInv, LockDiscipline
    <2> QED BY <2>1, <2>2
<1>4. PICK outcome : End(w, outcome)
    BY DEF Admit
<1>5. /\ \A b \in Budgets : b \notin Rows(c) => limit'[b] = limit[b]
      /\ \A b \in Rows(c) : limit'[b] = [limit[b] EXCEPT !.reserved = @ + Estimate[c]]
    BY <1>3 DEF Admit, Rows
<1>6. /\ reservation[c].state = "none"
      /\ reservation' = [reservation EXCEPT ![c].state = "reserved"]
      /\ \A d \in Commands : Key[d] = Key[c] => reservation[d].state = "none"
    BY <1>1, <1>2 DEF Collides, KeyTaken, Admit
<1>7. LockDiscipline'
    <2>1. \A b \in Budgets : limitLock[b] # w => limit'[b] = limit[b]
        BY <1>3, <1>5
    <2>2. \A d \in Commands : d # c => reservation'[d] = reservation[d]
        BY <1>6 DEF TypeOK
    <2>3. \A v \in Workers : v # w => ~(tx[v].phase = "settling" /\ tx[v].cmd = c)
        BY <1>2, <1>6 DEF BudgetInv, LockDiscipline
    <2> QED BY <1>2, <1>4, <2>1, <2>2, <2>3, CommitKeepsDiscipline DEF BudgetInv
<1>8. OverdrawnIsBlocked'
    <2> SUFFICES ASSUME NEW b \in Budgets
                 PROVE  (limit[b].committed + limit[b].reserved > Limit[b] => limit[b].blocked)'
        BY DEF OverdrawnIsBlocked
    <2>1. CASE b \in Rows(c)
        <3>1. limit[b] \in LimitRow /\ Limit[b] \in Nat /\ Estimate[c] \in Nat
            BY <1>2 DEF TypeOK
        <3>2. Limit[b] - limit[b].committed - limit[b].reserved >= Estimate[c]
            BY <1>1, <1>3, <2>1 DEF AdmitBudget, Rows
        <3>3. /\ limit'[b].committed = limit[b].committed
              /\ limit'[b].reserved = limit[b].reserved + Estimate[c]
            BY <1>5, <2>1, <3>1 DEF LimitRow
        <3> QED BY <3>1, <3>2, <3>3 DEF LimitRow
    <2>2. CASE b \notin Rows(c)
        BY <1>5, <2>2 DEF BudgetInv, OverdrawnIsBlocked
    <2> QED BY <2>1, <2>2
<1>9. OneReservationPerKey'
    BY <1>2, <1>6 DEF BudgetInv, OneReservationPerKey, TypeOK
<1> QED BY <1>7, <1>8, <1>9

LEMMA SettleStep ==
    ASSUME TypeOK, BudgetInv, NEW w \in Workers, Settle(w)
    PROVE  LockDiscipline' /\ OverdrawnIsBlocked' /\ OneReservationPerKey'
<1> USE BudgetAssumption, WorkersAssumption
<1> DEFINE c == tx[w].cmd  receipt == tx[w].receipt  actual == tx[w].actual
<1>1. tx[w].phase = "settling" /\ Wanted(w) = {}
    BY DEF Settle
<1>2. c \in Commands /\ actual \in Nat
    BY <1>1, TransactionFields DEF TypeOK
<1>3. \A b \in Budgets : b \in allocation[c] => limitLock[b] = w
    BY <1>1, AllLocked
<1>4. PICK outcome : End(w, outcome)
    BY DEF Settle
<1>5. /\ \A b \in Budgets : b \notin allocation[c] => limit'[b] = limit[b]
      /\ \A b \in Budgets : b \in allocation[c] => limit'[b] = SettledRow(b, c, actual)
    BY DEF Settle
<1>6. /\ reservation[c].state = "reserved" /\ reservationLock[c] = w
      /\ \A d \in Commands : d # c => reservation'[d] = reservation[d]
    BY <1>1, <1>2 DEF BudgetInv, LockDiscipline, Settle, TypeOK
<1>7. LockDiscipline'
    <2>1. \A b \in Budgets : limitLock[b] # w => limit'[b] = limit[b]
        BY <1>3, <1>5
    <2>2. \A v \in Workers : v # w => ~(tx[v].phase = "settling" /\ tx[v].cmd = c)
        BY <1>2, <1>6 DEF BudgetInv, LockDiscipline
    <2> QED BY <1>2, <1>4, <1>6, <2>1, <2>2, CommitKeepsDiscipline DEF BudgetInv
<1>8. OverdrawnIsBlocked'
    <2> SUFFICES ASSUME NEW b \in Budgets
                 PROVE  (limit[b].committed + limit[b].reserved > Limit[b] => limit[b].blocked)'
        BY DEF OverdrawnIsBlocked
    <2>1. CASE b \in allocation[c]
        <3>1. /\ limit[b].committed \in Int /\ limit[b].reserved \in Int
              /\ Limit[b] \in Int /\ Estimate[c] \in Int
            BY <1>2 DEF TypeOK, LimitRow
        <3> DEFINE over == limit[b].committed + limit[b].reserved - Estimate[c] + actual > Limit[b]
        <3>2. limit'[b] = [committed |-> limit[b].committed + actual,
                           reserved |-> limit[b].reserved - Estimate[c],
                           blocked |-> limit[b].blocked \/ over]
            BY <1>5, <2>1 DEF SettledRow
        <3>4. (limit[b].blocked \/ over) => limit'[b].blocked
            <4> DEFINE latched == limit[b].blocked \/ over
            <4>1. limit'[b].blocked = latched
                <5>1. limit'[b] = [committed |-> limit[b].committed + actual,
                                   reserved |-> limit[b].reserved - Estimate[c],
                                   blocked |-> latched]
                    BY <3>2
                <5> HIDE DEF latched
                <5> QED BY <5>1
            <4> QED BY <4>1
        <3>3. limit'[b].committed + limit'[b].reserved
                = limit[b].committed + limit[b].reserved - Estimate[c] + actual
            BY <1>2, <3>1, <3>2
        <3>5. limit'[b].committed + limit'[b].reserved > Limit[b] => over
            BY <3>3
        <3> QED BY <3>4, <3>5
    <2>2. CASE b \notin allocation[c]
        BY <1>5, <2>2 DEF BudgetInv, OverdrawnIsBlocked
    <2> QED BY <2>1, <2>2
<1>9. OneReservationPerKey'
    BY <1>6 DEF BudgetInv, OneReservationPerKey
<1> QED BY <1>7, <1>8, <1>9

LEMMA BudgetInvStep == BudgetInv /\ [Next]_vars => BudgetInv'
<1> SUFFICES ASSUME BudgetInv, [Next]_vars PROVE BudgetInv'
    OBVIOUS
<1>1. TypeOK /\ TypeOK'
    BY TypeStep DEF BudgetInv
<1>2. ASSUME NEW w \in Workers,
             Deny(w) \/ InsertCollides(w) \/ DeadlockVictim(w) \/ Abort(w)
      PROVE  LockDiscipline' /\ OverdrawnIsBlocked' /\ OneReservationPerKey'
    <2>1. UNCHANGED <<limit, reservation>> /\ \E outcome : End(w, outcome)
        BY <1>2 DEF Deny, InsertCollides, DeadlockVictim, Abort, rows
    <2>2. LockDiscipline'
        BY <1>1, <2>1, RollbackKeepsDiscipline DEF BudgetInv
    <2> QED BY <2>1, <2>2 DEF BudgetInv, OverdrawnIsBlocked, OneReservationPerKey
<1>3. CASE UNCHANGED vars
    BY <1>1, <1>3 DEF BudgetInv, vars, LockDiscipline, OverdrawnIsBlocked, OneReservationPerKey
<1>4. ASSUME NEW w \in Workers,
             \/ \E c \in Commands : ReserveCall(w, c)
             \/ \E c \in Commands, receipt \in Receipts, actual \in Actuals :
                    ReconcileCall(w, c, receipt, actual)
             \/ LockLimit(w)
      PROVE  LockDiscipline' /\ OverdrawnIsBlocked' /\ OneReservationPerKey'
    BY <1>1, <1>4, ReserveCallStep, ReconcileCallStep, LockLimitStep
<1>5. ASSUME NEW w \in Workers, Admit(w) \/ Settle(w)
      PROVE  LockDiscipline' /\ OverdrawnIsBlocked' /\ OneReservationPerKey'
    BY <1>1, <1>5, AdmitStep, SettleStep
<1> QED BY <1>1, <1>2, <1>3, <1>4, <1>5 DEF BudgetInv, Next, Finish

\* The constraint committed + reserved <= limit OR blocked holds of every
\* committed row, for any budgets, commands and number of connections.
THEOREM OverdrawnBlocks == Spec => []OverdrawnIsBlocked
    BY InitBudgetInv, BudgetInvStep, PTL DEF Spec, BudgetInv

\* However many calls race with one idempotency key, one reservation results.
THEOREM KeyReservedOnce == Spec => []OneReservationPerKey
    BY InitBudgetInv, BudgetInvStep, PTL DEF Spec, BudgetInv

\* A settled reservation never changes again: its lock lets one receipt through.
THEOREM SettledForGood == Spec => SettledOnce
<1>1. BudgetInv /\ [Next]_vars =>
        [\A c \in Commands : reservation[c].state \in Settled => UNCHANGED reservation[c]]_vars
    <2> SUFFICES ASSUME BudgetInv, Next, NEW c \in Commands, reservation[c].state \in Settled
                 PROVE  UNCHANGED reservation[c]
        OBVIOUS
    <2>1. ASSUME NEW w \in Workers, Admit(w) PROVE UNCHANGED reservation[c]
        <3>1. tx[w].cmd \in Commands /\ reservation[tx[w].cmd].state = "none"
            BY <2>1, TransactionFields DEF BudgetInv, TypeOK, Admit, Collides, KeyTaken
        <3> QED BY <2>1, <3>1 DEF Admit, BudgetInv, TypeOK, Settled
    <2>2. ASSUME NEW w \in Workers, Settle(w) PROVE UNCHANGED reservation[c]
        <3>1. tx[w].cmd \in Commands /\ reservation[tx[w].cmd].state = "reserved"
            BY <2>2, TransactionFields DEF BudgetInv, TypeOK, Settle, LockDiscipline
        <3> QED BY <2>2, <3>1 DEF Settle, BudgetInv, TypeOK, Settled
    <2>3. ASSUME NEW w \in Workers,
                 \/ \E d \in Commands : ReserveCall(w, d)
                 \/ \E d \in Commands, receipt \in Receipts, actual \in Actuals :
                        ReconcileCall(w, d, receipt, actual)
                 \/ LockLimit(w)
          PROVE  UNCHANGED reservation
        BY <2>3 DEF ReserveCall, ReconcileCall, Answer, LockLimit, rows
    <2>4. ASSUME NEW w \in Workers,
                 Deny(w) \/ InsertCollides(w) \/ DeadlockVictim(w) \/ Abort(w)
          PROVE  UNCHANGED reservation
        BY <2>4 DEF Deny, InsertCollides, DeadlockVictim, Abort, rows
    <2> QED BY <2>1, <2>2, <2>3, <2>4 DEF Next, Finish
<1> QED BY <1>1, InitBudgetInv, BudgetInvStep, PTL DEF Spec, SettledOnce
-----------------------------------------------------------------------------
(* The tables that only commits write: counters, allocations and ledger.     *)

\* The two entries a reservation leaves in the ledger.
LEMMA SecondEntry ==
    ASSUME NEW a, NEW b
    PROVE  Append(<<a>>, b) = <<a, b>>
<1> DEFINE S == {a, b}
<1>1. <<a>> \in Seq(S) /\ Len(<<a>>) = 1 /\ <<a, b>> \in Seq(S) /\ Len(<<a, b>>) = 2
    OBVIOUS
<1>2. /\ Append(<<a>>, b) \in Seq(S) /\ Len(Append(<<a>>, b)) = 2
      /\ Append(<<a>>, b)[1] = a /\ Append(<<a>>, b)[2] = b
    BY <1>1, AppendProperties
<1>3. \A i \in 1..2 : Append(<<a>>, b)[i] = <<a, b>>[i]
    BY <1>2
<1> QED BY <1>1, <1>2, <1>3, SeqEqual

\* The allocation rows of a reservation name the limit rows its scopes have.
AllocationsFollowScopes ==
    \A c \in Commands : reservation[c].state # "none" => allocation[c] = Rows(c)

TallyInv ==
    /\ AllocationsFollowScopes
    /\ CountersMatchReservations
    /\ AdmittedWithinLimit
    /\ LedgerMatchesReservation

\* What AdmittedWithinLimit and CountersMatchReservations say, by name.
LEMMA TallyNames ==
    ASSUME NEW b \in Budgets
    PROVE  /\ CountersMatchReservations => limit[b].reserved = HeldOn(reservation, b)
                                        /\ limit[b].committed = SpentOn(reservation, b)
           /\ AdmittedWithinLimit =>
                HeldOn(reservation, b) + UsedOn(reservation, b) <= Limit[b]
    BY DEF CountersMatchReservations, AdmittedWithinLimit, UsedOn, UsedOf, SettledOn

\* No row, no entry: every sum is 0.
LEMMA TallyInit == Init => TallyInv
<1> SUFFICES ASSUME Init PROVE TallyInv
    OBVIOUS
<1>1. \A c \in Commands : reservation[c].state = "none"
    BY DEF Init, NoReservation
<1>2. ASSUME NEW b \in Budgets
      PROVE  OpenOn(reservation, b) = {} /\ SettledOn(reservation, b) = {}
    BY <1>1 DEF OpenOn, SettledOn, Settled
<1>3. ASSUME NEW b \in Budgets
      PROVE  /\ HeldOn(reservation, b) = 0 /\ SpentOn(reservation, b) = 0
             /\ UsedOn(reservation, b) = 0
    BY <1>2, SumEmpty, SumsNamed DEF UsedOn
<1>4. CountersMatchReservations
    BY <1>3 DEF Init, EmptyRow, CountersMatchReservations
<1>5. AdmittedWithinLimit
    <2> SUFFICES ASSUME NEW b \in Budgets
                 PROVE  HeldOn(reservation, b) + UsedOn(reservation, b) <= Limit[b]
        BY DEF AdmittedWithinLimit, UsedOn, UsedOf, SettledOn
    <2>1. Limit[b] \in Nat
        BY BudgetAssumption
    <2> QED BY <1>3, <2>1
<1>6. LedgerMatchesReservation
    BY <1>1 DEF Init, LedgerMatchesReservation
<1> QED BY <1>1, <1>4, <1>5, <1>6 DEF TallyInv, AllocationsFollowScopes

\* The commit of reserve adds the estimate to the limit rows the sum counts it for.
LEMMA AdmitTally ==
    ASSUME BudgetInv, BudgetInv', TallyInv, NEW w \in Workers, Admit(w)
    PROVE  TallyInv'
<1> DEFINE c == tx[w].cmd  read == tx[w].read
<1>1. tx[w].phase = "reserving" /\ Wanted(w) = {} /\ AdmitBudget(c, read) /\ ~Collides(c)
    BY DEF Admit
<1>2. c \in Commands /\ Estimate[c] \in Nat
    BY <1>1, TransactionFields, BudgetAssumption DEF BudgetInv, TypeOK
<1>3. /\ reservation \in [Commands -> Reservation] /\ reservation' \in [Commands -> Reservation]
      /\ reservation[c].state = "none" /\ reservation'[c].state = "reserved"
      /\ \A d \in Commands : d # c => reservation'[d] = reservation[d]
    <2>1. reservation \in [Commands -> Reservation] /\ reservation' \in [Commands -> Reservation]
        BY DEF BudgetInv, TypeOK
    <2>2. reservation[c].state = "none"
        BY <1>1, <1>2 DEF Collides, KeyTaken
    <2>3. reservation' = [reservation EXCEPT ![c] = [reservation[c] EXCEPT !.state = "reserved"]]
        BY DEF Admit
    <2>4. reservation'[c] = [reservation[c] EXCEPT !.state = "reserved"]
        BY <1>2, <2>1, <2>3
    <2>5. \A d \in Commands : d # c => reservation'[d] = reservation[d]
        BY <2>1, <2>3
    <2> QED BY <1>2, <2>1, <2>2, <2>4, <2>5, OpenedRow
<1>4. ASSUME NEW b \in Budgets
      PROVE  /\ HeldOn(reservation', b) = HeldOn(reservation, b) +
                    (IF b \in Rows(c) THEN Estimate[c] ELSE 0)
             /\ SpentOn(reservation', b) = SpentOn(reservation, b)
             /\ UsedOn(reservation', b) = UsedOn(reservation, b)
    BY <1>2, <1>3, OpeningSums
<1>5. ASSUME NEW b \in Budgets
      PROVE  /\ limit'[b].committed = limit[b].committed
             /\ limit'[b].reserved = limit[b].reserved +
                    (IF b \in Rows(c) THEN Estimate[c] ELSE 0)
    <2>1. limit[b] \in LimitRow
        BY DEF BudgetInv, TypeOK
    <2>2. limit'[b] = IF b \in Rows(c) THEN [limit[b] EXCEPT !.reserved = @ + Estimate[c]]
                                       ELSE limit[b]
        BY DEF Admit
    <2> QED BY <1>2, <2>1, <2>2 DEF LimitRow
<1>6. CountersMatchReservations'
    <2> SUFFICES ASSUME NEW b \in Budgets
                 PROVE  /\ limit'[b].reserved = HeldOn(reservation', b)
                        /\ limit'[b].committed = SpentOn(reservation', b)
        BY DEF CountersMatchReservations
    <2>1. /\ limit[b].reserved = HeldOn(reservation, b)
          /\ limit[b].committed = SpentOn(reservation, b)
        BY TallyNames DEF TallyInv
    <2> QED BY <1>4, <1>5, <2>1
<1>7. AdmittedWithinLimit'
    <2> SUFFICES ASSUME NEW b \in Budgets
                 PROVE  HeldOn(reservation', b) + UsedOn(reservation', b) <= Limit[b]
        BY DEF AdmittedWithinLimit, UsedOn, UsedOf, SettledOn
    <2>1. /\ limit[b].reserved = HeldOn(reservation, b)
          /\ limit[b].committed = SpentOn(reservation, b)
          /\ HeldOn(reservation, b) + UsedOn(reservation, b) <= Limit[b]
        BY TallyNames DEF TallyInv
    <2>2. CASE b \in Rows(c)
        <3>1. Limit[b] - limit[b].committed - limit[b].reserved >= Estimate[c]
            <4>1. read[b] = limit[b]
                BY <1>1, <2>2, AllLocked DEF BudgetInv, LockDiscipline
            <4> QED BY <1>1, <2>2, <4>1 DEF AdmitBudget, Rows
        <3>2. /\ HeldOn(reservation, b) \in Nat /\ SpentOn(reservation, b) \in Nat
              /\ UsedOn(reservation, b) \in Nat /\ Limit[b] \in Nat
              /\ UsedOn(reservation, b) <= SpentOn(reservation, b)
            BY <1>3, SumTypes, BudgetAssumption
        <3>3. /\ HeldOn(reservation', b) = HeldOn(reservation, b) + Estimate[c]
              /\ UsedOn(reservation', b) = UsedOn(reservation, b)
            BY <1>4, <2>2
        <3> QED BY <1>2, <2>1, <3>1, <3>2, <3>3
    <2>3. CASE b \notin Rows(c)
        <3>1. HeldOn(reservation, b) \in Nat
            BY <1>3, SumTypes
        <3>2. /\ HeldOn(reservation', b) = HeldOn(reservation, b) + 0
              /\ UsedOn(reservation', b) = UsedOn(reservation, b)
            BY <1>4, <2>3
        <3> QED BY <2>1, <3>1, <3>2
    <2> QED BY <2>2, <2>3
<1>8. AllocationsFollowScopes'
    <2>1. allocation' = [allocation EXCEPT ![c] = Rows(c)]
        BY DEF Admit
    <2> QED BY <1>2, <1>3, <2>1 DEF TallyInv, AllocationsFollowScopes, BudgetInv, TypeOK
<1>9. LedgerMatchesReservation'
    <2> DEFINE opened == [kind |-> "reserved", amount |-> Estimate[c], receipt |-> NoReceipt]
    <2>1. ledger' = [ledger EXCEPT ![c] = Append(ledger[c], opened)]
        BY DEF Admit
    <2>2. ledger[c] = <<>>
        BY <1>2, <1>3 DEF TallyInv, LedgerMatchesReservation
    <2>3. ledger'[c] = <<opened>> /\ \A d \in Commands : d # c => ledger'[d] = ledger[d]
        <3> HIDE DEF opened
        <3>1. Append(<<>>, opened) = <<opened>>
            OBVIOUS
        <3> QED BY <1>2, <2>1, <2>2, <3>1 DEF BudgetInv, TypeOK
    <2> QED BY <1>3, <2>3 DEF TallyInv, LedgerMatchesReservation
<1> QED BY <1>6, <1>7, <1>8, <1>9 DEF TallyInv

\* The commit of reconcile moves the estimate out of, and the cost into, the rows.
LEMMA SettleTally ==
    ASSUME BudgetInv, BudgetInv', TallyInv, NEW w \in Workers, Settle(w)
    PROVE  TallyInv'
<1> DEFINE c == tx[w].cmd  receipt == tx[w].receipt  actual == tx[w].actual
           entry == SettlementEntry(c, receipt, actual)
<1>1. tx[w].phase = "settling"
    BY DEF Settle
<1>2. c \in Commands /\ Estimate[c] \in Nat /\ actual \in Nat
    BY <1>1, TransactionFields, BudgetAssumption DEF BudgetInv, TypeOK
<1>3. /\ reservation \in [Commands -> Reservation] /\ reservation' \in [Commands -> Reservation]
      /\ reservation[c].state = "reserved"
      /\ reservation'[c] = [state |-> Outcome(c, actual), actual |-> actual, receipt |-> receipt]
      /\ \A d \in Commands : d # c => reservation'[d] = reservation[d]
    BY <1>1, <1>2 DEF Settle, BudgetInv, TypeOK, LockDiscipline
<1>4. reservation'[c].state = Outcome(c, actual) /\ Outcome(c, actual) \in Settled
    BY <1>3 DEF Outcome, Settled
<1>5. ASSUME NEW b \in Budgets
      PROVE  IF b \in Rows(c)
               THEN /\ HeldOn(reservation, b) = HeldOn(reservation', b) + Estimate[c]
                    /\ SpentOn(reservation', b) = SpentOn(reservation, b) + actual
                    /\ UsedOn(reservation', b) <= UsedOn(reservation, b) + Estimate[c]
               ELSE /\ HeldOn(reservation', b) = HeldOn(reservation, b)
                    /\ SpentOn(reservation', b) = SpentOn(reservation, b)
                    /\ UsedOn(reservation', b) = UsedOn(reservation, b)
    <2>1. reservation'[c].actual = actual /\ reservation'[c].state \in Settled
        BY <1>3, <1>4
    <2> HIDE DEF c, actual
    <2> QED BY <1>2, <1>3, <2>1, SettlingSums
<1>6. ASSUME NEW b \in Budgets
      PROVE  /\ limit'[b].committed = limit[b].committed + (IF b \in Rows(c) THEN actual ELSE 0)
             /\ limit'[b].reserved = limit[b].reserved - (IF b \in Rows(c) THEN Estimate[c] ELSE 0)
    <2>1. allocation[c] = Rows(c)
        BY <1>2, <1>3 DEF TallyInv, AllocationsFollowScopes
    <2>2. limit[b].committed \in Int /\ limit[b].reserved \in Int
        BY DEF BudgetInv, TypeOK, LimitRow
    <2>3. CASE b \in Rows(c)
        <3>1. limit'[b] = SettledRow(b, c, actual)
            BY <2>1, <2>3 DEF Settle
        <3>2. /\ SettledRow(b, c, actual).committed = limit[b].committed + actual
              /\ SettledRow(b, c, actual).reserved = limit[b].reserved - Estimate[c]
            BY DEF SettledRow
        <3> QED BY <2>3, <3>1, <3>2
    <2>4. CASE b \notin Rows(c)
        <3>1. limit'[b] = limit[b]
            BY <2>1, <2>4 DEF Settle
        <3> QED BY <2>2, <2>4, <3>1
    <2> QED BY <2>3, <2>4
<1>7. ASSUME NEW b \in Budgets
      PROVE  /\ limit[b].reserved = HeldOn(reservation, b)
             /\ limit[b].committed = SpentOn(reservation, b)
             /\ HeldOn(reservation, b) + UsedOn(reservation, b) <= Limit[b]
             /\ HeldOn(reservation, b) \in Nat /\ SpentOn(reservation, b) \in Nat
             /\ UsedOn(reservation, b) \in Nat /\ Limit[b] \in Nat
             /\ HeldOn(reservation', b) \in Nat /\ UsedOn(reservation', b) \in Nat
    BY <1>3, TallyNames, SumTypes, BudgetAssumption DEF TallyInv
<1>8. CountersMatchReservations'
    <2> SUFFICES ASSUME NEW b \in Budgets
                 PROVE  /\ limit'[b].reserved = HeldOn(reservation', b)
                        /\ limit'[b].committed = SpentOn(reservation', b)
        BY DEF CountersMatchReservations
    <2> QED BY <1>2, <1>5, <1>6, <1>7
<1>9. AdmittedWithinLimit'
    <2> SUFFICES ASSUME NEW b \in Budgets
                 PROVE  HeldOn(reservation', b) + UsedOn(reservation', b) <= Limit[b]
        BY DEF AdmittedWithinLimit, UsedOn, UsedOf, SettledOn
    <2> QED BY <1>2, <1>5, <1>7
<1>10. AllocationsFollowScopes'
    BY <1>3 DEF Settle, TallyInv, AllocationsFollowScopes
<1>11. LedgerMatchesReservation'
    <2> DEFINE opened == [kind |-> "reserved", amount |-> Estimate[c], receipt |-> NoReceipt]
    <2>1. ledger' = [ledger EXCEPT ![c] = Append(ledger[c], entry)]
        BY DEF Settle
    <2>2. ledger[c] = <<opened>>
        BY <1>2, <1>3 DEF TallyInv, LedgerMatchesReservation
    <2>3. ledger'[c] = <<opened, entry>> /\ \A d \in Commands : d # c => ledger'[d] = ledger[d]
        <3>1. Append(<<opened>>, entry) = <<opened, entry>>
            BY SecondEntry
        <3> HIDE DEF opened, entry
        <3> QED BY <1>2, <2>1, <2>2, <3>1 DEF BudgetInv, TypeOK
    <2>4. entry = [kind |-> IF reservation'[c].state = "committed" THEN "committed" ELSE "overage",
                   amount |-> reservation'[c].actual, receipt |-> reservation'[c].receipt]
        BY <1>3, <1>4 DEF SettlementEntry
    <2>5. reservation'[c].state \notin {"none", "reserved"}
        BY <1>4 DEF Settled
    <2> HIDE DEF entry
    <2> QED BY <1>3, <2>3, <2>4, <2>5 DEF TallyInv, LedgerMatchesReservation
<1> QED BY <1>8, <1>9, <1>10, <1>11 DEF TallyInv

\* Only reserve's and reconcile's commits write the tables.
LEMMA RowsWritten ==
    ASSUME [Next]_vars
    PROVE  UNCHANGED rows \/ \E w \in Workers : Admit(w) \/ Settle(w)
<1>1. ASSUME NEW w \in Workers,
             \/ \E c \in Commands : ReserveCall(w, c)
             \/ \E c \in Commands, receipt \in Receipts, actual \in Actuals :
                    ReconcileCall(w, c, receipt, actual)
             \/ LockLimit(w) \/ Deny(w) \/ InsertCollides(w) \/ DeadlockVictim(w) \/ Abort(w)
      PROVE  UNCHANGED rows
    BY <1>1 DEF ReserveCall, ReconcileCall, Answer, LockLimit, Deny, InsertCollides,
                DeadlockVictim, Abort
<1>2. CASE UNCHANGED vars
    BY <1>2 DEF vars, rows
<1> QED BY <1>1, <1>2 DEF Next, Finish

\* Inductive relative to the lock discipline of BudgetInv.
LEMMA TallyStep == BudgetInv /\ BudgetInv' /\ TallyInv /\ [Next]_vars => TallyInv'
<1> SUFFICES ASSUME BudgetInv, BudgetInv', TallyInv, [Next]_vars PROVE TallyInv'
    OBVIOUS
<1>1. CASE UNCHANGED rows
    BY <1>1 DEF rows, TallyInv, AllocationsFollowScopes, CountersMatchReservations,
                AdmittedWithinLimit, LedgerMatchesReservation
<1> QED BY <1>1, RowsWritten, AdmitTally, SettleTally

LEMMA BudgetInvariance == Spec => [](BudgetInv /\ TallyInv)
    BY InitBudgetInv, BudgetInvStep, TallyInit, TallyStep, PTL DEF Spec

\* reserved_minor and committed_minor always hold the sums they stand for, for
\* any budgets, commands and number of connections.
THEOREM CountersAreSums == Spec => []CountersMatchReservations
    BY BudgetInvariance, PTL DEF TallyInv

\* Concurrent reserve calls never admit more than a limit, however their
\* transactions interleave: what exceeds it is cost beyond the estimates.
THEOREM ReservationsFit == Spec => []AdmittedWithinLimit
    BY BudgetInvariance, PTL DEF TallyInv

\* The append-only ledger and the reservation rows tell the same story.
THEOREM LedgerTells == Spec => []LedgerMatchesReservation
    BY BudgetInvariance, PTL DEF TallyInv
-----------------------------------------------------------------------------
(* The refinement: each commit is a step of the abstract ledger, every other *)
(* step leaves its variables alone.                                          *)

LEMMA AbstractInit == Init => Abstract!LedgerInit
    BY DEF Init, EmptyRow, Abstract!LedgerInit, Abstract!NoReservation, NoReservation


\* The operators of the abstract specification are those of this one.
LEMMA SameTerms ==
    ASSUME NEW r, NEW b, NEW c, NEW actual
    PROVE  /\ Abstract!HeldOn(r, b) = HeldOn(r, b)
           /\ Abstract!SpentOn(r, b) = SpentOn(r, b)
           /\ Abstract!Rows(c) = Rows(c)
           /\ Abstract!Outcome(c, actual) = Outcome(c, actual)
           /\ Abstract!KeyTaken(r, Key[c]) <=> KeyTaken(r, Key[c])
<1>0. \A f, S : Abstract!SumFunctionOnSet(f, S) = SumFunctionOnSet(f, S)
    BY DEF SumFunctionOnSet, FoldFunctionOnSet, MapThenFoldSet, Abstract!SumFunctionOnSet,
           Abstract!FoldFunctionOnSet, Abstract!MapThenFoldSet
<1>1. Abstract!Rows(c) = Rows(c)
    BY DEF Rows, Abstract!Rows
<1>2. Abstract!HeldOn(r, b) = HeldOn(r, b)
    BY <1>0 DEF HeldOn, Rows, Abstract!HeldOn, Abstract!Rows
<1>3. Abstract!SpentOn(r, b) = SpentOn(r, b)
    BY <1>0 DEF SpentOn, Rows, Settled, Abstract!SpentOn, Abstract!Rows, Abstract!Settled
<1>4. Abstract!Outcome(c, actual) = Outcome(c, actual)
    BY DEF Outcome, Abstract!Outcome
<1>5. Abstract!KeyTaken(r, Key[c]) <=> KeyTaken(r, Key[c])
    BY DEF KeyTaken, Abstract!KeyTaken
<1> QED BY <1>1, <1>2, <1>3, <1>4, <1>5

\* reserve's commit is Reserve of the abstract ledger: what it read is what it holds.
LEMMA AdmitImplements ==
    ASSUME BudgetInv, BudgetInv', TallyInv, NEW w \in Workers, Admit(w)
    PROVE  Abstract!LedgerNext
<1> DEFINE c == tx[w].cmd  read == tx[w].read
<1>1. tx[w].phase = "reserving" /\ Wanted(w) = {} /\ AdmitBudget(c, read) /\ ~Collides(c)
    BY DEF Admit
<1>2. c \in Commands /\ reservation[c].state = "none"
    BY <1>1, TransactionFields DEF BudgetInv, TypeOK, Collides, KeyTaken
<1>3. Abstract!Covered(c)
    <2>1. Scopes[c] # {} /\ Scopes[c] \subseteq Budgets
        BY <1>1 DEF AdmitBudget
    <2>2. ASSUME NEW b \in Scopes[c]
          PROVE  /\ b \in Budgets /\ ~limit[b].blocked
                 /\ HeldOn(reservation, b) + SpentOn(reservation, b) + Estimate[c] <= Limit[b]
        <3>1. b \in Budgets /\ b \in Rows(c)
            BY <2>1 DEF Rows
        <3>2. read[b] = limit[b]
            BY <1>1, <3>1, AllLocked DEF BudgetInv, LockDiscipline
        <3>3. /\ ~limit[b].blocked
              /\ Limit[b] - limit[b].committed - limit[b].reserved >= Estimate[c]
            BY <1>1, <3>2 DEF AdmitBudget
        <3>4. /\ limit[b].reserved = HeldOn(reservation, b)
              /\ limit[b].committed = SpentOn(reservation, b)
            BY <3>1, TallyNames DEF TallyInv
        <3>5. /\ HeldOn(reservation, b) \in Nat /\ SpentOn(reservation, b) \in Nat
              /\ Limit[b] \in Nat /\ Estimate[c] \in Nat
            BY <1>2, <3>1, SumTypes, BudgetAssumption DEF BudgetInv, TypeOK
        <3>6. HeldOn(reservation, b) + SpentOn(reservation, b) + Estimate[c] <= Limit[b]
            BY <3>3, <3>4, <3>5
        <3> QED BY <3>1, <3>3, <3>6
    <2> QED BY <2>1, <2>2, SameTerms DEF Abstract!Covered
<1>4. {b \in Budgets : limit'[b].blocked} = {b \in Budgets : limit[b].blocked}
    <2> SUFFICES ASSUME NEW b \in Budgets PROVE limit'[b].blocked = limit[b].blocked
        OBVIOUS
    <2>1. limit'[b] = IF b \in Rows(c) THEN [limit[b] EXCEPT !.reserved = @ + Estimate[c]]
                                       ELSE limit[b]
        BY DEF Admit
    <2>2. limit[b] \in LimitRow
        BY DEF BudgetInv, TypeOK
    <2> DEFINE blocked == limit[b].blocked
    <2>3. limit[b] = [committed |-> limit[b].committed, reserved |-> limit[b].reserved,
                      blocked |-> blocked]
        BY <2>2 DEF LimitRow
    <2> HIDE DEF blocked
    <2>4. [limit[b] EXCEPT !.reserved = @ + Estimate[c]].blocked = blocked
        BY <2>3
    <2> QED BY <2>1, <2>4 DEF blocked
<1>5. Abstract!Reserve(c)
    BY <1>1, <1>2, <1>3, <1>4, SameTerms DEF Admit, Collides, Abstract!Reserve
<1> QED BY <1>2, <1>5 DEF Abstract!LedgerNext

\* reconcile's commit is Settle: the rows it blocks are the ones overdrawn.
LEMMA SettleImplements ==
    ASSUME BudgetInv, BudgetInv', TallyInv, TallyInv', NEW w \in Workers, Settle(w)
    PROVE  Abstract!LedgerNext
<1> DEFINE c == tx[w].cmd  receipt == tx[w].receipt  actual == tx[w].actual
<1>1. tx[w].phase = "settling"
    BY DEF Settle
<1>2. c \in Commands /\ receipt \in Receipts /\ actual \in Actuals
    BY <1>1, TransactionFields DEF BudgetInv, TypeOK
<1>3. /\ reservation[c].state = "reserved"
      /\ reservation' = [reservation EXCEPT ![c] =
              [state |-> Outcome(c, actual), actual |-> actual, receipt |-> receipt]]
    BY <1>1, <1>2 DEF Settle, BudgetInv, LockDiscipline
<1>4. allocation[c] = Rows(c)
    BY <1>2, <1>3 DEF TallyInv, AllocationsFollowScopes
<1>5. ASSUME NEW b \in Budgets
      PROVE  limit'[b].blocked <=>
               \/ limit[b].blocked
               \/ b \in Rows(c) /\
                    HeldOn(reservation', b) + SpentOn(reservation', b) > Limit[b]
    <2>1. CASE b \in Rows(c)
        <3>1. limit'[b] = SettledRow(b, c, actual)
            BY <1>4, <2>1 DEF Settle
        <3> DEFINE over == \/ limit[b].blocked
                           \/ limit[b].committed + limit[b].reserved - Estimate[c]
                                + actual > Limit[b]
                   committed == limit[b].committed + actual
                   reserved == limit[b].reserved - Estimate[c]
        <3>2. limit'[b] = [committed |-> committed, reserved |-> reserved, blocked |-> over]
            BY <3>1 DEF SettledRow
        <3>3. /\ limit'[b].committed = committed /\ limit'[b].reserved = reserved
              /\ limit'[b].blocked = over
            <4> HIDE DEF over, committed, reserved
            <4> QED BY <3>2
        <3>4. /\ HeldOn(reservation', b) = limit[b].reserved - Estimate[c]
              /\ SpentOn(reservation', b) = limit[b].committed + actual
            BY <3>3 DEF TallyInv, CountersMatchReservations
        <3>5. /\ limit[b].committed \in Int /\ limit[b].reserved \in Int
              /\ Estimate[c] \in Int /\ actual \in Int /\ Limit[b] \in Int
            <4>1. limit[b] \in LimitRow
                BY DEF BudgetInv, TypeOK
            <4>2. Estimate[c] \in Nat /\ actual \in Nat /\ Limit[b] \in Nat
                BY <1>2, BudgetAssumption
            <4> QED BY <4>1, <4>2 DEF LimitRow
        <3>6. (HeldOn(reservation', b) + SpentOn(reservation', b) > Limit[b])
                <=> (limit[b].committed + limit[b].reserved - Estimate[c] + actual > Limit[b])
            BY <3>4, <3>5
        <3> QED BY <2>1, <3>3, <3>6
    <2>2. CASE b \notin Rows(c)
        BY <1>4, <2>2 DEF Settle
    <2> QED BY <2>1, <2>2
<1>6. {b \in Budgets : limit'[b].blocked} = {b \in Budgets : limit[b].blocked} \cup
        {b \in Rows(c) : HeldOn(reservation', b) + SpentOn(reservation', b) > Limit[b]}
    <2>1. Rows(c) \subseteq Budgets
        BY DEF Rows
    <2> QED BY <1>5, <2>1
<1>7. ASSUME NEW d \in Commands, NEW t \in Receipts, NEW a \in Actuals,
             d = c, t = receipt, a = actual
      PROVE  Abstract!Settle(d, t, a)
    <2>1. /\ reservation[d].state = "reserved"
          /\ reservation' = [reservation EXCEPT ![d] =
                  [state |-> Abstract!Outcome(d, a), actual |-> a, receipt |-> t]]
        BY <1>3, <1>7, SameTerms
    <2>2. {b \in Budgets : limit'[b].blocked} = {b \in Budgets : limit[b].blocked} \cup
            {b \in Abstract!Rows(d) : Abstract!HeldOn(reservation', b)
                                        + Abstract!SpentOn(reservation', b) > Limit[b]}
        <3>1. Abstract!Rows(d) = Rows(c)
            BY <1>7, SameTerms
        <3>2. \A b : /\ Abstract!HeldOn(reservation', b) = HeldOn(reservation', b)
                     /\ Abstract!SpentOn(reservation', b) = SpentOn(reservation', b)
            BY SameTerms
        <3> QED BY <1>6, <3>1, <3>2
    <2> QED BY <2>1, <2>2 DEF Abstract!Settle
<1> QED BY <1>2, <1>7 DEF Abstract!LedgerNext

LEMMA StepImplements ==
    BudgetInv /\ BudgetInv' /\ TallyInv /\ TallyInv' /\ [Next]_vars =>
        [Abstract!LedgerNext]_(Abstract!ledgerVars)
<1> SUFFICES ASSUME BudgetInv, BudgetInv', TallyInv, TallyInv', [Next]_vars
             PROVE  [Abstract!LedgerNext]_(Abstract!ledgerVars)
    OBVIOUS
<1>1. CASE UNCHANGED rows
    BY <1>1 DEF rows, Abstract!ledgerVars
<1>2. ASSUME NEW w \in Workers, Admit(w) \/ Settle(w) PROVE Abstract!LedgerNext
    BY <1>2, AdmitImplements, SettleImplements
<1> QED BY <1>1, <1>2, RowsWritten

\* Transactions at READ COMMITTED with row locks, lost commits and aborts do what
\* a ledger that grants and settles one reservation at a time does.
THEOREM LedgerImplemented == Spec => ImplementsLedger
    BY AbstractInit, StepImplements, BudgetInvariance, PTL
       DEF Spec, ImplementsLedger, Abstract!LedgerSpec
=============================================================================
