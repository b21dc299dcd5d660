----------------------------- MODULE BudgetLedger -----------------------------
(* What the budget's operations do, one at a time: reservations are granted  *)
(* and settled against the sum of what is held and spent.  No counters, no   *)
(* locks, no transactions.  BudgetReservation implements it, and the model   *)
(* gateway is written against it.                                            *)
EXTENDS BudgetTerms

VARIABLES reservation, overdrawn

ledgerVars == <<reservation, overdrawn>>

LedgerInit ==
    /\ reservation = [c \in Commands |-> NoReservation]
    /\ overdrawn = {}

Covered(c) ==
    /\ Scopes[c] # {}
    /\ \A k \in Scopes[c] :
        /\ k \in Budgets \ overdrawn
        /\ HeldOn(reservation, k) + SpentOn(reservation, k) + Estimate[c] <= Limit[k]

Reserve(c) ==
    /\ ~KeyTaken(reservation, Key[c])
    /\ reservation[c].state = "none"
    /\ Covered(c)
    /\ reservation' = [reservation EXCEPT ![c].state = "reserved"]
    /\ UNCHANGED overdrawn

\* A cost above the estimate blocks the budgets whose sum it takes past the limit, and
\* no other: a budget that still has room for it stays open.
Settle(c, receipt, actual) ==
    /\ reservation[c].state = "reserved"
    /\ reservation' = [reservation EXCEPT ![c] =
            [state |-> Outcome(c, actual), actual |-> actual, receipt |-> receipt]]
    /\ overdrawn' = overdrawn \cup
            {b \in Rows(c) : HeldOn(reservation', b) + SpentOn(reservation', b) > Limit[b]}

LedgerNext ==
    \E c \in Commands :
        \/ Reserve(c)
        \/ \E receipt \in Receipts, actual \in Actuals : Settle(c, receipt, actual)

LedgerSpec == LedgerInit /\ [][LedgerNext]_ledgerVars
=============================================================================
