------------------------------- MODULE MCBudget -------------------------------
EXTENDS BudgetReservation, TLC

CONSTANTS w1, w2, c1, c2, c3, k1, k2, t1, t2

\* Two budgets whose scope order is the reverse of their budget_id order, and
\* three commands: c1 and c2 share an idempotency key, c2 and c3 use both budgets.
MCBudgets == {1, 2}
MCScopeKeys == {1, 2, 3}
MCScopeRank == (1 :> 2) @@ (2 :> 1)
MCLimit == (1 :> 4) @@ (2 :> 4)
MCCommands == {c1, c2, c3}
MCKey == (c1 :> k1) @@ (c2 :> k1) @@ (c3 :> k2)
MCEstimate == (c1 :> 3) @@ (c2 :> 1) @@ (c3 :> 2)
MCScopes == (c1 :> {1}) @@ (c2 :> {1, 2}) @@ (c3 :> {1, 2})
MCWorkers == {w1, w2}
MCReceipts == {t1, t2}
MCActuals == {0, 3}
=============================================================================
