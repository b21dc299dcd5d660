----------------------------- MODULE BudgetTerms -----------------------------
(* The vocabulary of the budget component: the rows of budget_limit, the     *)
(* reserve commands the gateway issues, and the sums that the columns        *)
(* reserved_minor and committed_minor are supposed to hold.  One tenant, one *)
(* workspace and one currency: every statement of the repository is scoped   *)
(* to a tenant, and a currency mismatch denies like an unprovisioned scope.  *)
EXTENDS Integers, FiniteSetsExt

CONSTANTS
    Budgets,        \* budget_id of each budget_limit row; < is ORDER BY budget_id
    ScopeKeys,      \* every (scope_type, scope_id); a provisioned one is its budget_id
    ScopeRank,      \* position of a budget under ORDER BY scope_type, scope_id
    Limit,          \* limit_minor of each budget
    Commands,       \* reserve commands, one fingerprint each; also the reservation_id
    Key,            \* idempotency_key of each command
    Estimate,       \* estimatedMinor of each command
    Scopes,         \* scopeKeys of each command
    Receipts,       \* receipt_id values a provider may return
    Actuals,        \* actualMinor values a provider may return
    NoReceipt       \* receipt_id IS NULL

ASSUME BudgetAssumption ==
    /\ Budgets \subseteq Nat /\ Budgets \subseteq ScopeKeys
    /\ IsFiniteSet(Budgets) /\ IsFiniteSet(Commands)
    /\ ScopeRank \in [Budgets -> Nat]
    /\ \A a, b \in Budgets : ScopeRank[a] = ScopeRank[b] => a = b
    /\ Limit \in [Budgets -> Nat]
    /\ Estimate \in [Commands -> Nat]
    /\ Scopes \in [Commands -> SUBSET ScopeKeys]
    /\ Actuals \subseteq Nat
    /\ NoReceipt \notin Receipts

\* The reservation states the code can write; 'released' and 'expired' are in
\* the CHECK constraint, but no statement of the repository writes them.
Settled == {"committed", "reconciliation_review"}

\* A row of budget_reservation; "none" stands for no row.
Reservation ==
    [state: {"none", "reserved"} \cup Settled, actual: Actuals \cup {0},
     receipt: Receipts \cup {NoReceipt}]

NoReservation == [state |-> "none", actual |-> 0, receipt |-> NoReceipt]

\* The limit rows the JOIN on scopeKeys returns; a scope without a row is missing.
Rows(c) == Scopes[c] \cap Budgets

\* reconcileBudget: the state a receipt for actual settles reservation c into.
Outcome(c, actual) ==
    IF actual <= Estimate[c] THEN "committed" ELSE "reconciliation_review"

KeyTaken(reservation, key) ==
    \E c \in Commands : Key[c] = key /\ reservation[c].state # "none"

\* What reserved_minor and committed_minor of budget b should add up to.
HeldOn(reservation, b) ==
    SumFunctionOnSet(Estimate,
        {c \in Commands : reservation[c].state = "reserved" /\ b \in Rows(c)})

SpentOn(reservation, b) ==
    SumFunctionOnSet([c \in Commands |-> reservation[c].actual],
        {c \in Commands : reservation[c].state \in Settled /\ b \in Rows(c)})
=============================================================================
