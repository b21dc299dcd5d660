SPECIFICATION FairSpec
CONSTANTS
    w1 = w1  w2 = w2  c1 = c1  c2 = c2  c3 = c3  k1 = k1  k2 = k2  t1 = t1  t2 = t2
    Budgets <- MCBudgets
    ScopeKeys <- MCScopeKeys
    ScopeRank <- MCScopeRank
    Limit <- MCLimit
    Commands <- MCCommands
    Key <- MCKey
    Estimate <- MCEstimate
    Scopes <- MCScopes
    Workers <- MCWorkers
    Receipts <- MCReceipts
    Actuals <- MCActuals
    NoReceipt = NoReceipt
    NoWorker = NoWorker
    RoleBypassesRls = TRUE
INVARIANTS
    CountersMatchReservations
    AdmittedWithinLimit
    OverdrawnIsBlocked
    OneReservationPerKey
    LedgerMatchesReservation
PROPERTIES
    SettledOnce
    CallsComplete
    ImplementsLedger
