SPECIFICATION GatewayFairSpec
CONSTANTS
    h1 = h1  h2 = h2  h3 = h3  k1 = k1  k2 = k2  t1 = t1
    Budgets <- MCBudgets
    ScopeKeys <- MCScopeKeys
    ScopeRank <- MCScopeRank
    Limit <- MCLimit
    Commands <- MCCommands
    Key <- MCKey
    Body <- MCBody
    Estimate <- MCEstimate
    Scopes <- MCScopes
    Receipts <- MCReceipts
    Actuals <- MCActuals
    NoReceipt = NoReceipt
    NoCharge = NoCharge
CHECK_DEADLOCK FALSE
INVARIANTS
    ProviderOncePerKey
    ProviderCallIsBacked
    SentWithinLimit
    SettlementIsProviderCharge
    RefusalIsFree
    CompletionIsSettled
PROPERTY EveryRequestEnds
