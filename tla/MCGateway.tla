------------------------------ MODULE MCGateway ------------------------------
EXTENDS ModelGateway, TLC

CONSTANTS h1, h2, h3, k1, k2, t1

\* h2 is a client's retry of h1; h3 competes with them for budget 1.
MCBudgets == {1}
MCScopeKeys == {1}
MCScopeRank == (1 :> 1)
MCLimit == (1 :> 3)
MCCommands == {h1, h2, h3}
MCKey == (h1 :> k1) @@ (h2 :> k1) @@ (h3 :> k2)
MCBody == (h1 :> k1) @@ (h2 :> k1) @@ (h3 :> k2)
MCEstimate == (h1 :> 2) @@ (h2 :> 2) @@ (h3 :> 2)
MCScopes == (h1 :> {1}) @@ (h2 :> {1}) @@ (h3 :> {1})
MCReceipts == {t1}
MCActuals == {1, 4}
=============================================================================
