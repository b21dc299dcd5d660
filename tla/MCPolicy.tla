------------------------------ MODULE MCPolicy ------------------------------
EXTENDS PolicyResolution, TLC

CONSTANTS u1, create, demote, revoke, archive, r1, r2, a, b

MCUsers == {u1}
MCCommands == {create, demote, revoke, archive}
MCRequest ==
    (create :> [op |-> "create", member |-> u1]) @@ (archive :> [op |-> "archive"])
    @@ (demote :> [op |-> "change", member |-> u1,
                   grant |-> [role |-> "member", status |-> "ACTIVE", clearance |-> 1]])
    @@ (revoke :> [op |-> "change", member |-> u1,
                   grant |-> [role |-> "owner", status |-> "REVOKED", clearance |-> 1]])
MCRequests == {r1, r2}
MCRequester == [r \in MCRequests |-> u1]
MCVersions == {1, 2}

\* The second version of a layer allows less; a member's is in another currency.
MCRules == [key \in Layers \X MCVersions |->
    [allowed |-> IF key[2] = 1 THEN {a, b} ELSE {a},
     limit |-> IF key[2] = 1 THEN 2 ELSE 1,
     currency |-> IF key[1] = "member" THEN "BRL" ELSE "USD"]]
MCPublications ==
    {<<"workspace", 1>>, <<"workspace", 2>>, <<"owner", 1>>, <<"member", 1>>}
=============================================================================
