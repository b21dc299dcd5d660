---------------------------- MODULE MCGovernance ----------------------------
EXTENDS ConnectorSync, TLC

CONSTANTS u1, create, lower, k1, k2, w1, w2

Grant(status, clearance) == [role |-> "member", status |-> status, clearance |-> clearance]

\* The owner of the source loses the clearance it needs.
MCUsers == {u1}
MCCommands == {create, lower}
MCRequest ==
    (create :> [op |-> "create", member |-> u1])
    @@ (lower :> [op |-> "change", member |-> u1, grant |-> Grant("ACTIVE", 1)])
MCCallers == {k1, k2}
MCActor == (k1 :> u1) @@ (k2 :> u1)
MCDrafts == {[owner |-> u1, classification |-> 2], [owner |-> None, classification |-> 2],
             [owner |-> u1, classification |-> None]}
MCWorkers == {w1, w2}

\* Both callers are the owner, and the workers are alike.
MCSymmetry == Permutations(MCCallers) \cup Permutations(MCWorkers)
=============================================================================
