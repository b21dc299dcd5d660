---------------------------- MODULE MCCredentials ----------------------------
EXTENDS ModelCatalog, TLC

CONSTANTS r1, r2, v1, u1, m1, m2, forth, back, q1

MCRotations == {r1, r2}
MCRevocations == {v1}
MCUses == {u1}

\* Two models without a fallback, and two publications that make each the other's.
MCModels == {m1, m2}
MCEarlier == (m1 :> <<>>) @@ (m2 :> <<>>)
MCPublications == {forth, back}
MCPublished ==
    (forth :> [model |-> m1, fallbacks |-> <<m2>>])
    @@ (back :> [model |-> m2, fallbacks |-> <<m1>>])
MCRoutes == {q1}

\* The rotations are alike.
MCSymmetry == Permutations(MCRotations)
=============================================================================
