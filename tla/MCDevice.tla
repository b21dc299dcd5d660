------------------------------- MODULE MCDevice -------------------------------
EXTENDS DeviceIdentity, TLC

CONSTANTS n1, n2, r1, r2, r3, e1, e2, t1, t2, v1, v2

\* Two registrations prove the same challenge; two terminations name one session.
MCNonces == {n1, n2}
MCRegistrations == {r1, r2, r3}
MCProof == (r1 :> n1) @@ (r2 :> n1) @@ (r3 :> n2)
MCEstablishments == {e1, e2}
MCTerminations == {t1, t2}
MCTarget == (t1 :> e1) @@ (t2 :> e1)
MCRevocations == {v1, v2}
=============================================================================
