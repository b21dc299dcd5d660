SPECIFICATION Spec
CONSTANTS
    n1 = n1  n2 = n2  r1 = r1  r2 = r2  r3 = r3
    e1 = e1  e2 = e2  t1 = t1  t2 = t2  v1 = v1  v2 = v2
    Nonces <- MCNonces
    Registrations <- MCRegistrations
    Proof <- MCProof
    Establishments <- MCEstablishments
    Terminations <- MCTerminations
    Target <- MCTarget
    Revocations <- MCRevocations
CHECK_DEADLOCK FALSE
INVARIANTS
    ChallengeProvesOnce
    OutboxTellsTheRows
    CacheFollowsRows
PROPERTIES
    LateCallsAreRefused
    RevocationClosesSessions
