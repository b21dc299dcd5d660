----------------------------- MODULE DeviceProofs -----------------------------
(* One device and its sessions over PostgreSQL and Redis, for any number of  *)
(* challenges and calls: a challenge proves once, the outbox and the cache   *)
(* follow the rows, and a revocation leaves no session it should close.      *)
EXTENDS DeviceIdentity, FiniteSetTheorems, TLAPS

Proved(r) == registration[r] \in {"insert", "publish", "ended"}

\* A challenge that was proved is gone, and a nonce is issued once.
ChallengesInv ==
    /\ \A r \in Registrations : Proved(r) => challenge[Proof[r]] = "gone"
    /\ ChallengeProvesOnce

\* One revocation at a time has the row's lock, and until it commits the device is
\* active and the sessions it will close are open.
RevocationsInv ==
    /\ \A v \in Revocations :
           /\ revocation[v] \in {"close", "commit"} => device = "active"
           /\ revocation[v] = "publish" => device = "revoked"
    /\ \A v, w \in Revocations :
           {revocation[v], revocation[w]} \subseteq {"close", "commit"} => v = w
    /\ closing # {} => \E v \in Revocations : revocation[v] = "commit"
    /\ \A e \in closing : session[e] = "open"
    /\ device = "revoked" => \E v \in Revocations : revocation[v] # "update"

SessionsInv ==
    \A e \in Establishments : establishment[e] # "ended" => session[e] = "none"

CacheInv ==
    /\ \A r \in Registrations : registration[r] = "publish" => device # "absent"
    /\ CacheFollowsRows

Announced(event, call) == <<event, call>> \in outbox

\* OutboxTellsTheRows without counting.
OutboxInv ==
    /\ device # "absent" <=> \E r \in Registrations : Announced("device.registered", r)
    /\ \A r, s \in Registrations :
           Announced("device.registered", r) /\ Announced("device.registered", s) => r = s
    /\ device = "revoked" <=> \E v \in Revocations : Announced("device.revoked", v)
    /\ \A v, w \in Revocations :
           Announced("device.revoked", v) /\ Announced("device.revoked", w) => v = w
    /\ \A e \in Establishments :
           /\ Announced("identity.session_established", e) <=> session[e] # "none"
           /\ session[e] = "logout" <=>
                  \E t \in Terminations :
                      Target[t] = e /\ Announced("identity.session_terminated", t)
    /\ \A t, u \in Terminations :
           /\ Announced("identity.session_terminated", t)
           /\ Announced("identity.session_terminated", u)
           /\ Target[t] = Target[u]
           => t = u

DeviceInv ==
    IdentityTypeOK /\ ChallengesInv /\ RevocationsInv /\ SessionsInv /\ CacheInv /\ OutboxInv

LEMMA DeviceInvInit == Init => DeviceInv
<1> SUFFICES ASSUME Init PROVE DeviceInv
    OBVIOUS
<1> USE DEF Init
<1>1. IdentityTypeOK
    BY DEF IdentityTypeOK
<1>2. ChallengesInv
    BY DEF ChallengesInv, ChallengeProvesOnce, Proved
<1>3. RevocationsInv /\ SessionsInv /\ CacheInv
    BY DEF RevocationsInv, SessionsInv, CacheInv, CacheFollowsRows
<1>4. OutboxInv
    BY CallAssumption DEF OutboxInv, Announced
<1> QED BY <1>1, <1>2, <1>3, <1>4 DEF DeviceInv

\* Each step keeps the types.
LEMMA TypeStep ==
    ASSUME IdentityTypeOK, [Next]_vars
    PROVE  IdentityTypeOK'
<1> USE CallAssumption DEF IdentityTypeOK
<1>1. ASSUME NEW n \in Nonces, IssueChallenge(n) \/ ChallengeExpires(n) PROVE IdentityTypeOK'
    BY <1>1 DEF IssueChallenge, ChallengeExpires, rows, calls
<1>2. ASSUME NEW r \in Registrations, Register(r) \/ RegisterFails(r) PROVE IdentityTypeOK'
    <2>1. CASE Peek(r)
        BY <2>1 DEF Peek, RegisterTo, rows
    <2>2. CASE Consume(r)
        BY <2>2 DEF Consume, RegisterTo, rows, LeftByConsume
    <2>3. CASE RegisterActive(r)
        BY <2>3 DEF RegisterActive, RegisterTo, Events
    <2>4. CASE PublishActive(r) \/ RegisterFails(r)
        BY <2>4 DEF PublishActive, RegisterFails, RegisterTo, rows
    <2> QED BY <1>2, <2>1, <2>2, <2>3, <2>4 DEF Register
<1>3. ASSUME NEW e \in Establishments, Establish(e) \/ EstablishFails(e) PROVE IdentityTypeOK'
    <2>1. CASE FindDevice(e) \/ EstablishFails(e)
        BY <2>1 DEF FindDevice, EstablishFails, EstablishTo, rows
    <2>2. CASE SaveSession(e)
        BY <2>2 DEF SaveSession, EstablishTo, Events
    <2> QED BY <1>3, <2>1, <2>2 DEF Establish
<1>4. ASSUME NEW t \in Terminations, Terminate(t) PROVE IdentityTypeOK'
    BY <1>4 DEF Terminate, Events
<1>5. ASSUME NEW v \in Revocations, Revoke(v) \/ RevokeFails(v) PROVE IdentityTypeOK'
    <2>1. CASE RevokeDevice(v)
        BY <2>1 DEF RevokeDevice, RevokeTo, rows, NothingUpdated
    <2>2. CASE CloseSessions(v)
        BY <2>2 DEF CloseSessions, RevokeTo, rows, OpenSessions
    <2>3. CASE CommitRevocation(v)
        BY <2>3 DEF CommitRevocation, RevokeTo, Events
    <2>4. CASE PublishRevoked(v) \/ RevokeFails(v)
        BY <2>4 DEF PublishRevoked, RevokeFails, RevokeTo, rows
    <2> QED BY <1>5, <2>1, <2>2, <2>3, <2>4 DEF Revoke
<1>6. CASE UNCHANGED vars
    BY <1>6 DEF vars, rows, calls
<1> QED BY <1>1, <1>2, <1>3, <1>4, <1>5, <1>6 DEF Next
-----------------------------------------------------------------------------
(* Each step keeps each part of the invariant                                *)

LEMMA ChallengesStep ==
    ASSUME DeviceInv, [Next]_vars
    PROVE  ChallengesInv'
<1> USE CallAssumption DEF DeviceInv, IdentityTypeOK, ChallengesInv, ChallengeProvesOnce, Proved
<1>1. ASSUME NEW n \in Nonces, IssueChallenge(n) \/ ChallengeExpires(n) PROVE ChallengesInv'
    BY <1>1 DEF IssueChallenge, ChallengeExpires, calls
<1>2. ASSUME NEW r \in Registrations, Register(r) \/ RegisterFails(r) PROVE ChallengesInv'
    <2>1. CASE Peek(r)
        BY <2>1 DEF Peek, RegisterTo
    <2>2. CASE Consume(r)
        BY <2>2 DEF Consume, RegisterTo, LeftByConsume
    <2>3. CASE RegisterActive(r) \/ PublishActive(r) \/ RegisterFails(r)
        BY <2>3 DEF RegisterActive, PublishActive, RegisterFails, RegisterTo
    <2> QED BY <1>2, <2>1, <2>2, <2>3 DEF Register
<1>3. CASE UNCHANGED <<challenge, registration>>
    BY <1>3
<1>4. ASSUME NEW e \in Establishments, Establish(e) \/ EstablishFails(e)
      PROVE  UNCHANGED <<challenge, registration>>
    BY <1>4 DEF Establish, FindDevice, SaveSession, EstablishFails, EstablishTo
<1>5. ASSUME NEW t \in Terminations, Terminate(t) PROVE UNCHANGED <<challenge, registration>>
    BY <1>5 DEF Terminate
<1>6. ASSUME NEW v \in Revocations, Revoke(v) \/ RevokeFails(v)
      PROVE  UNCHANGED <<challenge, registration>>
    BY <1>6 DEF Revoke, RevokeDevice, CloseSessions, CommitRevocation, PublishRevoked,
                RevokeFails, RevokeTo
<1> QED BY <1>1, <1>2, <1>3, <1>4, <1>5, <1>6 DEF Next, vars, calls

LEMMA RevocationsStep ==
    ASSUME DeviceInv, [Next]_vars
    PROVE  RevocationsInv'
<1> USE CallAssumption DEF DeviceInv, IdentityTypeOK, RevocationsInv
<1>1. ASSUME NEW r \in Registrations, Register(r) \/ RegisterFails(r) PROVE RevocationsInv'
    BY <1>1 DEF Register, Peek, Consume, RegisterActive, PublishActive, RegisterFails,
                RegisterTo, rows
<1>2. ASSUME NEW e \in Establishments, Establish(e) \/ EstablishFails(e) PROVE RevocationsInv'
    <2>1. CASE SaveSession(e)
        BY <2>1 DEF SaveSession, EstablishTo, SessionsInv
    <2>2. CASE FindDevice(e) \/ EstablishFails(e)
        BY <2>2 DEF FindDevice, EstablishFails, EstablishTo, rows
    <2> QED BY <1>2, <2>1, <2>2 DEF Establish
<1>3. ASSUME NEW t \in Terminations, Terminate(t) PROVE RevocationsInv'
    BY <1>3 DEF Terminate
<1>4. ASSUME NEW v \in Revocations, Revoke(v) \/ RevokeFails(v) PROVE RevocationsInv'
    <2>1. CASE RevokeDevice(v)
        BY <2>1 DEF RevokeDevice, DeviceRowIsFree, NothingUpdated, RevokeTo, rows
    <2>2. CASE CloseSessions(v)
        BY <2>2 DEF CloseSessions, OpenSessions, RevokeTo, rows
    <2>3. CASE CommitRevocation(v)
        BY <2>3 DEF CommitRevocation, RevokeTo
    <2>4. CASE PublishRevoked(v)
        BY <2>4 DEF PublishRevoked, RevokeTo, rows
    <2>5. CASE RevokeFails(v)
        BY <2>5 DEF RevokeFails, RevokeTo, rows
    <2> QED BY <1>4, <2>1, <2>2, <2>3, <2>4, <2>5 DEF Revoke
<1>5. CASE UNCHANGED <<rows, calls, closing>>
    BY <1>5 DEF rows, calls
<1> QED BY <1>1, <1>2, <1>3, <1>4, <1>5 DEF Next, IssueChallenge, ChallengeExpires, vars

LEMMA SessionsStep ==
    ASSUME DeviceInv, [Next]_vars
    PROVE  SessionsInv'
<1> USE CallAssumption DEF DeviceInv, IdentityTypeOK, SessionsInv
<1>1. ASSUME NEW e \in Establishments, Establish(e) \/ EstablishFails(e) PROVE SessionsInv'
    BY <1>1 DEF Establish, FindDevice, SaveSession, EstablishFails, EstablishTo, rows
<1>2. ASSUME NEW t \in Terminations, Terminate(t) PROVE SessionsInv'
    BY <1>2 DEF Terminate, Terminable
<1>3. ASSUME NEW v \in Revocations, Revoke(v) \/ RevokeFails(v) PROVE SessionsInv'
    BY <1>3 DEF Revoke, RevokeDevice, CloseSessions, CommitRevocation, PublishRevoked,
                RevokeFails, RevokeTo, rows, RevocationsInv
<1>4. CASE UNCHANGED <<session, establishment>>
    BY <1>4
<1>5. ASSUME NEW r \in Registrations, Register(r) \/ RegisterFails(r)
      PROVE  UNCHANGED <<session, establishment>>
    BY <1>5 DEF Register, Peek, Consume, RegisterActive, PublishActive, RegisterFails,
                RegisterTo, rows
<1> QED BY <1>1, <1>2, <1>3, <1>4, <1>5
        DEF Next, IssueChallenge, ChallengeExpires, vars, rows, calls

LEMMA CacheStep ==
    ASSUME DeviceInv, [Next]_vars
    PROVE  CacheInv'
<1> USE DEF DeviceInv, IdentityTypeOK, CacheInv, CacheFollowsRows
<1>1. ASSUME NEW r \in Registrations, Register(r) \/ RegisterFails(r) PROVE CacheInv'
    BY <1>1 DEF Register, Peek, Consume, RegisterActive, PublishActive, RegisterFails,
                RegisterTo, rows
<1>2. ASSUME NEW v \in Revocations, Revoke(v) \/ RevokeFails(v) PROVE CacheInv'
    BY <1>2 DEF Revoke, RevokeDevice, CloseSessions, CommitRevocation, PublishRevoked,
                RevokeFails, RevokeTo, rows, RevocationsInv
<1>3. CASE UNCHANGED <<device, cache, registration>>
    BY <1>3
<1>4. ASSUME NEW e \in Establishments, Establish(e) \/ EstablishFails(e)
      PROVE  UNCHANGED <<device, cache, registration>>
    BY <1>4 DEF Establish, FindDevice, SaveSession, EstablishFails, EstablishTo, rows
<1>5. ASSUME NEW t \in Terminations, Terminate(t) PROVE UNCHANGED <<device, cache, registration>>
    BY <1>5 DEF Terminate
<1> QED BY <1>1, <1>2, <1>3, <1>4, <1>5
        DEF Next, IssueChallenge, ChallengeExpires, vars, rows, calls

\* What the outbox announces once a call has written its event.
LEMMA Adding ==
    ASSUME NEW event, NEW call, outbox' = outbox \cup {<<event, call>>}
    PROVE  \A ev, c : Announced(ev, c)' <=> Announced(ev, c) \/ (ev = event /\ c = call)
    BY DEF Announced

LEMMA OutboxStep ==
    ASSUME DeviceInv, [Next]_vars
    PROVE  OutboxInv'
<1> USE CallAssumption DEF DeviceInv, IdentityTypeOK, OutboxInv
<1>1. CASE UNCHANGED rows
    BY <1>1 DEF rows, Announced
<1>2. ASSUME NEW r \in Registrations, RegisterActive(r), device = "absent" PROVE OutboxInv'
    <2>1. outbox' = outbox \cup {<<"device.registered", r>>}
        BY <1>2 DEF RegisterActive
    <2>2. \A ev, c : Announced(ev, c)' <=> Announced(ev, c) \/ (ev = "device.registered" /\ c = r)
        BY <2>1, Adding
    <2> QED BY <1>2, <2>2 DEF RegisterActive
<1>3. ASSUME NEW e \in Establishments, SaveSession(e) PROVE OutboxInv'
    <2>1. \A ev, c : Announced(ev, c)' <=>
              Announced(ev, c) \/ (ev = "identity.session_established" /\ c = e)
        <3>1. outbox' = outbox \cup {<<"identity.session_established", e>>}
            BY <1>3 DEF SaveSession
        <3> QED BY <3>1, Adding
    <2>2. /\ session[e] = "none" /\ session'[e] = "open"
          /\ \A d \in Establishments : d # e => session'[d] = session[d]
        BY <1>3 DEF SaveSession, SessionsInv
    <2> QED BY <1>3, <2>1, <2>2 DEF SaveSession
<1>4. ASSUME NEW t \in Terminations, Terminate(t), Terminable(Target[t]) PROVE OutboxInv'
    <2>1. outbox' = outbox \cup {<<"identity.session_terminated", t>>}
        BY <1>4 DEF Terminate
    <2>2. \A ev, c : Announced(ev, c)' <=>
              Announced(ev, c) \/ (ev = "identity.session_terminated" /\ c = t)
        BY <2>1, Adding
    <2> QED BY <1>4, <2>2 DEF Terminate, Terminable
<1>5. ASSUME NEW v \in Revocations, CommitRevocation(v) PROVE OutboxInv'
    <2>1. \A ev, c : Announced(ev, c)' <=> Announced(ev, c) \/ (ev = "device.revoked" /\ c = v)
        BY <1>5, Adding DEF CommitRevocation
    <2> QED BY <1>5, <2>1 DEF CommitRevocation, RevocationsInv
<1>6. ASSUME NEW r \in Registrations, Register(r) \/ RegisterFails(r) PROVE OutboxInv'
    BY <1>1, <1>2, <1>6 DEF Register, Peek, Consume, RegisterActive, PublishActive,
                            RegisterFails, rows
<1>7. ASSUME NEW e \in Establishments, Establish(e) \/ EstablishFails(e) PROVE OutboxInv'
    BY <1>1, <1>3, <1>7 DEF Establish, FindDevice, EstablishFails
<1>8. ASSUME NEW t \in Terminations, Terminate(t) PROVE OutboxInv'
    BY <1>1, <1>4, <1>8 DEF Terminate, rows
<1>9. ASSUME NEW v \in Revocations, Revoke(v) \/ RevokeFails(v) PROVE OutboxInv'
    BY <1>1, <1>5, <1>9 DEF Revoke, RevokeDevice, CloseSessions, PublishRevoked, RevokeFails
<1> QED BY <1>1, <1>6, <1>7, <1>8, <1>9 DEF Next, IssueChallenge, ChallengeExpires, vars

LEMMA DeviceInvStep == DeviceInv /\ [Next]_vars => DeviceInv'
    BY TypeStep, ChallengesStep, RevocationsStep, SessionsStep, CacheStep, OutboxStep
    DEF DeviceInv

LEMMA DeviceInvariance == Spec => []DeviceInv
    BY DeviceInvInit, DeviceInvStep, PTL DEF Spec
-----------------------------------------------------------------------------
(* What follows                                                              *)

\* A challenge proves one registration, whoever read it before it was taken.
THEOREM ChallengesProveOnce == Spec => []ChallengeProvesOnce
    BY DeviceInvariance, PTL DEF DeviceInv, ChallengesInv

\* Redis announces nothing that PostgreSQL has not committed.
THEOREM CacheFollows == Spec => []CacheFollowsRows
    BY DeviceInvariance, PTL DEF DeviceInv, CacheInv

\* What at most one call satisfies is counted 0 or 1.
LEMMA CountedOnce ==
    ASSUME NEW S, \A x, y \in S : x = y
    PROVE  Cardinality(S) = IF S = {} THEN 0 ELSE 1
<1>1. CASE S = {}
    BY <1>1, FS_EmptySet
<1>2. CASE S # {}
    <2>1. PICK x \in S : TRUE
        BY <1>2
    <2>2. S = {x}
        BY <2>1
    <2>3. Cardinality({x}) = 1
        BY FS_Singleton
    <2>4. Cardinality(S) = 1
        BY <2>2, <2>3, Zenon
    <2> QED BY <1>2, <2>4
<1> QED BY <1>1, <1>2

\* The outbox tells each change of the rows, once.
THEOREM OutboxTells == Spec => []OutboxTellsTheRows
<1>1. DeviceInv => OutboxTellsTheRows
    <2> SUFFICES ASSUME DeviceInv PROVE OutboxTellsTheRows
        OBVIOUS
    <2> USE DEF DeviceInv, IdentityTypeOK, OutboxInv, Announced, Events
    <2>1. Written("device.registered") = {r \in Registrations : Announced("device.registered", r)}
        BY DEF Written
    <2>2. Written("device.revoked") = {v \in Revocations : Announced("device.revoked", v)}
        BY DEF Written
    <2>3. Written("identity.session_established") = {e \in Establishments : session[e] # "none"}
        BY DEF Written
    <2>4. Written("identity.session_terminated") =
              {t \in Terminations : Announced("identity.session_terminated", t)}
        BY DEF Written
    <2>5. Cardinality(Written("device.registered")) = (IF device = "absent" THEN 0 ELSE 1)
        <3>1. \A r, s \in Written("device.registered") : r = s
            BY <2>1
        <3>2. Written("device.registered") = {} <=> device = "absent"
            BY <2>1
        <3> QED BY <3>1, <3>2, CountedOnce
    <2>6. Cardinality(Written("device.revoked")) = (IF device = "revoked" THEN 1 ELSE 0)
        <3>1. \A v, w \in Written("device.revoked") : v = w
            BY <2>2
        <3>2. Written("device.revoked") = {} <=> device # "revoked"
            BY <2>2
        <3> QED BY <3>1, <3>2, CountedOnce
    <2>7. ASSUME NEW e \in Establishments
          PROVE  Cardinality({t \in Written("identity.session_terminated") : Target[t] = e})
                     = (IF session[e] = "logout" THEN 1 ELSE 0)
        <3> DEFINE S == {t \in Written("identity.session_terminated") : Target[t] = e}
        <3>1. \A t, u \in S : t = u
            BY <2>4
        <3>2. S = {} <=> session[e] # "logout"
            BY <2>4
        <3> HIDE DEF S
        <3>3. Cardinality(S) = (IF session[e] = "logout" THEN 1 ELSE 0)
            BY <3>1, <3>2, CountedOnce
        <3> QED BY <3>3 DEF S
    <2> QED BY <2>3, <2>5, <2>6, <2>7 DEF OutboxTellsTheRows
<1> QED BY <1>1, DeviceInvariance, PTL

\* A call that has not found the device active before it was revoked.
Refused(e) == device = "revoked" /\ establishment[e] # "save" /\ session[e] = "none"

\* A session that the open revocation, if it has closed its sessions, has closed.
Closable(e) ==
    /\ session[e] # "none"
    /\ device = "revoked" => session[e] # "open"
    /\ \A v \in Revocations : revocation[v] = "commit" /\ session[e] = "open" => e \in closing

\* Once refused, refused for good.
LEMMA RefusedStep ==
    ASSUME NEW e \in Establishments, DeviceInv, Refused(e), [Next]_vars
    PROVE  Refused(e)'
<1> USE CallAssumption DEF DeviceInv, IdentityTypeOK, Refused
<1>1. ASSUME NEW r \in Registrations, Register(r) \/ RegisterFails(r) PROVE Refused(e)'
    BY <1>1 DEF Register, Peek, Consume, RegisterActive, PublishActive, RegisterFails,
                RegisterTo, rows
<1>2. ASSUME NEW f \in Establishments, Establish(f) \/ EstablishFails(f) PROVE Refused(e)'
    BY <1>2 DEF Establish, FindDevice, SaveSession, EstablishFails, EstablishTo, Usable, rows
<1>3. ASSUME NEW t \in Terminations, Terminate(t) PROVE Refused(e)'
    BY <1>3 DEF Terminate, Terminable
<1>4. ASSUME NEW v \in Revocations, Revoke(v) \/ RevokeFails(v) PROVE Refused(e)'
    BY <1>4 DEF Revoke, RevokeDevice, CloseSessions, CommitRevocation, PublishRevoked,
                RevokeFails, RevokeTo, rows, RevocationsInv
<1>5. CASE UNCHANGED <<rows, calls>>
    BY <1>5 DEF rows, calls
<1> QED BY <1>1, <1>2, <1>3, <1>4, <1>5 DEF Next, IssueChallenge, ChallengeExpires, vars

\* A call of establishSession that starts after a revocation gets no session.
THEOREM LateCallsRefused == Spec => LateCallsAreRefused
<1> SUFFICES ASSUME NEW e \in Establishments
             PROVE  Spec => [](device = "revoked" /\ establishment[e] = "find"
                                   => [](session[e] = "none"))
    BY DEF LateCallsAreRefused
<1>1. DeviceInv /\ device = "revoked" /\ establishment[e] = "find" => Refused(e)
    BY DEF DeviceInv, SessionsInv, Refused
<1>2. DeviceInv /\ Refused(e) /\ [Next]_vars => Refused(e)'
    BY RefusedStep
<1>3. Refused(e) => session[e] = "none"
    BY DEF Refused
<1> QED BY <1>1, <1>2, <1>3, DeviceInvariance, PTL DEF Spec
\* And no other one is opened in its place.
LEMMA ClosableStep ==
    ASSUME NEW e \in Establishments, DeviceInv, Closable(e), [Next]_vars
    PROVE  Closable(e)'
<1> USE CallAssumption DEF DeviceInv, IdentityTypeOK, Closable
<1>1. ASSUME NEW r \in Registrations, Register(r) \/ RegisterFails(r) PROVE Closable(e)'
    BY <1>1 DEF Register, Peek, Consume, RegisterActive, PublishActive, RegisterFails,
                RegisterTo, rows
<1>2. ASSUME NEW f \in Establishments, Establish(f) \/ EstablishFails(f) PROVE Closable(e)'
    BY <1>2 DEF Establish, FindDevice, SaveSession, EstablishFails, EstablishTo, SessionsInv, rows
<1>3. ASSUME NEW t \in Terminations, Terminate(t) PROVE Closable(e)'
    BY <1>3 DEF Terminate
<1>4. ASSUME NEW v \in Revocations, Revoke(v) \/ RevokeFails(v) PROVE Closable(e)'
    <2>1. CASE RevokeDevice(v) \/ PublishRevoked(v)
        BY <2>1 DEF RevokeDevice, PublishRevoked, NothingUpdated, RevokeTo, rows
    <2>2. CASE CloseSessions(v)
        BY <2>2 DEF CloseSessions, OpenSessions, RevokeTo, RevocationsInv, rows
    <2>3. CASE CommitRevocation(v)
        BY <2>3 DEF CommitRevocation, RevokeTo, RevocationsInv
    <2>4. CASE RevokeFails(v)
        BY <2>4 DEF RevokeFails, RevokeTo, RevocationsInv, rows
    <2> QED BY <1>4, <2>1, <2>2, <2>3, <2>4 DEF Revoke
<1>5. CASE UNCHANGED <<rows, calls, closing>>
    BY <1>5 DEF rows, calls
<1> QED BY <1>1, <1>2, <1>3, <1>4, <1>5 DEF Next, IssueChallenge, ChallengeExpires, vars

\* No revocation commits and leaves a session that was open before it started.
THEOREM RevocationsCloseSessions == Spec => RevocationClosesSessions
<1> SUFFICES ASSUME NEW e \in Establishments
             PROVE  Spec => []((session[e] = "open" /\ \A v \in Revocations : revocation[v] = "update")
                                   => [](device = "revoked" => session[e] # "open"))
    BY DEF RevocationClosesSessions
<1> DEFINE Before == session[e] = "open" /\ \A v \in Revocations : revocation[v] = "update"
           After  == device = "revoked" => session[e] # "open"
<1>1. DeviceInv /\ Before => Closable(e)
    BY DEF DeviceInv, RevocationsInv, Closable
<1>2. DeviceInv /\ Closable(e) /\ [Next]_vars => Closable(e)'
    BY ClosableStep
<1>3. Closable(e) => After
    BY DEF Closable
<1>4. Spec => [](Before => []After)
    <2> HIDE DEF Before, After
    <2> QED BY <1>1, <1>2, <1>3, DeviceInvariance, PTL DEF Spec
<1> QED BY <1>4
=============================================================================
