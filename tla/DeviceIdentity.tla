---------------------------- MODULE DeviceIdentity ----------------------------
(* One device of one user over two stores: its row, its sessions and the     *)
(* outbox in PostgreSQL, its challenges and its revocation state in Redis.   *)
(* The row's version is a function of its status (2 active, 3 revoked).      *)
EXTENDS FiniteSets

CONSTANTS
    Nonces,             \* challenges, 256 random bits each
    Registrations,      \* calls of registerDeviceAccess
    Proof,              \* the nonce each registration proves
    Establishments,     \* calls of establishSession; each would create one session
    Terminations,       \* calls of terminateSessionAccess
    Target,             \* the session each termination names
    Revocations         \* calls of revokeDeviceAccess

ASSUME CallAssumption ==
    /\ Proof \in [Registrations -> Nonces]
    /\ Target \in [Terminations -> Establishments]

VARIABLES
    challenge,          \* domus:device-challenge:<nonce>
    device,             \* iam_device.status, as committed
    session,            \* iam_auth_session of each establishment, as committed
    outbox,             \* iam_outbox_event: the event and the call that wrote it
    cache,              \* domus:device:<id>
    registration, establishment, termination, revocation,   \* what each call does next
    closing             \* the session rows the open revocation has updated, and locked

rows == <<device, session, outbox>>
calls == <<registration, establishment, termination, revocation>>
vars == <<challenge, rows, cache, calls, closing>>

Events ==
    ({"device.registered"} \X Registrations)
    \cup ({"identity.session_established"} \X Establishments)
    \cup ({"identity.session_terminated"} \X Terminations)
    \cup ({"device.revoked"} \X Revocations)

IdentityTypeOK ==
    /\ challenge \in [Nonces -> {"unissued", "stored", "gone"}]
    /\ device \in {"absent", "active", "revoked"}
    /\ session \in [Establishments -> {"none", "open", "logout", "revoked"}]
    /\ outbox \subseteq Events
    /\ cache \in {"none", "ACTIVE", "REVOKED"}
    /\ registration \in
           [Registrations -> {"peek", "consume", "rejected", "insert", "publish", "ended"}]
    /\ establishment \in [Establishments -> {"find", "save", "ended"}]
    /\ termination \in [Terminations -> {"update", "ended"}]
    /\ revocation \in [Revocations -> {"update", "close", "commit", "publish", "ended"}]
    /\ closing \subseteq Establishments

Init ==
    /\ challenge = [n \in Nonces |-> "unissued"]
    /\ device = "absent"
    /\ session = [e \in Establishments |-> "none"]
    /\ outbox = {}
    /\ cache = "none"
    /\ registration = [r \in Registrations |-> "peek"]
    /\ establishment = [e \in Establishments |-> "find"]
    /\ termination = [t \in Terminations |-> "update"]
    /\ revocation = [v \in Revocations |-> "update"]
    /\ closing = {}
-----------------------------------------------------------------------------
(* Challenges                                                                *)

\* issueDeviceChallenge: SET NX EX of a fresh nonce.
IssueChallenge(n) ==
    /\ challenge[n] = "unissued"
    /\ challenge' = [challenge EXCEPT ![n] = "stored"]
    /\ UNCHANGED <<rows, cache, calls, closing>>

\* The TTL of 120 seconds.
ChallengeExpires(n) ==
    /\ challenge[n] = "stored"
    /\ challenge' = [challenge EXCEPT ![n] = "gone"]
    /\ UNCHANGED <<rows, cache, calls, closing>>
-----------------------------------------------------------------------------
(* Registration: verify the proof, insert the row, publish                   *)

RegisterTo(r, step) ==
    /\ registration' = [registration EXCEPT ![r] = step]
    /\ UNCHANGED <<establishment, termination, revocation, closing>>

Peek(r) ==
    /\ registration[r] = "peek"
    /\ RegisterTo(r, IF challenge[Proof[r]] = "stored" THEN "consume" ELSE "rejected")
    /\ UNCHANGED <<challenge, rows, cache>>

\* Mutant: GET instead of GETDEL.
LeftByGet == "stored"

LeftByConsume == "gone"

\* The signature, the claims and their times hold; the challenge is taken.
Consume(r) ==
    /\ registration[r] = "consume"
    /\ IF challenge[Proof[r]] = "stored"
         THEN /\ challenge' = [challenge EXCEPT ![Proof[r]] = LeftByConsume]
              /\ RegisterTo(r, "insert")
         ELSE RegisterTo(r, "rejected") /\ UNCHANGED challenge
    /\ UNCHANGED <<rows, cache>>

\* registerActive: the primary key refuses a second row.  COMMIT's answer may be
\* lost, and then nothing is published.
RegisterActive(r) ==
    /\ registration[r] = "insert"
    /\ IF device = "absent"
         THEN /\ device' = "active"
              /\ outbox' = outbox \cup {<<"device.registered", r>>}
              /\ \E next \in {"publish", "ended"} : RegisterTo(r, next)
         ELSE RegisterTo(r, "ended") /\ UNCHANGED <<device, outbox>>
    /\ UNCHANGED <<challenge, session, cache>>

\* cache.publish sets the key whatever it holds.
PublishActive(r) ==
    /\ registration[r] = "publish"
    /\ cache' = "ACTIVE"
    /\ RegisterTo(r, "ended")
    /\ UNCHANGED <<challenge, rows>>

\* An invalid proof, a dependency that fails or a process that dies.
RegisterFails(r) ==
    /\ \/ registration[r] = "consume" /\ RegisterTo(r, "rejected")
       \/ registration[r] \in {"insert", "publish"} /\ RegisterTo(r, "ended")
    /\ UNCHANGED <<challenge, rows, cache>>
-----------------------------------------------------------------------------
(* Sessions                                                                  *)

EstablishTo(e, step) ==
    /\ establishment' = [establishment EXCEPT ![e] = step]
    /\ UNCHANGED <<registration, termination, revocation, closing>>

\* Mutant: any row is a registered device.
UsableIfKnown == device # "absent"

Usable == device = "active"

\* deviceRepository.find, in a transaction of its own.
FindDevice(e) ==
    /\ establishment[e] = "find"
    /\ EstablishTo(e, IF Usable THEN "save" ELSE "ended")
    /\ UNCHANGED <<challenge, rows, cache>>

\* sessionRepository.save: the foreign key asks for the device's row, not for its
\* status, and does not wait for a transaction that changes the status.
SaveSession(e) ==
    /\ establishment[e] = "save"
    /\ session' = [session EXCEPT ![e] = "open"]
    /\ outbox' = outbox \cup {<<"identity.session_established", e>>}
    /\ EstablishTo(e, "ended")
    /\ UNCHANGED <<challenge, device, cache>>

EstablishFails(e) ==
    /\ establishment[e] = "save"
    /\ EstablishTo(e, "ended")
    /\ UNCHANGED <<challenge, rows, cache>>

\* Mutant: UPDATE without "revoked_at IS NULL".
TerminableIfSaved(e) == session[e] # "none"

Terminable(e) == session[e] = "open"

\* terminate: the UPDATE waits while a revocation holds the session's row.
Terminate(t) ==
    /\ termination[t] = "update" /\ Target[t] \notin closing
    /\ IF Terminable(Target[t])
         THEN /\ session' = [session EXCEPT ![Target[t]] = "logout"]
              /\ outbox' = outbox \cup {<<"identity.session_terminated", t>>}
         ELSE UNCHANGED <<session, outbox>>
    /\ termination' = [termination EXCEPT ![t] = "ended"]
    /\ UNCHANGED <<challenge, device, cache, registration, establishment, revocation, closing>>
-----------------------------------------------------------------------------
(* Revocation: two UPDATEs and an event in one transaction, then publish     *)

RevokeTo(v, step) ==
    /\ revocation' = [revocation EXCEPT ![v] = step]
    /\ UNCHANGED <<registration, establishment, termination>>

DeviceRowIsFree == \A v \in Revocations : revocation[v] \notin {"close", "commit"}

\* Mutant: an UPDATE that found no row is taken for a success.
PublishesAnyway == "publish"

NothingUpdated == "ended"

\* The first UPDATE: waits for the row's lock, then finds an active device or
\* raises DEVICE_REVOKED, also for a device that was never registered.
RevokeDevice(v) ==
    /\ revocation[v] = "update" /\ DeviceRowIsFree
    /\ RevokeTo(v, IF device = "active" THEN "close" ELSE NothingUpdated)
    /\ UNCHANGED <<challenge, rows, cache, closing>>

\* Mutant: the sessions are left to expire.
SessionsLeftOpen == {}

OpenSessions == {e \in Establishments : session[e] = "open"}

\* The second UPDATE: the sessions committed when the statement starts.
CloseSessions(v) ==
    /\ revocation[v] = "close"
    /\ closing' = OpenSessions
    /\ RevokeTo(v, "commit")
    /\ UNCHANGED <<challenge, rows, cache>>

\* COMMIT's answer may be lost, and then nothing is published.
CommitRevocation(v) ==
    /\ revocation[v] = "commit"
    /\ device' = "revoked"
    /\ session' = [e \in Establishments |-> IF e \in closing THEN "revoked" ELSE session[e]]
    /\ outbox' = outbox \cup {<<"device.revoked", v>>}
    /\ closing' = {}
    /\ \E next \in {"publish", "ended"} : RevokeTo(v, next)
    /\ UNCHANGED <<challenge, cache>>

PublishRevoked(v) ==
    /\ revocation[v] = "publish"
    /\ cache' = "REVOKED"
    /\ RevokeTo(v, "ended")
    /\ UNCHANGED <<challenge, rows, closing>>

\* ROLLBACK, or a publish that fails or is never made.
RevokeFails(v) ==
    /\ revocation[v] \in {"close", "commit", "publish"}
    /\ RevokeTo(v, "ended")
    /\ closing' = IF revocation[v] = "commit" THEN {} ELSE closing
    /\ UNCHANGED <<challenge, rows, cache>>

Register(r) == Peek(r) \/ Consume(r) \/ RegisterActive(r) \/ PublishActive(r)
Establish(e) == FindDevice(e) \/ SaveSession(e)
Revoke(v) == RevokeDevice(v) \/ CloseSessions(v) \/ CommitRevocation(v) \/ PublishRevoked(v)

Next ==
    \/ \E n \in Nonces : IssueChallenge(n) \/ ChallengeExpires(n)
    \/ \E r \in Registrations : Register(r) \/ RegisterFails(r)
    \/ \E e \in Establishments : Establish(e) \/ EstablishFails(e)
    \/ \E t \in Terminations : Terminate(t)
    \/ \E v \in Revocations : Revoke(v) \/ RevokeFails(v)

Spec == Init /\ [][Next]_vars
-----------------------------------------------------------------------------
(* Properties                                                                *)

\* A challenge proves one registration, though two read it before either takes it.
ChallengeProvesOnce ==
    \A r, s \in Registrations :
        /\ Proof[r] = Proof[s]
        /\ {registration[r], registration[s]} \subseteq {"insert", "publish", "ended"}
        => r = s

Written(event) == {call \in Registrations \cup Establishments \cup Terminations \cup Revocations :
                       <<event, call>> \in outbox}

\* The outbox tells the rows, each change once: whoever raced for a row and lost
\* has announced nothing, and no closed session is closed again.
OutboxTellsTheRows ==
    /\ Cardinality(Written("device.registered")) = (IF device = "absent" THEN 0 ELSE 1)
    /\ Cardinality(Written("device.revoked")) = (IF device = "revoked" THEN 1 ELSE 0)
    /\ Written("identity.session_established") = {e \in Establishments : session[e] # "none"}
    /\ \A e \in Establishments :
           Cardinality({t \in Written("identity.session_terminated") : Target[t] = e})
               = (IF session[e] = "logout" THEN 1 ELSE 0)

\* Redis never announces what PostgreSQL has not committed.
CacheFollowsRows ==
    /\ cache = "REVOKED" => device = "revoked"
    /\ cache = "ACTIVE" => device # "absent"

\* A call of establishSession that starts after the revocation gets no session.
LateCallsAreRefused ==
    \A e \in Establishments :
        [](device = "revoked" /\ establishment[e] = "find" => [](session[e] = "none"))

\* A session that is open before any revocation starts does not outlive one.
RevocationClosesSessions ==
    \A e \in Establishments :
        []((session[e] = "open" /\ \A v \in Revocations : revocation[v] = "update")
            => [](device = "revoked" => session[e] # "open"))

\* When every revocation has been answered and no registration is under way, the
\* cache does not say ACTIVE of a revoked device.
RevocationReachesCache ==
    /\ \A v \in Revocations : revocation[v] = "ended"
    /\ \A r \in Registrations : registration[r] # "publish"
    => ~(device = "revoked" /\ cache = "ACTIVE")
=============================================================================
