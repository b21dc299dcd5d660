# domus-corp: TLA+ models, model checking and proofs

The repository is a control plane (TypeScript, `src/apps/control-plane`), a
knowledge service (Python, `src/apps/knowledge-api`), a desktop client
(`src/apps/desktop`), an admin console, and SQL migrations that carry part of
the logic (constraints, row-level security, triggers). This directory holds TLA+
modules of its core logic, the TLC runs over small instances, and TLAPS proofs.

## 1. Inventory

`CP` is `src/apps/control-plane/src`, `KA` is
`src/apps/knowledge-api/src/domus_knowledge`, `DT` is `src/apps/desktop/src/main`.

| Component | State it keeps | Operations | Interacts with | What is hard | What makes it correct |
|---|---|---|---|---|---|
| Budget reservations (`CP/application/budget`, `CP/domain/budget`, `CP/infrastructure/postgres/budget-repository.ts`) | limit rows with running sums, reservations, allocations, an append-only ledger | reserve, reconcile | gateway | row locks in two orders, same-key races, lost COMMIT | limits hold, sums equal what they stand for, one receipt settles |
| Model gateway (`CP/application/gateway/execute-model-request.ts`, `CP/interfaces/http/gateway`) | none of its own; the reservation, audit records, the provider's charge | one request through nine awaited calls | policy, router, egress, budget, credentials, provider, audit | failure or crash between any two calls, late provider | once per key, charged cost is backed and settled |
| Provider stream (`CP/application/gateway/consume-provider-stream.ts`, stream route) | sequence, terminal flag | started, delta, completed, cancelled, failed | gateway, desktop | abort against completion | one terminal event |
| Resilience (`CP/domain/gateway/resilience.ts`, `CP/infrastructure/redis/resilience-store.ts`) | circuit state; Redis leases, queues, counters | admit, record; acquire, release | gateway | late reports, expired leases | one probe, counters match leases |
| Catalog and routing (`CP/application/catalog`, `CP/domain/catalog`) | provider and model versions, prices, the graph of fallbacks | publish provider, publish model, route | gateway, credentials | each check in a transaction of its own, concurrent publications | a route follows published fallbacks and never a cycle |
| Provider credentials (`CP/application/credentials`, `CP/infrastructure/vault`) | rows in the database, secrets in Vault | register, test, rotate, revoke, use | gateway, catalog | two stores, no transaction over both | the one active credential was tested and has its secret; nobody gains a secret whose withdrawal was answered |
| Egress guard (`CP/application/security`) | rules, decisions | prepare | gateway | text patterns | no payload leaves unguarded |
| Identity, devices, sessions (`CP/application/identity`, `identity-repositories.ts`, Redis stores) | users, devices, sessions, challenges, revocation cache | challenge, register, establish, revoke, terminate | every route | revoke against establish, cache against database | no session of a revoked device |
| Workspaces (`CP/application/tenancy`) | the workspace, its memberships, an outbox | create, archive, change membership | sources, policy | a change races with calls that read the membership before | who lost the membership or the clearance owns no active source and gets no policy |
| Policy (`CP/application/policy`, `CP/domain/policy`, `CP/infrastructure/redis/policy-cache.ts`) | published layers, cached policies, the audit of evaluations | resolve | gateway, workspaces | layers, cache and audit read and written by separate calls | an answer allows no more than any layer its call read, and is on record |
| Source registry (`CP/application/source`, `CP/domain/source/source-registry.ts`) | a versioned row and its outbox | create, submit, accept, activate, pause, disconnect, archive | workspaces, connectors | load, eligibility and save are three transactions | the outbox tells the row's versions; what was stopped stays stopped |
| Connectors (`CP/domain/source/sync.ts`, `CP/infrastructure/postgres/connector-repository.ts`) | the connection with its lease and cursor, items, an outbox | acquire, commit a page, fail, pause | sources, by a trigger | lease expiry, lost answers, a source stopped half-way | pages follow one another, under the last lease; only a lease taken while the source is being stopped outlives the stop |
| Ingestion (`KA/ingestion.py`, `KA/ingestion_repository.py`) | jobs with lease, attempt, fence; results, outbox | begin, succeed, fail | objects, safety | takeover, retries, dead letters | one result per job, only the current fence writes |
| Objects (`KA/objects.py`, `KA/object_repository.py`) | bytes in a store, rows in the database | admit, delete, restore check | ingestion | crash between the stores | a row's bytes exist |
| Governance (`KA/knowledge_governance.py`) | versioned records, conflicts | propose, approve, reject, cutover, revoke, conflict, resolve | claims, retrieval | long sequences | one effective record per key |
| Content safety, taxonomy, claims (`KA/content_safety.py`, `KA/taxonomy.py`, `KA/knowledge_graph.py`) | assessments, nodes, claims | review, publish, invalidate | governance, retrieval | stale evidence | no claim without valid evidence |
| Access, retrieval, vectors (`KA/access_control.py`, `KA/retrieval.py`, `KA/vector_index.py`) | embeddings | filter, search, publish | governance | filter after truncation | nothing unauthorised is returned |
| Desktop (`DT/application`, `DT/domain`) | chat state, onboarding, history | send, cancel, save | gateway | reconnect, late events | one terminal phase |

Not modelled at all: the admin console and UI kit (rendering), bootstrap,
configuration and OIDC (parsing and cryptography), the egress patterns and audit
queries (text), release tooling. `PROJECT.json` lists every component with its
status, and under `hazards` what is hard to test in this code.

## 2. Modules

| Module | Models | State | Actions |
|---|---|---|---|
| `BudgetTerms` | vocabulary: limits, commands, reservation rows, sums | - | - |
| `BudgetLedger` | what the budget's operations do, one call at a time | reservations, overdrawn budgets | `Reserve`, `Settle` |
| `BudgetReservation` | `budget-repository.ts`, row lock by row lock | the four tables, the two kinds of row lock, each connection's transaction and last reply | `ReserveCall`, `LockLimit`, `Admit`, `Deny`, `InsertCollides`, `ReconcileCall`, `Settle`, `DeadlockVictim`, `Abort` |
| `ModelGateway` | `execute-model-request.ts` and its route | per request: step, outcome, audit records, payload sent, provider's charge; the ledger | one per awaited call, `ProviderServes`, `Crash` |
| `ObjectAdmission` | `objects.py`, `object_repository.py`, the S3 adapter, for one identity | the bytes in two buckets, the row, its outbox, each admission's next step, the deletion state | `AdmitFind`, `AdmitPut`, `AdmitSave`, `AdmitFails`, `RequestDeletion`, `CompleteDeletion` |
| `Ingestion` | `ingestion.py`, `ingestion_repository.py` over it (EXTENDS) | the job row, artifacts, events, each attempt's next step | `Find`, `Begin`, `Read`, `ParseAndPut`, `ParserOverruns`, `ParserReturns`, `Succeed`, `AttemptFails` |
| `DeviceIdentity` | `application/identity`, `identity-repositories.ts`, the two Redis stores, for one device | challenges, the device's and its sessions' rows, the outbox, the cache, each call's next step | `IssueChallenge`, `ChallengeExpires`, one per step of `Register`, `Establish`, `Terminate`, `Revoke`, and their failures |
| `Tenancy` | `manage-workspace.ts` and its repository, for one workspace | the workspace, its memberships, the commands, their events | `CreateWorkspace`, `ArchiveWorkspace`, `ChangeMembership`, `Refused` |
| `SourceRegistry` | `manage-source.ts`, `source-registry.ts`, `source-repository.ts` for one source, and the pause inside `changeMembership` (EXTENDS `Tenancy`) | the row, its outbox, what each caller has read, the open membership commands | `RequestSource`, `LoadSource`, `CheckOwner`, `InsertSource`, `SaveSource`, `CommitSave`, `CallFails`, `BeginChange`, `CommitChange` |
| `ConnectorSync` | `connector-repository.ts`, `sync.ts`, the trigger of migration `000012` (EXTENDS `SourceRegistry`) | the connection's row, its outbox, the lease each worker believes it has, the acquire statements begun (`asking`), whether an open stop holds the row (`stopping`), how the last lease was taken (`late`) | `Ask`, `Acquire`, `CommitPage`, `Stop`, `FailSync`, `PauseConnection`, `LeaseExpires`, `Trigger` on every step of the source |
| `PolicyResolution` | `resolve-effective-policy.ts`, `policy-engine.ts`, the cache and the evaluations (EXTENDS `Tenancy`) | published layers, the cache, the audit, each request's step | one per awaited call, `Publish`, `CacheExpires` |
| `ProviderCredentials` | `manage-provider-credential.ts`, its repository and Vault, for one provider | rows, secrets, cleanup records, each call's and each use's step | one per call to a store, each done, done unanswered, or not done; `FindActive`, `GetSecret`, `Operate`, `UseEnds` |
| `ModelCatalog` | `publish-model.ts`, `model-router.ts` over them (EXTENDS) | the provider, the fallback graph, each publication's and route's step | `CheckProvider`, `PublishProvider`, `Check`, `PublishModel`, `BeginRoute`, `Select`, `Skip` |
| `BudgetSums`, `BudgetReservationProofs`, `GatewayProofs`, `IntakeProofs`, `DeviceProofs`, `GovernanceProofs`, `PolicyProofs`, `CredentialProofs` | theorems about them (section 5) | - | - |
| `MCBudget`, `MCGateway`, `MCIntake`, `MCDevice`, `MCGovernance`, `MCPolicy`, `MCCredentials` | instances | - | - |

**Budget.** A transaction is a sequence of steps: the lookup by idempotency key
or reservation id (`ReserveCall`, `ReconcileCall`), one `LockLimit` for each
limit row in the order of the statement's ORDER BY, then one step for the
writes and COMMIT. The writes form one step because they touch only rows the
transaction has locked or created, and READ COMMITTED shows them to nobody
before COMMIT. `ScopeRank` is the order of reserve, `<` on budget ids that of
reconcile. COMMIT may take effect with its answer lost (`"unavailable"`).
Amounts are naturals; a currency mismatch, a duplicate scope type or an invalid
amount denies like a missing scope and has no case of its own. `RoleBypassesRls` says
whether the connection's role is exempt from row-level security: the
repository's `domus_gateway_runtime` is not, and then reconcile finds nothing;
the runs that look at settlement assume an exempt role. A cost above the reservation
blocks a budget only where it takes the sum past the limit, as the statement does
(section 4).

**Gateway.** Each awaited call of `executeModelRequest` is one action; a call that
changes state elsewhere may take effect and still fail for the caller. The
provider may serve a request at any time after it was sent, also after the
gateway gave up. The reservation is made against `BudgetLedger`, which
`BudgetReservation` is shown to implement (run `budget_transactions`, property
`ImplementsLedger`). Policy, routing and egress are one allow/deny/fail step each. A request is a
command with a fingerprint of its own, because the route draws `requestId`
afresh for each HTTP request; so the answer `GATEWAY_REQUEST_IN_PROGRESS` of
line 16 cannot be reached through the route.

**Intake.** An identity (an asset version) determines its object key and its
primary key, so identities share no state and one is modelled; a job's
logical key is that identity with one parser profile and version. A record is immutable by trigger,
so its deletion state lives with the caller that holds it. The parser is
deterministic; its result is a constant function of the content. What an
attempt answers its caller is left out. The row states `retry_wait`, `failed`,
`quarantined` and `cancelled` have no writer in the repository and do not occur; an
attempt that fails leaves its row `running`. A parser past its timeout keeps its attempt
waiting (`"overrun"`): `result(timeout)` raises inside the executor's `with`, which waits
for the process. An attempt with a new job id for an
existing row keeps the row's old id and its success event is refused by the
outbox's foreign key, so it can take over but not finish. The tables' owner is
assumed to run the statements: the UPDATE grant of `000014` (line 4) does not
name `fencing_token`, which the upsert of `begin` writes.

**Devices.** Devices share no state, so one is modelled, with its one user. Its
version is 2 when active and 3 when revoked, so the status stands for both, in
the row and in the cache. Each step that awaits the database or Redis is an action;
`revoke` is three (two UPDATEs under READ COMMITTED, COMMIT), because a session
or a logout may commit between them. The route takes the revoked device's
user from the administrator who asks, so the model's user is that one; a
revocation of somebody else's device finds no row and answers `DEVICE_REVOKED`.

The type formulas of the budget, the gateway, the intake, the devices and the policies say what
their variables hold; the runs spend their properties on what could go wrong.

**Workspaces and sources.** Rows of different workspaces and sources are not
related, so one of each is modelled. Tenant roles and users have no writer in the
repository; what they refuse is part of `Refused`. The command that changes a
membership is two steps, its statements and its COMMIT, and so is a save, its UPDATE
(`SaveSource`) and its audit, outbox and COMMIT (`CommitSave`): under READ COMMITTED the
UPDATE that pauses the member's active sources does not see an activation that is
not committed yet, and whoever would update a row that an open transaction has updated
waits for it (`Written`). A call of `sourceService` keeps the row it loaded, and its
UPDATE asks for that row's version. An archived workspace still takes membership changes (the upsert asks for
the workspace's existence), a source created without an owner can never get one, and
a paused source cannot be activated again: the model follows the code in all three.

**Connectors.** A cursor stands for the page to list next, NULL for page 0. The
items and dead letters of a page are written in the page's transaction and their
keys are unique, so they are the page they belong to. After the last page the
cursor is NULL again. The trigger runs in the source's UPDATE: it finds and locks a
connection that is neither paused nor revoked (`stopping`), and what it wrote is visible
with the source's COMMIT. `acquire` is one statement in two steps: it sees the source
in the snapshot it begins with (`Ask`), and once it has the connection's row it looks at
that row again, not at the source (`Acquire`). Nothing but `READY` and `BACKOFF` can be acquired,
so the lease of a dead worker ends only by an administrator's hand. The services
that validate, resume and revoke a connection are interfaces without an
implementation; their effects on the row are external actions.

**Policies.** A policy is the set of layers it was composed of, each with its
version: `composeEffectivePolicy` is a function of them (`Allows`, `Allowed`,
`Limit`). Amounts and ages that make a layer invalid (`POLICY_INVALID`) are a negative
limit, which the theorems cover and the run's layers, to stay small, do not have; versions
are positive by the table's CHECK. `assertCurrent` is one step that goes on or denies. The repository has no
publisher of layers, so `Publish` is external and respects the tables' constraints.
The cached entry is not tied to a request: it carries the request id of the call
that composed it, which the model leaves out.

**Credentials and catalog.** Every call to Vault or PostgreSQL is done and
answered, done with its answer lost, or not done; a process that dies is a call that
fails and compensates nothing. An effect that comes after the caller gave up touches
only the secret of a credential that was never activated. A use is three steps, the
active row, Vault's answer and the operation, so a secret that Vault gave before it was
withdrawn may be used after; what no use can do is gain it then. `NextVersion` assumes that the
`previousSecretReference` of a rotation, any string to the code, names a credential that
is or was active. A rotation that could not
remove the old secret records its own credential in `cleanup_required`, as the code
does. The versions of the provider and of a model are not told apart: a publication
replaces the active one. A model's data decide only whether it is eligible, which
`Select` and `Skip` leave open; routing without a preferred model is not modelled.

## 3. Runs

| Run | Bounds | Shows |
|---|---|---|
| `budget_transactions` | 2 connections, 2 budgets with opposite orders, 3 commands (two with one key), 2 receipts, costs 0 and 3 | `CountersMatchReservations`, `AdmittedWithinLimit`, `OverdrawnIsBlocked`, `OneReservationPerKey`, `LedgerMatchesReservation`, `SettledOnce`, `CallsComplete`, `ImplementsLedger` |
| `model_gateway` | 3 requests (two retries of one body), limit 3, estimate 2, costs 1 and 4 | `ProviderOncePerKey`, `ProviderCallIsBacked`, `SentWithinLimit`, `SettlementIsProviderCharge`, `RefusalIsFree`, `CompletionIsSettled`, `EveryRequestEnds` |
| `gateway_retry` | same | violation: a resent request is an `IDEMPOTENCY_CONFLICT` |
| `knowledge_intake` | 3 admissions (a retry, other bytes that are infected), 3 attempts (a takeover, one under another job id) | `RecordHasItsBytes`, `ReturnedIsRecorded`, `ResultIsOfOriginal`, `AttemptsAreFenced`, `SuccessIsAnnounced`, `SucceededIsFinal`, `AttemptsEnd` |
| `intake_fencing` | same | violation: two workers publish one version |
| `device_identity` | 3 registrations over 2 challenges, 2 sessions, 2 logouts of one session, 2 revocations | `ChallengeProvesOnce`, `OutboxTellsTheRows`, `CacheFollowsRows`, `LateCallsAreRefused`, `RevocationClosesSessions` |
| `device_cache` | same | violation: a revocation that is never published |
| `source_governance` | 1 owner who loses the clearance, 2 callers, 3 drafts (complete, without owner, without classification), 2 workers, 2 pages, 2 leases, source versions to 5 | `GovernanceTypeOK`, `EventsTellVersions`, `StoppedForGood`, `LeaseNeedsActiveSource`, `PagesFollowOneAnother`, `PagesAreOfLastStart` |
| `source_owner` | same | violation: an active source whose owner is not eligible |
| `policy_resolution` | 2 requests of 1 member who is demoted and revoked, 4 publications, one of another currency, a workspace archived | `AnswerWithinLayers`, `AnswerIsAudited`, `FormerMembersAreDenied` |
| `provider_credentials` | 2 rotations, 1 revocation, 1 use; 2 models, 2 publications that make each the other's fallback, 1 route | `ActiveIsUsable`, `WithdrawnIsUnusable`, `ChainsAreFallbacks` |
| `catalog_cycle` | same | violation: two publications close a cycle |

The bounds are small and enough: two connections make every lock-level race of
two transactions, the limits (4) are below the sum of the estimates 3 and 2 of two commands, so that
admission matters, and cost 3 is an overage of the commands that estimate 1 and 2: it fits
the limit when nothing else is held, and passes it beside the other's reservation. The
gateway's limit of 3 is below two estimates of 2. Three admissions give a race between equal and
between different bytes while a third has failed half-way; three attempts give a
stale worker, its successor and a newcomer. Every call is finite and made once,
so the gateway, the intake and the device stop when all have ended: their runs do not
check for deadlock; in the first two, liveness says that the calls end. Two of each
call on the device race for every row and key, the third registration for the row alone.

Two callers make every race for one version of a source, and the membership command
may fall between any two steps of either; five versions hold creation, submission,
acceptance, activation and a stop. Two workers and two leases give a stale worker and
its successor, two pages a pass with a middle and an end. Two requests give a
policy cached by one and found by the other after a publication or a demotion. Two
rotations and a revocation race for one active credential; two publications of two
models are enough for a cycle. `MaxSourceVersion`, `MaxFence` and `Publications` bound
what the code leaves unbounded. Symmetry is used between callers who are the same
user, between workers and between rotations, and only where no liveness is checked.
These three runs check safety, need no fairness, and do not check for deadlock: all
their calls are finite.

**Fairness.** A transaction that can finish finishes (weak), a lock requested
again and again is granted (strong: PostgreSQL queues waiters), the deadlock
detector runs (weak). Nothing makes a client call or a provider serve. In the
gateway every await of the handler resolves or rejects (weak fairness of
`Handle`); crashes are never forced. A worker that is alive takes its next step
(weak fairness of each attempt's `Process`), and the parser's result or its timeout
comes; that a parser past its timeout ever returns is not assumed, since nothing in the
code ends it. Admissions and deletions may stop anywhere.

## 4. Where the code and the repository's documents differ

The violation runs each refute a sentence of the repository; `PROJECT.json` quotes it.

* `gateway_retry`: the fingerprint contains a request id no client can repeat.
* `intake_fencing`: the fenced UPDATE that changes no row does not stop the event.
* `device_cache`: a revocation whose publish failed cannot be published again.
* `source_owner`: the eligibility of the owner is read in one transaction and the
  source activated in another, so a membership command between them pauses nothing.
* `catalog_cycle`: each publication validates the graph it read, not the one it writes.

Four properties that hold say what the code does where a document says something else:

* `ImplementsLedger`: a cost above the reservation blocks a budget only when the sum
  passes its limit; `V1-305.md:47` blocks every affected budget and raises an alert.
* `LeaseNeedsActiveSource`: a lease can be taken between a stop's UPDATE and its COMMIT, or
  by a statement begun before it, and pages are committed under it; `V1-402.md:29` gives leases
  of active sources only and ends them with the source.
* `PagesFollowOneAnother`: after the last page the cursor is NULL and the next pass lists
  from the start; `V1-402.md:39` says that it never regresses.
* `AttemptsEnd`: a parser past its timeout keeps its attempt waiting; `V1-404.md:65` says that
  the timeout ends the process.

Four more are in the models without a run of their own, and among the hazards:
reserve locks limit rows by scope and reconcile by id, which can deadlock
(`DeadlockVictim`); reconcile's first SELECT runs before the transaction names its
tenant (`Visible`); nothing expires a reservation; nothing removes or adopts bytes
stored without a row.

## 5. Proofs

Each proof module shows, for every value of the constants that meets the named
assumptions of the modules it extends, that an inductive invariant holds, and what
follows from it. None of the properties is inductive by itself.

| Module | Proves of the specification | Inductive invariant |
|---|---|---|
| `BudgetReservationProofs` | `TypeOK`, `OverdrawnIsBlocked`, `OneReservationPerKey`, `SettledOnce`; `CountersMatchReservations`, `AdmittedWithinLimit`, `LedgerMatchesReservation`, `ImplementsLedger` | `BudgetInv`, `TallyInv` |
| `GatewayProofs` | `GatewayTypeOK`, `ProviderOncePerKey`, `ProviderCallIsBacked`, `SettlementIsProviderCharge`, `RefusalIsFree`, `CompletionIsSettled`; `SentWithinLimit`, `Ledger!LedgerSpec` | `GatewayInv`, `LedgerFits` |
| `IntakeProofs` | `IntakeTypeOK`, `RecordHasItsBytes`, `ReturnedIsRecorded`, `ResultIsOfOriginal`, `AttemptsAreFenced`, `SuccessIsAnnounced`, `SucceededIsFinal` | `IntakeInv` |
| `DeviceProofs` | `ChallengeProvesOnce`, `CacheFollowsRows`, `OutboxTellsTheRows`, `LateCallsAreRefused`, `RevocationClosesSessions` | `DeviceInv` |
| `GovernanceProofs` | `GovernanceTypeOK`, `EventsTellVersions`, `StoppedForGood`, `LeaseNeedsActiveSource`, `PagesAreOfLastStart`; `PagesFollowOneAnother` | `SourceInv`, `SyncInv`, `PassInv` |
| `PolicyProofs` | `PolicyTypeOK`, `AnswerWithinLayers`, `AnswerIsAudited`, `FormerMembersAreDenied` | `PolicyInv`, `PolicyTypeOK` |
| `CredentialProofs` | `ActiveIsUsable`, `WithdrawnIsUnusable`; `ChainsAreFallbacks` | `CredentialInv`, `RoutingInv` |

`BudgetSums` holds the lemmas the budget and the gateway share: what a sum over a
finite set is when an element joins it, leaves it or changes, and what that makes of
the sums of one budget when a reservation opens (`OpeningSums`) or settles
(`SettlingSums`). The sum of the community modules is a recursion that picks its
elements by `CHOOSE`; that it is well defined is shown by least counterexample over the
finite subsets, ordered by strict inclusion, which needs no induction theorem with an
operator as a parameter.

What the invariants add to the properties:

* `BudgetInv` adds the lock discipline: what a reserving transaction has read of a
  limit row it holds is still what the row says; a settling transaction holds its
  reservation's lock and the reservation is still open; a transaction's locks are rows
  it asked for. The argument is that of two-phase locking:
  `RollbackKeepsDiscipline` covers the steps that write no row,
  `CommitKeepsDiscipline` those that write only rows they locked.
* `TallyInv` stands on `BudgetInv`: only `Admit` and `Settle` write a row, each writes
  one reservation, its allocation, its ledger and the limit rows its scopes name, and
  the row it writes is the one it locked. So a step moves each counter by the
  reservation's own estimate or cost, which is what the sums move by. The refinement
  follows step by step: `Admit` is the ledger's `Reserve`, `Settle` its `Settle`, every
  other step a stutter; the counters being sums is what makes the row's test
  (`AdmitBudget`) the ledger's (`Covered`), and `blocked` the budgets it calls overdrawn.
* `LedgerFits`, that what the ledger holds and has used fits the limits, is an invariant
  of the ledger; the gateway inherits it because each of its steps is an operation of
  the ledger or none (`GatewayUsesLedger`). What was sent stays held or settled
  (`GatewayInv`), so that it is part of that sum. With `LedgerImplemented` the two
  specifications compose: the transactions can stand where the gateway uses the ledger.
* `GatewayInv` says of each of the nine calls what the reservation, the audit, the
  payload and the charge are before it (`AtStep`) and what stays true after the
  request ended or died there (`AtEnd`). A reservation that is granted with its answer
  lost leaves a request that is done and was never sent.
* `IntakeInv`: what a call about to save has put is still there, because its version is
  no record's and nobody deletes it; a running row has no artifact and a succeeded
  one has, which is the table's CHECK, so that a takeover of a succeeded row is refused
  by it; the row's token only grows.
* `DeviceInv`: one revocation at a time holds the device's row, the device is active
  until it commits, and the sessions it will close are open until then, since a logout
  waits for their locks; an establishment that has not ended has no session yet. The
  outbox is stated with quantifiers (`OutboxInv`) and counted at the end
  (`CountedOnce`). The two properties with a nested `[]` follow from predicates that,
  once true, stay true: `Refused` and `Closable`.
* `SourceInv`: what a call has read is the row or an older version of it, and the
  domain function has accepted it; open membership commands are of different members,
  and what one of them pauses is its member's active source; one transaction at a time
  has written the row (`OneWriter`), and it read the row it wrote. `SyncInv`: the connection
  is leased by the execution that started last, and while the source is being stopped a
  lease that is not late is one the trigger has locked and paused (`StopsEndLeases`), so
  that the COMMIT ends it. `PassInv`: the
  row's cursor is the one the last page left, and a worker whose copy of the cursor's
  version is current has the row's cursor as its page, so that the page it commits is
  the next one; a worker with an older copy commits nothing.
* `PolicyInv`: after the cache was asked, the policy a call holds is the layers it
  read, whoever composed the entry; it is recorded before it is published or answered.
  `ShutOut`, that a call for a former member has read no layer, stays true. The
  policy being the layers the call read, that an answer stays within them is a fact of
  the composition: an intersection is within each set and a least number below each
  (`AllowedWithin`, `MinBounds`).
* `CredentialInv`: until it activates, a rotation's own row is pending at most and its
  secret is kept; what a call replaces or revokes is revoked before its secret is
  removed, and has none once the call is answered; a use gains a secret only from Vault
  (`UseStep`). `RoutingInv`: the chains a route has
  still to try are walks of the graph it read, from one model from which every walk is
  valid; a chain that is skipped gives way to its extensions by the fallbacks of its
  last model, which are longer walks, whatever is published meanwhile.

The constants are assumed to meet `BudgetAssumption`, `WorkersAssumption`,
`ContentAssumption`, `RecordAssumption`, `AttemptAssumption`, `JobAssumption`,
`CallAssumption`, `TenancyAssumption`, `SourceAssumption`, `SyncAssumption`,
`PolicyAssumption`, `CredentialAssumption` and `CatalogAssumption`: the shape of the inputs, and that no value stands for NULL.

Only model-checked: liveness (`CallsComplete`, `EveryRequestEnds`, `AttemptsEnd`),
which needs fairness and so ENABLED. Every invariant and action property of the runs
that pass, and the refinement of the ledger, has a theorem. The five properties of the
violation runs are false of the code; there is nothing to prove of them.

## 6. Plan

1. Budget and gateway, their theorems (done).
2. Knowledge objects over their two stores, ingestion with its fence and outbox (done).
3. Devices, sessions, challenges and the revocation cache (done).
4. Workspaces with sources and connectors; policy resolution; provider credentials with the
   catalog; the theorems of steps 2 to 4 (done).
5. Knowledge governance, then content safety, taxonomy and claims around it.
6. Circuit breaker and Redis admission; provider stream with its desktop consumer;
   routing without a preferred model.

Next: `knowledge_governance.py` under an abstract specification of one effective record
per key, with the refinement proved as the ledger's is; then the circuit breaker, whose
late reports need an invariant that ties a report to the state that admitted it.
