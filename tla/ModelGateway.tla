----------------------------- MODULE ModelGateway -----------------------------
(* executeModelRequest: each HTTP request walks policy, route, egress,       *)
(* reservation, admission audit, credential and provider, reconciliation,    *)
(* completion audit, in this order, and stops at the first refusal or        *)
(* failure.  Requests interleave; a call may take effect although its answer *)
(* is lost; the process may die between any two steps.  The budget is the    *)
(* one-at-a-time ledger that BudgetReservation implements.                   *)
EXTENDS BudgetTerms

CONSTANTS
    Body,       \* the request body of each HTTP request: equal for a client's retry
    NoCharge    \* the provider has not served the request

(* A command is one HTTP request.  Its requestId is a fresh randomUUID, so   *)
(* two requests are two commands with two fingerprints even when a client    *)
(* resends the same body with the same idempotency key.                      *)

VARIABLES
    reservation, overdrawn,     \* the budget ledger
    step,       \* the call each request makes next
    outcome,    \* how executeModelRequest ended, before the route maps it
    audited,    \* the audit states recorded for the request
    sent,       \* the request's payload has left for the provider
    charge      \* what the provider executed and will bill: receipt and cost

budget == <<reservation, overdrawn>>
gatewayVars == <<budget, step, outcome, audited, sent, charge>>

Ledger == INSTANCE BudgetLedger

Steps == {"arrived", "policy", "route", "egress", "reserve", "audit_admitted",
          "provider", "awaiting", "reconcile", "audit_completed", "done", "crashed"}

Denials == {"GATEWAY_REQUEST_INVALID", "POLICY_DENIED", "ROUTE_DENIED", "EGRESS_DENIED",
            "BUDGET_DENIED", "IDEMPOTENCY_CONFLICT"}
Failures == {"GATEWAY_DEPENDENCY_UNAVAILABLE", "GATEWAY_AUDIT_UNAVAILABLE",
             "PROVIDER_UNAVAILABLE"}

Charge == [receipt: Receipts, actual: Actuals]

GatewayTypeOK ==
    /\ reservation \in [Commands -> Reservation]
    /\ overdrawn \subseteq Budgets
    /\ step \in [Commands -> Steps]
    /\ outcome \in [Commands -> {"none", "COMPLETED"} \cup Denials \cup Failures]
    /\ audited \in [Commands -> SUBSET {"ADMITTED", "COMPLETED"}]
    /\ sent \in [Commands -> BOOLEAN]
    /\ charge \in [Commands -> Charge \cup {NoCharge}]

GatewayInit ==
    /\ Ledger!LedgerInit
    /\ step = [h \in Commands |-> "arrived"]
    /\ outcome = [h \in Commands |-> "none"]
    /\ audited = [h \in Commands |-> {}]
    /\ sent = [h \in Commands |-> FALSE]
    /\ charge = [h \in Commands |-> NoCharge]
-----------------------------------------------------------------------------
Goto(h, next) == step' = [step EXCEPT ![h] = next] /\ UNCHANGED outcome

Stop(h, result) ==
    /\ step' = [step EXCEPT ![h] = "done"]
    /\ outcome' = [outcome EXCEPT ![h] = result]

\* A check with no effect on the gateway's state: it allows, denies or fails.
Check(h, at, next, denial) ==
    /\ step[h] = at
    /\ \/ Goto(h, next)
       \/ Stop(h, denial)
       \/ Stop(h, "GATEWAY_DEPENDENCY_UNAVAILABLE")
    /\ UNCHANGED <<budget, audited, sent, charge>>

Validate(h) == Check(h, "arrived", "policy", "GATEWAY_REQUEST_INVALID")
ResolvePolicy(h) == Check(h, "policy", "route", "POLICY_DENIED")
Route(h) == Check(h, "route", "egress", "ROUTE_DENIED")
PrepareEgress(h) == Check(h, "egress", "reserve", "EGRESS_DENIED")

\* Mutant: a key already used counts as granted, as a replay would.
ReserveReplaysAsGranted(h) ==
    /\ step[h] = "reserve"
    /\ \/ Ledger!Reserve(h) /\ Goto(h, "audit_admitted")
       \/ KeyTaken(reservation, Key[h]) /\ Goto(h, "audit_admitted") /\ UNCHANGED budget
    /\ UNCHANGED <<audited, sent, charge>>

\* budget.reserve: granted, possibly with the answer lost; refused because the
\* key was used by another request or the budgets do not cover it; or failed.
ReserveBudget(h) ==
    /\ step[h] = "reserve"
    /\ \/ /\ Ledger!Reserve(h)
          /\ Goto(h, "audit_admitted") \/ Stop(h, "GATEWAY_DEPENDENCY_UNAVAILABLE")
       \/ /\ KeyTaken(reservation, Key[h])
          /\ Stop(h, "IDEMPOTENCY_CONFLICT")
          /\ UNCHANGED budget
       \/ /\ ~KeyTaken(reservation, Key[h]) /\ ~Ledger!Covered(h)
          /\ Stop(h, "BUDGET_DENIED")
          /\ UNCHANGED budget
       \/ /\ Stop(h, "GATEWAY_DEPENDENCY_UNAVAILABLE")
          /\ UNCHANGED budget
    /\ UNCHANGED <<audited, sent, charge>>

\* Mutant: the admission audit is best effort.
AuditAdmittedBestEffort(h) ==
    /\ step[h] = "audit_admitted"
    /\ audited' = [audited EXCEPT ![h] = @ \cup {"ADMITTED"}] \/ UNCHANGED audited
    /\ Goto(h, "provider")
    /\ UNCHANGED <<budget, sent, charge>>

\* audit.record: recorded, possibly with the answer lost, or not recorded.
AuditAdmitted(h) ==
    /\ step[h] = "audit_admitted"
    /\ \/ /\ audited' = [audited EXCEPT ![h] = @ \cup {"ADMITTED"}]
          /\ Goto(h, "provider") \/ Stop(h, "GATEWAY_AUDIT_UNAVAILABLE")
       \/ /\ Stop(h, "GATEWAY_AUDIT_UNAVAILABLE")
          /\ UNCHANGED audited
    /\ UNCHANGED <<budget, sent, charge>>

\* credential.use reads the secret and provider.invoke posts the payload.
SendToProvider(h) ==
    /\ step[h] = "provider"
    /\ \/ /\ sent' = [sent EXCEPT ![h] = TRUE]
          /\ Goto(h, "awaiting")
       \/ /\ Stop(h, "PROVIDER_UNAVAILABLE")
          /\ UNCHANGED sent
    /\ UNCHANGED <<budget, audited, charge>>

\* The provider serves a request it received, now or after the gateway gave up.
ProviderServes(h) ==
    /\ sent[h] /\ charge[h] = NoCharge
    /\ \E c \in Charge : charge' = [charge EXCEPT ![h] = c]
    /\ UNCHANGED <<budget, step, outcome, audited, sent>>

ProviderAnswers(h) ==
    /\ step[h] = "awaiting" /\ charge[h] # NoCharge
    /\ Goto(h, "reconcile")
    /\ UNCHANGED <<budget, audited, sent, charge>>

\* Mutant: the provider call has no timeout.
ProviderNeverTimesOut(h) == FALSE

\* Mutant: a failed provider call gives its reservation back.
ProviderFailsReleasing(h) ==
    /\ step[h] = "awaiting"
    /\ Stop(h, "PROVIDER_UNAVAILABLE")
    /\ reservation' = [reservation EXCEPT ![h] = NoReservation]
    /\ UNCHANGED <<overdrawn, audited, sent, charge>>

\* AbortSignal.timeout, a lost answer, a status that is not ok, an invalid body.
ProviderFails(h) ==
    /\ step[h] = "awaiting"
    /\ Stop(h, "PROVIDER_UNAVAILABLE")
    /\ UNCHANGED <<budget, audited, sent, charge>>

\* Mutant: settle the estimate instead of the cost on the receipt.
SettleEstimate(h) == Ledger!Settle(h, charge[h].receipt, Estimate[h])

SettleCharge(h) == Ledger!Settle(h, charge[h].receipt, charge[h].actual)

\* Mutant: a failed reconciliation does not stop the request.
ReconcileBestEffort(h) ==
    /\ step[h] = "reconcile"
    /\ SettleCharge(h) \/ UNCHANGED budget
    /\ Goto(h, "audit_completed")
    /\ UNCHANGED <<audited, sent, charge>>

\* budget.reconcile: settled, possibly with the answer lost, or failed.
Reconcile(h) ==
    /\ step[h] = "reconcile"
    /\ \/ /\ SettleCharge(h)
          /\ Goto(h, "audit_completed") \/ Stop(h, "GATEWAY_DEPENDENCY_UNAVAILABLE")
       \/ /\ Stop(h, "GATEWAY_DEPENDENCY_UNAVAILABLE")
          /\ UNCHANGED budget
    /\ UNCHANGED <<audited, sent, charge>>

AuditCompleted(h) ==
    /\ step[h] = "audit_completed"
    /\ \/ /\ audited' = [audited EXCEPT ![h] = @ \cup {"COMPLETED"}]
          /\ Stop(h, "COMPLETED") \/ Stop(h, "GATEWAY_AUDIT_UNAVAILABLE")
       \/ /\ Stop(h, "GATEWAY_AUDIT_UNAVAILABLE")
          /\ UNCHANGED audited
    /\ UNCHANGED <<budget, sent, charge>>

\* The process dies: the request never gets an answer.
Crash(h) ==
    /\ step[h] \notin {"done", "crashed"}
    /\ Goto(h, "crashed")
    /\ UNCHANGED <<budget, audited, sent, charge>>

\* Mutant: a provider failure is reported as a refusal.
StatusOfRefusal(result) == IF result = "COMPLETED" THEN 200 ELSE 422

\* The status the route sends for an outcome: code() keeps only the names it
\* knows, every other error is a 503.
HttpStatus(result) ==
    CASE result = "COMPLETED" -> 200
      [] result = "GATEWAY_REQUEST_INVALID" -> 400
      [] result = "POLICY_DENIED" -> 403
      [] result \in {"ROUTE_DENIED", "EGRESS_DENIED", "BUDGET_DENIED"} -> 422
      [] result = "PROVIDER_UNAVAILABLE" -> 502
      [] OTHER -> 503

Handle(h) ==
    \/ Validate(h) \/ ResolvePolicy(h) \/ Route(h) \/ PrepareEgress(h) \/ ReserveBudget(h)
    \/ AuditAdmitted(h) \/ SendToProvider(h) \/ ProviderAnswers(h) \/ ProviderFails(h)
    \/ Reconcile(h) \/ AuditCompleted(h)

GatewayNext == \E h \in Commands : Handle(h) \/ ProviderServes(h) \/ Crash(h)

GatewaySpec == GatewayInit /\ [][GatewayNext]_gatewayVars

\* Every await of the handler resolves or rejects: the provider call has a
\* timeout, the others are answered by their driver.  Neither a crash nor the
\* provider serving a request is assumed to happen.
GatewayFairSpec == GatewaySpec /\ \A h \in Commands : WF_gatewayVars(Handle(h))
-----------------------------------------------------------------------------
(* Properties                                                                *)

\* Of all requests with one idempotency key, retried or racing, at most one
\* reaches the provider.
ProviderOncePerKey ==
    \A h, i \in Commands : sent[h] /\ sent[i] /\ Key[h] = Key[i] => h = i

\* Nothing leaves for the provider unless its worst-case cost was reserved first
\* and its admission audited, and the reservation is never given up afterwards:
\* whatever the provider will bill is held or settled.
ProviderCallIsBacked ==
    \A h \in Commands :
        sent[h] => "ADMITTED" \in audited[h] /\ reservation[h].state # "none"

\* What a request counts for: its estimate, or the cost it was settled with if less.
Exposure(h) ==
    IF reservation[h].state \in Settled THEN Min({reservation[h].actual, Estimate[h]})
                                        ELSE Estimate[h]

\* All that ever left for the provider on a budget, whoever died or gave up meanwhile,
\* fits the budget's limit up to the overages: what a request cost beyond its estimate.
SentWithinLimit ==
    \A b \in Budgets :
        SumFunctionOnSet([h \in Commands |-> Exposure(h)],
                         {h \in Commands : sent[h] /\ b \in Rows(h)}) <= Limit[b]

\* A reservation is settled with the provider's receipt and cost, never with an
\* estimate and never for a request the provider did not serve.
SettlementIsProviderCharge ==
    \A h \in Commands :
        reservation[h].state \in Settled =>
            /\ charge[h] # NoCharge
            /\ reservation[h].receipt = charge[h].receipt
            /\ reservation[h].actual = charge[h].actual

\* A client told 4xx was charged nothing; only 502 and 503 leave that open.
RefusalIsFree ==
    \A h \in Commands :
        step[h] = "done" /\ HttpStatus(outcome[h]) \in 400..499 => ~sent[h]

\* A completed answer is settled and fully audited.
CompletionIsSettled ==
    \A h \in Commands :
        outcome[h] = "COMPLETED" =>
            /\ reservation[h].state \in Settled
            /\ audited[h] = {"ADMITTED", "COMPLETED"}

\* Every request is answered unless its process dies.
EveryRequestEnds ==
    \A h \in Commands : <>(step[h] \in {"done", "crashed"})

\* A client's retry keeps its identity: resending a body under its own key is
\* never taken for another request.
RetryIsRecognised ==
    \A h \in Commands :
        outcome[h] = "IDEMPOTENCY_CONFLICT" =>
            \E i \in Commands : Key[i] = Key[h] /\ Body[i] # Body[h]
=============================================================================
