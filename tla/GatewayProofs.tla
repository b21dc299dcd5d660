----------------------------- MODULE GatewayProofs -----------------------------
(* What a request through the gateway guarantees wherever it fails or dies,  *)
(* and however requests with one key race: for any number of requests.  With *)
(* the ledger behind them: what was sent fits the limits, and the budget     *)
(* changes only as BudgetLedger allows.                                      *)
EXTENDS ModelGateway, BudgetSums

BeforeReservation == {"arrived", "policy", "route", "egress", "reserve"}

\* What holds of a request at each of its calls.
AtStep(h) ==
    /\ step[h] \in BeforeReservation => reservation[h].state = "none"
    /\ step[h] \in BeforeReservation \cup {"audit_admitted", "provider"} => ~sent[h]
    /\ step[h] \in {"audit_admitted", "provider", "awaiting", "reconcile"} =>
           reservation[h].state = "reserved"
    /\ step[h] = "audit_completed" => reservation[h].state \in Settled
    /\ step[h] \in BeforeReservation \cup {"audit_admitted"} => audited[h] = {}
    /\ step[h] \in {"provider", "awaiting", "reconcile", "audit_completed"} =>
           audited[h] = {"ADMITTED"}
    /\ step[h] = "awaiting" => sent[h]
    /\ step[h] \in {"reconcile", "audit_completed"} => charge[h] # NoCharge

\* What holds of it ever after.
AtEnd(h) ==
    /\ outcome[h] # "none" => step[h] = "done"
    /\ outcome[h] \in Denials => ~sent[h]
    /\ sent[h] => "ADMITTED" \in audited[h] /\ reservation[h].state # "none"
    /\ charge[h] # NoCharge => sent[h]
    /\ reservation[h].state \in Settled =>
           /\ charge[h] # NoCharge
           /\ reservation[h].receipt = charge[h].receipt
           /\ reservation[h].actual = charge[h].actual
    /\ outcome[h] = "COMPLETED" =>
           /\ reservation[h].state \in Settled
           /\ audited[h] = {"ADMITTED", "COMPLETED"}

\* The primary key of the reservations.
KeysOnce ==
    \A h, i \in Commands :
        /\ reservation[h].state # "none" /\ reservation[i].state # "none"
        /\ Key[h] = Key[i]
        => h = i

GatewayInv ==
    /\ GatewayTypeOK
    /\ \A h \in Commands : AtStep(h) /\ AtEnd(h)
    /\ KeysOnce

LEMMA GatewayInvInit == GatewayInit => GatewayInv
<1> SUFFICES ASSUME GatewayInit PROVE GatewayInv
    OBVIOUS
<1>1. reservation = [c \in Commands |-> NoReservation] /\ overdrawn = {}
    BY DEF GatewayInit, Ledger!LedgerInit, Ledger!NoReservation, NoReservation
<1>2. NoReservation \in Reservation /\ NoReservation.state = "none"
    BY DEF NoReservation, Reservation
<1>3. GatewayTypeOK
    BY <1>1, <1>2 DEF GatewayInit, GatewayTypeOK, Steps
<1>4. \A h \in Commands : AtStep(h) /\ AtEnd(h)
    BY <1>1, <1>2 DEF GatewayInit, AtStep, AtEnd, BeforeReservation, Settled, Denials
<1> QED BY <1>1, <1>2, <1>3, <1>4 DEF GatewayInv, KeysOnce

\* A step that moves only request h.
Only(h) ==
    \A i \in Commands \ {h} :
        /\ step'[i] = step[i] /\ outcome'[i] = outcome[i] /\ audited'[i] = audited[i]
        /\ sent'[i] = sent[i] /\ charge'[i] = charge[i] /\ reservation'[i] = reservation[i]

LEMMA OnlyOne ==
    ASSUME GatewayInv, NEW h \in Commands, Only(h), AtStep(h)', AtEnd(h)'
    PROVE  \A i \in Commands : AtStep(i)' /\ AtEnd(i)'
    BY DEF GatewayInv, Only, AtStep, AtEnd

\* The reservation's row is inserted.
LEMMA Reserving ==
    ASSUME GatewayTypeOK, NEW h \in Commands, Ledger!Reserve(h)
    PROVE  /\ reservation' \in [Commands -> Reservation] /\ overdrawn' = overdrawn
           /\ reservation[h].state = "none" /\ ~KeyTaken(reservation, Key[h])
           /\ reservation'[h].state = "reserved"
           /\ \A i \in Commands \ {h} : reservation'[i] = reservation[i]
<1> DEFINE old == reservation[h]  new == [old EXCEPT !.state = "reserved"]
<1>1. old \in Reservation
    BY DEF GatewayTypeOK
<1>2. new \in Reservation /\ new.state = "reserved"
    BY <1>1 DEF Reservation
<1>3. reservation' = [reservation EXCEPT ![h] = new]
    BY DEF Ledger!Reserve
<1> HIDE DEF new
<1> QED BY <1>2, <1>3 DEF GatewayTypeOK, Ledger!Reserve, Ledger!KeyTaken, KeyTaken

\* The reservation is settled with the charge.
LEMMA Settling ==
    ASSUME GatewayTypeOK, NEW h \in Commands, SettleCharge(h), charge[h] # NoCharge
    PROVE  /\ reservation' \in [Commands -> Reservation] /\ overdrawn' \subseteq Budgets
           /\ reservation[h].state = "reserved"
           /\ reservation'[h].state \in Settled
           /\ reservation'[h].receipt = charge[h].receipt
           /\ reservation'[h].actual = charge[h].actual
           /\ \A i \in Commands \ {h} : reservation'[i] = reservation[i]
<1> DEFINE new == [state |-> Outcome(h, charge[h].actual), actual |-> charge[h].actual,
                   receipt |-> charge[h].receipt]
<1>1. charge[h].receipt \in Receipts /\ charge[h].actual \in Actuals
    BY DEF GatewayTypeOK, Charge
<1>2. Outcome(h, charge[h].actual) \in Settled
    BY DEF Outcome, Settled
<1>3. new \in Reservation /\ new.state \in Settled
      /\ new.receipt = charge[h].receipt /\ new.actual = charge[h].actual
    BY <1>1, <1>2 DEF Reservation
<1>4. reservation' = [reservation EXCEPT ![h] = new]
    BY DEF SettleCharge, Ledger!Settle, Ledger!Outcome, Outcome
<1>5. overdrawn' \subseteq Budgets
    BY DEF SettleCharge, Ledger!Settle, Ledger!Rows, GatewayTypeOK
<1> HIDE DEF new
<1> QED BY <1>3, <1>4, <1>5 DEF GatewayTypeOK, SettleCharge, Ledger!Settle
-----------------------------------------------------------------------------
(* Steps that leave the budget alone                                         *)

LEMMA SameBudget ==
    ASSUME GatewayInv, UNCHANGED budget
    PROVE  KeysOnce'
    BY DEF GatewayInv, KeysOnce, budget

LEMMA CheckStep ==
    ASSUME GatewayInv, NEW h \in Commands,
           NEW at \in {"arrived", "policy", "route", "egress"},
           NEW next \in {"policy", "route", "egress", "reserve"},
           NEW denial \in Denials, Check(h, at, next, denial)
    PROVE  GatewayInv'
<1> USE DEF GatewayInv, Check, Goto, Stop, budget
<1>1. GatewayTypeOK'
    BY DEF GatewayTypeOK, Steps, Failures, Denials
<1>2. Only(h)
    BY DEF Only, GatewayTypeOK
<1>3. AtStep(h)' /\ AtEnd(h)'
    BY DEF AtStep, AtEnd, BeforeReservation, GatewayTypeOK, Denials, Settled
<1> QED BY <1>1, <1>2, <1>3, OnlyOne, SameBudget

LEMMA AuditStep ==
    ASSUME GatewayInv, NEW h \in Commands, AuditAdmitted(h) \/ AuditCompleted(h)
    PROVE  GatewayInv'
<1> USE DEF GatewayInv, AuditAdmitted, AuditCompleted, Goto, Stop, budget
<1>1. GatewayTypeOK'
    BY DEF GatewayTypeOK, Steps, Failures, Denials
<1>2. Only(h)
    BY DEF Only, GatewayTypeOK
<1>3. AtStep(h)' /\ AtEnd(h)'
    BY DEF AtStep, AtEnd, BeforeReservation, GatewayTypeOK, Denials, Settled
<1> QED BY <1>1, <1>2, <1>3, OnlyOne, SameBudget

LEMMA ProviderStep ==
    ASSUME GatewayInv, NEW h \in Commands,
           \/ SendToProvider(h) \/ ProviderServes(h) \/ ProviderAnswers(h) \/ ProviderFails(h)
           \/ Crash(h)
    PROVE  GatewayInv'
<1> USE DEF GatewayInv, SendToProvider, ProviderServes, ProviderAnswers, ProviderFails, Crash,
            Goto, Stop, budget
<1>1. GatewayTypeOK'
    BY DEF GatewayTypeOK, Steps, Failures, Denials
<1>2. Only(h)
    BY DEF Only, GatewayTypeOK
<1>3. AtStep(h)' /\ AtEnd(h)'
    BY DEF AtStep, AtEnd, BeforeReservation, GatewayTypeOK, Denials, Settled
<1> QED BY <1>1, <1>2, <1>3, OnlyOne, SameBudget
-----------------------------------------------------------------------------
(* Steps over the budget                                                     *)

LEMMA ReserveStep ==
    ASSUME GatewayInv, NEW h \in Commands, ReserveBudget(h)
    PROVE  GatewayInv'
<1> USE DEF GatewayInv, ReserveBudget, Goto, Stop
<1>1. CASE Ledger!Reserve(h)
    <2>1. GatewayTypeOK'
        BY <1>1, Reserving DEF GatewayTypeOK, Steps, Failures, Denials
    <2>2. Only(h)
        BY <1>1, Reserving DEF Only, GatewayTypeOK
    <2>3. AtStep(h)' /\ AtEnd(h)'
        BY <1>1, Reserving DEF AtStep, AtEnd, BeforeReservation, GatewayTypeOK, Denials, Settled
    <2>4. KeysOnce'
        BY <1>1, Reserving DEF KeysOnce, KeyTaken
    <2> QED BY <2>1, <2>2, <2>3, <2>4, OnlyOne
<1>2. CASE UNCHANGED budget
    <2> USE <1>2 DEF budget
    <2>0. step[h] = "reserve" /\ \E result \in Denials \cup Failures : Stop(h, result)
        BY Reserving DEF Denials, Failures, GatewayTypeOK
    <2>1. GatewayTypeOK'
        BY <2>0 DEF GatewayTypeOK, Steps, Failures, Denials
    <2>2. Only(h)
        BY <2>0 DEF Only, GatewayTypeOK
    <2>3. AtStep(h)' /\ AtEnd(h)'
        BY <2>0 DEF AtStep, AtEnd, BeforeReservation, GatewayTypeOK, Denials, Failures, Settled
    <2> QED BY <2>1, <2>2, <2>3, OnlyOne, SameBudget
<1> QED BY <1>1, <1>2

LEMMA ReconcileStep ==
    ASSUME GatewayInv, NEW h \in Commands, Reconcile(h)
    PROVE  GatewayInv'
<1> USE DEF GatewayInv, Reconcile, Goto, Stop
<1>1. charge[h] # NoCharge
    BY DEF AtStep
<1>2. CASE SettleCharge(h)
    <2>1. GatewayTypeOK'
        BY <1>1, <1>2, Settling DEF GatewayTypeOK, Steps, Failures, Denials
    <2>2. Only(h)
        BY <1>1, <1>2, Settling DEF Only, GatewayTypeOK
    <2>3. AtStep(h)' /\ AtEnd(h)'
        BY <1>1, <1>2, Settling
           DEF AtStep, AtEnd, BeforeReservation, GatewayTypeOK, Denials, Settled
    <2>4. KeysOnce'
        BY <1>1, <1>2, Settling DEF KeysOnce
    <2> QED BY <2>1, <2>2, <2>3, <2>4, OnlyOne
<1>3. CASE UNCHANGED budget /\ Stop(h, "GATEWAY_DEPENDENCY_UNAVAILABLE")
    <2> USE <1>3 DEF budget
    <2>1. GatewayTypeOK'
        BY DEF GatewayTypeOK, Steps, Failures, Denials
    <2>2. Only(h)
        BY DEF Only, GatewayTypeOK
    <2>3. AtStep(h)' /\ AtEnd(h)'
        BY DEF AtStep, AtEnd, BeforeReservation, GatewayTypeOK, Denials, Settled
    <2> QED BY <2>1, <2>2, <2>3, OnlyOne, SameBudget
<1> QED BY <1>2, <1>3
-----------------------------------------------------------------------------
LEMMA GatewayInvStep == GatewayInv /\ [GatewayNext]_gatewayVars => GatewayInv'
<1> SUFFICES ASSUME GatewayInv, [GatewayNext]_gatewayVars PROVE GatewayInv'
    OBVIOUS
<1>1. ASSUME NEW h \in Commands,
             Validate(h) \/ ResolvePolicy(h) \/ Route(h) \/ PrepareEgress(h)
      PROVE  GatewayInv'
    BY <1>1, CheckStep DEF Validate, ResolvePolicy, Route, PrepareEgress, Denials
<1>2. ASSUME NEW h \in Commands, Handle(h) \/ ProviderServes(h) \/ Crash(h) PROVE GatewayInv'
    BY <1>1, <1>2, AuditStep, ProviderStep, ReserveStep, ReconcileStep DEF Handle
<1>3. CASE UNCHANGED gatewayVars
    BY <1>3 DEF gatewayVars, budget, GatewayInv, GatewayTypeOK, AtStep, AtEnd, KeysOnce
<1> QED BY <1>2, <1>3 DEF GatewayNext

LEMMA GatewayInvariance == GatewaySpec => []GatewayInv
    BY GatewayInvInit, GatewayInvStep, PTL DEF GatewaySpec

\* A request's state is what its handler and the provider can have made it.
THEOREM GatewayTypeCorrect == GatewaySpec => []GatewayTypeOK
    BY GatewayInvariance, PTL DEF GatewayInv

\* Of all requests with one key at most one reaches the provider.
THEOREM KeyReachesProviderOnce == GatewaySpec => []ProviderOncePerKey
<1>1. GatewayInv => ProviderOncePerKey
    BY DEF GatewayInv, AtEnd, KeysOnce, ProviderOncePerKey
<1> QED BY <1>1, GatewayInvariance, PTL

\* What the provider will bill was reserved and audited before it was asked.
THEOREM CallsAreBacked == GatewaySpec => []ProviderCallIsBacked
<1>1. GatewayInv => ProviderCallIsBacked
    BY DEF GatewayInv, AtEnd, ProviderCallIsBacked
<1> QED BY <1>1, GatewayInvariance, PTL

\* What is settled is what the provider charged.
THEOREM SettlementsAreCharges == GatewaySpec => []SettlementIsProviderCharge
<1>1. GatewayInv => SettlementIsProviderCharge
    BY DEF GatewayInv, AtEnd, SettlementIsProviderCharge
<1> QED BY <1>1, GatewayInvariance, PTL

\* A 4xx means that nothing was sent.
THEOREM RefusalsAreFree == GatewaySpec => []RefusalIsFree
<1>1. \A result : HttpStatus(result) \in 400..499 => result \in Denials
    BY DEF HttpStatus, Denials
<1>2. GatewayInv => RefusalIsFree
    BY <1>1 DEF GatewayInv, AtEnd, RefusalIsFree
<1> QED BY <1>2, GatewayInvariance, PTL

\* A completed request is settled and has both its audit records.
THEOREM CompletionsAreSettled == GatewaySpec => []CompletionIsSettled
<1>1. GatewayInv => CompletionIsSettled
    BY DEF GatewayInv, AtEnd, CompletionIsSettled
<1> QED BY <1>1, GatewayInvariance, PTL
-----------------------------------------------------------------------------
(* The budget behind the requests                                            *)

\* What is held and used of the estimates fits every limit.
LedgerFits ==
    \A b \in Budgets : HeldOn(reservation, b) + UsedOn(reservation, b) <= Limit[b]

\* The ledger's sums and rows are those of BudgetTerms.
LEMMA LedgerTerms ==
    ASSUME NEW r, NEW b, NEW c \in Commands
    PROVE  /\ Ledger!HeldOn(r, b) = HeldOn(r, b) /\ Ledger!SpentOn(r, b) = SpentOn(r, b)
           /\ Ledger!Rows(c) = Rows(c)
<1>1. /\ Ledger!HeldOn(r, b) = HeldOn(r, b)
      /\ Ledger!Rows(c) = Rows(c)
    BY DEF Ledger!HeldOn, HeldOn, Ledger!Rows, Rows, Ledger!SumFunctionOnSet, SumFunctionOnSet,
           Ledger!FoldFunctionOnSet, FoldFunctionOnSet, Ledger!MapThenFoldSet, MapThenFoldSet
<1>2. Ledger!SpentOn(r, b) = SpentOn(r, b)
    BY DEF Ledger!SpentOn, SpentOn, Ledger!Rows, Rows, Ledger!Settled, Settled,
           Ledger!SumFunctionOnSet, SumFunctionOnSet, Ledger!FoldFunctionOnSet, FoldFunctionOnSet,
           Ledger!MapThenFoldSet, MapThenFoldSet
<1> QED BY <1>1, <1>2

LEMMA ReserveFits ==
    ASSUME GatewayTypeOK, LedgerFits, NEW h \in Commands, Ledger!Reserve(h)
    PROVE  LedgerFits'
<1> SUFFICES ASSUME NEW b \in Budgets
             PROVE  HeldOn(reservation', b) + UsedOn(reservation', b) <= Limit[b]
    BY DEF LedgerFits, HeldOn, UsedOn, UsedOf, SettledOn
<1>1. /\ reservation \in [Commands -> Reservation] /\ reservation' \in [Commands -> Reservation]
      /\ reservation[h].state = "none" /\ reservation'[h].state = "reserved"
      /\ \A i \in Commands : i # h => reservation'[i] = reservation[i]
    BY Reserving DEF GatewayTypeOK
<1>2. /\ HeldOn(reservation', b) =
             HeldOn(reservation, b) + (IF b \in Rows(h) THEN Estimate[h] ELSE 0)
      /\ UsedOn(reservation', b) = UsedOn(reservation, b)
    BY <1>1, OpeningSums
<1>3. /\ HeldOn(reservation, b) \in Nat /\ SpentOn(reservation, b) \in Nat
      /\ UsedOn(reservation, b) \in Nat /\ UsedOn(reservation, b) <= SpentOn(reservation, b)
    BY <1>1, SumTypes
<1>4. HeldOn(reservation, b) + UsedOn(reservation, b) <= Limit[b]
    BY DEF LedgerFits
<1>5. Limit[b] \in Nat /\ Estimate[h] \in Nat
    BY BudgetAssumption
<1>6. CASE b \in Rows(h)
    <2>1. b \in Scopes[h]
        BY <1>6 DEF Rows
    <2>2. HeldOn(reservation, b) + SpentOn(reservation, b) + Estimate[h] <= Limit[b]
        BY <2>1, LedgerTerms DEF Ledger!Reserve, Ledger!Covered
    <2>3. HeldOn(reservation', b) = HeldOn(reservation, b) + Estimate[h]
        BY <1>2, <1>6
    <2> QED BY <1>2, <1>3, <1>5, <2>2, <2>3
<1>7. CASE b \notin Rows(h)
    <2>1. HeldOn(reservation', b) = HeldOn(reservation, b) + 0
        BY <1>2, <1>7
    <2> QED BY <1>2, <1>3, <1>4, <2>1
<1> QED BY <1>6, <1>7

LEMMA SettleFits ==
    ASSUME GatewayTypeOK, LedgerFits, NEW h \in Commands, SettleCharge(h), charge[h] # NoCharge
    PROVE  LedgerFits'
<1> SUFFICES ASSUME NEW b \in Budgets
             PROVE  HeldOn(reservation', b) + UsedOn(reservation', b) <= Limit[b]
    BY DEF LedgerFits, HeldOn, UsedOn, UsedOf, SettledOn
<1>1. /\ reservation \in [Commands -> Reservation] /\ reservation' \in [Commands -> Reservation]
      /\ reservation[h].state = "reserved" /\ reservation'[h].state \in Settled
      /\ \A i \in Commands : i # h => reservation'[i] = reservation[i]
    BY Settling DEF GatewayTypeOK
<1>2. IF b \in Rows(h)
        THEN /\ HeldOn(reservation, b) = HeldOn(reservation', b) + Estimate[h]
             /\ UsedOn(reservation', b) <= UsedOn(reservation, b) + Estimate[h]
        ELSE /\ HeldOn(reservation', b) = HeldOn(reservation, b)
             /\ UsedOn(reservation', b) = UsedOn(reservation, b)
    BY <1>1, SettlingSums
<1>3. /\ HeldOn(reservation, b) \in Nat /\ UsedOn(reservation, b) \in Nat
      /\ HeldOn(reservation', b) \in Nat /\ UsedOn(reservation', b) \in Nat
    BY <1>1, SumTypes
<1>4. HeldOn(reservation, b) + UsedOn(reservation, b) <= Limit[b]
    BY DEF LedgerFits
<1>5. Limit[b] \in Nat /\ Estimate[h] \in Nat
    BY BudgetAssumption
<1>6. CASE b \in Rows(h)
    <2>1. /\ HeldOn(reservation, b) = HeldOn(reservation', b) + Estimate[h]
          /\ UsedOn(reservation', b) <= UsedOn(reservation, b) + Estimate[h]
        BY <1>2, <1>6
    <2> QED BY <1>3, <1>4, <1>5, <2>1
<1>7. CASE b \notin Rows(h)
    BY <1>2, <1>4, <1>7
<1> QED BY <1>6, <1>7

\* A step of the gateway is one of the ledger, or leaves it.
LEMMA BudgetSteps ==
    ASSUME GatewayInv, [GatewayNext]_gatewayVars
    PROVE  \/ UNCHANGED budget
           \/ \E h \in Commands :
                  Ledger!Reserve(h) \/ (SettleCharge(h) /\ charge[h] # NoCharge)
<1>1. ASSUME NEW h \in Commands, Handle(h) \/ ProviderServes(h) \/ Crash(h)
      PROVE  \/ UNCHANGED budget \/ Ledger!Reserve(h)
             \/ (SettleCharge(h) /\ charge[h] # NoCharge)
    BY <1>1 DEF Handle, Validate, ResolvePolicy, Route, PrepareEgress, Check, ReserveBudget,
               AuditAdmitted, SendToProvider, ProviderAnswers, ProviderFails, Reconcile,
               AuditCompleted, ProviderServes, Crash, GatewayInv, AtStep
<1>2. CASE UNCHANGED gatewayVars
    BY <1>2 DEF gatewayVars
<1> QED BY <1>1, <1>2 DEF GatewayNext

LEMMA LedgerFitsInvariance == GatewaySpec => []LedgerFits
<1>1. ASSUME GatewayInit PROVE LedgerFits
    <2>1. \A c \in Commands : reservation[c].state = "none"
        BY <1>1 DEF GatewayInit, Ledger!LedgerInit, Ledger!NoReservation
    <2>2. ASSUME NEW b \in Budgets PROVE HeldOn(reservation, b) + UsedOn(reservation, b) <= Limit[b]
        <3>1. OpenOn(reservation, b) = {} /\ SettledOn(reservation, b) = {}
            BY <2>1 DEF OpenOn, SettledOn, Settled
        <3>2. HeldOn(reservation, b) = 0 /\ UsedOn(reservation, b) = 0
            BY <3>1, SumEmpty, SumsNamed DEF UsedOn
        <3>3. Limit[b] \in Nat
            BY BudgetAssumption
        <3> QED BY <3>2, <3>3
    <2> QED BY <2>2 DEF LedgerFits
<1>2. ASSUME GatewayInv, LedgerFits, [GatewayNext]_gatewayVars PROVE LedgerFits'
    <2>1. CASE UNCHANGED budget
        BY <1>2, <2>1 DEF budget, LedgerFits, HeldOn, UsedOn, UsedOf, SettledOn
    <2> QED BY <1>2, <2>1, BudgetSteps, ReserveFits, SettleFits DEF GatewayInv
<1> QED BY <1>1, <1>2, GatewayInvariance, PTL DEF GatewaySpec

\* Whatever was sent is open or settled, and counted there for no less.
LEMMA SentIsHeldOrSettled ==
    ASSUME GatewayInv, NEW b \in Budgets
    PROVE  SumFunctionOnSet([h \in Commands |-> Exposure(h)],
                            {h \in Commands : sent[h] /\ b \in Rows(h)})
               <= HeldOn(reservation, b) + UsedOn(reservation, b)
<1> DEFINE exposure == [h \in Commands |-> Exposure(h)]
           onBudget == {h \in Commands : sent[h] /\ b \in Rows(h)}
           open == OpenOn(reservation, b)
           settled == SettledOn(reservation, b)
           Sum(S) == SumFunctionOnSet(exposure, S)
<1>1. reservation \in [Commands -> Reservation]
    BY DEF GatewayInv, GatewayTypeOK
<1>2. /\ IsFiniteSet(open) /\ IsFiniteSet(settled)
      /\ open \subseteq Commands /\ settled \subseteq Commands
    BY <1>1, Summands
<1>3. open \cap settled = {}
    BY DEF OpenOn, SettledOn, Settled
<1>4. onBudget \subseteq open \cup settled
    <2>1. ASSUME NEW h \in onBudget PROVE h \in open \cup settled
        <3>1. reservation[h].state # "none"
            BY DEF GatewayInv, AtEnd
        <3>2. reservation[h].state \in {"none", "reserved"} \cup Settled
            BY <1>1 DEF Reservation
        <3> QED BY <3>1, <3>2 DEF OpenOn, SettledOn
    <2> QED BY <2>1
<1>5. /\ \A h \in open : exposure[h] = Estimate[h]
      /\ \A h \in settled : exposure[h] = UsedOf(reservation)[h]
    BY DEF OpenOn, SettledOn, Settled, Exposure, UsedOf
<1>6. \A h \in open \cup settled : exposure[h] \in Nat
    BY <1>1, <1>2, <1>5, Summands
<1> HIDE DEF exposure, onBudget, open, settled
<1>7. Sum(onBudget) <= Sum(open \cup settled)
    <2>1. IsFiniteSet(open \cup settled)
        BY <1>2, FS_Union
    <2> QED BY <1>4, <1>6, <2>1, SumSubset
<1>8. Sum(open \cup settled) = Sum(open) + Sum(settled)
    BY <1>2, <1>3, <1>6, SumUnion
<1>9. Sum(open) = HeldOn(reservation, b)
    <2>1. Sum(open) = SumFunctionOnSet(Estimate, open)
        BY <1>2, <1>5, <1>6, SumAgree
    <2> QED BY <2>1, SumsNamed DEF open
<1>10. Sum(settled) = UsedOn(reservation, b)
    <2>1. Sum(settled) = SumFunctionOnSet(UsedOf(reservation), settled)
        BY <1>2, <1>5, <1>6, SumAgree
    <2> QED BY <2>1 DEF settled, UsedOn
<1> QED BY <1>7, <1>8, <1>9, <1>10 DEF exposure, onBudget

\* What was ever sent fits the limits up to the overages, since it stays held or settled.
THEOREM SentFits == GatewaySpec => []SentWithinLimit
<1>1. ASSUME GatewayInv, LedgerFits PROVE SentWithinLimit
    <2> SUFFICES ASSUME NEW b \in Budgets
                 PROVE  SumFunctionOnSet([h \in Commands |-> Exposure(h)],
                            {h \in Commands : sent[h] /\ b \in Rows(h)}) <= Limit[b]
        BY DEF SentWithinLimit
    <2> DEFINE all == SumFunctionOnSet([h \in Commands |-> Exposure(h)],
                          {h \in Commands : sent[h] /\ b \in Rows(h)})
    <2>1. all <= HeldOn(reservation, b) + UsedOn(reservation, b)
        BY <1>1, SentIsHeldOrSettled
    <2>2. HeldOn(reservation, b) + UsedOn(reservation, b) <= Limit[b]
        BY <1>1 DEF LedgerFits
    <2>3. all \in Nat
        <3> DEFINE exposure == [h \in Commands |-> Exposure(h)]
                   onBudget == {h \in Commands : sent[h] /\ b \in Rows(h)}
        <3>1. reservation \in [Commands -> Reservation]
            BY <1>1 DEF GatewayInv, GatewayTypeOK
        <3>2. \A h \in Commands : Estimate[h] \in Nat /\ UsedOf(reservation)[h] \in Nat
            BY <3>1, Summands
        <3>3. \A h \in Commands : exposure[h] \in Nat
            BY <3>2 DEF Exposure, UsedOf
        <3>4. IsFiniteSet(onBudget) /\ onBudget \subseteq Commands
            BY BudgetAssumption, FS_Subset
        <3> HIDE DEF exposure, onBudget
        <3>5. SumFunctionOnSet(exposure, onBudget) \in Nat
            BY <3>3, <3>4, SumNat
        <3> QED BY <3>5 DEF exposure, onBudget
    <2>4. /\ HeldOn(reservation, b) \in Nat /\ UsedOn(reservation, b) \in Nat /\ Limit[b] \in Nat
        BY <1>1, SumTypes, BudgetAssumption DEF GatewayInv, GatewayTypeOK
    <2> HIDE DEF all
    <2>5. all <= Limit[b]
        BY <2>1, <2>2, <2>3, <2>4
    <2> QED BY <2>5 DEF all
<1> QED BY <1>1, GatewayInvariance, LedgerFitsInvariance, PTL

\* The gateway changes the budget only as the ledger does, and settles with what a
\* provider may answer: BudgetReservation can stand for the ledger.
THEOREM GatewayUsesLedger == GatewaySpec => Ledger!LedgerSpec
<1>1. GatewayInit => Ledger!LedgerInit
    BY DEF GatewayInit
<1>2. ASSUME GatewayInv, [GatewayNext]_gatewayVars PROVE [Ledger!LedgerNext]_(Ledger!ledgerVars)
    <2>1. CASE UNCHANGED budget
        BY <2>1 DEF budget, Ledger!ledgerVars
    <2>2. ASSUME NEW h \in Commands, Ledger!Reserve(h) PROVE Ledger!LedgerNext
        BY <2>2 DEF Ledger!LedgerNext
    <2>3. ASSUME NEW h \in Commands, SettleCharge(h), charge[h] # NoCharge PROVE Ledger!LedgerNext
        <3>1. charge[h].receipt \in Receipts /\ charge[h].actual \in Actuals
            BY <1>2, <2>3 DEF GatewayInv, GatewayTypeOK, Charge
        <3> QED BY <2>3, <3>1 DEF SettleCharge, Ledger!LedgerNext
    <2> QED BY <1>2, <2>1, <2>2, <2>3, BudgetSteps
<1> QED BY <1>1, <1>2, GatewayInvariance, PTL DEF GatewaySpec, Ledger!LedgerSpec
=============================================================================
