---------------------------- MODULE BillingProofs ----------------------------
(***************************************************************************)
(* Proofs about Billing: it implements Subscriptions, so that every        *)
(* theorem of SubscriptionsProofs holds of the whole billing system, and   *)
(* its ledger agrees with the gateway.  All for any set of tenants, plans  *)
(* and charges.                                                            *)
(***************************************************************************)
EXTENDS Billing, SubscriptionsProofs

(* Every charge belongs to a tenant, and whoever has a saved card, or is      *)
(* about to be charged with one, has paid in person before.                   *)
CardsWerePaidFor ==
    /\ \A t \in Tenants : sub[t].tapPaymentAgreementId # Null => PaidInPerson(t)
    /\ \A s \in toRenew : s.agreement # Null => PaidInPerson(s.tenant)

ChargesHaveTenants ==
    \A e \in Charges : charges[e].state # "none" => charges[e].tenant \in Tenants

BInv ==
    /\ IInv
    /\ BillingTypeOK
    /\ ChargesHaveTenants
    /\ LedgerAgreesWithTap
    /\ CardsWerePaidFor
    /\ RenewalNeedsFirstPayment

(* The steps of Subscriptions in which no payment is reported. *)
UnreportedStep ==
    \/ Tick
    \/ \E t \in Tenants : TenantRequest(t)
    \/ DowngradeJob
    \/ LifecycleJob
    \/ AbortLifecycleRules
    \/ UNCHANGED vars

SubType == sub \in [Tenants -> Row]

(* What may happen to a charge in one step: what is decided stays decided,    *)
(* and nobody else becomes its tenant.                                        *)
ChargesKept ==
    \A e \in Charges :
        /\ charges[e].state # "none" =>
               /\ charges'[e].tenant = charges[e].tenant
               /\ charges'[e].kind = charges[e].kind
        /\ Decided(e) => charges'[e].state = charges[e].state

-----------------------------------------------------------------------------
(* Steps without a report leave the ledger alone and give nobody a card.      *)

LEMMA RowsKeepCards ==
    ASSUME NEW r \in Row, NEW p, NEW x, NEW d
    PROVE  /\ TrialRow(d).tapPaymentAgreementId = Null
           /\ PendingRow(r, p, x, d).tapPaymentAgreementId = r.tapPaymentAgreementId
           /\ DowngradedRow(r, d).tapPaymentAgreementId = r.tapPaymentAgreementId
           /\ CancelRequestedRow(r, d).tapPaymentAgreementId = r.tapPaymentAgreementId
           /\ PaymentFailedRow(r, d).tapPaymentAgreementId = r.tapPaymentAgreementId
           /\ PastDueRow(r, d).tapPaymentAgreementId = r.tapPaymentAgreementId
           /\ SuspendedRow(r, d).tapPaymentAgreementId = r.tapPaymentAgreementId
           /\ ExpiredRow(r, d).tapPaymentAgreementId = r.tapPaymentAgreementId
           /\ CancelledRow(r, d).tapPaymentAgreementId = r.tapPaymentAgreementId
BY DEF Row, NoRow, TrialRow, PendingRow, DowngradedRow, CancelRequestedRow,
       PaymentFailedRow, PastDueRow, SuspendedRow, ExpiredRow, CancelledRow

CardKept(t) ==
    sub'[t].tapPaymentAgreementId \in {sub[t].tapPaymentAgreementId, Null}

LEMMA UnreportedKeepsLedger ==
    ASSUME UnreportedStep
    PROVE  payments' = payments
<1>1. CASE Tick \/ AbortLifecycleRules \/ UNCHANGED vars
  BY <1>1 DEF Tick, AbortLifecycleRules, vars, rows
<1>2. ASSUME NEW u \in Tenants, TenantRequest(u) PROVE payments' = payments
  BY <1>2 DEF TenantRequest, StartTrialForNewUser, RequestUpgradeToPaidPlan,
              ScheduleDowngrade, CancelSubscription
<1>3. CASE DowngradeJob
  BY <1>3 DEF DowngradeJob, FindDueDowngrades, ApplyScheduledDowngrade,
              SkipDowngrade, rows
<1>4. CASE LifecycleJob
  BY <1>4 DEF LifecycleJob, FindExpiredTrials, MovePastDueSubscriptions,
              MoveSuspendedSubscriptions, FindExpiredSubscriptions,
              ExpireSubscription, MoveCancelledSubscriptions, RecordEvents, rows
<1> QED
  BY <1>1, <1>2, <1>3, <1>4 DEF UnreportedStep

LEMMA UnreportedKeepsCards ==
    ASSUME SubType, UnreportedStep, NEW t \in Tenants
    PROVE  CardKept(t)
<1>0. sub[t] \in Row
  BY DEF SubType
<1>1. CASE Tick \/ AbortLifecycleRules \/ UNCHANGED vars
  BY <1>1 DEF Tick, AbortLifecycleRules, vars, rows, CardKept
<1>2. ASSUME NEW u \in Tenants, TenantRequest(u)
      PROVE  CardKept(t)
  <2>1. CASE StartTrialForNewUser(u)
    BY <1>0, <2>1, RowsKeepCards DEF StartTrialForNewUser, CardKept, SubType
  <2>2. CASE \E p \in Plans, cycle \in Cycles : RequestUpgradeToPaidPlan(u, p, cycle)
    BY <1>0, <2>2, RowsKeepCards DEF RequestUpgradeToPaidPlan, CardKept, SubType
  <2>3. CASE \E p \in Plans : ScheduleDowngrade(u, p)
    BY <1>0, <2>3, RowsKeepCards DEF ScheduleDowngrade, CardKept, SubType
  <2>4. CASE CancelSubscription(u)
    BY <1>0, <2>4, RowsKeepCards DEF CancelSubscription, CardKept, SubType
  <2> QED
    BY <1>2, <2>1, <2>2, <2>3, <2>4 DEF TenantRequest
<1>3. CASE DowngradeJob
  <2>1. CASE FindDueDowngrades \/ \E u \in Tenants : SkipDowngrade(u)
    BY <2>1 DEF FindDueDowngrades, SkipDowngrade, rows, CardKept
  <2>2. ASSUME NEW u \in Tenants, ApplyScheduledDowngrade(u)
        PROVE  CardKept(t)
    BY <1>0, <2>2, RowsKeepCards DEF ApplyScheduledDowngrade, CardKept, SubType
  <2> QED
    BY <1>3, <2>1, <2>2 DEF DowngradeJob
<1>4. CASE LifecycleJob
  <2>1. CASE FindExpiredTrials \/ FindExpiredSubscriptions \/ RecordEvents
    BY <2>1 DEF FindExpiredTrials, FindExpiredSubscriptions, RecordEvents, rows, CardKept
  <2>2. CASE MovePastDueSubscriptions
    BY <1>0, <2>2, RowsKeepCards DEF MovePastDueSubscriptions, CardKept
  <2>3. CASE MoveSuspendedSubscriptions
    BY <1>0, <2>3, RowsKeepCards DEF MoveSuspendedSubscriptions, CardKept
  <2>4. CASE MoveCancelledSubscriptions
    BY <1>0, <2>4, RowsKeepCards DEF MoveCancelledSubscriptions, CardKept
  <2>5. CASE \E u \in Tenants : ExpireSubscription(u)
    BY <1>0, <2>5, RowsKeepCards DEF ExpireSubscription, CardKept, SubType
  <2> QED
    BY <1>4, <2>1, <2>2, <2>3, <2>4, <2>5 DEF LifecycleJob
<1> QED
  BY <1>1, <1>2, <1>3, <1>4 DEF UnreportedStep

-----------------------------------------------------------------------------
(* What each kind of step does to the charges. *)

LEMMA OpenChargeKeeps ==
    ASSUME charges \in [Charges -> Charge],
           NEW kind \in {"initial", "recurring"}, NEW t \in Tenants,
           NEW p \in Plans, NEW cycle \in Cycles,
           NEW a \in Agreements \cup {Null},
           OpenCharge(kind, t, p, cycle, a)
    PROVE  /\ charges' \in [Charges -> Charge]
           /\ ChargesKept
           /\ \A e \in Charges :
                  charges'[e] # charges[e] =>
                      charges'[e].tenant = t /\ charges'[e].kind = kind
<1> DEFINE c == [state |-> "open", kind |-> kind, tenant |-> t, plan |-> p,
                 cycle |-> cycle, agreement |-> a]
<1>1. c \in Charge /\ c.tenant = t /\ c.kind = kind
  BY DEF Charge
<1>2. PICK f \in Charges : /\ charges[f].state = "none"
                           /\ charges' = [charges EXCEPT ![f] = c]
  BY DEF OpenCharge
<1> HIDE DEF c
<1>3. \A e \in Charges : charges'[e] = IF e = f THEN c ELSE charges[e]
  BY <1>2
<1> QED
  BY <1>1, <1>2, <1>3 DEF ChargesKept, Decided

LEMMA GatewayDecidesKeeps ==
    ASSUME charges \in [Charges -> Charge],
           NEW f \in Charges, GatewayDecides(f)
    PROVE  /\ charges' \in [Charges -> Charge]
           /\ ChargesKept
           /\ \A e \in Charges : /\ charges'[e].tenant = charges[e].tenant
                                 /\ charges'[e].kind = charges[e].kind
                                 /\ charges'[e].state # "none" =>
                                        charges[e].state # "none"
<1>1. PICK outcome \in {"captured", "declined"} :
          charges' = [charges EXCEPT ![f].state = outcome]
  BY DEF GatewayDecides
<1>2. charges[f] \in Charge /\ charges[f].state = "open"
  BY DEF GatewayDecides
<1>3. [charges[f] EXCEPT !.state = outcome] \in Charge
  BY <1>2, Zenon DEF Charge
<1>4. \A e \in Charges :
          charges'[e] = IF e = f THEN [charges[f] EXCEPT !.state = outcome]
                                 ELSE charges[e]
  BY <1>1
<1>5. /\ [charges[f] EXCEPT !.state = outcome].tenant = charges[f].tenant
      /\ [charges[f] EXCEPT !.state = outcome].kind = charges[f].kind
  BY <1>2 DEF Charge
<1>6. charges' \in [Charges -> Charge]
  BY <1>1, <1>3, <1>4
<1> QED
  BY <1>2, <1>4, <1>5, <1>6 DEF ChargesKept, Decided

-----------------------------------------------------------------------------
(* Every step of the billing system is one of Subscriptions, or none.        *)

LEMMA StepImplements ==
    ASSUME ChargesHaveTenants, BillingNext
    PROVE  UnreportedStep \/ \E e \in Charges : HandleEvent(e) /\ [Next]_vars
<1>1. CASE TimePasses \/ LifecycleStep
  BY <1>1 DEF TimePasses, LifecycleStep, UnreportedStep
<1>2. ASSUME NEW t \in Tenants, Endpoint(t) PROVE UnreportedStep
  <2>1. CASE StartTrial(t)
    BY <2>1 DEF StartTrial, UnreportedStep, TenantRequest
  <2>2. ASSUME NEW p \in Plans, NEW cycle \in Cycles, UpgradePlan(t, p, cycle)
        PROVE  UnreportedStep
    BY <2>2 DEF UpgradePlan, UnreportedStep, TenantRequest
  <2>3. CASE \E p \in Plans : SecheduleDowngradePlan(t, p)
    BY <2>3 DEF SecheduleDowngradePlan, UnreportedStep, TenantRequest
  <2>4. CASE \E cycle \in Cycles : ResubscribeSuspendedPlan(t, cycle)
    BY <2>4 DEF ResubscribeSuspendedPlan, UnreportedStep
  <2>5. CASE CancelSubscriptionPlan(t)
    BY <2>5 DEF CancelSubscriptionPlan, UnreportedStep, TenantRequest
  <2> QED
    BY <1>2, <2>1, <2>2, <2>3, <2>4, <2>5 DEF Endpoint, SubscripeToEnterprisePlan
<1>3. CASE BillingJob
  <2>1. CASE StartBilling \/ DowngradeStep
    BY <2>1 DEF StartBilling, DowngradeStep, DowngradeJob, UnreportedStep
  <2>2. CASE \/ FindDueRenewals \/ FinishBilling
             \/ \E s \in toRenew : ChargeRenewal(s) \/ SkipRenewal(s)
    BY <2>2 DEF FindDueRenewals, FinishBilling, ChargeRenewal, SkipRenewal,
                UnreportedStep
  <2> QED
    BY <1>3, <2>1, <2>2 DEF BillingJob
<1>4. ASSUME NEW e \in Charges, GatewayDecides(e) \/ WebhookAccepted(e) \/ LoseEvent(e)
      PROVE  UnreportedStep
  BY <1>4 DEF GatewayDecides, WebhookAccepted, LoseEvent, UnreportedStep
<1>5. ASSUME NEW e \in Charges, HandleEvent(e) PROVE [Next]_vars
  <2> DEFINE t == charges[e].tenant
  <2>1. CASE UNCHANGED vars
    BY <2>1
  <2>2. ASSUME charges[e].state = "captured", NEW a \in Agreements,
               ActivateAfterSuccessfulPayment(t, e, sub[t].billingCycle, a)
        PROVE  Next
    <3>1. t \in Tenants
      BY <2>2 DEF ChargesHaveTenants
    <3> HIDE DEF t
    <3> QED
      BY <2>2, <3>1 DEF Next, PaymentReport
  <2>3. ASSUME charges[e].state = "declined", MarkPaymentFailed(t, e)
        PROVE  Next
    <3>1. t \in Tenants
      BY <2>3 DEF ChargesHaveTenants
    <3> HIDE DEF t
    <3> QED
      BY <2>3, <3>1 DEF Next, PaymentReport
  <2> QED
    BY <1>5, <2>1, <2>2, <2>3 DEF HandleEvent, ReportHandled
<1> QED
  BY <1>1, <1>2, <1>3, <1>4, <1>5 DEF BillingNext, Webhook

LEMMA UnreportedIsANext == UnreportedStep => [Next]_vars
BY DEF UnreportedStep, Next

-----------------------------------------------------------------------------
(* What was paid stays paid, and what is recorded stays right. *)

LEMMA PaidKept ==
    ASSUME LedgerAgreesWithTap, ChargesKept, payments \subseteq Payment,
           payments \subseteq payments', NEW t, PaidInPerson(t)
    PROVE  PaidInPerson(t)'
<1>1. PICK p \in payments : /\ p.tenant = t
                            /\ p.status = "succeeded"
                            /\ charges[p.event].kind = "initial"
  BY DEF PaidInPerson
<1>2. p.event \in Charges /\ charges[p.event].state = "captured"
  BY <1>1 DEF LedgerAgreesWithTap, Payment
<1>3. charges'[p.event].kind = "initial"
  BY <1>1, <1>2 DEF ChargesKept
<1> QED
  BY <1>1, <1>3 DEF PaidInPerson

LEMMA LedgerKept ==
    ASSUME LedgerAgreesWithTap, ChargesKept, payments \subseteq Payment,
           NEW p \in payments
    PROVE  /\ charges'[p.event].tenant = p.tenant
           /\ charges'[p.event].state =
                  IF p.status = "succeeded" THEN "captured" ELSE "declined"
<1>1. /\ p.event \in Charges
      /\ charges[p.event].tenant = p.tenant
      /\ charges[p.event].state =
             IF p.status = "succeeded" THEN "captured" ELSE "declined"
  BY DEF LedgerAgreesWithTap, Payment
<1>2. Decided(p.event) /\ charges[p.event].state # "none"
  BY <1>1 DEF Decided
<1> QED
  BY <1>1, <1>2 DEF ChargesKept

(* A step without a report preserves all that is said of payments, provided   *)
(* it opens recurring charges and renewals only for saved cards.              *)
LEMMA UnreportedKeepsLinks ==
    ASSUME BInv, UnreportedStep, ChargesKept,
           \A s \in toRenew' :
               s.agreement # Null => \/ s \in toRenew
                                     \/ /\ s.tenant \in Tenants
                                        /\ s.agreement = sub[s.tenant].tapPaymentAgreementId,
           \A e \in Charges :
               charges'[e].kind = "recurring" =>
                   \/ /\ charges[e].kind = "recurring"
                      /\ charges'[e].tenant = charges[e].tenant
                   \/ \E s \in toRenew : /\ s.agreement # Null
                                         /\ charges'[e].tenant = s.tenant
    PROVE  LedgerAgreesWithTap' /\ CardsWerePaidFor' /\ RenewalNeedsFirstPayment'
<1>1. /\ SubType /\ payments \subseteq Payment
      /\ LedgerAgreesWithTap /\ CardsWerePaidFor /\ RenewalNeedsFirstPayment
  BY DEF BInv, IInv, TypeOK, SubType
<1>2. payments' = payments
  BY UnreportedKeepsLedger
<1>3. \A t : PaidInPerson(t) => PaidInPerson(t)'
  BY <1>1, <1>2, PaidKept
<1>4. LedgerAgreesWithTap'
  BY <1>1, <1>2, LedgerKept DEF LedgerAgreesWithTap
<1>5. CardsWerePaidFor'
  <2>1. ASSUME NEW t \in Tenants, sub'[t].tapPaymentAgreementId # Null
        PROVE  PaidInPerson(t)'
    BY <1>1, <1>3, <2>1, UnreportedKeepsCards DEF CardKept, CardsWerePaidFor
  <2>2. ASSUME NEW s \in toRenew', s.agreement # Null
        PROVE  PaidInPerson(s.tenant)'
    BY <1>1, <1>3, <2>2 DEF CardsWerePaidFor
  <2> QED
    BY <2>1, <2>2 DEF CardsWerePaidFor
<1>6. ASSUME NEW e \in Charges, charges'[e].kind = "recurring",
             NEW t, t = charges'[e].tenant
      PROVE  PaidInPerson(t)'
  BY <1>1, <1>3, <1>6 DEF RenewalNeedsFirstPayment, CardsWerePaidFor
<1>7. RenewalNeedsFirstPayment'
  BY <1>6 DEF RenewalNeedsFirstPayment, PaidInPerson
<1> QED
  BY <1>4, <1>5, <1>7

-----------------------------------------------------------------------------
(* BInv is inductive. *)

LEMMA BillingInitInv == BillingInit => BInv
<1> SUFFICES ASSUME BillingInit PROVE BInv
  OBVIOUS
<1>1. IInv
  BY InitInv DEF BillingInit
<1>2. NoCharge \in Charge /\ NoCharge.state = "none" /\ NoCharge.kind = "initial"
  BY DEF NoCharge, Charge, Cycles
<1>3. BillingTypeOK /\ ChargesHaveTenants /\ RenewalNeedsFirstPayment
  BY <1>2 DEF BillingInit, BillingTypeOK, ChargesHaveTenants,
              RenewalNeedsFirstPayment, WebhookStates
<1>4. LedgerAgreesWithTap
  BY DEF BillingInit, Init, LedgerAgreesWithTap
<1>5. CardsWerePaidFor
  BY DEF BillingInit, Init, NoRow, CardsWerePaidFor
<1> QED
  BY <1>1, <1>3, <1>4, <1>5 DEF BInv

(* An endpoint that opens a charge, whether the row is written or not. *)
LEMMA EndpointCharges ==
    ASSUME BInv, UnreportedStep, NEW t \in Tenants, NEW p \in Plans,
           NEW cycle \in Cycles,
           OpenCharge("initial", t, p, cycle, Null) \/ UNCHANGED charges,
           UNCHANGED <<webhook, billingStage, toRenew>>
    PROVE  /\ BillingTypeOK' /\ ChargesHaveTenants'
           /\ LedgerAgreesWithTap' /\ CardsWerePaidFor' /\ RenewalNeedsFirstPayment'
<1>1. BillingTypeOK /\ ChargesHaveTenants /\ charges \in [Charges -> Charge]
  BY DEF BInv, BillingTypeOK
<1>2. /\ charges' \in [Charges -> Charge]
      /\ ChargesKept
      /\ \A e \in Charges :
             charges'[e] # charges[e] =>
                 charges'[e].tenant = t /\ charges'[e].kind = "initial"
  <2>1. CASE OpenCharge("initial", t, p, cycle, Null)
    BY <1>1, <2>1, OpenChargeKeeps
  <2>2. CASE UNCHANGED charges
    BY <1>1, <2>2 DEF ChargesKept
  <2> QED
    BY <2>1, <2>2
<1>3. BillingTypeOK' /\ ChargesHaveTenants'
  BY <1>1, <1>2 DEF BillingTypeOK, ChargesHaveTenants
<1> QED
  BY <1>2, <1>3, UnreportedKeepsLinks

(* A step that leaves charges and renewals alone. *)
LEMMA QuietBilling ==
    ASSUME BInv, UnreportedStep, UNCHANGED <<charges, toRenew>>
    PROVE  /\ ChargesHaveTenants'
           /\ LedgerAgreesWithTap' /\ CardsWerePaidFor' /\ RenewalNeedsFirstPayment'
<1>1. ChargesKept /\ ChargesHaveTenants'
  BY DEF BInv, ChargesKept, ChargesHaveTenants
<1> QED
  BY <1>1, UnreportedKeepsLinks

LEMMA HandleEventInv ==
    ASSUME BInv, NEW e \in Charges, HandleEvent(e)
    PROVE  /\ BillingTypeOK' /\ ChargesHaveTenants'
           /\ LedgerAgreesWithTap' /\ CardsWerePaidFor' /\ RenewalNeedsFirstPayment'
<1> DEFINE t == charges[e].tenant
<1>1. /\ SubType /\ payments \subseteq Payment /\ charges \in [Charges -> Charge]
      /\ BillingTypeOK /\ ChargesHaveTenants
      /\ LedgerAgreesWithTap /\ CardsWerePaidFor /\ RenewalNeedsFirstPayment
  BY DEF BInv, IInv, TypeOK, SubType, BillingTypeOK
<1>2. /\ charges' = charges /\ billingStage' = billingStage /\ toRenew' = toRenew
      /\ webhook' = [webhook EXCEPT ![e] = "handled"]
  BY DEF HandleEvent, ReportHandled
<1>3. BillingTypeOK' /\ ChargesHaveTenants' /\ ChargesKept
  BY <1>1, <1>2 DEF BillingTypeOK, WebhookStates, ChargesHaveTenants, ChargesKept
<1>4. CASE UNCHANGED vars
  BY <1>2, <1>3, <1>4, QuietBilling DEF UnreportedStep
<1>5. ASSUME charges[e].state = "captured", NEW a \in Agreements,
             ActivateAfterSuccessfulPayment(t, e, sub[t].billingCycle, a)
      PROVE  LedgerAgreesWithTap' /\ CardsWerePaidFor' /\ RenewalNeedsFirstPayment'
  <2> DEFINE new == [event |-> e, tenant |-> t, status |-> "succeeded"]
  <2>1. payments' = payments \cup {new}
    BY <1>5 DEF ActivateAfterSuccessfulPayment
  <2>2. new.event = e /\ new.tenant = t /\ new.status = "succeeded" /\ t \in Tenants
    BY <1>1, <1>5 DEF ChargesHaveTenants
  <2> HIDE DEF new
  <2>3. \A u : PaidInPerson(u) => PaidInPerson(u)'
    BY <1>1, <1>3, <2>1, PaidKept
  <2>4. LedgerAgreesWithTap'
    BY <1>1, <1>2, <1>5, <2>1, <2>2 DEF LedgerAgreesWithTap
  <2>5. ASSUME NEW u, u = t, charges[e].kind = "initial" PROVE PaidInPerson(u)'
    BY <1>2, <2>1, <2>2, <2>5 DEF PaidInPerson
  <2>6. ASSUME NEW u, u = t, charges[e].kind = "recurring" PROVE PaidInPerson(u)'
    <3>1. PaidInPerson(u)
      BY <1>1, <2>6 DEF RenewalNeedsFirstPayment, PaidInPerson
    <3> QED
      BY <2>3, <3>1
  <2>7. ASSUME NEW u, u = t PROVE PaidInPerson(u)'
    BY <1>1, <2>5, <2>6, <2>7 DEF Charge
  <2> HIDE DEF t
  <2>8. ASSUME NEW u \in Tenants, u # t PROVE sub'[u] = sub[u]
    BY <1>1, <1>5, <2>8 DEF ActivateAfterSuccessfulPayment, SubType
  <2>9. CardsWerePaidFor'
    BY <1>1, <1>2, <2>3, <2>7, <2>8 DEF CardsWerePaidFor
  <2>10. ASSUME NEW f \in Charges, charges'[f].kind = "recurring",
                NEW u, u = charges'[f].tenant
         PROVE  PaidInPerson(u)'
    BY <1>1, <1>2, <2>3, <2>10 DEF RenewalNeedsFirstPayment
  <2>11. RenewalNeedsFirstPayment'
    BY <2>10 DEF RenewalNeedsFirstPayment, PaidInPerson
  <2> QED
    BY <2>4, <2>9, <2>11
<1>6. ASSUME charges[e].state = "declined", MarkPaymentFailed(t, e)
      PROVE  LedgerAgreesWithTap' /\ CardsWerePaidFor' /\ RenewalNeedsFirstPayment'
  <2> DEFINE new == [event |-> e, tenant |-> t, status |-> "failed"]
  <2>1. payments' = payments \cup {new}
    BY <1>6 DEF MarkPaymentFailed
  <2>2. new.event = e /\ new.tenant = t /\ new.status = "failed"
    OBVIOUS
  <2> HIDE DEF new
  <2>3. \A u : PaidInPerson(u) => PaidInPerson(u)'
    BY <1>1, <1>3, <2>1, PaidKept
  <2>4. LedgerAgreesWithTap'
    BY <1>1, <1>2, <1>6, <2>1, <2>2 DEF LedgerAgreesWithTap
  <2>5. ASSUME NEW u \in Tenants
        PROVE  sub'[u].tapPaymentAgreementId = sub[u].tapPaymentAgreementId
    <3>1. sub[u] \in Row
      BY <1>1 DEF SubType
    <3> QED
      BY <1>1, <1>6, <3>1, RowsKeepCards DEF MarkPaymentFailed, SubType
  <2>6. CardsWerePaidFor'
    BY <1>1, <1>2, <2>3, <2>5 DEF CardsWerePaidFor
  <2>7. ASSUME NEW f \in Charges, charges'[f].kind = "recurring",
               NEW u, u = charges'[f].tenant
        PROVE  PaidInPerson(u)'
    BY <1>1, <1>2, <2>3, <2>7 DEF RenewalNeedsFirstPayment
  <2>8. RenewalNeedsFirstPayment'
    BY <2>7 DEF RenewalNeedsFirstPayment, PaidInPerson
  <2> QED
    BY <2>4, <2>6, <2>8
<1> QED
  BY <1>3, <1>4, <1>5, <1>6 DEF HandleEvent, ReportHandled

LEMMA EndpointInv ==
    ASSUME BInv, NEW t \in Tenants, Endpoint(t)
    PROVE  UnreportedStep =>
               /\ BillingTypeOK' /\ ChargesHaveTenants'
               /\ LedgerAgreesWithTap' /\ CardsWerePaidFor'
               /\ RenewalNeedsFirstPayment'
<1> SUFFICES ASSUME UnreportedStep
             PROVE  /\ BillingTypeOK' /\ ChargesHaveTenants'
                    /\ LedgerAgreesWithTap' /\ CardsWerePaidFor'
                    /\ RenewalNeedsFirstPayment'
  OBVIOUS
<1>1. ASSUME NEW p \in Plans, NEW cycle \in Cycles, UpgradePlan(t, p, cycle)
      PROVE  /\ OpenCharge("initial", t, p, cycle, Null) \/ UNCHANGED charges
             /\ UNCHANGED <<webhook, billingStage, toRenew>>
  BY <1>1 DEF UpgradePlan
<1>2. ASSUME NEW cycle \in Cycles, ResubscribeSuspendedPlan(t, cycle)
      PROVE  \E p \in Plans :
                 /\ OpenCharge("initial", t, p, cycle, Null)
                 /\ UNCHANGED <<webhook, billingStage, toRenew>>
  <2>1. sub[t].planId \in Plans
    BY DEF BInv, IInv, TypeOK, Row
  <2> QED
    BY <1>2, <2>1 DEF ResubscribeSuspendedPlan
<1>3. CASE StartTrial(t) \/ CancelSubscriptionPlan(t)
           \/ \E p \in Plans : SecheduleDowngradePlan(t, p)
  <2>1. UNCHANGED <<charges, webhook, billingStage, toRenew>>
    BY <1>3 DEF StartTrial, CancelSubscriptionPlan, SecheduleDowngradePlan
  <2>2. BillingTypeOK'
    BY <2>1 DEF BInv, BillingTypeOK
  <2> QED
    BY <2>1, <2>2, QuietBilling
<1>4. CASE \E p \in Plans, cycle \in Cycles :
               UpgradePlan(t, p, cycle) \/ SubscripeToEnterprisePlan(t, p, cycle)
  BY <1>1, <1>4, EndpointCharges DEF SubscripeToEnterprisePlan
<1>5. CASE \E cycle \in Cycles : ResubscribeSuspendedPlan(t, cycle)
  BY <1>2, <1>5, EndpointCharges
<1> QED
  BY <1>3, <1>4, <1>5 DEF Endpoint

LEMMA BillingJobInv ==
    ASSUME BInv, UnreportedStep, BillingJob
    PROVE  /\ BillingTypeOK' /\ ChargesHaveTenants'
           /\ LedgerAgreesWithTap' /\ CardsWerePaidFor' /\ RenewalNeedsFirstPayment'
<1>0. /\ BillingTypeOK /\ SubType /\ ChargesHaveTenants
      /\ charges \in [Charges -> Charge] /\ toRenew \subseteq Renewal
  BY DEF BInv, IInv, TypeOK, SubType, BillingTypeOK
<1>1. CASE StartBilling \/ DowngradeStep \/ FinishBilling
  <2>1. BillingTypeOK' /\ UNCHANGED <<charges, toRenew>>
    BY <1>0, <1>1 DEF StartBilling, DowngradeStep, FinishBilling, BillingTypeOK
  <2> QED
    BY <2>1, QuietBilling
<1>2. CASE FindDueRenewals
  <2>1. UNCHANGED <<charges, webhook>> /\ billingStage' = "renewals"
    BY <1>2 DEF FindDueRenewals
  <2>2. ASSUME NEW s \in toRenew'
        PROVE  /\ s \in Renewal
               /\ s.agreement = sub[s.tenant].tapPaymentAgreementId
    <3>1. PICK t \in Tenants : s = RenewalSnapshot(t)
      BY <1>2, <2>2 DEF FindDueRenewals
    <3>2. sub[t] \in Row
      BY <1>0 DEF SubType
    <3> QED
      BY <3>1, <3>2 DEF RenewalSnapshot, Renewal, Row
  <2>3. BillingTypeOK' /\ ChargesHaveTenants' /\ ChargesKept
    BY <1>0, <2>1, <2>2 DEF BillingTypeOK, ChargesHaveTenants, ChargesKept
  <2> QED
    BY <2>1, <2>2, <2>3, UnreportedKeepsLinks DEF Renewal
<1>3. ASSUME NEW s \in toRenew, ChargeRenewal(s)
      PROVE  /\ BillingTypeOK' /\ ChargesHaveTenants'
             /\ LedgerAgreesWithTap' /\ CardsWerePaidFor' /\ RenewalNeedsFirstPayment'
  <2>1. /\ s.tenant \in Tenants /\ s.plan \in Plans /\ s.cycle \in Cycles
        /\ s.agreement \in Agreements \cup {Null} /\ s.agreement # Null
        /\ OpenCharge("recurring", s.tenant, s.plan, s.cycle, s.agreement)
        /\ UNCHANGED <<webhook, billingStage>> /\ toRenew' \subseteq toRenew
    BY <1>0, <1>3 DEF ChargeRenewal, Renewal
  <2>2. /\ charges' \in [Charges -> Charge]
        /\ ChargesKept
        /\ \A e \in Charges :
               charges'[e] # charges[e] =>
                   charges'[e].tenant = s.tenant /\ charges'[e].kind = "recurring"
    BY <1>0, <2>1, OpenChargeKeeps
  <2>3. BillingTypeOK' /\ ChargesHaveTenants'
    BY <1>0, <2>1, <2>2 DEF BillingTypeOK, ChargesHaveTenants
  <2> QED
    BY <2>1, <2>2, <2>3, UnreportedKeepsLinks
<1>4. ASSUME NEW s \in toRenew, SkipRenewal(s)
      PROVE  /\ BillingTypeOK' /\ ChargesHaveTenants'
             /\ LedgerAgreesWithTap' /\ CardsWerePaidFor' /\ RenewalNeedsFirstPayment'
  <2>1. toRenew' \subseteq toRenew /\ UNCHANGED <<charges, webhook, billingStage>>
    BY <1>4 DEF SkipRenewal
  <2>2. BillingTypeOK' /\ ChargesHaveTenants' /\ ChargesKept
    BY <1>0, <2>1 DEF BillingTypeOK, ChargesHaveTenants, ChargesKept
  <2> QED
    BY <2>1, <2>2, UnreportedKeepsLinks
<1> QED
  BY <1>1, <1>2, <1>3, <1>4 DEF BillingJob

LEMMA BillingStep == BInv /\ [BillingNext]_bvars => [Next]_vars
<1> SUFFICES ASSUME BInv, [BillingNext]_bvars PROVE [Next]_vars
  OBVIOUS
<1>1. CASE UNCHANGED bvars
  BY <1>1 DEF bvars
<1>2. CASE BillingNext
  BY <1>2, StepImplements, UnreportedIsANext DEF BInv
<1> QED
  BY <1>1, <1>2

LEMMA BillingNextInv == BInv /\ [BillingNext]_bvars => BInv'
<1> SUFFICES ASSUME BInv, [BillingNext]_bvars PROVE BInv'
  OBVIOUS
<1>0. /\ BillingTypeOK /\ ChargesHaveTenants /\ IInv
      /\ charges \in [Charges -> Charge]
  BY DEF BInv, BillingTypeOK
<1>1. [Next]_vars
  BY BillingStep
<1>2. IInv'
  BY <1>0, <1>1, NextInv
<1>3. CASE UNCHANGED bvars
  <2>1. UnreportedStep /\ UNCHANGED <<charges, toRenew>> /\ BillingTypeOK'
    BY <1>0, <1>3 DEF bvars, UnreportedStep, BillingTypeOK
  <2> QED
    BY <1>2, <2>1, QuietBilling DEF BInv
<1>4. ASSUME NEW e \in Charges, HandleEvent(e) PROVE BInv'
  BY <1>2, <1>4, HandleEventInv DEF BInv
<1>5. CASE BillingNext /\ UnreportedStep
  <2>1. CASE TimePasses \/ LifecycleStep
    <3>1. UNCHANGED <<charges, toRenew>> /\ BillingTypeOK'
      BY <1>0, <2>1 DEF TimePasses, LifecycleStep, BillingTypeOK
    <3> QED
      BY <1>2, <1>5, <3>1, QuietBilling DEF BInv
  <2>2. CASE \E t \in Tenants : Endpoint(t)
    BY <1>2, <1>5, <2>2, EndpointInv DEF BInv
  <2>3. CASE BillingJob
    BY <1>2, <1>5, <2>3, BillingJobInv DEF BInv
  <2>4. ASSUME NEW e \in Charges, WebhookAccepted(e) \/ LoseEvent(e)
        PROVE  BInv'
    <3>1. UNCHANGED <<charges, toRenew>> /\ BillingTypeOK'
      BY <1>0, <2>4 DEF WebhookAccepted, LoseEvent, BillingTypeOK, WebhookStates
    <3> QED
      BY <1>2, <1>5, <3>1, QuietBilling DEF BInv
  <2>5. ASSUME NEW e \in Charges, GatewayDecides(e) PROVE BInv'
    <3>1. UNCHANGED <<webhook, billingStage, toRenew>>
      BY <2>5 DEF GatewayDecides
    <3>2. /\ charges' \in [Charges -> Charge]
          /\ ChargesKept
          /\ \A f \in Charges : /\ charges'[f].tenant = charges[f].tenant
                                /\ charges'[f].kind = charges[f].kind
                                /\ charges'[f].state # "none" =>
                                       charges[f].state # "none"
      BY <1>0, <2>5, GatewayDecidesKeeps
    <3>3. BillingTypeOK'
      BY <1>0, <3>1, <3>2 DEF BillingTypeOK
    <3>4. ChargesHaveTenants'
      BY <1>0, <3>2 DEF ChargesHaveTenants
    <3>5. LedgerAgreesWithTap' /\ CardsWerePaidFor' /\ RenewalNeedsFirstPayment'
      BY <1>5, <3>1, <3>2, UnreportedKeepsLinks
    <3> QED
      BY <1>2, <3>3, <3>4, <3>5 DEF BInv
  <2> QED
    BY <1>4, <1>5, <2>1, <2>2, <2>3, <2>4, <2>5 DEF BillingNext, Webhook
<1> QED
  BY <1>0, <1>3, <1>4, <1>5, StepImplements

-----------------------------------------------------------------------------

THEOREM BillingInvariant == BillingSpec => []BInv
<1>1. BInv /\ [BillingNext]_bvars => BInv'
  BY BillingNextInv
<1> QED
  BY <1>1, BillingInitInv, PTL DEF BillingSpec

(* The billing system does to rows, ledger and log only what Subscriptions    *)
(* allows, whichever charges are made and whatever becomes of their webhooks. *)
THEOREM BillingImplementsSubscriptions == BillingSpec => ImplementsSubscriptions
<1>1. BillingInit => Init
  BY DEF BillingInit
<1>2. BInv /\ [BillingNext]_bvars => [Next]_vars
  BY BillingStep
<1> QED
  BY <1>1, <1>2, BillingInvariant, PTL DEF BillingSpec, ImplementsSubscriptions, Spec

(* The ledger never says of a charge what Tap does not, nor of a tenant who   *)
(* was not charged.                                                           *)
THEOREM LedgerIsTrue == BillingSpec => []LedgerAgreesWithTap
<1>1. BInv => LedgerAgreesWithTap
  BY DEF BInv
<1> QED
  BY <1>1, BillingInvariant, PTL

(* Charges, the gateway's decisions and the renewal job keep their types. *)
THEOREM BillingTypeCorrect == BillingSpec => []BillingTypeOK
<1>1. BInv => BillingTypeOK
  BY DEF BInv
<1> QED
  BY <1>1, BillingInvariant, PTL

(* Nobody's card is charged before a payment of his own was captured.         *)
THEOREM CardsAreSavedByPaying == BillingSpec => []RenewalNeedsFirstPayment
<1>1. BInv => RenewalNeedsFirstPayment
  BY DEF BInv
<1> QED
  BY <1>1, BillingInvariant, PTL

(* A theorem about Subscriptions carried over: the grace days are honoured by *)
(* the whole billing system.                                                  *)
THEOREM BillingHonoursGrace == BillingSpec => []GraceHonoured
<1>1. ImplementsSubscriptions => []GraceHonoured
  BY GraceIsHonoured DEF ImplementsSubscriptions
<1> QED
  BY <1>1, BillingImplementsSubscriptions

-----------------------------------------------------------------------------
(* From the charge to the record. *)

LEMMA ChargesMove == BInv /\ [BillingNext]_bvars => ChargesKept
<1> SUFFICES ASSUME BInv, [BillingNext]_bvars PROVE ChargesKept
  OBVIOUS
<1>0. /\ charges \in [Charges -> Charge] /\ toRenew \subseteq Renewal
      /\ \A t \in Tenants : sub[t].planId \in Plans
  BY DEF BInv, BillingTypeOK, IInv, TypeOK, Row
<1>1. CASE UNCHANGED charges
  BY <1>1 DEF ChargesKept
<1>2. ASSUME NEW t \in Tenants, NEW p \in Plans, NEW cycle \in Cycles,
             OpenCharge("initial", t, p, cycle, Null)
      PROVE  ChargesKept
  BY <1>0, <1>2, OpenChargeKeeps
<1>3. ASSUME NEW t \in Tenants, Endpoint(t) PROVE ChargesKept
  BY <1>0, <1>1, <1>2, <1>3 DEF Endpoint, StartTrial, UpgradePlan,
     SubscripeToEnterprisePlan, SecheduleDowngradePlan,
     ResubscribeSuspendedPlan, CancelSubscriptionPlan
<1>4. CASE BillingJob
  <2>1. ASSUME NEW s \in toRenew, ChargeRenewal(s) PROVE ChargesKept
    BY <1>0, <2>1, OpenChargeKeeps DEF ChargeRenewal, Renewal
  <2> QED
    BY <1>1, <1>4, <2>1 DEF BillingJob, StartBilling, DowngradeStep,
       FindDueRenewals, SkipRenewal, FinishBilling
<1>5. ASSUME NEW e \in Charges, GatewayDecides(e) \/ Webhook(e) PROVE ChargesKept
  BY <1>0, <1>1, <1>5, GatewayDecidesKeeps
     DEF Webhook, WebhookAccepted, HandleEvent, LoseEvent
<1> QED
  BY <1>1, <1>3, <1>4, <1>5 DEF BillingNext, TimePasses, LifecycleStep, bvars

(* What a step may do to the webhook of a charge. *)
LEMMA WebhookMoves ==
    ASSUME BInv, [BillingNext]_bvars, NEW e \in Charges
    PROVE  \/ webhook'[e] = webhook[e]
           \/ webhook'[e] = "accepted" /\ Decided(e)
           \/ webhook[e] = "accepted" /\ webhook'[e] = "lost"
           \/ HandleEvent(e) /\ webhook[e] = "accepted" /\ webhook'[e] = "handled"
<1>0. webhook \in [Charges -> WebhookStates]
  BY DEF BInv, BillingTypeOK
<1>1. CASE UNCHANGED webhook
  BY <1>1
<1>2. ASSUME NEW f \in Charges, Webhook(f)
      PROVE  \/ webhook'[e] = webhook[e]
             \/ webhook'[e] = "accepted" /\ Decided(e)
             \/ webhook[e] = "accepted" /\ webhook'[e] = "lost"
             \/ HandleEvent(e) /\ webhook[e] = "accepted" /\ webhook'[e] = "handled"
  <2>1. CASE f = e
    BY <1>0, <1>2, <2>1 DEF Webhook, WebhookAccepted, HandleEvent, LoseEvent
  <2>2. CASE f # e
    BY <1>0, <1>2, <2>2 DEF Webhook, WebhookAccepted, HandleEvent, LoseEvent
  <2> QED
    BY <2>1, <2>2
<1>3. ASSUME NEW t \in Tenants, Endpoint(t) PROVE UNCHANGED webhook
  BY <1>3 DEF Endpoint, StartTrial, UpgradePlan, SubscripeToEnterprisePlan,
     SecheduleDowngradePlan, ResubscribeSuspendedPlan, CancelSubscriptionPlan
<1>4. CASE BillingJob
  BY <1>1, <1>4 DEF BillingJob, StartBilling, DowngradeStep, FindDueRenewals,
     ChargeRenewal, SkipRenewal, FinishBilling
<1> QED
  BY <1>1, <1>2, <1>3, <1>4 DEF BillingNext, TimePasses, LifecycleStep,
     GatewayDecides, bvars

(* Nothing is reported of a charge before Tap has decided it, and a capture   *)
(* that was handled is recorded.                                              *)
WebhooksInOrder ==
    \A e \in Charges :
        /\ webhook[e] # "none" => Decided(e)
        /\ webhook[e] = "handled" /\ charges[e].state = "captured" => IsRecorded(e)

LEMMA HandledIsRecorded ==
    ASSUME BInv, NEW e \in Charges, HandleEvent(e), charges[e].state = "captured"
    PROVE  IsRecorded(e)'
<1>1. charges[e].state # "declined"
  OBVIOUS
<1>2. ASSUME NEW t, NEW a \in Agreements, NEW c,
             ActivateAfterSuccessfulPayment(t, e, c, a)
      PROVE  IsRecorded(e)'
  <2> DEFINE q == [event |-> e, tenant |-> t, status |-> "succeeded"]
  <2>1. q \in payments' /\ q.event = e
    BY <1>2 DEF ActivateAfterSuccessfulPayment
  <2> HIDE DEF q
  <2> QED
    BY <2>1 DEF IsRecorded
<1>3. CASE IsRecorded(e) /\ UNCHANGED vars
  BY <1>3 DEF IsRecorded, vars
<1> QED
  BY <1>1, <1>2, <1>3 DEF HandleEvent, ReportHandled

LEMMA RecordsStay ==
    ASSUME BInv, [BillingNext]_bvars, NEW e, IsRecorded(e)
    PROVE  IsRecorded(e)'
BY BillingStep, PaymentsGrow DEF IsRecorded

LEMMA WebhooksInOrderInv ==
    BInv /\ WebhooksInOrder /\ [BillingNext]_bvars => WebhooksInOrder'
<1> SUFFICES ASSUME BInv, WebhooksInOrder, [BillingNext]_bvars, NEW e \in Charges
             PROVE  /\ webhook'[e] # "none" => Decided(e)'
                    /\ webhook'[e] = "handled" /\ charges'[e].state = "captured"
                           => IsRecorded(e)'
  BY DEF WebhooksInOrder
<1>1. Decided(e) => Decided(e)' /\ charges'[e].state = charges[e].state
  BY ChargesMove DEF ChargesKept, Decided
<1>2. CASE webhook'[e] = webhook[e]
  BY <1>1, <1>2, RecordsStay DEF WebhooksInOrder
<1>3. CASE webhook'[e] \in {"accepted", "lost"} /\ Decided(e)
  BY <1>1, <1>3
<1>4. CASE HandleEvent(e) /\ webhook[e] = "accepted"
  BY <1>1, <1>4, HandledIsRecorded DEF WebhooksInOrder
<1> QED
  BY <1>2, <1>3, <1>4, WebhookMoves DEF WebhooksInOrder

LEMMA AlwaysInOrder == BillingSpec => []WebhooksInOrder
<1>1. BillingInit => WebhooksInOrder
  BY DEF BillingInit, WebhooksInOrder
<1> QED
  BY <1>1, WebhooksInOrderInv, BillingInvariant, PTL DEF BillingSpec

-----------------------------------------------------------------------------
(* The half of ReportsCanBeHandled that needs no ENABLED: whoever is charged  *)
(* has a row, and keeps it while the report is under way.                     *)

ChargedHaveRows ==
    /\ \A e \in Charges :
           charges[e].state # "none"
           => charges[e].tenant \in Tenants /\ Exists(charges[e].tenant)
    /\ \A s \in toRenew : s.tenant \in Tenants /\ Exists(s.tenant)

LEMMA OpenedHaveRows ==
    ASSUME charges \in [Charges -> Charge], NEW kind, NEW t \in Tenants,
           NEW p, NEW cycle, NEW a, OpenCharge(kind, t, p, cycle, a), Exists(t),
           ChargedHaveRows, NEW e \in Charges, charges'[e].state # "none"
    PROVE  charges'[e].tenant \in Tenants /\ Exists(charges'[e].tenant)
<1> DEFINE c == [state |-> "open", kind |-> kind, tenant |-> t, plan |-> p,
                 cycle |-> cycle, agreement |-> a]
<1>1. c.tenant = t
  OBVIOUS
<1>2. PICK f \in Charges : /\ charges[f].state = "none"
                           /\ charges' = [charges EXCEPT ![f] = c]
  BY DEF OpenCharge
<1> HIDE DEF c
<1> QED
  BY <1>1, <1>2 DEF ChargedHaveRows

(* A charge that a step opens, and a renewal that it plans, is of a tenant    *)
(* who had a row before it.                                                   *)
LEMMA ChargedHadRows ==
    ASSUME BInv, ChargedHaveRows, [BillingNext]_bvars
    PROVE  /\ \A e \in Charges :
                  charges'[e].state # "none"
                  => charges'[e].tenant \in Tenants /\ Exists(charges'[e].tenant)
           /\ \A s \in toRenew' : s.tenant \in Tenants /\ Exists(s.tenant)
<1>0. charges \in [Charges -> Charge]
  BY DEF BInv, BillingTypeOK
<1>1. CASE UNCHANGED <<charges, toRenew>>
  BY <1>1 DEF ChargedHaveRows
<1>2. ASSUME NEW t \in Tenants, Endpoint(t), charges' # charges
      PROVE  /\ Exists(t) /\ toRenew' = toRenew
             /\ \E p, cycle : OpenCharge("initial", t, p, cycle, Null)
  BY <1>2 DEF Endpoint, StartTrial, UpgradePlan, SubscripeToEnterprisePlan,
     SecheduleDowngradePlan, ResubscribeSuspendedPlan, CancelSubscriptionPlan,
     RequestUpgradeToPaidPlan, CanResubscribe, Exists
<1>3. ASSUME NEW t \in Tenants, Endpoint(t) PROVE toRenew' = toRenew
  BY <1>3 DEF Endpoint, StartTrial, UpgradePlan, SubscripeToEnterprisePlan,
     SecheduleDowngradePlan, ResubscribeSuspendedPlan, CancelSubscriptionPlan
<1>4. CASE \E t \in Tenants : Endpoint(t)
  BY <1>0, <1>1, <1>2, <1>3, <1>4, OpenedHaveRows DEF ChargedHaveRows
<1>5. CASE FindDueRenewals
  BY <1>5 DEF FindDueRenewals, RenewalSnapshot, IsRenewalDue, Exists,
     ChargedHaveRows
<1>6. ASSUME NEW s \in toRenew, ChargeRenewal(s)
      PROVE  /\ toRenew' \subseteq toRenew
             /\ OpenCharge("recurring", s.tenant, s.plan, s.cycle, s.agreement)
             /\ s.tenant \in Tenants /\ Exists(s.tenant)
  BY <1>6 DEF ChargeRenewal, ChargedHaveRows
<1>7. CASE \E s \in toRenew : ChargeRenewal(s)
  BY <1>0, <1>6, <1>7, OpenedHaveRows DEF ChargedHaveRows
<1>8. CASE \E s \in toRenew : SkipRenewal(s)
  BY <1>8 DEF SkipRenewal, ChargedHaveRows
<1>9. ASSUME NEW f \in Charges, GatewayDecides(f)
      PROVE  /\ toRenew' = toRenew
             /\ \A e \in Charges :
                    /\ charges'[e].tenant = charges[e].tenant
                    /\ charges'[e].state # "none" => charges[e].state # "none"
  BY <1>0, <1>9, GatewayDecidesKeeps DEF GatewayDecides
<1>10. CASE \E f \in Charges : GatewayDecides(f)
  BY <1>9, <1>10 DEF ChargedHaveRows
<1> QED
  BY <1>1, <1>4, <1>5, <1>7, <1>8, <1>10 DEF BillingNext, TimePasses,
     BillingJob, StartBilling, DowngradeStep, FinishBilling, LifecycleStep,
     Webhook, WebhookAccepted, HandleEvent, LoseEvent, bvars

LEMMA ChargedHaveRowsInv ==
    BInv /\ ChargedHaveRows /\ [BillingNext]_bvars => ChargedHaveRows'
<1> SUFFICES ASSUME BInv, ChargedHaveRows, [BillingNext]_bvars
             PROVE  ChargedHaveRows'
  OBVIOUS
<1>1. \A t \in Tenants : Exists(t) => sub'[t].status # "none"
  BY BillingStep, RowsStay DEF BInv, Exists
<1>2. ASSUME NEW e \in Charges, charges'[e].state # "none"
      PROVE  /\ charges'[e].tenant \in Tenants
             /\ sub'[charges'[e].tenant].status # "none"
  BY <1>1, <1>2, ChargedHadRows
<1>3. ASSUME NEW s \in toRenew'
      PROVE  s.tenant \in Tenants /\ sub'[s.tenant].status # "none"
  BY <1>1, <1>3, ChargedHadRows
<1> QED
  BY <1>2, <1>3 DEF ChargedHaveRows, Exists

(* What the handler looks for before it writes, in the words of ReportHandled. *)
ReportApplies(t, e) ==
    \/ charges[e].state = "captured" /\ Exists(t) /\ ~IsRecorded(e)
    \/ /\ charges[e].state = "declined" /\ Exists(t) /\ ~IsRecorded(e)
       /\ sub[t].retryCount < MaxRetries
    \/ IsRecorded(e)
    \/ charges[e].state = "declined" /\ sub[t].retryCount >= MaxRetries

ReportsApply ==
    \A e \in Charges :
        webhook[e] = "accepted"
        => /\ charges[e].tenant \in Tenants
           /\ ReportApplies(charges[e].tenant, e)

(* A report that was accepted always finds the row of its tenant and one      *)
(* branch of the handler to end in, whatever happened since the charge was    *)
(* made: the guards of ReportsCanBeHandled, for any number of charges.        *)
THEOREM ReportsFindTheirRow == BillingSpec => []ReportsApply
<1>1. BillingInit => ChargedHaveRows
  BY DEF BillingInit, ChargedHaveRows, NoCharge
<1>2. BInv /\ ChargedHaveRows /\ WebhooksInOrder => ReportsApply
  <2> SUFFICES ASSUME BInv, ChargedHaveRows, WebhooksInOrder,
                      NEW e \in Charges, webhook[e] = "accepted"
               PROVE  /\ charges[e].tenant \in Tenants
                      /\ ReportApplies(charges[e].tenant, e)
    BY DEF ReportsApply
  <2>1. charges[e].state \in {"captured", "declined"}
    BY DEF WebhooksInOrder, Decided
  <2>2. charges[e].tenant \in Tenants /\ Exists(charges[e].tenant)
    BY <2>1 DEF ChargedHaveRows
  <2>3. sub[charges[e].tenant].retryCount \in Nat /\ MaxRetries \in Nat
    BY <2>2, DaysAssumption DEF BInv, IInv, TypeOK, Row
  <2> QED
    BY <2>1, <2>2, <2>3 DEF ReportApplies
<1> QED
  BY <1>1, <1>2, ChargedHaveRowsInv, AlwaysInOrder, BillingInvariant, PTL
     DEF BillingSpec

(* Every captured charge is recorded or its report lost, for any number of    *)
(* tenants and charges, provided no report gets stuck.                        *)
THEOREM CapturesGetRecorded ==
    FairBillingSpec /\ []ReportsCanBeHandled => CapturesAreRecorded
<1> DEFINE C(e) == charges[e].state = "captured"
           D(e) == IsRecorded(e) \/ webhook[e] = "lost"
           N(e) == C(e) /\ webhook[e] = "none"
           A(e) == C(e) /\ webhook[e] = "accepted"
           B == BInv /\ WebhooksInOrder
<1>1. ASSUME NEW e \in Charges
      PROVE  /\ B /\ C(e) => N(e) \/ A(e) \/ D(e)
             /\ B /\ [BillingNext]_bvars /\ N(e) => N(e)' \/ A(e)'
             /\ B /\ [BillingNext]_bvars /\ A(e) => A(e)' \/ D(e)'
             /\ B /\ [BillingNext]_bvars /\ N(e) /\ <<FirstDelivery(e)>>_bvars
                    => A(e)'
             /\ B /\ [BillingNext]_bvars /\ A(e) /\ <<EndHandling(e)>>_bvars
                    => D(e)'
             /\ CanBeReported(e) /\ N(e) => ENABLED <<FirstDelivery(e)>>_bvars
             /\ CanBeReported(e) /\ A(e) => ENABLED <<EndHandling(e)>>_bvars
  <2>0. BInv => webhook \in [Charges -> WebhookStates]
    BY DEF BInv, BillingTypeOK
  <2>1. B /\ C(e) => N(e) \/ A(e) \/ D(e)
    BY <2>0 DEF WebhooksInOrder, WebhookStates
  <2>2. B /\ [BillingNext]_bvars /\ C(e) => C(e)'
    BY ChargesMove DEF ChargesKept, Decided
  <2>3. B /\ [BillingNext]_bvars /\ N(e) => N(e)' \/ A(e)'
    BY <2>2, WebhookMoves
  <2>4. B /\ [BillingNext]_bvars /\ A(e) => A(e)' \/ D(e)'
    BY <2>2, WebhookMoves, HandledIsRecorded
  <2>5. B /\ [BillingNext]_bvars /\ N(e) /\ <<FirstDelivery(e)>>_bvars => A(e)'
    BY <2>0, <2>2 DEF FirstDelivery, WebhookAccepted
  <2>6. B /\ A(e) /\ <<EndHandling(e)>>_bvars => D(e)'
    BY <2>0, HandledIsRecorded DEF EndHandling, LoseEvent
  <2>7. /\ CanBeReported(e) /\ N(e) => ENABLED <<FirstDelivery(e)>>_bvars
        /\ CanBeReported(e) /\ A(e) => ENABLED <<EndHandling(e)>>_bvars
    BY DEF CanBeReported, Decided
  <2> QED
    BY <2>1, <2>3, <2>4, <2>5, <2>6, <2>7
<1> SUFFICES ASSUME NEW e \in Charges
             PROVE  FairBillingSpec /\ []ReportsCanBeHandled => (C(e) ~> D(e))
  BY DEF CapturesAreRecorded
<1>2. FairBillingSpec => BillingSpec /\ FairReport(e)
  BY DEF FairBillingSpec
<1>3. ReportsCanBeHandled => CanBeReported(e)
  BY DEF ReportsCanBeHandled
<1>4. FairBillingSpec => []BInv /\ []WebhooksInOrder
  BY <1>2, BillingInvariant, AlwaysInOrder
<1>5. /\ B /\ C(e) => N(e) \/ A(e) \/ D(e)
      /\ B /\ [BillingNext]_bvars /\ N(e) => N(e)' \/ A(e)'
      /\ B /\ [BillingNext]_bvars /\ A(e) => A(e)' \/ D(e)'
      /\ B /\ [BillingNext]_bvars /\ N(e) /\ <<FirstDelivery(e)>>_bvars => A(e)'
      /\ B /\ [BillingNext]_bvars /\ A(e) /\ <<EndHandling(e)>>_bvars => D(e)'
      /\ CanBeReported(e) /\ N(e) => ENABLED <<FirstDelivery(e)>>_bvars
      /\ CanBeReported(e) /\ A(e) => ENABLED <<EndHandling(e)>>_bvars
  BY <1>1
<1> HIDE DEF C, D, N, A
<1> QED
  BY <1>2, <1>3, <1>4, <1>5, PTL DEF BillingSpec, FairReport, B

-----------------------------------------------------------------------------
(* What follows for the whole system from the two modules together. *)

Decision(t, states) ==
    \E e \in Charges : charges[e].tenant = t /\ charges[e].state \in states

TapBearsOut ==
    \A t \in Tenants :
        /\ sub[t].status \in {"past_due", "suspended", "expired"}
               => Decision(t, {"declined"})
        /\ sub[t].lastBillingAt # Null \/ sub[t].tapPaymentAgreementId # Null
               => Decision(t, {"captured"})
        /\ sub[t].status \notin {"none", "trialing"}
               => Decision(t, {"captured", "declined"})

LEMMA ReportsWereDecided ==
    ASSUME BInv, NEW t, NEW statuses, Reports(t, statuses) # {}
    PROVE  \E e \in Charges, s \in statuses :
               /\ charges[e].tenant = t
               /\ charges[e].state = IF s = "succeeded" THEN "captured" ELSE "declined"
<1>1. PICK p \in payments : p.tenant = t /\ p.status \in statuses
  BY DEF Reports
<1>2. p.event \in Charges
  BY DEF BInv, IInv, TypeOK, Payment
<1>3. /\ charges[p.event].tenant = p.tenant
      /\ charges[p.event].state =
             IF p.status = "succeeded" THEN "captured" ELSE "declined"
  BY DEF BInv, LedgerAgreesWithTap
<1> QED
  BY <1>1, <1>2, <1>3

(* Access is withdrawn only from a tenant of whom Tap itself declined a       *)
(* charge; a billing date or a saved card goes back to a charge that Tap      *)
(* captured, and the end of a trial to one that Tap decided: evidence in the  *)
(* ledger (Subscriptions) and the truth of the ledger (Billing) combined.     *)
THEOREM RowsAreBorneOutByTap == BillingSpec => []TapBearsOut
<1>1. BInv /\ StateHasEvidence => TapBearsOut
  <2> SUFFICES ASSUME BInv, StateHasEvidence, NEW t \in Tenants
               PROVE  /\ sub[t].status \in {"past_due", "suspended", "expired"}
                             => Decision(t, {"declined"})
                      /\ sub[t].lastBillingAt # Null
                             \/ sub[t].tapPaymentAgreementId # Null
                             => Decision(t, {"captured"})
                      /\ sub[t].status \notin {"none", "trialing"}
                             => Decision(t, {"captured", "declined"})
    BY DEF TapBearsOut
  <2>1. Evidence(sub[t], t)
    BY DEF StateHasEvidence
  <2>2. Reports(t, {"failed"}) # {} => Decision(t, {"declined"})
    BY ReportsWereDecided DEF Decision
  <2>3. Reports(t, {"succeeded"}) # {} => Decision(t, {"captured"})
    BY ReportsWereDecided DEF Decision
  <2>4. Reports(t, {"succeeded", "failed"}) # {}
            => Decision(t, {"captured", "declined"})
    BY ReportsWereDecided DEF Decision
  <2> QED
    BY <2>1, <2>2, <2>3, <2>4 DEF Evidence
<1>2. BillingSpec => Spec
  BY BillingImplementsSubscriptions DEF ImplementsSubscriptions
<1> QED
  BY <1>1, <1>2, BillingInvariant, RowsHaveEvidence, PTL

-----------------------------------------------------------------------------
(* What is had without a payment, and how. *)

LEMMA WritesKeepPlan ==
    ASSUME NEW r \in Row, NEW p, NEW e, NEW d
    PROVE  /\ PendingRow(r, p, e, d).planId = r.planId
           /\ CancelRequestedRow(r, d).planId = r.planId
           /\ PastDueRow(r, d).planId = r.planId
           /\ SuspendedRow(r, d).planId = r.planId
           /\ ExpiredRow(r, d).planId = r.planId
           /\ CancelledRow(r, d).planId = r.planId
BY DEF PendingRow, CancelRequestedRow, PastDueRow, SuspendedRow, ExpiredRow,
       CancelledRow, Row

LEMMA RequestsKeepPlans ==
    ASSUME IInv, NEW u \in Tenants, TenantRequest(u), NEW t \in Tenants, Exists(t)
    PROVE  sub'[t].planId = sub[t].planId
<1>0. sub \in [Tenants -> Row] /\ sub[t] \in Row
  BY DEF IInv, TypeOK
<1>1. CASE StartTrialForNewUser(u)
  BY <1>0, <1>1 DEF StartTrialForNewUser
<1>2. CASE \E p \in Plans, cycle \in Cycles : RequestUpgradeToPaidPlan(u, p, cycle)
  BY <1>0, <1>2, WritesKeepPlan DEF RequestUpgradeToPaidPlan
<1>3. CASE \E p \in Plans : ScheduleDowngrade(u, p)
  BY <1>0, <1>3, WritesKeepPlan DEF ScheduleDowngrade
<1>4. CASE CancelSubscription(u)
  BY <1>0, <1>4, WritesKeepPlan DEF CancelSubscription
<1> QED
  BY <1>1, <1>2, <1>3, <1>4 DEF TenantRequest

LEMMA StagesKeepPlans ==
    ASSUME IInv, LifecycleJob, NEW t \in Tenants
    PROVE  sub'[t].planId = sub[t].planId
<1>0. sub \in [Tenants -> Row] /\ sub[t] \in Row
  BY DEF IInv, TypeOK
<1>1. CASE FindExpiredTrials \/ FindExpiredSubscriptions \/ RecordEvents
  BY <1>1 DEF FindExpiredTrials, FindExpiredSubscriptions, RecordEvents, rows
<1>2. CASE MovePastDueSubscriptions
  BY <1>0, <1>2, WritesKeepPlan DEF MovePastDueSubscriptions
<1>3. CASE MoveSuspendedSubscriptions
  BY <1>0, <1>3, WritesKeepPlan DEF MoveSuspendedSubscriptions
<1>4. ASSUME NEW u \in Tenants, ExpireSubscription(u)
      PROVE  sub'[t].planId = sub[t].planId
  BY <1>0, <1>4, WritesKeepPlan DEF ExpireSubscription
<1>5. CASE MoveCancelledSubscriptions
  BY <1>0, <1>5, WritesKeepPlan DEF MoveCancelledSubscriptions
<1> QED
  BY <1>1, <1>2, <1>3, <1>4, <1>5 DEF LifecycleJob

(* The only step without a report that changes the plan of a tenant. *)
LEMMA OnlyDowngradesChangePlans ==
    ASSUME BInv, [BillingNext]_bvars, \A e \in Charges : ~HandleEvent(e),
           NEW t \in Tenants, Exists(t), sub'[t].planId # sub[t].planId
    PROVE  /\ billingStage = "downgrades"
           /\ t \in due \ due'
           /\ sub'[t].planId = sub[t].pendingPlanId
<1>0. IInv /\ sub \in [Tenants -> Row] /\ sub[t] \in Row
  BY DEF BInv, IInv, TypeOK
<1>1. CASE DowngradeStep
  <2>1. PICK u \in Tenants : ApplyScheduledDowngrade(u)
    BY <1>1 DEF DowngradeStep, SkipDowngrade, rows
  <2>2. u = t /\ sub'[t] = DowngradedRow(sub[t], now)
    BY <1>0, <2>1 DEF ApplyScheduledDowngrade
  <2>3. sub'[t].planId = sub[t].pendingPlanId
    BY <1>0, <2>2 DEF DowngradedRow, Row
  <2> QED
    BY <1>1, <2>1, <2>2, <2>3 DEF DowngradeStep, ApplyScheduledDowngrade
<1>2. CASE LifecycleStep
  BY <1>0, <1>2, StagesKeepPlans DEF LifecycleStep, AbortLifecycleRules, rows
<1>3. ASSUME NEW u \in Tenants, Endpoint(u) PROVE FALSE
  <2>1. TenantRequest(u) \/ UNCHANGED vars
    BY <1>3 DEF Endpoint, StartTrial, UpgradePlan, SubscripeToEnterprisePlan,
       SecheduleDowngradePlan, ResubscribeSuspendedPlan, CancelSubscriptionPlan,
       TenantRequest
  <2> QED
    BY <1>0, <2>1, RequestsKeepPlans DEF vars
<1>4. CASE \/ TimePasses \/ UNCHANGED bvars \/ StartBilling \/ FindDueRenewals
           \/ FinishBilling \/ (\E s \in toRenew : ChargeRenewal(s) \/ SkipRenewal(s))
           \/ \E e \in Charges : GatewayDecides(e) \/ WebhookAccepted(e) \/ LoseEvent(e)
  BY <1>4 DEF TimePasses, Tick, StartBilling, FindDueDowngrades, FindDueRenewals,
     FinishBilling, ChargeRenewal, SkipRenewal, GatewayDecides, WebhookAccepted,
     LoseEvent, bvars, vars, rows
<1> QED
  BY <1>1, <1>2, <1>3, <1>4 DEF BillingNext, BillingJob, Webhook

LEMMA UnhandledStepUnpaid ==
    ASSUME BInv, [BillingNext]_bvars, \A e \in Charges : ~HandleEvent(e),
           NEW t \in Tenants, Exists(t)
    PROVE  /\ MonthlyPrice[sub'[t].planId] > MonthlyPrice[sub[t].planId]
                  => /\ billingStage = "downgrades"
                     /\ t \in due \ due'
                     /\ sub'[t].planId = sub[t].pendingPlanId
           /\ sub'[t].status = "active" => sub[t].status = "active"
<1>1. UnreportedStep
  BY StepImplements DEF BInv, UnreportedStep, bvars
<1>2. payments' = payments
  BY <1>1, UnreportedKeepsLedger DEF BInv, IInv, TypeOK, SubType
<1>3. Quiet(sub[t], sub'[t])
  BY <1>2, BillingStep, RowKinds DEF BInv, NewPayment
<1>4. MonthlyPrice[sub[t].planId] \in Nat
  BY PlansAssumption DEF BInv, IInv, TypeOK, Row
<1>5. MonthlyPrice[sub'[t].planId] > MonthlyPrice[sub[t].planId]
          => sub'[t].planId # sub[t].planId
  BY <1>4
<1> QED
  BY <1>3, <1>5, OnlyDowngradesChangePlans DEF Quiet

LEMMA HandledStepUnpaid ==
    ASSUME BInv, NEW e \in Charges, HandleEvent(e),
           NEW t \in Tenants, ~NewPayment(t, {"succeeded"})
    PROVE  /\ sub'[t].planId = sub[t].planId
           /\ sub[t].status # "active" /\ sub'[t].status = "active"
                  => /\ webhook[e] = "accepted" /\ webhook'[e] = "handled"
                     /\ charges[e].state = "declined"
                     /\ charges[e].tenant = t
                     /\ ~IsRecorded(e)
<1>0. /\ sub \in [Tenants -> Row] /\ sub[t] \in Row
      /\ webhook \in [Charges -> WebhookStates] /\ IInv /\ ChargesHaveTenants
  BY DEF BInv, IInv, TypeOK, BillingTypeOK
<1>1. /\ webhook[e] = "accepted" /\ webhook'[e] = "handled"
      /\ ReportHandled(charges[e].tenant, e)
  BY <1>0 DEF HandleEvent
<1> DEFINE u == charges[e].tenant
<1>2. CASE UNCHANGED vars
  BY <1>2 DEF vars
<1>3. ASSUME charges[e].state = "captured", NEW a \in Agreements,
             ActivateAfterSuccessfulPayment(u, e, sub[u].billingCycle, a)
      PROVE  sub'[t] = sub[t]
  <2>1. u # t
    <3> DEFINE q == [event |-> e, tenant |-> u, status |-> "succeeded"]
    <3>1. q \in payments' /\ q.tenant = u /\ q.status = "succeeded"
      BY <1>3 DEF ActivateAfterSuccessfulPayment
    <3>2. q \notin payments
      BY <1>3 DEF ActivateAfterSuccessfulPayment, IsRecorded
    <3> HIDE DEF q
    <3> QED
      BY <3>1, <3>2 DEF NewPayment
  <2> HIDE DEF u
  <2> QED
    BY <1>0, <1>3, <2>1 DEF ActivateAfterSuccessfulPayment
<1>4. ASSUME charges[e].state = "declined", MarkPaymentFailed(u, e)
      PROVE  /\ ~IsRecorded(e)
             /\ sub'[t].planId = sub[t].planId
             /\ u # t => sub'[t] = sub[t]
  <2> HIDE DEF u
  <2>1. PaymentFailedRow(sub[t], now).planId = sub[t].planId
    BY <1>0 DEF PaymentFailedRow, Row
  <2> QED
    BY <1>0, <1>4, <2>1 DEF MarkPaymentFailed
<1> QED
  BY <1>1, <1>2, <1>3, <1>4 DEF ReportHandled

(* What a tenant gets without paying it gets from the hourly loop over the    *)
(* due downgrades (a dearer plan) or from the first report of a declined      *)
(* charge (an active subscription), and from nothing else in the system.      *)
THEOREM UnpaidHasTwoCauses == BillingSpec => UnpaidOnlyByDowngradeOrFailure
<1>1. BInv /\ [BillingNext]_bvars => [UnpaidStep]_bvars
  <2> SUFFICES ASSUME BInv, [BillingNext]_bvars, NEW t \in Tenants,
                      Exists(t), ~NewPayment(t, {"succeeded"})
               PROVE  /\ MonthlyPrice[sub'[t].planId] > MonthlyPrice[sub[t].planId]
                          => /\ billingStage = "downgrades"
                             /\ t \in due \ due'
                             /\ sub'[t].planId = sub[t].pendingPlanId
                      /\ sub[t].status # "active" /\ sub'[t].status = "active"
                          => \E e \in Charges :
                                 /\ webhook[e] = "accepted"
                                 /\ webhook'[e] = "handled"
                                 /\ charges[e].state = "declined"
                                 /\ charges[e].tenant = t
                                 /\ ~IsRecorded(e)
    BY DEF UnpaidStep
  <2>1. MonthlyPrice[sub[t].planId] \in Nat
    BY PlansAssumption DEF BInv, IInv, TypeOK, Row
  <2>2. ASSUME NEW e \in Charges, HandleEvent(e)
        PROVE  /\ ~(MonthlyPrice[sub'[t].planId] > MonthlyPrice[sub[t].planId])
               /\ sub[t].status # "active" /\ sub'[t].status = "active"
                  => /\ webhook[e] = "accepted" /\ webhook'[e] = "handled"
                     /\ charges[e].state = "declined"
                     /\ charges[e].tenant = t
                     /\ ~IsRecorded(e)
    BY <2>1, <2>2, HandledStepUnpaid
  <2>3. CASE \A e \in Charges : ~HandleEvent(e)
    BY <2>3, UnhandledStepUnpaid
  <2> QED
    BY <2>2, <2>3
<1> QED
  BY <1>1, BillingInvariant, PTL DEF BillingSpec, UnpaidOnlyByDowngradeOrFailure

(* Whoever is let in beyond a trial paid for it at Tap: AccessWasCovered with *)
(* the ledger of the composed system, which agrees with the gateway.          *)
PaidAtTap ==
    \A t \in Tenants, route \in Routes :
        CanActivate(t, route) /\ sub[t].status # "suspended"
        => \/ /\ sub[t].trialEndsAt # Null /\ now <= sub[t].trialEndsAt
              /\ sub[t].lastBillingAt = Null
           \/ /\ now <= sub[t].lastBillingAt + MonthDays
              /\ Decision(t, {"captured"})

(* No route but those a suspended tenant may read lets anybody in whose trial *)
(* is over and of whom Tap captured no charge, or who has used up the month   *)
(* that the latest one bought.                                                *)
THEOREM AccessIsPaidAtTap == BillingSpec => []PaidAtTap
<1>1. TapBearsOut /\ AccessIsCovered => PaidAtTap
  BY DEF TapBearsOut, AccessIsCovered, PaidAtTap, CoveredIn
<1>2. BillingSpec => Spec
  BY BillingImplementsSubscriptions DEF ImplementsSubscriptions
<1> QED
  BY <1>1, <1>2, RowsAreBorneOutByTap, AccessWasCovered, PTL

(* What the lifecycle job owes, it does in the whole billing system too, with *)
(* Tap, the webhooks and the hourly job writing the same rows.                *)
THEOREM BillingKeepsItsPromises ==
    BillingSpec /\ JobComesRound
        => /\ GraceRunsOut
           /\ FailureTakesEffect
           /\ TrialEndIsLogged
           /\ CancellationTakesEffect
           /\ SuspensionEnds
<1>1. BillingSpec => Spec
  BY BillingImplementsSubscriptions DEF ImplementsSubscriptions
<1> QED
  BY <1>1, GraceEnds, FailuresTakeEffect, TrialEndsAreLogged, CancellationsEnd,
     SuspensionsEnd
=============================================================================
