------------------------------- MODULE Billing -------------------------------
(***************************************************************************)
(* Subscriptions composed with what creates and reports charges: the       *)
(* endpoints of BillingService, the hourly job of BillingCronService, the  *)
(* webhook, and the Tap gateway, which is external and modelled from how   *)
(* the code uses it: a charge stays open until Tap captures or declines    *)
(* it, and its webhook may arrive late, several times and in any order     *)
(* with those of other charges.                                            *)
(*                                                                         *)
(* A charge carries the plan named in its description, the cycle its       *)
(* amount was computed with and the tenant of its metadata: neither plan   *)
(* nor cycle comes back with the webhook.                                  *)
(*                                                                         *)
(* An endpoint commits its transaction and then creates the charge.  The   *)
(* amount is fixed by the transaction and the database is not touched any  *)
(* more, so the two are one action, in which Tap may refuse the charge.    *)
(***************************************************************************)
EXTENDS Subscriptions

CONSTANT Losable    \* bound: charges whose webhook may be lost by its handler

ASSUME LosableAssumption == Losable \subseteq Charges

VARIABLES
    charges,        \* [Charges -> Charge]: what Tap knows
    webhook,        \* [Charges -> WebhookStates]: what became of its webhook
    billingStage,   \* where the hourly job is
    toRenew         \* rows its renewal query returned and it has not handled

bvars == <<vars, charges, webhook, billingStage, toRenew>>

Charge == [state : {"none", "open", "captured", "declined"},
           kind : {"initial", "recurring"},
           tenant : Tenants \cup {Null},
           plan : Plans \cup {Null},
           cycle : Cycles,
           agreement : Agreements \cup {Null}]

NoCharge == [state |-> "none", kind |-> "initial", tenant |-> Null,
             plan |-> Null, cycle |-> "monthly", agreement |-> Null]

(* "accepted": answered with 200 and being handled, in memory alone; "lost":  *)
(* the handler failed or the process stopped, which Tap is not told.          *)
WebhookStates == {"none", "accepted", "handled", "lost"}

(* What the renewal loop uses of a row, as it was when the query read it. *)
RenewalSnapshot(t) ==
    [tenant |-> t, plan |-> sub[t].planId, cycle |-> sub[t].billingCycle,
     agreement |-> sub[t].tapPaymentAgreementId]

Renewal == [tenant : Tenants, plan : Plans, cycle : Cycles,
            agreement : Agreements \cup {Null}]

BillingTypeOK ==
    /\ charges \in [Charges -> Charge]
    /\ webhook \in [Charges -> WebhookStates]
    /\ billingStage \in {"idle", "downgrades", "renewals"}
    /\ toRenew \subseteq Renewal

BillingInit ==
    /\ Init
    /\ charges = [e \in Charges |-> NoCharge]
    /\ webhook = [e \in Charges |-> "none"]
    /\ billingStage = "idle"
    /\ toRenew = {}

-----------------------------------------------------------------------------
(* Tap. *)

OpenCharge(kind, t, p, cycle, agreement) ==
    \E e \in Charges :
        /\ charges[e].state = "none"
        /\ charges' = [charges EXCEPT ![e] =
               [state |-> "open", kind |-> kind, tenant |-> t, plan |-> p,
                cycle |-> cycle, agreement |-> agreement]]

GatewayDecides(e) ==
    /\ charges[e].state = "open"
    /\ \E outcome \in {"captured", "declined"} :
           charges' = [charges EXCEPT ![e].state = outcome]
    /\ UNCHANGED <<vars, webhook, billingStage, toRenew>>

-----------------------------------------------------------------------------
(* The endpoints. *)

UpgradePlan(t, p, cycle) ==
    /\ RequestUpgradeToPaidPlan(t, p, cycle)
    /\ OpenCharge("initial", t, p, cycle, Null) \/ UNCHANGED charges
    /\ UNCHANGED <<webhook, billingStage, toRenew>>

SubscripeToEnterprisePlan(t, p, cycle) == Owner[p] = t /\ UpgradePlan(t, p, cycle)

SecheduleDowngradePlan(t, p) ==
    /\ ScheduleDowngrade(t, p)
    /\ UNCHANGED <<charges, webhook, billingStage, toRenew>>

(* Nothing is written until the webhook comes. *)
ResubscribeSuspendedPlan(t, cycle) ==
    /\ CanResubscribe(sub[t], now)
    /\ OpenCharge("initial", t, sub[t].planId, cycle, Null)
    /\ UNCHANGED <<vars, webhook, billingStage, toRenew>>

CancelSubscriptionPlan(t) ==
    /\ CancelSubscription(t)
    /\ UNCHANGED <<charges, webhook, billingStage, toRenew>>

StartTrial(t) ==
    /\ StartTrialForNewUser(t)
    /\ UNCHANGED <<charges, webhook, billingStage, toRenew>>

-----------------------------------------------------------------------------
(* The webhook. *)

Decided(e) == charges[e].state \in {"captured", "declined"}

(* handleWebhook starts handleEvent, does not wait for it and answers 200.    *)
WebhookAccepted(e) ==
    /\ Decided(e)
    /\ webhook[e] # "accepted"
    /\ webhook' = [webhook EXCEPT ![e] = "accepted"]
    /\ UNCHANGED <<vars, charges, billingStage, toRenew>>

(* Mutant: the retry limit stops captured payments too. *)
ReportLimited(t, e) ==
    \/ /\ charges[e].state = "captured"
       /\ sub[t].retryCount < MaxRetries
       /\ \E a \in Agreements :
              ActivateAfterSuccessfulPayment(t, e, sub[t].billingCycle, a)
    \/ charges[e].state = "declined" /\ MarkPaymentFailed(t, e)
    \/ (IsRecorded(e) \/ sub[t].retryCount >= MaxRetries) /\ UNCHANGED vars

(* Mutant: the cycle is the one the charge was made for. *)
ReportByCharge(t, e) ==
    \/ /\ charges[e].state = "captured"
       /\ \E a \in Agreements :
              ActivateAfterSuccessfulPayment(t, e, charges[e].cycle, a)
    \/ charges[e].state = "declined" /\ MarkPaymentFailed(t, e)
    \/ IsRecorded(e) /\ UNCHANGED vars

(* Mutant: the status of the charge is not looked at. *)
ReportUnchecked(t, e) ==
    \/ \E a \in Agreements :
           ActivateAfterSuccessfulPayment(t, e, sub[t].billingCycle, a)
    \/ IsRecorded(e) /\ UNCHANGED vars

(* Mutant: a failure beyond the retry limit is not turned away.               *)
ReportUnlimited(t, e) ==
    \/ /\ charges[e].state = "captured"
       /\ \E a \in Agreements :
              ActivateAfterSuccessfulPayment(t, e, sub[t].billingCycle, a)
    \/ charges[e].state = "declined" /\ MarkPaymentFailed(t, e)
    \/ IsRecorded(e) /\ UNCHANGED vars

(* The cycle comes from the row, the agreement from the event.  A repeated    *)
(* report, and a failure beyond the retry limit, changes nothing.             *)
ReportHandled(t, e) ==
    \/ /\ charges[e].state = "captured"
       /\ \E a \in Agreements :
              ActivateAfterSuccessfulPayment(t, e, sub[t].billingCycle, a)
    \/ charges[e].state = "declined" /\ MarkPaymentFailed(t, e)
    \/ /\ \/ IsRecorded(e)
          \/ charges[e].state = "declined" /\ sub[t].retryCount >= MaxRetries
       /\ UNCHANGED vars

(* The tenant is the one in the metadata of the charge. *)
HandleEvent(e) ==
    /\ webhook[e] = "accepted"
    /\ webhook' = [webhook EXCEPT ![e] = "handled"]
    /\ ReportHandled(charges[e].tenant, e)
    /\ UNCHANGED <<charges, billingStage, toRenew>>

(* handleEvent catches and logs whatever goes wrong. *)
LoseEvent(e) ==
    /\ e \in Losable
    /\ webhook[e] = "accepted"
    /\ webhook' = [webhook EXCEPT ![e] = "lost"]
    /\ UNCHANGED <<vars, charges, billingStage, toRenew>>

-----------------------------------------------------------------------------
(* The hourly job: downgrades, then renewals.  Each loop works on the rows    *)
(* its query returned, whatever has happened to them since.                   *)

StartBilling ==
    /\ billingStage = "idle"
    /\ billingStage' = "downgrades"
    /\ FindDueDowngrades
    /\ UNCHANGED <<charges, webhook, toRenew>>

DowngradeStep ==
    /\ billingStage = "downgrades"
    /\ \E t \in Tenants : ApplyScheduledDowngrade(t) \/ SkipDowngrade(t)
    /\ UNCHANGED <<charges, webhook, billingStage, toRenew>>

FindDueRenewals ==
    /\ billingStage = "downgrades"
    /\ due = {}
    /\ toRenew' = {RenewalSnapshot(t) :
                       t \in {u \in Tenants : IsRenewalDue(sub[u], now)}}
    /\ billingStage' = "renewals"
    /\ UNCHANGED <<vars, charges, webhook>>

(* Mutant: the saved Tap fields are not required. *)
ChargeAnyRenewal(s) ==
    /\ s \in toRenew
    /\ toRenew' = toRenew \ {s}
    /\ OpenCharge("recurring", s.tenant, s.plan, s.cycle, s.agreement)
    /\ UNCHANGED <<vars, webhook, billingStage>>

ChargeRenewal(s) ==
    /\ s \in toRenew
    /\ s.agreement # Null
    /\ toRenew' = toRenew \ {s}
    /\ OpenCharge("recurring", s.tenant, s.plan, s.cycle, s.agreement)
    /\ UNCHANGED <<vars, webhook, billingStage>>

(* No saved card, or an error from Tap, caught for this row alone. *)
SkipRenewal(s) ==
    /\ s \in toRenew
    /\ toRenew' = toRenew \ {s}
    /\ UNCHANGED <<vars, charges, webhook, billingStage>>

FinishBilling ==
    /\ billingStage = "renewals"
    /\ toRenew = {}
    /\ billingStage' = "idle"
    /\ UNCHANGED <<vars, charges, webhook, toRenew>>

-----------------------------------------------------------------------------

Endpoint(t) ==
    \/ StartTrial(t)
    \/ \E p \in Plans, cycle \in Cycles :
           UpgradePlan(t, p, cycle) \/ SubscripeToEnterprisePlan(t, p, cycle)
    \/ \E p \in Plans : SecheduleDowngradePlan(t, p)
    \/ \E cycle \in Cycles : ResubscribeSuspendedPlan(t, cycle)
    \/ CancelSubscriptionPlan(t)

BillingJob ==
    \/ StartBilling
    \/ DowngradeStep
    \/ FindDueRenewals
    \/ \E s \in toRenew : ChargeRenewal(s) \/ SkipRenewal(s)
    \/ FinishBilling

LifecycleStep ==
    /\ LifecycleJob \/ AbortLifecycleRules
    /\ UNCHANGED <<charges, webhook, billingStage, toRenew>>

TimePasses == Tick /\ UNCHANGED <<charges, webhook, billingStage, toRenew>>

Webhook(e) == WebhookAccepted(e) \/ HandleEvent(e) \/ LoseEvent(e)

BillingNext ==
    \/ TimePasses
    \/ \E t \in Tenants : Endpoint(t)
    \/ \E e \in Charges : GatewayDecides(e) \/ Webhook(e)
    \/ BillingJob
    \/ LifecycleStep

BillingSpec == BillingInit /\ [][BillingNext]_bvars

FirstDelivery(e) == webhook[e] = "none" /\ WebhookAccepted(e)
EndHandling(e) == HandleEvent(e) \/ LoseEvent(e)

(* Tap sends each webhook until it is answered once, and what was answered is *)
(* handled or lost.  Nothing obliges Tap to send it again after that, nor the *)
(* customer to pay.                                                           *)
FairReport(e) == WF_bvars(FirstDelivery(e)) /\ WF_bvars(EndHandling(e))

FairBillingSpec == BillingSpec /\ \A e \in Charges : FairReport(e)

-----------------------------------------------------------------------------
(* Properties. *)

(* Whatever Tap, the endpoints and the two jobs do together, rows, ledger and *)
(* log change only as Subscriptions allows: every theorem about Subscriptions *)
(* is a theorem about the billing system.                                     *)
ImplementsSubscriptions == Spec

(* The ledger says of a charge what Tap says of it, for the tenant that was   *)
(* charged, in spite of late, repeated and reordered webhooks (handleEvent).  *)
LedgerAgreesWithTap ==
    \A p \in payments :
        /\ charges[p.event].tenant = p.tenant
        /\ charges[p.event].state =
               IF p.status = "succeeded" THEN "captured" ELSE "declined"

(* The tenant made a payment himself that was captured and recorded. *)
PaidInPerson(t) ==
    \E p \in payments :
        /\ p.tenant = t
        /\ p.status = "succeeded"
        /\ charges[p.event].kind = "initial"

(* A card is charged without its owner present only after a charge the owner  *)
(* made was captured and recorded (processDueRenewals skips a row without     *)
(* saved Tap fields).                                                         *)
RenewalNeedsFirstPayment ==
    \A e \in Charges :
        charges[e].kind = "recurring" => PaidInPerson(charges[e].tenant)

UnpaidStep ==
    \A t \in Tenants :
        Exists(t) /\ ~NewPayment(t, {"succeeded"})
        => /\ MonthlyPrice[sub'[t].planId] > MonthlyPrice[sub[t].planId]
               => /\ billingStage = "downgrades"
                  /\ t \in due \ due'
                  /\ sub'[t].planId = sub[t].pendingPlanId
           /\ sub[t].status # "active" /\ sub'[t].status = "active"
               => \E e \in Charges :
                      /\ webhook[e] = "accepted" /\ webhook'[e] = "handled"
                      /\ charges[e].state = "declined"
                      /\ charges[e].tenant = t
                      /\ ~IsRecorded(e)

(* What a tenant gets unpaid it gets in two ways only: a dearer plan from the *)
(* hourly loop over the due downgrades, which takes an upgrade that waits for *)
(* its payment for one of them, and a subscription made active again from the *)
(* first report of a charge that Tap declined.  No endpoint, no renewal and   *)
(* no stage gives either (applyScheduledDowngrades, markPaymentFailed).       *)
UnpaidOnlyByDowngradeOrFailure == [][UnpaidStep]_bvars

CanBeReported(e) ==
    /\ Decided(e) /\ webhook[e] = "none" => ENABLED <<FirstDelivery(e)>>_bvars
    /\ webhook[e] = "accepted" => ENABLED <<EndHandling(e)>>_bvars

(* No report gets stuck: whatever became of the subscription since the charge *)
(* was opened, and whatever was recorded meanwhile, a decided charge can be   *)
(* delivered and an accepted one handled: its tenant has a row, and a report  *)
(* with nothing left to do ends without an error (handleEvent,                *)
(* activateAfterSuccessfulPayment, markPaymentFailed).                        *)
ReportsCanBeHandled == \A e \in Charges : CanBeReported(e)

(* Money taken by Tap is recorded, however many other reports come first,    *)
(* unless the handler failed after the webhook was answered (handleWebhook,   *)
(* handleEvent).                                                              *)
CapturesAreRecorded ==
    \A e \in Charges :
        charges[e].state = "captured" ~> IsRecorded(e) \/ webhook[e] = "lost"
=============================================================================
