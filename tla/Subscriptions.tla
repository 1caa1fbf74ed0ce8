---------------------------- MODULE Subscriptions ----------------------------
(***************************************************************************)
(* SubscriptionsService and the two cron jobs of BillingCronService as far *)
(* as they write to the database, over the tables tenant_subscriptions     *)
(* (sub), subscription_payments (payments) and subscription_events         *)
(* (events).                                                               *)
(*                                                                         *)
(* One action is one database transaction, or one statement where the code *)
(* opens no transaction: the lifecycle stages read, update and log in      *)
(* separate statements, and anything may happen in between.                *)
(*                                                                         *)
(* The payment gateway is the environment: it may report any charge of     *)
(* Charges, for any tenant, captured or failed, in any order and again and *)
(* again.  Module Billing says which charges exist.                        *)
(*                                                                         *)
(* Of the event log only the types written outside the row's transaction   *)
(* are kept: the others are appended in the transaction that writes the    *)
(* row and are never read back.                                            *)
(***************************************************************************)
EXTENDS SubscriptionRow, FiniteSets

CONSTANTS
    Charges,      \* charge ids: providerEventId of a webhook
    MaxTime,      \* bound: last day of a behaviour
    MaxAborts     \* bound: lifecycle runs cut short by an error or a restart

ASSUME BoundsAssumption == MaxTime \in Nat /\ MaxAborts \in Nat

VARIABLES
    now,          \* the day
    sub,          \* [Tenants -> Row]
    payments,     \* recorded payments
    events,       \* <<tenant, type>> logged outside a transaction
    stage,        \* where the lifecycle job is
    found,        \* tenants its last query returned and it has not handled
    due,          \* tenants the downgrade loop still has to visit
    aborts        \* lifecycle runs cut short so far

rows == <<sub, payments>>
lifecycle == <<stage, found, events, aborts>>
vars == <<now, sub, payments, events, stage, found, due, aborts>>

Payment == [event : Charges, tenant : Tenants,
            status : {"succeeded", "failed"}]

LoggedTypes == {"trial_expired", "past_due", "suspended", "cancelled"}

Stages == {"idle", "trialEvents", "pastDue", "pastDueEvents", "suspend",
           "suspendEvents", "expire", "expiring", "cancelEvents"}

Exists(t) == sub[t].status # "none"
IsRecorded(e) == \E p \in payments : p.event = e

TypeOK ==
    /\ now \in 0..MaxTime
    /\ sub \in [Tenants -> Row]
    /\ payments \subseteq Payment
    /\ events \subseteq Tenants \X LoggedTypes
    /\ stage \in Stages
    /\ found \subseteq Tenants
    /\ due \subseteq Tenants
    /\ aborts \in 0..MaxAborts

Init ==
    /\ now = 0
    /\ sub = [t \in Tenants |-> NoRow]
    /\ payments = {}
    /\ events = {}
    /\ stage = "idle"
    /\ found = {}
    /\ due = {}
    /\ aborts = 0

-----------------------------------------------------------------------------
(* The service's transactions. *)

StartTrialForNewUser(t) ==
    /\ ~Exists(t)
    /\ sub' = [sub EXCEPT ![t] = TrialRow(now)]
    /\ UNCHANGED <<now, payments, lifecycle, due>>

(* The cycle the tenant chooses decides the amount returned and is stored     *)
(* nowhere; the status is not looked at.                                      *)
RequestUpgradeToPaidPlan(t, p, cycle) ==
    /\ Exists(t)
    /\ PlanAvailable(p, t)
    /\ MonthlyPrice[p] > 0
    /\ sub[t].planId # p
    /\ sub' = [sub EXCEPT ![t] = PendingRow(sub[t], p, now, now)]
    /\ UNCHANGED <<now, payments, lifecycle, due>>

ScheduleDowngrade(t, p) ==
    /\ Exists(t)
    /\ PlanAvailable(p, t)
    /\ MonthlyPrice[p] < MonthlyPrice[sub[t].planId]
    /\ sub' = [sub EXCEPT ![t] =
                   PendingRow(sub[t], p, sub[t].currentPeriodEnd, now)]
    /\ UNCHANGED <<now, payments, lifecycle, due>>

CancelSubscription(t) ==
    /\ sub[t].status \in {"active", "past_due"}
    /\ sub' = [sub EXCEPT ![t] = CancelRequestedRow(sub[t], now)]
    /\ events' = events \cup {<<t, "cancelled">>}
    /\ UNCHANGED <<now, payments, stage, found, due, aborts>>

(* The unique providerEventId is looked up first: a charge already recorded   *)
(* changes nothing.                                                           *)
ActivateAfterSuccessfulPayment(t, e, cycle, agreement) ==
    /\ Exists(t)
    /\ ~IsRecorded(e)
    /\ payments' = payments \cup
                       {[event |-> e, tenant |-> t, status |-> "succeeded"]}
    /\ sub' = [sub EXCEPT ![t] = ActivatedRow(sub[t], cycle, agreement, now)]
    /\ UNCHANGED <<now, lifecycle, due>>

(* Mutant: a charge already recorded is not recognised. *)
MarkFailedAgain(t, e) ==
    /\ Exists(t)
    /\ sub[t].retryCount < MaxRetries
    /\ payments' = payments \cup
                       {[event |-> e, tenant |-> t, status |-> "failed"]}
    /\ sub' = [sub EXCEPT ![t] = PaymentFailedRow(sub[t], now)]
    /\ UNCHANGED <<now, lifecycle, due>>

(* A failure beyond the retry limit is not even recorded. *)
MarkPaymentFailed(t, e) ==
    /\ Exists(t)
    /\ ~IsRecorded(e)
    /\ sub[t].retryCount < MaxRetries
    /\ payments' = payments \cup
                       {[event |-> e, tenant |-> t, status |-> "failed"]}
    /\ sub' = [sub EXCEPT ![t] = PaymentFailedRow(sub[t], now)]
    /\ UNCHANGED <<now, lifecycle, due>>

-----------------------------------------------------------------------------
(* The hourly job, first half: BillingCronService.applyScheduledDowngrades.  *)

FindDueDowngrades ==
    /\ due = {}
    /\ due' = {t \in Tenants : IsDowngradeDue(sub[t], now)}
    /\ UNCHANGED <<now, rows, lifecycle>>

(* The transaction reads the row again and asks only for a pending plan. *)
ApplyScheduledDowngrade(t) ==
    /\ t \in due
    /\ due' = due \ {t}
    /\ sub' = IF sub[t].pendingPlanId = Null
              THEN sub
              ELSE [sub EXCEPT ![t] = DowngradedRow(sub[t], now)]
    /\ UNCHANGED <<now, payments, lifecycle>>

(* An error is caught per subscription; a restart loses the rest of the loop. *)
SkipDowngrade(t) ==
    /\ t \in due
    /\ due' = due \ {t}
    /\ UNCHANGED <<now, rows, lifecycle>>

-----------------------------------------------------------------------------
(* The half-hourly job: applySubscriptionLifecycleRules, stage by stage.     *)

FindExpiredTrials ==
    /\ stage = "idle"
    /\ found' = {t \in Tenants : /\ IsTrialOver(sub[t], now)
                                 /\ <<t, "trial_expired">> \notin events}
    /\ stage' = "trialEvents"
    /\ UNCHANGED <<now, rows, events, due, aborts>>

MovePastDueSubscriptions ==
    /\ stage = "pastDue"
    /\ found' = {t \in Tenants : IsPastDue(sub[t], now)}
    /\ sub' = [t \in Tenants |-> IF IsPastDue(sub[t], now)
                                 THEN PastDueRow(sub[t], now) ELSE sub[t]]
    /\ stage' = "pastDueEvents"
    /\ UNCHANGED <<now, payments, events, due, aborts>>

MoveSuspendedSubscriptions ==
    /\ stage = "suspend"
    /\ found' = {t \in Tenants : IsToSuspend(sub[t], now)}
    /\ sub' = [t \in Tenants |-> IF IsToSuspend(sub[t], now)
                                 THEN SuspendedRow(sub[t], now) ELSE sub[t]]
    /\ stage' = "suspendEvents"
    /\ UNCHANGED <<now, payments, events, due, aborts>>

(* The 60 days are counted on the rows the query returned ... *)
FindExpiredSubscriptions ==
    /\ stage = "expire"
    /\ found' = {t \in Tenants : IsToExpire(sub[t], now)}
    /\ stage' = "expiring"
    /\ UNCHANGED <<now, rows, events, due, aborts>>

(* ... and the update of each does not look at the row again. *)
ExpireSubscription(t) ==
    /\ stage = "expiring"
    /\ t \in found
    /\ found' = found \ {t}
    /\ sub' = [sub EXCEPT ![t] = ExpiredRow(sub[t], now)]
    /\ UNCHANGED <<now, payments, events, stage, due, aborts>>

(* Mutant: the stage does not wait for the updates of the loop before it. *)
MoveCancelledSubscriptionsEarly ==
    /\ stage = "expiring"
    /\ found' = {t \in Tenants : IsToCancel(sub[t], now)}
    /\ sub' = [t \in Tenants |-> IF IsToCancel(sub[t], now)
                                 THEN CancelledRow(sub[t], now) ELSE sub[t]]
    /\ stage' = "cancelEvents"
    /\ UNCHANGED <<now, payments, events, due, aborts>>

MoveCancelledSubscriptions ==
    /\ stage = "expiring"
    /\ found = {}
    /\ found' = {t \in Tenants : IsToCancel(sub[t], now)}
    /\ sub' = [t \in Tenants |-> IF IsToCancel(sub[t], now)
                                 THEN CancelledRow(sub[t], now) ELSE sub[t]]
    /\ stage' = "cancelEvents"
    /\ UNCHANGED <<now, payments, events, due, aborts>>

(* Mutant: the trials are logged under the type of another stage. *)
LogStepMistyped ==
    [trialEvents   |-> [type |-> "past_due",  next |-> "pastDue"],
     pastDueEvents |-> [type |-> "past_due",  next |-> "suspend"],
     suspendEvents |-> [type |-> "suspended", next |-> "expire"],
     cancelEvents  |-> [type |-> "cancelled", next |-> "idle"]]

(* The createMany that ends a stage: what it logs, and the stage after it. *)
LogStep == [trialEvents   |-> [type |-> "trial_expired", next |-> "pastDue"],
            pastDueEvents |-> [type |-> "past_due",      next |-> "suspend"],
            suspendEvents |-> [type |-> "suspended",     next |-> "expire"],
            cancelEvents  |-> [type |-> "cancelled",     next |-> "idle"]]

RecordEvents ==
    /\ stage \in DOMAIN LogStep
    /\ events' = events \cup (found \X {LogStep[stage].type})
    /\ found' = {}
    /\ stage' = LogStep[stage].next
    /\ UNCHANGED <<now, rows, due, aborts>>

(* A failing statement ends the run in the catch of the job; so does a restart. *)
AbortLifecycleRules ==
    /\ stage # "idle"
    /\ aborts < MaxAborts
    /\ aborts' = aborts + 1
    /\ stage' = "idle"
    /\ found' = {}
    /\ UNCHANGED <<now, rows, events, due>>

-----------------------------------------------------------------------------

Tick == now < MaxTime /\ now' = now + 1 /\ UNCHANGED <<rows, lifecycle, due>>

TenantRequest(t) ==
    \/ StartTrialForNewUser(t)
    \/ \E p \in Plans, cycle \in Cycles : RequestUpgradeToPaidPlan(t, p, cycle)
    \/ \E p \in Plans : ScheduleDowngrade(t, p)
    \/ CancelSubscription(t)

(* handleEvent passes the cycle stored in the row. *)
PaymentReport(t) ==
    \E e \in Charges :
        \/ \E a \in Agreements :
               ActivateAfterSuccessfulPayment(t, e, sub[t].billingCycle, a)
        \/ MarkPaymentFailed(t, e)

DowngradeJob ==
    \/ FindDueDowngrades
    \/ \E t \in Tenants : ApplyScheduledDowngrade(t) \/ SkipDowngrade(t)

LifecycleJob ==
    \/ FindExpiredTrials
    \/ MovePastDueSubscriptions
    \/ MoveSuspendedSubscriptions
    \/ FindExpiredSubscriptions
    \/ \E t \in Tenants : ExpireSubscription(t)
    \/ MoveCancelledSubscriptions
    \/ RecordEvents

Next ==
    \/ Tick
    \/ \E t \in Tenants : TenantRequest(t) \/ PaymentReport(t)
    \/ DowngradeJob
    \/ LifecycleJob
    \/ AbortLifecycleRules

Spec == Init /\ [][Next]_vars

(* The scheduler runs the lifecycle job for ever; it owes nothing to tenants, *)
(* to the gateway or to the clock.                                            *)
FairSpec == Spec /\ WF_vars(LifecycleJob)

-----------------------------------------------------------------------------
(* Safety.  Each is a statement about one row at one date, so that module     *)
(* SubscriptionsProofs can prove it row by row.                               *)

FailuresAccountedIn(r) ==
    /\ r.retryCount <= MaxRetries
    /\ r.retryCount = 0 <=> r.pastDueAt = Null

(* The retry counter stays within its limit and is positive exactly while a   *)
(* failed payment is outstanding: every path that clears one clears the other *)
(* (markPaymentFailed, activateAfterSuccessfulPayment).                       *)
FailuresAccounted == \A t \in Tenants : FailuresAccountedIn(sub[t])

GraceHonouredIn(r, d) ==
    /\ r.status = "past_due" =>
           /\ r.pastDueAt # Null
           /\ r.pastDueAt + PastDueDays <= d
    /\ r.status = "suspended" =>
           /\ r.pastDueAt # Null
           /\ r.suspendedAt # Null
           /\ r.pastDueAt + SuspendDays <= r.suspendedAt

(* Nobody is moved to past_due within 3 days, or suspended within 7, of the   *)
(* latest failed payment, although the first of the two looks at updatedAt    *)
(* (movePastDueSubscriptions, moveSuspendedSubscriptions).                    *)
GraceHonoured == \A t \in Tenants : GraceHonouredIn(sub[t], now)

CancelledIsClosedIn(r) ==
    r.status = "cancelled" =>
        /\ r.cancelAtPeriodEnd
        /\ r.cancelledAt # Null
        /\ r.currentPeriodEnd <= r.cancelledAt
        /\ r.nextBillingAt = Null

(* A cancelled subscription was asked to end, kept its paid period to the end *)
(* and is never billed again (cancelSubscription, moveCancelledSubscriptions).*)
CancelledIsClosed == \A t \in Tenants : CancelledIsClosedIn(sub[t])

SnapshotsFollowPlanIn(r) ==
    /\ r.quotaSnapshot = r.planId
    /\ r.priceSnapshot = SubscriptionPriceAmount(r.planId, r.billingCycle)

(* Whatever way the plan changes (first payment, upgrade, scheduled           *)
(* downgrade), price and quota snapshots are those of the plan and cycle in   *)
(* force.                                                                     *)
SnapshotsFollowPlan == \A t \in Tenants : SnapshotsFollowPlanIn(sub[t])

PaidPeriodIsOneMonthIn(r) ==
    /\ r.billingCycle = "monthly"
    /\ r.nextBillingAt \in {Null, r.currentPeriodEnd}
    /\ r.lastBillingAt # Null =>
           /\ r.currentPeriodStart = r.lastBillingAt
           /\ r.currentPeriodEnd = r.lastBillingAt + MonthDays

(* A payment always buys one month, counted from the day it is reported: no   *)
(* path stores the yearly cycle a tenant may ask for (handleEvent hands back  *)
(* the stored one), so no row is ever yearly.                                 *)
PaidPeriodIsOneMonth == \A t \in Tenants : PaidPeriodIsOneMonthIn(sub[t])

PendingIsWholeIn(r, t) ==
    /\ r.pendingPlanId = Null <=> r.pendingPlanEffectiveAt = Null
    /\ Owner[r.planId] \in {Null, t}
    /\ r.pendingPlanId # Null => Owner[r.pendingPlanId] \in {Null, t}

(* A tenant is never on, nor waiting for, the enterprise plan of another, and *)
(* a waiting plan always has its date (requestUpgradeToPaidPlan,              *)
(* scheduleDowngrade: the later steps do not check the owner again).          *)
OnlyOwnPlans == \A t \in Tenants : PendingIsWholeIn(sub[t], t)

(* A trial is left unexpired in the log until its end: trial_expired is never *)
(* logged early, and a row still in trial has never been billed, failed or    *)
(* cancelled (processTrialExpirations).                                       *)
TrialIsUntouched ==
    \A t \in Tenants :
        /\ <<t, "trial_expired">> \in events => sub[t].trialEndsAt <= now
        /\ sub[t].status = "trialing" =>
               /\ sub[t].lastBillingAt = Null
               /\ sub[t].retryCount = 0
               /\ ~sub[t].cancelAtPeriodEnd

Reports(t, statuses) == {p \in payments : p.tenant = t /\ p.status \in statuses}

Evidence(r, t) ==
    /\ r.retryCount <= Cardinality(Reports(t, {"failed"}))
    /\ r.status \in {"past_due", "suspended", "expired"}
           => Reports(t, {"failed"}) # {}
    /\ r.lastBillingAt # Null \/ r.tapPaymentAgreementId # Null
           => Reports(t, {"succeeded"}) # {}
    /\ r.status \notin {"none", "trialing"}
           => Reports(t, {"succeeded", "failed"}) # {}

(* The table of payments bears out what a row claims, whatever the jobs did   *)
(* to the row since: a failure is not counted twice, whoever is past_due,     *)
(* suspended or expired has a failed charge on record - paid for since, it    *)
(* may be: the expiry does not look - a saved card or billing date goes back  *)
(* to a captured one, and a trial is left only by a report (markPaymentFailed,*)
(* activateAfterSuccessfulPayment, moveExpiredSubscriptions).                 *)
StateHasEvidence == \A t \in Tenants : Evidence(sub[t], t)

-----------------------------------------------------------------------------
(* Action properties. *)

NewPayment(t, statuses) ==
    \E p \in payments' \ payments : p.tenant = t /\ p.status \in statuses

PaidStep ==
    \A t \in Tenants :
        /\ Exists(t)
        /\ \/ sub'[t].currentPeriodEnd # sub[t].currentPeriodEnd
           \/ sub'[t].retryCount < sub[t].retryCount
        => NewPayment(t, {"succeeded"})

(* A period moves, or the failures are forgiven, only in the step that        *)
(* records a captured payment: a webhook delivered again buys nothing more    *)
(* (activateAfterSuccessfulPayment returns the existing payment).             *)
PeriodMovesOnlyWithPayment == [][PaidStep]_vars

ReportedStep ==
    \A t \in Tenants :
        sub[t].status # "active" /\ sub'[t].status = "active"
        => NewPayment(t, {"succeeded", "failed"})

(* A subscription becomes active again only in the step that records a new    *)
(* report of the gateway: a repeated report reopens nothing, and neither does *)
(* any job or request.                                                        *)
ReopensOnlyByNewReport == [][ReportedStep]_vars

ReportsKept ==
    \A p \in payments : p \in payments'
        /\ \A q \in payments' : q.event = p.event => q = p

(* What is recorded of a charge is never changed nor contradicted: the first  *)
(* report processed decides (unique providerEventId).                         *)
ReportsAreFinal == [][ReportsKept]_vars

CancellationStep ==
    \A t \in Tenants :
        Exists(t) /\ sub[t].cancelAtPeriodEnd /\ ~sub'[t].cancelAtPeriodEnd
        => NewPayment(t, {"succeeded"})

(* A requested cancellation is not withdrawn by a request, a job or a failed  *)
(* charge; but every captured charge withdraws it, the renewal included that  *)
(* was under way when it was requested (activateAfterSuccessfulPayment).      *)
CancellationRevokedOnlyByPayment == [][CancellationStep]_vars

PlanStep ==
    \A t \in Tenants :
        Exists(t) /\ sub'[t].planId # sub[t].planId
        => /\ sub'[t].planId = sub[t].pendingPlanId
           /\ sub'[t].pendingPlanId = Null

(* A plan comes into force only by having been the pending one, and is then   *)
(* no longer pending: which plan a captured charge was made for is not looked *)
(* at (activateAfterSuccessfulPayment, applyScheduledDowngrade).              *)
PlanChangesOnlyToPending == [][PlanStep]_vars

Ledger == INSTANCE PaymentLedger WITH
    Limit <- MaxRetries,
    open <- {t \in Tenants : Exists(t)},
    failures <- [t \in Tenants |-> sub[t].retryCount],
    paidUntil <- [t \in Tenants |-> sub[t].currentPeriodEnd]

(* Whatever requests, jobs and reports do to the rows, the recorded payments, *)
(* the failure counters and the ends of period behave as PaymentLedger says:  *)
(* each charge counts once, and a failed one by exactly one.                  *)
ImplementsLedger == Ledger!Spec

-----------------------------------------------------------------------------
(* Liveness, under FairSpec. *)

(* What the half-hourly scheduler is taken to give: the lifecycle job takes a *)
(* step again and again, its loop over the expired subscriptions ends, and in *)
(* the end no run is cut short any more.  FairSpec gives the first two, a     *)
(* loop over finitely many rows included; the last is the bound MaxAborts of  *)
(* the model, for which the code has no counterpart.  The proofs of the five  *)
(* properties below, for any number of tenants, assume nothing else.          *)
JobComesRound ==
    /\ []<><<LifecycleJob>>_vars
    /\ []<>(stage # "expiring")
    /\ <>[][~AbortLifecycleRules]_vars

(* Grace runs out: a past_due subscription that is still unpaid when its      *)
(* seven days are over does not stay past_due.                                *)
GraceRunsOut ==
    \A t \in Tenants :
        (sub[t].status = "past_due" /\ sub[t].pastDueAt + SuspendDays <= now)
            ~> (sub[t].status # "past_due")

(* The end of every trial that was not converted is logged, whatever runs of  *)
(* the job are cut short.                                                     *)
TrialEndIsLogged ==
    \A t \in Tenants :
        IsTrialOver(sub[t], now)
            ~> (<<t, "trial_expired">> \in events \/ sub[t].status # "trialing")

(* A requested cancellation does not leave the subscription in use beyond the *)
(* period it was asked for.                                                   *)
CancellationTakesEffect ==
    \A t \in Tenants :
        IsToCancel(sub[t], now) ~> ~IsToCancel(sub[t], now)

(* A failed payment has its consequence: a subscription whose failure, and    *)
(* last change, are three days old does not stay active; a tenant who asks    *)
(* for something every other day puts it off (movePastDueSubscriptions).      *)
FailureTakesEffect ==
    \A t \in Tenants :
        IsPastDue(sub[t], now) ~> ~IsPastDue(sub[t], now)

(* A suspension ends: who has not paid within its sixty days is expired, or   *)
(* pays meanwhile, although the loop of the expiry works on rows read before  *)
(* it and a run that is cut short forgets them (moveExpiredSubscriptions).    *)
SuspensionEnds ==
    \A t \in Tenants :
        IsToExpire(sub[t], now) ~> ~IsToExpire(sub[t], now)
=============================================================================
