--------------------------- MODULE SubscriptionRow ---------------------------
(***************************************************************************)
(* The row of table tenant_subscriptions and, for each method of           *)
(* SubscriptionsService that writes one, the row it writes.  A date is a   *)
(* number of days; d is the "new Date()" the method takes at its start.    *)
(*                                                                         *)
(* Left out of the row: columns no code reads back and no property needs   *)
(* (startedAt, lastGraceWarningAt, latestPaymentId, currency, the card and *)
(* customer ids, which are written together with the agreement id).        *)
(* quotaSnapshot is the plan whose four quotas were copied.                *)
(*                                                                         *)
(* A definition introduced as a mutant is a plausible mistake in the one   *)
(* that follows it; no specification uses it.                              *)
(***************************************************************************)
EXTENDS Naturals

CONSTANTS
    Tenants,          \* tenants that have verified their account
    Plans,            \* rows of table plans
    MonthlyPrice,     \* [Plans -> Nat]
    YearlyPrice,      \* [Plans -> Nat]
    Owner,            \* tenant of an enterprise_custom plan, Null for a standard one
    ActivePlans,      \* plans whose isActive is true
    TrialPlan,        \* first active standard plan with trialDays > 0
    TrialDays,        \* its trialDays
    MonthDays,        \* 30
    YearDays,         \* 365
    PastDueDays,      \* 3:  active with a failed payment -> past_due
    SuspendDays,      \* 7:  past_due -> suspended
    ExpireDays,       \* 60: suspended -> expired, and the window to resubscribe
    MaxRetries,       \* 3
    Agreements,       \* what String(event.payment_agreement?.id) can be
    Null

ASSUME PlansAssumption ==
    /\ MonthlyPrice \in [Plans -> Nat]
    /\ YearlyPrice \in [Plans -> Nat]
    /\ Owner \in [Plans -> Tenants \cup {Null}]
    /\ ActivePlans \subseteq Plans
    /\ TrialPlan \in ActivePlans
    /\ Owner[TrialPlan] = Null

ASSUME DaysAssumption ==
    /\ {TrialDays, MonthDays, YearDays} \subseteq Nat \ {0}
    /\ {PastDueDays, SuspendDays, MaxRetries} \subseteq Nat \ {0}
    /\ ExpireDays \in Nat

ASSUME NullAssumption == Null \notin Nat \cup Plans \cup Tenants \cup Agreements

Cycles == {"monthly", "yearly"}

(* "none": the tenant has no row yet. *)
Statuses == {"none", "trialing", "active", "past_due", "suspended",
             "cancelled", "expired"}

Date == Nat
OptionalDate == Nat \cup {Null}

Row == [status : Statuses,
        planId : Plans,
        trialEndsAt : OptionalDate,
        currentPeriodStart : Date,
        currentPeriodEnd : Date,
        nextBillingAt : OptionalDate,
        lastBillingAt : OptionalDate,
        billingCycle : Cycles,
        priceSnapshot : Nat,
        quotaSnapshot : Plans,
        cancelAtPeriodEnd : BOOLEAN,
        cancelledAt : OptionalDate,
        suspendedAt : OptionalDate,
        pastDueAt : OptionalDate,
        pendingPlanId : Plans \cup {Null},
        pendingPlanEffectiveAt : OptionalDate,
        retryCount : Nat,
        tapPaymentAgreementId : Agreements \cup {Null},
        updatedAt : Date]

NoRow == [status |-> "none",
          planId |-> TrialPlan,
          trialEndsAt |-> Null,
          currentPeriodStart |-> 0,
          currentPeriodEnd |-> 0,
          nextBillingAt |-> Null,
          lastBillingAt |-> Null,
          billingCycle |-> "monthly",
          priceSnapshot |-> MonthlyPrice[TrialPlan],
          quotaSnapshot |-> TrialPlan,
          cancelAtPeriodEnd |-> FALSE,
          cancelledAt |-> Null,
          suspendedAt |-> Null,
          pastDueAt |-> Null,
          pendingPlanId |-> Null,
          pendingPlanEffectiveAt |-> Null,
          retryCount |-> 0,
          tapPaymentAgreementId |-> Null,
          updatedAt |-> 0]

-----------------------------------------------------------------------------
(* Prices and plans. *)

SubscriptionPriceAmount(p, cycle) ==
    IF cycle = "monthly" THEN MonthlyPrice[p] ELSE YearlyPrice[p]

(* isActive, and an enterprise_custom plan only for the tenant that owns it. *)
PlanAvailable(p, t) == p \in ActivePlans /\ Owner[p] \in {Null, t}

(* Mutant: the branches are swapped. *)
PeriodDaysSwapped(cycle) == IF cycle = "yearly" THEN MonthDays ELSE YearDays

PeriodDays(cycle) == IF cycle = "yearly" THEN YearDays ELSE MonthDays

-----------------------------------------------------------------------------
(* The rows the methods write. *)

(* startTrialForNewUser *)
TrialRow(d) ==
    [NoRow EXCEPT !.status = "trialing",
                  !.trialEndsAt = d + TrialDays,
                  !.currentPeriodStart = d,
                  !.currentPeriodEnd = d + TrialDays,
                  !.nextBillingAt = d + TrialDays,
                  !.updatedAt = d]

(* requestUpgradeToPaidPlan and scheduleDowngrade *)
PendingRow(r, p, effectiveAt, d) ==
    [r EXCEPT !.pendingPlanId = p,
              !.pendingPlanEffectiveAt = effectiveAt,
              !.updatedAt = d]

(* Mutant: the plan stays pending. *)
DowngradedRowStillPending(r, d) ==
    [r EXCEPT !.planId = r.pendingPlanId,
              !.priceSnapshot =
                  SubscriptionPriceAmount(r.pendingPlanId, r.billingCycle),
              !.quotaSnapshot = r.pendingPlanId,
              !.updatedAt = d]

DowngradedRow(r, d) ==
    [r EXCEPT !.planId = r.pendingPlanId,
              !.pendingPlanId = Null,
              !.pendingPlanEffectiveAt = Null,
              !.priceSnapshot =
                  SubscriptionPriceAmount(r.pendingPlanId, r.billingCycle),
              !.quotaSnapshot = r.pendingPlanId,
              !.updatedAt = d]

CancelRequestedRow(r, d) ==
    [r EXCEPT !.cancelAtPeriodEnd = TRUE, !.updatedAt = d]

(* The plan a captured payment activates: pendingPlanId ?? planId. *)
ActivePlanId(r) == IF r.pendingPlanId = Null THEN r.planId ELSE r.pendingPlanId

(* activateAfterSuccessfulPayment: the length of the new period comes from   *)
(* the stored cycle, the price and the new cycle from the parameter.         *)
ActivatedRow(r, cycle, agreement, d) ==
    LET newEnd == d + PeriodDays(r.billingCycle) IN
    [r EXCEPT !.planId = ActivePlanId(r),
              !.status = "active",
              !.currentPeriodStart = d,
              !.currentPeriodEnd = newEnd,
              !.nextBillingAt = newEnd,
              !.lastBillingAt = d,
              !.billingCycle = cycle,
              !.retryCount = 0,
              !.cancelAtPeriodEnd = FALSE,
              !.cancelledAt = Null,
              !.suspendedAt = Null,
              !.pastDueAt = Null,
              !.pendingPlanId = Null,
              !.pendingPlanEffectiveAt = Null,
              !.tapPaymentAgreementId = agreement,
              !.priceSnapshot = SubscriptionPriceAmount(ActivePlanId(r), cycle),
              !.quotaSnapshot = ActivePlanId(r),
              !.updatedAt = d]

(* Mutant: a failed payment, too, clears the requested cancellation. *)
PaymentFailedRowUncancelled(r, d) ==
    [r EXCEPT !.status = "active",
              !.pastDueAt = d,
              !.retryCount = @ + 1,
              !.cancelAtPeriodEnd = FALSE,
              !.updatedAt = d]

(* markPaymentFailed: the status becomes active whatever it was. *)
PaymentFailedRow(r, d) ==
    [r EXCEPT !.status = "active",
              !.pastDueAt = d,
              !.retryCount = @ + 1,
              !.updatedAt = d]

(* Mutant: the period is prolonged by the days of grace. *)
PastDueRowProlonged(r, d) ==
    [r EXCEPT !.status = "past_due",
              !.currentPeriodEnd = d + PastDueDays,
              !.updatedAt = d]

PastDueRow(r, d) == [r EXCEPT !.status = "past_due", !.updatedAt = d]

SuspendedRow(r, d) ==
    [r EXCEPT !.status = "suspended", !.suspendedAt = d, !.updatedAt = d]

(* moveExpiredSubscriptions updates by tenantId alone: r can have any status. *)
ExpiredRow(r, d) ==
    [r EXCEPT !.status = "expired", !.nextBillingAt = Null, !.updatedAt = d]

(* Mutant: the period end is cleared as the next billing date is. *)
CancelledRowWithoutEnd(r, d) ==
    [r EXCEPT !.status = "cancelled",
              !.cancelledAt = d,
              !.currentPeriodEnd = Null,
              !.nextBillingAt = Null,
              !.updatedAt = d]

(* Mutant: the status is left as it was. *)
CancelledRowStillOpen(r, d) ==
    [r EXCEPT !.cancelledAt = d, !.nextBillingAt = Null, !.updatedAt = d]

CancelledRow(r, d) ==
    [r EXCEPT !.status = "cancelled",
              !.cancelledAt = d,
              !.nextBillingAt = Null,
              !.updatedAt = d]

-----------------------------------------------------------------------------
(* What the lifecycle stages and the resubscribe request look for. *)

IsTrialOver(r, d) == r.status = "trialing" /\ r.trialEndsAt <= d

(* Mutant: the three days are forgotten. *)
IsPastDueAtOnce(r, d) == r.status = "active" /\ r.pastDueAt # Null

(* The three days count from updatedAt, not from pastDueAt. *)
IsPastDue(r, d) ==
    /\ r.status = "active"
    /\ r.pastDueAt # Null
    /\ r.updatedAt + PastDueDays <= d

(* Mutant: the seven days count from updatedAt, as the three do. *)
IsToSuspendByUpdate(r, d) ==
    /\ r.status = "past_due"
    /\ r.pastDueAt # Null
    /\ r.updatedAt + SuspendDays <= d

IsToSuspend(r, d) ==
    /\ r.status = "past_due"
    /\ r.pastDueAt # Null
    /\ r.pastDueAt + SuspendDays <= d

IsToExpire(r, d) ==
    /\ r.status = "suspended"
    /\ r.suspendedAt # Null
    /\ r.suspendedAt + ExpireDays < d

IsToCancel(r, d) ==
    /\ r.status \in {"active", "past_due"}
    /\ r.cancelAtPeriodEnd
    /\ r.currentPeriodEnd <= d

IsDowngradeDue(r, d) ==
    /\ r.status = "active"
    /\ r.pendingPlanId # Null
    /\ r.pendingPlanEffectiveAt <= d

IsRenewalDue(r, d) ==
    /\ r.status = "active"
    /\ r.nextBillingAt # Null
    /\ r.nextBillingAt <= d
    /\ ~r.cancelAtPeriodEnd
    /\ r.retryCount < MaxRetries

(* requestResubscribeToSuspendedSubscription *)
CanResubscribe(r, d) ==
    /\ r.status = "suspended"
    /\ LET since == IF r.suspendedAt = Null THEN r.updatedAt ELSE r.suspendedAt
       IN  d <= since + ExpireDays
=============================================================================
