------------------------- MODULE SubscriptionsProofs -------------------------
(***************************************************************************)
(* Proofs about Subscriptions, for every set of tenants, plans, prices,    *)
(* windows and bounds.  The argument is row by row: RowInv holds of every  *)
(* row at every date, each method writes a row for which it holds again    *)
(* (one lemma per method), and the passing of a day keeps it.              *)
(***************************************************************************)
EXTENDS AccessGuard, SubscriptionRowProofs, FiniteSetTheorems

(* The failure date is never later than the last write of the row: this is   *)
(* what makes movePastDueSubscriptions, which reads updatedAt, honour the     *)
(* three days.                                                                *)
FailureIsAWrite(r, d) ==
    /\ r.updatedAt <= d
    /\ r.pastDueAt # Null => r.pastDueAt <= r.updatedAt

TrialIsUntouchedIn(r) ==
    r.status = "trialing" =>
        /\ r.trialEndsAt # Null
        /\ r.lastBillingAt = Null
        /\ r.retryCount = 0
        /\ ~r.cancelAtPeriodEnd

RowInv(r, t, d) ==
    /\ r \in Row
    /\ FailuresAccountedIn(r)
    /\ GraceHonouredIn(r, d)
    /\ CancelledIsClosedIn(r)
    /\ SnapshotsFollowPlanIn(r)
    /\ PaidPeriodIsOneMonthIn(r)
    /\ PendingIsWholeIn(r, t)
    /\ FailureIsAWrite(r, d)
    /\ TrialIsUntouchedIn(r)

(* What the log says of trials, and what the job is about to say.            *)
TrialLogInv ==
    \A t \in Tenants :
        \/ <<t, "trial_expired">> \in events
        \/ stage = "trialEvents" /\ t \in found
        => Exists(t) /\ sub[t].trialEndsAt # Null /\ sub[t].trialEndsAt <= now

(* One row per providerEventId in the table of payments. *)
UniqueReports == \A p, q \in payments : p.event = q.event => p = q

IInv ==
    /\ TypeOK
    /\ \A t \in Tenants : RowInv(sub[t], t, now)
    /\ TrialLogInv
    /\ UniqueReports

-----------------------------------------------------------------------------
(* Each method keeps the row invariant.  Every proof first says what the     *)
(* method does to the fields the invariant reads, then takes the conjuncts   *)
(* one by one.                                                               *)

LEMMA NoRowInv ==
    ASSUME NEW t \in Tenants, NEW d \in Nat
    PROVE  RowInv(NoRow, t, d)
<1> DEFINE s == NoRow
<1>2. s \in Row
  BY NoRowType
<1>3. /\ s.status = "none"
      /\ s.planId = TrialPlan
      /\ s.currentPeriodEnd = 0
      /\ s.nextBillingAt = Null
      /\ s.lastBillingAt = Null
      /\ s.billingCycle = "monthly"
      /\ s.priceSnapshot = MonthlyPrice[TrialPlan]
      /\ s.quotaSnapshot = TrialPlan
      /\ s.cancelAtPeriodEnd = FALSE
      /\ s.pastDueAt = Null
      /\ s.pendingPlanId = Null
      /\ s.pendingPlanEffectiveAt = Null
      /\ s.retryCount = 0
      /\ s.updatedAt = 0
  BY DEF NoRow
<1> HIDE DEF s
<1>4. FailuresAccountedIn(s) /\ TrialIsUntouchedIn(s) /\ FailureIsAWrite(s, d)
  BY <1>2, <1>3, NullIsNoDate, DaysAssumption
     DEF RowInv, FailuresAccountedIn, TrialIsUntouchedIn, FailureIsAWrite, Row,
         Date, OptionalDate
<1>5. GraceHonouredIn(s, d)
  BY <1>2, <1>3, NullIsNoDate, DaysAssumption
     DEF RowInv, GraceHonouredIn, FailureIsAWrite, Row, Date, OptionalDate
<1>6. CancelledIsClosedIn(s)
  BY <1>2, <1>3, NullIsNoDate
     DEF RowInv, CancelledIsClosedIn, Row, Date, OptionalDate
<1>7. SnapshotsFollowPlanIn(s) /\ PaidPeriodIsOneMonthIn(s)
  BY <1>2, <1>3, NullIsNoDate
     DEF RowInv, SnapshotsFollowPlanIn, PaidPeriodIsOneMonthIn, PeriodDays,
         SubscriptionPriceAmount
<1>8. PendingIsWholeIn(s, t)
  BY <1>2, <1>3, NullIsNoDate, NullIsNoPlan, PlansAssumption
     DEF RowInv, PendingIsWholeIn, ActivePlanId, Row
<1>9. RowInv(s, t, d)
  BY <1>2, <1>4, <1>5, <1>6, <1>7, <1>8 DEF RowInv
<1> QED
  BY <1>9 DEF s

LEMMA TrialRowInv ==
    ASSUME NEW t \in Tenants, NEW d \in Nat
    PROVE  RowInv(TrialRow(d), t, d)
<1> DEFINE s == TrialRow(d)
<1>2. s \in Row
  BY TrialRowType
<1>3. /\ s.status = "trialing"
      /\ s.trialEndsAt = d + TrialDays
      /\ s.planId = TrialPlan
      /\ s.currentPeriodEnd = d + TrialDays
      /\ s.nextBillingAt = d + TrialDays
      /\ s.lastBillingAt = Null
      /\ s.billingCycle = "monthly"
      /\ s.priceSnapshot = MonthlyPrice[TrialPlan]
      /\ s.quotaSnapshot = TrialPlan
      /\ s.cancelAtPeriodEnd = FALSE
      /\ s.pastDueAt = Null
      /\ s.pendingPlanId = Null
      /\ s.pendingPlanEffectiveAt = Null
      /\ s.retryCount = 0
      /\ s.updatedAt = d
  BY DEF TrialRow, NoRow
<1> HIDE DEF s
<1>4. FailuresAccountedIn(s) /\ TrialIsUntouchedIn(s) /\ FailureIsAWrite(s, d)
  BY <1>2, <1>3, NullIsNoDate, DaysAssumption
     DEF RowInv, FailuresAccountedIn, TrialIsUntouchedIn, FailureIsAWrite, Row,
         Date, OptionalDate
<1>5. GraceHonouredIn(s, d)
  BY <1>2, <1>3, NullIsNoDate, DaysAssumption
     DEF RowInv, GraceHonouredIn, FailureIsAWrite, Row, Date, OptionalDate
<1>6. CancelledIsClosedIn(s)
  BY <1>2, <1>3, NullIsNoDate
     DEF RowInv, CancelledIsClosedIn, Row, Date, OptionalDate
<1>7. SnapshotsFollowPlanIn(s) /\ PaidPeriodIsOneMonthIn(s)
  BY <1>2, <1>3, NullIsNoDate
     DEF RowInv, SnapshotsFollowPlanIn, PaidPeriodIsOneMonthIn, PeriodDays,
         SubscriptionPriceAmount
<1>8. PendingIsWholeIn(s, t)
  BY <1>2, <1>3, NullIsNoDate, NullIsNoPlan, PlansAssumption
     DEF RowInv, PendingIsWholeIn, ActivePlanId, Row
<1>9. RowInv(s, t, d)
  BY <1>2, <1>4, <1>5, <1>6, <1>7, <1>8 DEF RowInv
<1> QED
  BY <1>9 DEF s

LEMMA PendingRowInv ==
    ASSUME NEW t \in Tenants, NEW d \in Nat, NEW r, RowInv(r, t, d),
           NEW p \in Plans, Owner[p] \in {Null, t}, NEW e \in Nat
    PROVE  RowInv(PendingRow(r, p, e, d), t, d)
<1> DEFINE s == PendingRow(r, p, e, d)
<1>1. r \in Row
  BY DEF RowInv
<1>2. s \in Row
  BY <1>1, PendingRowType
<1>3. /\ s.status = r.status
      /\ s.planId = r.planId
      /\ s.trialEndsAt = r.trialEndsAt
      /\ s.currentPeriodStart = r.currentPeriodStart
      /\ s.currentPeriodEnd = r.currentPeriodEnd
      /\ s.nextBillingAt = r.nextBillingAt
      /\ s.lastBillingAt = r.lastBillingAt
      /\ s.billingCycle = r.billingCycle
      /\ s.priceSnapshot = r.priceSnapshot
      /\ s.quotaSnapshot = r.quotaSnapshot
      /\ s.cancelAtPeriodEnd = r.cancelAtPeriodEnd
      /\ s.cancelledAt = r.cancelledAt
      /\ s.suspendedAt = r.suspendedAt
      /\ s.pastDueAt = r.pastDueAt
      /\ s.pendingPlanId = p
      /\ s.pendingPlanEffectiveAt = e
      /\ s.retryCount = r.retryCount
      /\ s.updatedAt = d
  BY <1>1 DEF PendingRow, Row
<1> HIDE DEF s
<1>4. FailuresAccountedIn(s) /\ TrialIsUntouchedIn(s) /\ FailureIsAWrite(s, d)
  BY <1>1, <1>2, <1>3, NullIsNoDate, DaysAssumption
     DEF RowInv, FailuresAccountedIn, TrialIsUntouchedIn, FailureIsAWrite, Row,
         Date, OptionalDate
<1>5. GraceHonouredIn(s, d)
  BY <1>1, <1>2, <1>3, NullIsNoDate, DaysAssumption
     DEF RowInv, GraceHonouredIn, FailureIsAWrite, Row, Date, OptionalDate
<1>6. CancelledIsClosedIn(s)
  BY <1>1, <1>2, <1>3, NullIsNoDate
     DEF RowInv, CancelledIsClosedIn, Row, Date, OptionalDate
<1>7. SnapshotsFollowPlanIn(s) /\ PaidPeriodIsOneMonthIn(s)
  BY <1>1, <1>2, <1>3, NullIsNoDate
     DEF RowInv, SnapshotsFollowPlanIn, PaidPeriodIsOneMonthIn, PeriodDays,
         SubscriptionPriceAmount
<1>8. PendingIsWholeIn(s, t)
  BY <1>1, <1>2, <1>3, NullIsNoDate, NullIsNoPlan, PlansAssumption
     DEF RowInv, PendingIsWholeIn, ActivePlanId, Row
<1>9. RowInv(s, t, d)
  BY <1>2, <1>4, <1>5, <1>6, <1>7, <1>8 DEF RowInv
<1> QED
  BY <1>9 DEF s

LEMMA DowngradedRowInv ==
    ASSUME NEW t \in Tenants, NEW d \in Nat, NEW r, RowInv(r, t, d),
           r.pendingPlanId # Null
    PROVE  RowInv(DowngradedRow(r, d), t, d)
<1> DEFINE s == DowngradedRow(r, d)
<1>1. r \in Row
  BY DEF RowInv
<1>2. s \in Row
  BY <1>1, DowngradedRowType
<1>3. /\ s.status = r.status
      /\ s.planId = r.pendingPlanId
      /\ s.trialEndsAt = r.trialEndsAt
      /\ s.currentPeriodStart = r.currentPeriodStart
      /\ s.currentPeriodEnd = r.currentPeriodEnd
      /\ s.nextBillingAt = r.nextBillingAt
      /\ s.lastBillingAt = r.lastBillingAt
      /\ s.billingCycle = r.billingCycle
      /\ s.priceSnapshot = SubscriptionPriceAmount(r.pendingPlanId, r.billingCycle)
      /\ s.quotaSnapshot = r.pendingPlanId
      /\ s.cancelAtPeriodEnd = r.cancelAtPeriodEnd
      /\ s.cancelledAt = r.cancelledAt
      /\ s.suspendedAt = r.suspendedAt
      /\ s.pastDueAt = r.pastDueAt
      /\ s.pendingPlanId = Null
      /\ s.pendingPlanEffectiveAt = Null
      /\ s.retryCount = r.retryCount
      /\ s.updatedAt = d
  BY <1>1 DEF DowngradedRow, Row
<1> HIDE DEF s
<1>4. FailuresAccountedIn(s) /\ TrialIsUntouchedIn(s) /\ FailureIsAWrite(s, d)
  BY <1>1, <1>2, <1>3, NullIsNoDate, DaysAssumption
     DEF RowInv, FailuresAccountedIn, TrialIsUntouchedIn, FailureIsAWrite, Row,
         Date, OptionalDate
<1>5. GraceHonouredIn(s, d)
  BY <1>1, <1>2, <1>3, NullIsNoDate, DaysAssumption
     DEF RowInv, GraceHonouredIn, FailureIsAWrite, Row, Date, OptionalDate
<1>6. CancelledIsClosedIn(s)
  BY <1>1, <1>2, <1>3, NullIsNoDate
     DEF RowInv, CancelledIsClosedIn, Row, Date, OptionalDate
<1>7. SnapshotsFollowPlanIn(s) /\ PaidPeriodIsOneMonthIn(s)
  BY <1>1, <1>2, <1>3, NullIsNoDate
     DEF RowInv, SnapshotsFollowPlanIn, PaidPeriodIsOneMonthIn, PeriodDays,
         SubscriptionPriceAmount
<1>8. PendingIsWholeIn(s, t)
  BY <1>1, <1>2, <1>3, NullIsNoDate, NullIsNoPlan, PlansAssumption
     DEF RowInv, PendingIsWholeIn, ActivePlanId, Row
<1>9. RowInv(s, t, d)
  BY <1>2, <1>4, <1>5, <1>6, <1>7, <1>8 DEF RowInv
<1> QED
  BY <1>9 DEF s

LEMMA CancelRequestedRowInv ==
    ASSUME NEW t \in Tenants, NEW d \in Nat, NEW r, RowInv(r, t, d),
           r.status # "trialing"
    PROVE  RowInv(CancelRequestedRow(r, d), t, d)
<1> DEFINE s == CancelRequestedRow(r, d)
<1>1. r \in Row
  BY DEF RowInv
<1>2. s \in Row
  BY <1>1, CancelRequestedRowType
<1>3. /\ s.status = r.status
      /\ s.planId = r.planId
      /\ s.trialEndsAt = r.trialEndsAt
      /\ s.currentPeriodStart = r.currentPeriodStart
      /\ s.currentPeriodEnd = r.currentPeriodEnd
      /\ s.nextBillingAt = r.nextBillingAt
      /\ s.lastBillingAt = r.lastBillingAt
      /\ s.billingCycle = r.billingCycle
      /\ s.priceSnapshot = r.priceSnapshot
      /\ s.quotaSnapshot = r.quotaSnapshot
      /\ s.cancelAtPeriodEnd = TRUE
      /\ s.cancelledAt = r.cancelledAt
      /\ s.suspendedAt = r.suspendedAt
      /\ s.pastDueAt = r.pastDueAt
      /\ s.pendingPlanId = r.pendingPlanId
      /\ s.pendingPlanEffectiveAt = r.pendingPlanEffectiveAt
      /\ s.retryCount = r.retryCount
      /\ s.updatedAt = d
  BY <1>1 DEF CancelRequestedRow, Row
<1> HIDE DEF s
<1>4. FailuresAccountedIn(s) /\ TrialIsUntouchedIn(s) /\ FailureIsAWrite(s, d)
  BY <1>1, <1>2, <1>3, NullIsNoDate, DaysAssumption
     DEF RowInv, FailuresAccountedIn, TrialIsUntouchedIn, FailureIsAWrite, Row,
         Date, OptionalDate
<1>5. GraceHonouredIn(s, d)
  BY <1>1, <1>2, <1>3, NullIsNoDate, DaysAssumption
     DEF RowInv, GraceHonouredIn, FailureIsAWrite, Row, Date, OptionalDate
<1>6. CancelledIsClosedIn(s)
  BY <1>1, <1>2, <1>3, NullIsNoDate
     DEF RowInv, CancelledIsClosedIn, Row, Date, OptionalDate
<1>7. SnapshotsFollowPlanIn(s) /\ PaidPeriodIsOneMonthIn(s)
  BY <1>1, <1>2, <1>3, NullIsNoDate
     DEF RowInv, SnapshotsFollowPlanIn, PaidPeriodIsOneMonthIn, PeriodDays,
         SubscriptionPriceAmount
<1>8. PendingIsWholeIn(s, t)
  BY <1>1, <1>2, <1>3, NullIsNoDate, NullIsNoPlan, PlansAssumption
     DEF RowInv, PendingIsWholeIn, ActivePlanId, Row
<1>9. RowInv(s, t, d)
  BY <1>2, <1>4, <1>5, <1>6, <1>7, <1>8 DEF RowInv
<1> QED
  BY <1>9 DEF s

LEMMA ActivatedRowInv ==
    ASSUME NEW t \in Tenants, NEW d \in Nat, NEW r, RowInv(r, t, d),
           NEW a \in Agreements
    PROVE  RowInv(ActivatedRow(r, r.billingCycle, a, d), t, d)
<1> DEFINE s == ActivatedRow(r, r.billingCycle, a, d)
<1>1. r \in Row
  BY DEF RowInv
<1>2. s \in Row
  BY <1>1, ActivatedRowType DEF Row
<1>3. /\ s.status = "active"
      /\ s.planId = ActivePlanId(r)
      /\ s.trialEndsAt = r.trialEndsAt
      /\ s.currentPeriodStart = d
      /\ s.currentPeriodEnd = d + PeriodDays(r.billingCycle)
      /\ s.nextBillingAt = d + PeriodDays(r.billingCycle)
      /\ s.lastBillingAt = d
      /\ s.billingCycle = r.billingCycle
      /\ s.priceSnapshot = SubscriptionPriceAmount(ActivePlanId(r), r.billingCycle)
      /\ s.quotaSnapshot = ActivePlanId(r)
      /\ s.cancelAtPeriodEnd = FALSE
      /\ s.cancelledAt = Null
      /\ s.suspendedAt = Null
      /\ s.pastDueAt = Null
      /\ s.pendingPlanId = Null
      /\ s.pendingPlanEffectiveAt = Null
      /\ s.retryCount = 0
      /\ s.updatedAt = d
  BY <1>1 DEF ActivatedRow, Row
<1> HIDE DEF s
<1>4. FailuresAccountedIn(s) /\ TrialIsUntouchedIn(s) /\ FailureIsAWrite(s, d)
  BY <1>1, <1>2, <1>3, NullIsNoDate, DaysAssumption
     DEF RowInv, FailuresAccountedIn, TrialIsUntouchedIn, FailureIsAWrite, Row,
         Date, OptionalDate
<1>5. GraceHonouredIn(s, d)
  BY <1>1, <1>2, <1>3, NullIsNoDate, DaysAssumption
     DEF RowInv, GraceHonouredIn, FailureIsAWrite, Row, Date, OptionalDate
<1>6. CancelledIsClosedIn(s)
  BY <1>1, <1>2, <1>3, NullIsNoDate
     DEF RowInv, CancelledIsClosedIn, Row, Date, OptionalDate
<1>7. SnapshotsFollowPlanIn(s) /\ PaidPeriodIsOneMonthIn(s)
  BY <1>1, <1>2, <1>3, NullIsNoDate
     DEF RowInv, SnapshotsFollowPlanIn, PaidPeriodIsOneMonthIn, PeriodDays,
         SubscriptionPriceAmount
<1>8. PendingIsWholeIn(s, t)
  BY <1>1, <1>2, <1>3, NullIsNoDate, NullIsNoPlan, PlansAssumption
     DEF RowInv, PendingIsWholeIn, ActivePlanId, Row
<1>9. RowInv(s, t, d)
  BY <1>2, <1>4, <1>5, <1>6, <1>7, <1>8 DEF RowInv
<1> QED
  BY <1>9 DEF s

LEMMA PaymentFailedRowInv ==
    ASSUME NEW t \in Tenants, NEW d \in Nat, NEW r, RowInv(r, t, d),
           r.retryCount < MaxRetries
    PROVE  RowInv(PaymentFailedRow(r, d), t, d)
<1> DEFINE s == PaymentFailedRow(r, d)
<1>1. r \in Row
  BY DEF RowInv
<1>2. s \in Row
  BY <1>1, PaymentFailedRowType
<1>3. /\ s.status = "active"
      /\ s.planId = r.planId
      /\ s.trialEndsAt = r.trialEndsAt
      /\ s.currentPeriodStart = r.currentPeriodStart
      /\ s.currentPeriodEnd = r.currentPeriodEnd
      /\ s.nextBillingAt = r.nextBillingAt
      /\ s.lastBillingAt = r.lastBillingAt
      /\ s.billingCycle = r.billingCycle
      /\ s.priceSnapshot = r.priceSnapshot
      /\ s.quotaSnapshot = r.quotaSnapshot
      /\ s.cancelAtPeriodEnd = r.cancelAtPeriodEnd
      /\ s.cancelledAt = r.cancelledAt
      /\ s.suspendedAt = r.suspendedAt
      /\ s.pastDueAt = d
      /\ s.pendingPlanId = r.pendingPlanId
      /\ s.pendingPlanEffectiveAt = r.pendingPlanEffectiveAt
      /\ s.retryCount = r.retryCount + 1
      /\ s.updatedAt = d
  BY <1>1 DEF PaymentFailedRow, Row
<1> HIDE DEF s
<1>4. FailuresAccountedIn(s) /\ TrialIsUntouchedIn(s) /\ FailureIsAWrite(s, d)
  BY <1>1, <1>2, <1>3, NullIsNoDate, DaysAssumption
     DEF RowInv, FailuresAccountedIn, TrialIsUntouchedIn, FailureIsAWrite, Row,
         Date, OptionalDate
<1>5. GraceHonouredIn(s, d)
  BY <1>1, <1>2, <1>3, NullIsNoDate, DaysAssumption
     DEF RowInv, GraceHonouredIn, FailureIsAWrite, Row, Date, OptionalDate
<1>6. CancelledIsClosedIn(s)
  BY <1>1, <1>2, <1>3, NullIsNoDate
     DEF RowInv, CancelledIsClosedIn, Row, Date, OptionalDate
<1>7. SnapshotsFollowPlanIn(s) /\ PaidPeriodIsOneMonthIn(s)
  BY <1>1, <1>2, <1>3, NullIsNoDate
     DEF RowInv, SnapshotsFollowPlanIn, PaidPeriodIsOneMonthIn, PeriodDays,
         SubscriptionPriceAmount
<1>8. PendingIsWholeIn(s, t)
  BY <1>1, <1>2, <1>3, NullIsNoDate, NullIsNoPlan, PlansAssumption
     DEF RowInv, PendingIsWholeIn, ActivePlanId, Row
<1>9. RowInv(s, t, d)
  BY <1>2, <1>4, <1>5, <1>6, <1>7, <1>8 DEF RowInv
<1> QED
  BY <1>9 DEF s

LEMMA PastDueRowInv ==
    ASSUME NEW t \in Tenants, NEW d \in Nat, NEW r, RowInv(r, t, d),
           IsPastDue(r, d)
    PROVE  RowInv(PastDueRow(r, d), t, d)
<1> DEFINE s == PastDueRow(r, d)
<1>1. r \in Row
  BY DEF RowInv
<1>2. s \in Row
  BY <1>1, PastDueRowType
<1>3. /\ s.status = "past_due"
      /\ s.planId = r.planId
      /\ s.trialEndsAt = r.trialEndsAt
      /\ s.currentPeriodStart = r.currentPeriodStart
      /\ s.currentPeriodEnd = r.currentPeriodEnd
      /\ s.nextBillingAt = r.nextBillingAt
      /\ s.lastBillingAt = r.lastBillingAt
      /\ s.billingCycle = r.billingCycle
      /\ s.priceSnapshot = r.priceSnapshot
      /\ s.quotaSnapshot = r.quotaSnapshot
      /\ s.cancelAtPeriodEnd = r.cancelAtPeriodEnd
      /\ s.cancelledAt = r.cancelledAt
      /\ s.suspendedAt = r.suspendedAt
      /\ s.pastDueAt = r.pastDueAt
      /\ s.pendingPlanId = r.pendingPlanId
      /\ s.pendingPlanEffectiveAt = r.pendingPlanEffectiveAt
      /\ s.retryCount = r.retryCount
      /\ s.updatedAt = d
  BY <1>1 DEF PastDueRow, Row
<1> HIDE DEF s
<1>4. FailuresAccountedIn(s) /\ TrialIsUntouchedIn(s) /\ FailureIsAWrite(s, d)
  BY <1>1, <1>2, <1>3, NullIsNoDate, DaysAssumption
     DEF RowInv, FailuresAccountedIn, TrialIsUntouchedIn, FailureIsAWrite, Row,
         Date, OptionalDate, IsPastDue
<1>5. GraceHonouredIn(s, d)
  BY <1>1, <1>2, <1>3, NullIsNoDate, DaysAssumption
     DEF RowInv, GraceHonouredIn, FailureIsAWrite, Row, Date, OptionalDate, IsPastDue
<1>6. CancelledIsClosedIn(s)
  BY <1>1, <1>2, <1>3, NullIsNoDate
     DEF RowInv, CancelledIsClosedIn, Row, Date, OptionalDate, IsPastDue
<1>7. SnapshotsFollowPlanIn(s) /\ PaidPeriodIsOneMonthIn(s)
  BY <1>1, <1>2, <1>3, NullIsNoDate
     DEF RowInv, SnapshotsFollowPlanIn, PaidPeriodIsOneMonthIn, PeriodDays,
         SubscriptionPriceAmount
<1>8. PendingIsWholeIn(s, t)
  BY <1>1, <1>2, <1>3, NullIsNoDate, NullIsNoPlan, PlansAssumption
     DEF RowInv, PendingIsWholeIn, ActivePlanId, Row
<1>9. RowInv(s, t, d)
  BY <1>2, <1>4, <1>5, <1>6, <1>7, <1>8 DEF RowInv
<1> QED
  BY <1>9 DEF s

LEMMA SuspendedRowInv ==
    ASSUME NEW t \in Tenants, NEW d \in Nat, NEW r, RowInv(r, t, d),
           IsToSuspend(r, d)
    PROVE  RowInv(SuspendedRow(r, d), t, d)
<1> DEFINE s == SuspendedRow(r, d)
<1>1. r \in Row
  BY DEF RowInv
<1>2. s \in Row
  BY <1>1, SuspendedRowType
<1>3. /\ s.status = "suspended"
      /\ s.planId = r.planId
      /\ s.trialEndsAt = r.trialEndsAt
      /\ s.currentPeriodStart = r.currentPeriodStart
      /\ s.currentPeriodEnd = r.currentPeriodEnd
      /\ s.nextBillingAt = r.nextBillingAt
      /\ s.lastBillingAt = r.lastBillingAt
      /\ s.billingCycle = r.billingCycle
      /\ s.priceSnapshot = r.priceSnapshot
      /\ s.quotaSnapshot = r.quotaSnapshot
      /\ s.cancelAtPeriodEnd = r.cancelAtPeriodEnd
      /\ s.cancelledAt = r.cancelledAt
      /\ s.suspendedAt = d
      /\ s.pastDueAt = r.pastDueAt
      /\ s.pendingPlanId = r.pendingPlanId
      /\ s.pendingPlanEffectiveAt = r.pendingPlanEffectiveAt
      /\ s.retryCount = r.retryCount
      /\ s.updatedAt = d
  BY <1>1 DEF SuspendedRow, Row
<1> HIDE DEF s
<1>4. FailuresAccountedIn(s) /\ TrialIsUntouchedIn(s) /\ FailureIsAWrite(s, d)
  BY <1>1, <1>2, <1>3, NullIsNoDate, DaysAssumption
     DEF RowInv, FailuresAccountedIn, TrialIsUntouchedIn, FailureIsAWrite, Row,
         Date, OptionalDate, IsToSuspend
<1>5. GraceHonouredIn(s, d)
  BY <1>1, <1>2, <1>3, NullIsNoDate, DaysAssumption
     DEF RowInv, GraceHonouredIn, FailureIsAWrite, Row, Date, OptionalDate, IsToSuspend
<1>6. CancelledIsClosedIn(s)
  BY <1>1, <1>2, <1>3, NullIsNoDate
     DEF RowInv, CancelledIsClosedIn, Row, Date, OptionalDate, IsToSuspend
<1>7. SnapshotsFollowPlanIn(s) /\ PaidPeriodIsOneMonthIn(s)
  BY <1>1, <1>2, <1>3, NullIsNoDate
     DEF RowInv, SnapshotsFollowPlanIn, PaidPeriodIsOneMonthIn, PeriodDays,
         SubscriptionPriceAmount
<1>8. PendingIsWholeIn(s, t)
  BY <1>1, <1>2, <1>3, NullIsNoDate, NullIsNoPlan, PlansAssumption
     DEF RowInv, PendingIsWholeIn, ActivePlanId, Row
<1>9. RowInv(s, t, d)
  BY <1>2, <1>4, <1>5, <1>6, <1>7, <1>8 DEF RowInv
<1> QED
  BY <1>9 DEF s

LEMMA ExpiredRowInv ==
    ASSUME NEW t \in Tenants, NEW d \in Nat, NEW r, RowInv(r, t, d)
    PROVE  RowInv(ExpiredRow(r, d), t, d)
<1> DEFINE s == ExpiredRow(r, d)
<1>1. r \in Row
  BY DEF RowInv
<1>2. s \in Row
  BY <1>1, ExpiredRowType
<1>3. /\ s.status = "expired"
      /\ s.planId = r.planId
      /\ s.trialEndsAt = r.trialEndsAt
      /\ s.currentPeriodStart = r.currentPeriodStart
      /\ s.currentPeriodEnd = r.currentPeriodEnd
      /\ s.nextBillingAt = Null
      /\ s.lastBillingAt = r.lastBillingAt
      /\ s.billingCycle = r.billingCycle
      /\ s.priceSnapshot = r.priceSnapshot
      /\ s.quotaSnapshot = r.quotaSnapshot
      /\ s.cancelAtPeriodEnd = r.cancelAtPeriodEnd
      /\ s.cancelledAt = r.cancelledAt
      /\ s.suspendedAt = r.suspendedAt
      /\ s.pastDueAt = r.pastDueAt
      /\ s.pendingPlanId = r.pendingPlanId
      /\ s.pendingPlanEffectiveAt = r.pendingPlanEffectiveAt
      /\ s.retryCount = r.retryCount
      /\ s.updatedAt = d
  BY <1>1 DEF ExpiredRow, Row
<1> HIDE DEF s
<1>4. FailuresAccountedIn(s) /\ TrialIsUntouchedIn(s) /\ FailureIsAWrite(s, d)
  BY <1>1, <1>2, <1>3, NullIsNoDate, DaysAssumption
     DEF RowInv, FailuresAccountedIn, TrialIsUntouchedIn, FailureIsAWrite, Row,
         Date, OptionalDate
<1>5. GraceHonouredIn(s, d)
  BY <1>1, <1>2, <1>3, NullIsNoDate, DaysAssumption
     DEF RowInv, GraceHonouredIn, FailureIsAWrite, Row, Date, OptionalDate
<1>6. CancelledIsClosedIn(s)
  BY <1>1, <1>2, <1>3, NullIsNoDate
     DEF RowInv, CancelledIsClosedIn, Row, Date, OptionalDate
<1>7. SnapshotsFollowPlanIn(s) /\ PaidPeriodIsOneMonthIn(s)
  BY <1>1, <1>2, <1>3, NullIsNoDate
     DEF RowInv, SnapshotsFollowPlanIn, PaidPeriodIsOneMonthIn, PeriodDays,
         SubscriptionPriceAmount
<1>8. PendingIsWholeIn(s, t)
  BY <1>1, <1>2, <1>3, NullIsNoDate, NullIsNoPlan, PlansAssumption
     DEF RowInv, PendingIsWholeIn, ActivePlanId, Row
<1>9. RowInv(s, t, d)
  BY <1>2, <1>4, <1>5, <1>6, <1>7, <1>8 DEF RowInv
<1> QED
  BY <1>9 DEF s

LEMMA CancelledRowInv ==
    ASSUME NEW t \in Tenants, NEW d \in Nat, NEW r, RowInv(r, t, d),
           IsToCancel(r, d)
    PROVE  RowInv(CancelledRow(r, d), t, d)
<1> DEFINE s == CancelledRow(r, d)
<1>1. r \in Row
  BY DEF RowInv
<1>2. s \in Row
  BY <1>1, CancelledRowType
<1>3. /\ s.status = "cancelled"
      /\ s.planId = r.planId
      /\ s.trialEndsAt = r.trialEndsAt
      /\ s.currentPeriodStart = r.currentPeriodStart
      /\ s.currentPeriodEnd = r.currentPeriodEnd
      /\ s.nextBillingAt = Null
      /\ s.lastBillingAt = r.lastBillingAt
      /\ s.billingCycle = r.billingCycle
      /\ s.priceSnapshot = r.priceSnapshot
      /\ s.quotaSnapshot = r.quotaSnapshot
      /\ s.cancelAtPeriodEnd = r.cancelAtPeriodEnd
      /\ s.cancelledAt = d
      /\ s.suspendedAt = r.suspendedAt
      /\ s.pastDueAt = r.pastDueAt
      /\ s.pendingPlanId = r.pendingPlanId
      /\ s.pendingPlanEffectiveAt = r.pendingPlanEffectiveAt
      /\ s.retryCount = r.retryCount
      /\ s.updatedAt = d
  BY <1>1 DEF CancelledRow, Row
<1> HIDE DEF s
<1>4. FailuresAccountedIn(s) /\ TrialIsUntouchedIn(s) /\ FailureIsAWrite(s, d)
  BY <1>1, <1>2, <1>3, NullIsNoDate, DaysAssumption
     DEF RowInv, FailuresAccountedIn, TrialIsUntouchedIn, FailureIsAWrite, Row,
         Date, OptionalDate, IsToCancel
<1>5. GraceHonouredIn(s, d)
  BY <1>1, <1>2, <1>3, NullIsNoDate, DaysAssumption
     DEF RowInv, GraceHonouredIn, FailureIsAWrite, Row, Date, OptionalDate, IsToCancel
<1>6. CancelledIsClosedIn(s)
  BY <1>1, <1>2, <1>3, NullIsNoDate
     DEF RowInv, CancelledIsClosedIn, Row, Date, OptionalDate, IsToCancel
<1>7. SnapshotsFollowPlanIn(s) /\ PaidPeriodIsOneMonthIn(s)
  BY <1>1, <1>2, <1>3, NullIsNoDate
     DEF RowInv, SnapshotsFollowPlanIn, PaidPeriodIsOneMonthIn, PeriodDays,
         SubscriptionPriceAmount
<1>8. PendingIsWholeIn(s, t)
  BY <1>1, <1>2, <1>3, NullIsNoDate, NullIsNoPlan, PlansAssumption
     DEF RowInv, PendingIsWholeIn, ActivePlanId, Row
<1>9. RowInv(s, t, d)
  BY <1>2, <1>4, <1>5, <1>6, <1>7, <1>8 DEF RowInv
<1> QED
  BY <1>9 DEF s

(* A day passes: dates in the past stay in the past. *)
LEMMA TickRowInv ==
    ASSUME NEW t \in Tenants, NEW d \in Nat, NEW r, RowInv(r, t, d)
    PROVE  RowInv(r, t, d + 1)
<1>1. r \in Row
  BY DEF RowInv
<1>2. FailureIsAWrite(r, d + 1)
  BY <1>1 DEF RowInv, FailureIsAWrite, Row, Date
<1>3. GraceHonouredIn(r, d + 1)
  BY <1>1, DaysAssumption DEF RowInv, GraceHonouredIn, Row, OptionalDate
<1> QED
  BY <1>1, <1>2, <1>3 DEF RowInv
(* No method but the first touches the trial's end or removes a row. *)
KeepsTrial(r, s) ==
    /\ s.trialEndsAt = r.trialEndsAt
    /\ r.status # "none" => s.status # "none"

LEMMA WritesKeepTrial ==
    ASSUME NEW r \in Row, NEW d \in Nat, NEW p, NEW e, NEW c, NEW a
    PROVE  /\ KeepsTrial(r, PendingRow(r, p, e, d))
           /\ KeepsTrial(r, DowngradedRow(r, d))
           /\ KeepsTrial(r, CancelRequestedRow(r, d))
           /\ KeepsTrial(r, ActivatedRow(r, c, a, d))
           /\ KeepsTrial(r, PaymentFailedRow(r, d))
           /\ KeepsTrial(r, PastDueRow(r, d))
           /\ KeepsTrial(r, SuspendedRow(r, d))
           /\ KeepsTrial(r, ExpiredRow(r, d))
           /\ KeepsTrial(r, CancelledRow(r, d))
<1>1. KeepsTrial(r, PendingRow(r, p, e, d))
  BY DEF KeepsTrial, PendingRow, Row
<1>2. KeepsTrial(r, DowngradedRow(r, d))
  BY DEF KeepsTrial, DowngradedRow, Row
<1>3. KeepsTrial(r, CancelRequestedRow(r, d))
  BY DEF KeepsTrial, CancelRequestedRow, Row
<1>4. KeepsTrial(r, ActivatedRow(r, c, a, d))
  BY DEF KeepsTrial, ActivatedRow, Row
<1>5. KeepsTrial(r, PaymentFailedRow(r, d))
  BY DEF KeepsTrial, PaymentFailedRow, Row
<1>6. KeepsTrial(r, PastDueRow(r, d)) /\ KeepsTrial(r, SuspendedRow(r, d))
  BY DEF KeepsTrial, PastDueRow, SuspendedRow, Row
<1>7. KeepsTrial(r, ExpiredRow(r, d)) /\ KeepsTrial(r, CancelledRow(r, d))
  BY DEF KeepsTrial, ExpiredRow, CancelledRow, Row
<1> QED
  BY <1>1, <1>2, <1>3, <1>4, <1>5, <1>6, <1>7

-----------------------------------------------------------------------------
(* From rows to the table. *)

LEMMA OneRowStep ==
    ASSUME IInv, NEW t \in Tenants, NEW s, RowInv(s, t, now),
           sub' = [sub EXCEPT ![t] = s], UNCHANGED now
    PROVE  /\ sub' \in [Tenants -> Row]
           /\ \A u \in Tenants : RowInv(sub'[u], u, now')
<1>1. sub \in [Tenants -> Row] /\ s \in Row
  BY DEF IInv, TypeOK, RowInv
<1>2. sub' \in [Tenants -> Row]
  BY <1>1
<1>3. ASSUME NEW u \in Tenants
      PROVE  RowInv(sub'[u], u, now')
  <2>1. CASE u = t
    BY <1>1, <2>1
  <2>2. CASE u # t
    BY <1>1, <2>2 DEF IInv
  <2> QED
    BY <2>1, <2>2
<1> QED
  BY <1>2, <1>3

(* A step that writes rows by methods that keep the trial, and adds neither a *)
(* trial_expired event nor a tenant about to get one, keeps TrialLogInv.      *)
LEMMA TrialLogKept ==
    ASSUME IInv, sub' \in [Tenants -> Row],
           \A u \in Tenants : KeepsTrial(sub[u], sub'[u]),
           \A u \in Tenants : <<u, "trial_expired">> \in events'
                              => \/ <<u, "trial_expired">> \in events
                                 \/ stage = "trialEvents" /\ u \in found,
           \A u \in Tenants : stage' = "trialEvents" /\ u \in found'
                              => stage = "trialEvents" /\ u \in found,
           now' \in Nat, now <= now'
    PROVE  TrialLogInv'
<1> SUFFICES ASSUME NEW u \in Tenants,
                    \/ <<u, "trial_expired">> \in events'
                    \/ stage' = "trialEvents" /\ u \in found'
             PROVE  /\ sub'[u].status # "none"
                    /\ sub'[u].trialEndsAt # Null
                    /\ sub'[u].trialEndsAt <= now'
  BY DEF TrialLogInv, Exists
<1>1. /\ sub[u].status # "none"
      /\ sub[u].trialEndsAt # Null
      /\ sub[u].trialEndsAt <= now
  BY DEF IInv, TrialLogInv, Exists
<1>2. sub[u].trialEndsAt \in Nat /\ now \in Nat
  BY <1>1 DEF IInv, TypeOK, Row, OptionalDate
<1> QED
  BY <1>1, <1>2 DEF KeepsTrial

LEMMA InitInv == Init => IInv
BY NoRowType, NoRowInv, BoundsAssumption
   DEF Init, IInv, TypeOK, TrialLogInv, UniqueReports, Stages
-----------------------------------------------------------------------------
(* Every step keeps the invariant: one lemma per kind of action. *)

LEMMA TenantRequestInv ==
    ASSUME IInv, NEW t \in Tenants, TenantRequest(t)
    PROVE  IInv'
<1>0. /\ sub[t] \in Row /\ now \in Nat /\ RowInv(sub[t], t, now)
      /\ sub \in [Tenants -> Row]
  BY BoundsAssumption DEF IInv, TypeOK
<1>1. CASE StartTrialForNewUser(t)
  <2>1. /\ sub' = [sub EXCEPT ![t] = TrialRow(now)]
        /\ UNCHANGED <<now, payments, events, stage, found, due, aborts>>
    BY <1>1 DEF StartTrialForNewUser, lifecycle
  <2>2. /\ sub' \in [Tenants -> Row]
        /\ \A u \in Tenants : RowInv(sub'[u], u, now')
    BY <1>0, <2>1, TrialRowInv, OneRowStep
  <2>3. TypeOK'
    BY <2>1, <2>2 DEF IInv, TypeOK
  <2>4. ASSUME NEW u \in Tenants,
               \/ <<u, "trial_expired">> \in events'
               \/ stage' = "trialEvents" /\ u \in found'
        PROVE  u # t
    BY <1>1, <2>1, <2>4 DEF IInv, TrialLogInv, StartTrialForNewUser, Exists
  <2>5. TrialLogInv'
    BY <1>0, <2>1, <2>4 DEF IInv, TrialLogInv, Exists
  <2>6. UniqueReports'
    BY <2>1 DEF IInv, UniqueReports
  <2> QED
    BY <2>2, <2>3, <2>5, <2>6 DEF IInv
<1>2. ASSUME NEW s, RowInv(s, t, now), KeepsTrial(sub[t], s),
             sub' = [sub EXCEPT ![t] = s],
             UNCHANGED <<now, payments, stage, found, due, aborts>>,
             events' \in {events, events \cup {<<t, "cancelled">>}}
      PROVE  IInv'
  <2>1. /\ sub' \in [Tenants -> Row]
        /\ \A u \in Tenants : RowInv(sub'[u], u, now')
    BY <1>2, OneRowStep
  <2>2. TypeOK'
    BY <1>2, <2>1 DEF IInv, TypeOK, LoggedTypes
  <2>3. \A u \in Tenants : KeepsTrial(sub[u], sub'[u])
    BY <1>0, <1>2 DEF KeepsTrial
  <2>4. TrialLogInv'
    BY <1>0, <1>2, <2>1, <2>3, TrialLogKept
  <2>5. UniqueReports'
    BY <1>2 DEF IInv, UniqueReports
  <2> QED
    BY <2>1, <2>2, <2>4, <2>5 DEF IInv
<1>3. ASSUME NEW p \in Plans, NEW cycle \in Cycles,
             RequestUpgradeToPaidPlan(t, p, cycle)
      PROVE  IInv'
  <2>1. RowInv(PendingRow(sub[t], p, now, now), t, now)
    BY <1>0, <1>3, PendingRowInv DEF RequestUpgradeToPaidPlan, PlanAvailable
  <2> QED
    BY <1>0, <1>2, <1>3, <2>1, WritesKeepTrial
       DEF RequestUpgradeToPaidPlan, lifecycle
<1>4. ASSUME NEW p \in Plans, ScheduleDowngrade(t, p)
      PROVE  IInv'
  <2>1. sub[t].currentPeriodEnd \in Nat
    BY <1>0 DEF Row, Date
  <2>2. RowInv(PendingRow(sub[t], p, sub[t].currentPeriodEnd, now), t, now)
    BY <1>0, <1>4, <2>1, PendingRowInv DEF ScheduleDowngrade, PlanAvailable
  <2> QED
    BY <1>0, <1>2, <1>4, <2>2, WritesKeepTrial DEF ScheduleDowngrade, lifecycle
<1>5. CASE CancelSubscription(t)
  <2>1. RowInv(CancelRequestedRow(sub[t], now), t, now)
    BY <1>0, <1>5, CancelRequestedRowInv DEF CancelSubscription
  <2> QED
    BY <1>0, <1>2, <1>5, <2>1, WritesKeepTrial DEF CancelSubscription
<1> QED
  BY <1>1, <1>3, <1>4, <1>5 DEF TenantRequest

LEMMA PaymentReportInv ==
    ASSUME IInv, NEW t \in Tenants, PaymentReport(t)
    PROVE  IInv'
<1>0. /\ sub[t] \in Row /\ now \in Nat /\ RowInv(sub[t], t, now)
      /\ sub \in [Tenants -> Row]
  BY BoundsAssumption DEF IInv, TypeOK
<1>1. ASSUME NEW s, RowInv(s, t, now), KeepsTrial(sub[t], s),
             sub' = [sub EXCEPT ![t] = s],
             NEW e \in Charges, ~IsRecorded(e),
             NEW status \in {"succeeded", "failed"},
             payments' = payments \cup
                 {[event |-> e, tenant |-> t, status |-> status]},
             UNCHANGED <<now, events, stage, found, due, aborts>>
      PROVE  IInv'
  <2>1. /\ sub' \in [Tenants -> Row]
        /\ \A u \in Tenants : RowInv(sub'[u], u, now')
    BY <1>1, OneRowStep
  <2>2. TypeOK'
    BY <1>1, <2>1 DEF IInv, TypeOK, Payment
  <2>3. \A u \in Tenants : KeepsTrial(sub[u], sub'[u])
    BY <1>0, <1>1 DEF KeepsTrial
  <2>4. TrialLogInv'
    BY <1>0, <1>1, <2>1, <2>3, TrialLogKept
  <2>5. UniqueReports'
    BY <1>1 DEF IInv, UniqueReports, IsRecorded
  <2> QED
    BY <2>1, <2>2, <2>4, <2>5 DEF IInv
<1>2. ASSUME NEW e \in Charges, NEW a \in Agreements,
             ActivateAfterSuccessfulPayment(t, e, sub[t].billingCycle, a)
      PROVE  IInv'
  <2>1. RowInv(ActivatedRow(sub[t], sub[t].billingCycle, a, now), t, now)
    BY <1>0, ActivatedRowInv
  <2> QED
    BY <1>0, <1>1, <1>2, <2>1, WritesKeepTrial
       DEF ActivateAfterSuccessfulPayment, lifecycle
<1>3. ASSUME NEW e \in Charges, MarkPaymentFailed(t, e)
      PROVE  IInv'
  <2>1. RowInv(PaymentFailedRow(sub[t], now), t, now)
    BY <1>0, <1>3, PaymentFailedRowInv DEF MarkPaymentFailed
  <2> QED
    BY <1>0, <1>1, <1>3, <2>1, WritesKeepTrial DEF MarkPaymentFailed, lifecycle
<1> QED
  BY <1>2, <1>3 DEF PaymentReport

LEMMA DowngradeJobInv ==
    ASSUME IInv, DowngradeJob
    PROVE  IInv'
<1>0. now \in Nat /\ sub \in [Tenants -> Row]
  BY BoundsAssumption DEF IInv, TypeOK
<1>1. ASSUME UNCHANGED <<now, sub, payments, events, stage, found, aborts>>,
             due' \subseteq Tenants
      PROVE  IInv'
  BY <1>1 DEF IInv, TypeOK, TrialLogInv, UniqueReports, Exists
<1>2. CASE FindDueDowngrades
  BY <1>1, <1>2 DEF FindDueDowngrades, rows, lifecycle
<1>3. ASSUME NEW t \in Tenants, SkipDowngrade(t)
      PROVE  IInv'
  BY <1>1, <1>3 DEF SkipDowngrade, rows, lifecycle, IInv, TypeOK
<1>4. ASSUME NEW t \in Tenants, ApplyScheduledDowngrade(t)
      PROVE  IInv'
  <2>1. /\ UNCHANGED <<now, payments, events, stage, found, aborts>>
        /\ due' \subseteq Tenants
    BY <1>4 DEF ApplyScheduledDowngrade, lifecycle, IInv, TypeOK
  <2>2. CASE sub[t].pendingPlanId = Null
    BY <1>1, <1>4, <2>1, <2>2 DEF ApplyScheduledDowngrade
  <2>3. CASE sub[t].pendingPlanId # Null
    <3>1. sub' = [sub EXCEPT ![t] = DowngradedRow(sub[t], now)]
      BY <1>4, <2>3 DEF ApplyScheduledDowngrade
    <3>2. RowInv(DowngradedRow(sub[t], now), t, now)
      BY <1>0, <2>3, DowngradedRowInv DEF IInv
    <3>3. /\ sub' \in [Tenants -> Row]
          /\ \A u \in Tenants : RowInv(sub'[u], u, now')
      BY <2>1, <3>1, <3>2, OneRowStep
    <3>4. TypeOK'
      BY <2>1, <3>3 DEF IInv, TypeOK
    <3>5. KeepsTrial(sub[t], DowngradedRow(sub[t], now))
      BY <1>0, WritesKeepTrial
    <3>6. \A u \in Tenants : KeepsTrial(sub[u], sub'[u])
      BY <1>0, <3>1, <3>5 DEF KeepsTrial
    <3>7. TrialLogInv'
      BY <1>0, <2>1, <3>3, <3>6, TrialLogKept
    <3>8. UniqueReports'
      BY <2>1 DEF IInv, UniqueReports
    <3> QED
      BY <3>3, <3>4, <3>7, <3>8 DEF IInv
  <2> QED
    BY <2>2, <2>3
<1> QED
  BY <1>2, <1>3, <1>4 DEF DowngradeJob
(* The three updateManyAndReturn: every row is kept or written by one method. *)
LEMMA ManyRowsStep ==
    ASSUME IInv, sub' \in [Tenants -> Row], UNCHANGED <<now, payments>>,
           \A u \in Tenants : RowInv(sub'[u], u, now),
           \A u \in Tenants : KeepsTrial(sub[u], sub'[u]),
           UNCHANGED <<events, due, aborts>>,
           stage' \in Stages \ {"trialEvents"}, found' \subseteq Tenants
    PROVE  IInv'
<1>1. TypeOK'
  BY DEF IInv, TypeOK
<1>2. now \in Nat
  BY BoundsAssumption DEF IInv, TypeOK
<1>3. TrialLogInv'
  BY <1>2, TrialLogKept
<1>4. UniqueReports'
  BY DEF IInv, UniqueReports
<1> QED
  BY <1>1, <1>3, <1>4 DEF IInv

LEMMA LifecycleJobInv ==
    ASSUME IInv, LifecycleJob
    PROVE  IInv'
<1>0. now \in Nat /\ sub \in [Tenants -> Row]
  BY BoundsAssumption DEF IInv, TypeOK
<1>1. \A u \in Tenants : KeepsTrial(sub[u], sub[u]) /\ RowInv(sub[u], u, now)
  BY DEF KeepsTrial, IInv
<1>2. CASE FindExpiredTrials
  <2>1. TypeOK'
    BY <1>2 DEF FindExpiredTrials, rows, IInv, TypeOK, Stages
  <2>2. ASSUME NEW u \in Tenants, IsTrialOver(sub[u], now)
        PROVE  Exists(u) /\ sub[u].trialEndsAt # Null
    BY <1>0, <2>2 DEF IsTrialOver, Exists, IInv, RowInv, TrialIsUntouchedIn
  <2>3. TrialLogInv'
    BY <1>2, <2>2
       DEF FindExpiredTrials, rows, IInv, TrialLogInv, Exists, IsTrialOver
  <2>4. UniqueReports' /\ \A u \in Tenants : RowInv(sub'[u], u, now')
    BY <1>2 DEF FindExpiredTrials, rows, IInv, UniqueReports
  <2> QED
    BY <2>1, <2>3, <2>4 DEF IInv
<1>3. CASE MovePastDueSubscriptions
  <2>1. ASSUME NEW u \in Tenants
        PROVE  /\ sub'[u] \in Row
               /\ RowInv(sub'[u], u, now)
               /\ KeepsTrial(sub[u], sub'[u])
    <3>1. CASE IsPastDue(sub[u], now)
      BY <1>0, <1>1, <1>3, <3>1, PastDueRowInv, PastDueRowType, WritesKeepTrial
         DEF MovePastDueSubscriptions
    <3>2. CASE ~IsPastDue(sub[u], now)
      BY <1>0, <1>1, <1>3, <3>2 DEF MovePastDueSubscriptions
    <3> QED
      BY <3>1, <3>2
  <2>2. sub' \in [Tenants -> Row]
    BY <1>3, <2>1 DEF MovePastDueSubscriptions
  <2> QED
    BY <1>3, <2>1, <2>2, ManyRowsStep DEF MovePastDueSubscriptions, Stages
<1>4. CASE MoveSuspendedSubscriptions
  <2>1. ASSUME NEW u \in Tenants
        PROVE  /\ sub'[u] \in Row
               /\ RowInv(sub'[u], u, now)
               /\ KeepsTrial(sub[u], sub'[u])
    <3>1. CASE IsToSuspend(sub[u], now)
      BY <1>0, <1>1, <1>4, <3>1, SuspendedRowInv, SuspendedRowType,
         WritesKeepTrial DEF MoveSuspendedSubscriptions
    <3>2. CASE ~IsToSuspend(sub[u], now)
      BY <1>0, <1>1, <1>4, <3>2 DEF MoveSuspendedSubscriptions
    <3> QED
      BY <3>1, <3>2
  <2>2. sub' \in [Tenants -> Row]
    BY <1>4, <2>1 DEF MoveSuspendedSubscriptions
  <2> QED
    BY <1>4, <2>1, <2>2, ManyRowsStep DEF MoveSuspendedSubscriptions, Stages
<1>5. CASE FindExpiredSubscriptions
  BY <1>0, <1>1, <1>5, ManyRowsStep DEF FindExpiredSubscriptions, rows, Stages
<1>6. ASSUME NEW t \in Tenants, ExpireSubscription(t)
      PROVE  IInv'
  <2>1. RowInv(ExpiredRow(sub[t], now), t, now)
    BY <1>0, <1>1, ExpiredRowInv
  <2>2. KeepsTrial(sub[t], ExpiredRow(sub[t], now))
    BY <1>0, WritesKeepTrial
  <2>3. /\ sub' \in [Tenants -> Row]
        /\ \A u \in Tenants : RowInv(sub'[u], u, now)
    BY <1>6, <2>1, OneRowStep DEF ExpireSubscription
  <2>4. \A u \in Tenants : KeepsTrial(sub[u], sub'[u])
    BY <1>0, <1>1, <1>6, <2>2 DEF ExpireSubscription
  <2>5. stage' \in Stages \ {"trialEvents"} /\ found' \subseteq Tenants
    BY <1>6 DEF ExpireSubscription, Stages, IInv, TypeOK
  <2> QED
    BY <1>6, <2>3, <2>4, <2>5, ManyRowsStep DEF ExpireSubscription
<1>7. CASE MoveCancelledSubscriptions
  <2>1. ASSUME NEW u \in Tenants
        PROVE  /\ sub'[u] \in Row
               /\ RowInv(sub'[u], u, now)
               /\ KeepsTrial(sub[u], sub'[u])
    <3>1. CASE IsToCancel(sub[u], now)
      BY <1>0, <1>1, <1>7, <3>1, CancelledRowInv, CancelledRowType,
         WritesKeepTrial DEF MoveCancelledSubscriptions
    <3>2. CASE ~IsToCancel(sub[u], now)
      BY <1>0, <1>1, <1>7, <3>2 DEF MoveCancelledSubscriptions
    <3> QED
      BY <3>1, <3>2
  <2>2. sub' \in [Tenants -> Row]
    BY <1>7, <2>1 DEF MoveCancelledSubscriptions
  <2> QED
    BY <1>7, <2>1, <2>2, ManyRowsStep DEF MoveCancelledSubscriptions, Stages
<1>8. CASE RecordEvents
  <2>1. /\ LogStep[stage].type \in LoggedTypes
        /\ LogStep[stage].next \in Stages \ {"trialEvents"}
        /\ LogStep[stage].type = "trial_expired" => stage = "trialEvents"
    BY <1>8 DEF RecordEvents, LogStep, LoggedTypes, Stages
  <2>2. /\ UNCHANGED <<now, sub, payments, due, aborts>>
        /\ events' = events \cup (found \X {LogStep[stage].type})
        /\ found' = {} /\ stage' = LogStep[stage].next
    BY <1>8 DEF RecordEvents, rows
  <2>3. TypeOK'
    BY <2>1, <2>2 DEF IInv, TypeOK
  <2>4. TrialLogInv'
    BY <1>0, <1>1, <2>1, <2>2, TrialLogKept
  <2>5. UniqueReports' /\ \A u \in Tenants : RowInv(sub'[u], u, now')
    BY <2>2 DEF IInv, UniqueReports
  <2> QED
    BY <2>3, <2>4, <2>5 DEF IInv
<1> QED
  BY <1>2, <1>3, <1>4, <1>5, <1>6, <1>7, <1>8 DEF LifecycleJob

LEMMA AbortInv ==
    ASSUME IInv, AbortLifecycleRules
    PROVE  IInv'
<1>1. TypeOK'
  BY BoundsAssumption DEF AbortLifecycleRules, rows, IInv, TypeOK, Stages
<1>2. TrialLogInv' /\ UniqueReports' /\ \A u \in Tenants : RowInv(sub'[u], u, now')
  BY DEF AbortLifecycleRules, rows, IInv, TrialLogInv, UniqueReports, Exists
<1> QED
  BY <1>1, <1>2 DEF IInv

LEMMA TickInv ==
    ASSUME IInv, Tick
    PROVE  IInv'
<1>1. now \in Nat /\ now' = now + 1 /\ sub \in [Tenants -> Row]
  BY BoundsAssumption DEF Tick, IInv, TypeOK
<1>2. TypeOK'
  BY BoundsAssumption DEF Tick, rows, lifecycle, IInv, TypeOK
<1>3. \A u \in Tenants : RowInv(sub'[u], u, now')
  BY <1>1, TickRowInv DEF Tick, rows, IInv
<1>4. \A u \in Tenants : KeepsTrial(sub[u], sub'[u])
  BY DEF Tick, rows, KeepsTrial
<1>5. TrialLogInv'
  BY <1>1, <1>2, <1>4, TrialLogKept DEF Tick, lifecycle, TypeOK
<1>6. UniqueReports'
  BY DEF Tick, rows, IInv, UniqueReports
<1> QED
  BY <1>2, <1>3, <1>5, <1>6 DEF IInv

LEMMA NextInv == IInv /\ [Next]_vars => IInv'
<1> SUFFICES ASSUME IInv, [Next]_vars PROVE IInv'
  OBVIOUS
<1>1. CASE Tick
  BY <1>1, TickInv
<1>2. ASSUME NEW t \in Tenants, TenantRequest(t) PROVE IInv'
  BY <1>2, TenantRequestInv
<1>3. ASSUME NEW t \in Tenants, PaymentReport(t) PROVE IInv'
  BY <1>3, PaymentReportInv
<1>4. CASE DowngradeJob
  BY <1>4, DowngradeJobInv
<1>5. CASE LifecycleJob
  BY <1>5, LifecycleJobInv
<1>6. CASE AbortLifecycleRules
  BY <1>6, AbortInv
<1>7. CASE UNCHANGED vars
  BY <1>7 DEF vars, IInv, TypeOK, TrialLogInv, UniqueReports, Exists
<1> QED
  BY <1>1, <1>2, <1>3, <1>4, <1>5, <1>6, <1>7 DEF Next

-----------------------------------------------------------------------------
(* The theorems. *)

(* The strengthened invariant holds for every value of the constants: the     *)
(* base of all that follows.                                                  *)
THEOREM Invariant == Spec => []IInv
BY InitInv, NextInv, PTL DEF Spec

(* Every column keeps its type, whatever the tenants, the gateway and the     *)
(* jobs do to the row.                                                        *)
THEOREM TypeCorrect == Spec => []TypeOK
<1>1. IInv => TypeOK
  BY DEF IInv
<1> QED
  BY <1>1, Invariant, PTL

(* retryCount never passes the limit and is positive exactly while a failed   *)
(* payment is outstanding (markPaymentFailed, activateAfterSuccessfulPayment).*)
THEOREM FailuresAreAccounted == Spec => []FailuresAccounted
<1>1. IInv => FailuresAccounted
  BY DEF IInv, RowInv, FailuresAccounted
<1> QED
  BY <1>1, Invariant, PTL

(* Nobody is moved to past_due or suspended before the days of grace after    *)
(* the latest failed payment are over, for windows of any length.             *)
THEOREM GraceIsHonoured == Spec => []GraceHonoured
<1>1. IInv => GraceHonoured
  BY DEF IInv, RowInv, GraceHonoured
<1> QED
  BY <1>1, Invariant, PTL

(* A cancelled subscription was asked to end, kept its period and is not      *)
(* billed again.                                                              *)
THEOREM CancelledStaysClosed == Spec => []CancelledIsClosed
<1>1. IInv => CancelledIsClosed
  BY DEF IInv, RowInv, CancelledIsClosed
<1> QED
  BY <1>1, Invariant, PTL

(* Price and quota snapshots are always those of the plan in force.           *)
THEOREM SnapshotsAreFresh == Spec => []SnapshotsFollowPlan
<1>1. IInv => SnapshotsFollowPlan
  BY DEF IInv, RowInv, SnapshotsFollowPlan
<1> QED
  BY <1>1, Invariant, PTL

(* No subscription is ever yearly: every captured payment buys MonthDays.     *)
THEOREM NobodyIsYearly == Spec => []PaidPeriodIsOneMonth
<1>1. IInv => PaidPeriodIsOneMonth
  BY DEF IInv, RowInv, PaidPeriodIsOneMonth
<1> QED
  BY <1>1, Invariant, PTL

(* No tenant is on, or waits for, the enterprise plan of another.             *)
THEOREM PlansStayPrivate == Spec => []OnlyOwnPlans
<1>1. IInv => OnlyOwnPlans
  BY DEF IInv, RowInv, OnlyOwnPlans
<1> QED
  BY <1>1, Invariant, PTL

(* trial_expired is never logged early, and a trial is untouched until its    *)
(* first payment report.                                                      *)
THEOREM TrialsAreUntouched == Spec => []TrialIsUntouched
<1>1. IInv => TrialIsUntouched
  BY DEF IInv, RowInv, TrialLogInv, TrialIsUntouched, TrialIsUntouchedIn
<1> QED
  BY <1>1, Invariant, PTL

(* No payment is ever deleted. *)
LEMMA PaymentsGrow == [Next]_vars => payments \subseteq payments'
<1> SUFFICES ASSUME [Next]_vars PROVE payments \subseteq payments'
  OBVIOUS
<1>1. ASSUME NEW t \in Tenants, PaymentReport(t) PROVE payments \subseteq payments'
  BY <1>1 DEF PaymentReport, ActivateAfterSuccessfulPayment, MarkPaymentFailed
<1>2. ASSUME NEW t \in Tenants, TenantRequest(t) PROVE payments' = payments
  BY <1>2 DEF TenantRequest, StartTrialForNewUser, RequestUpgradeToPaidPlan,
              ScheduleDowngrade, CancelSubscription
<1>3. CASE DowngradeJob
  BY <1>3 DEF DowngradeJob, FindDueDowngrades, ApplyScheduledDowngrade,
              SkipDowngrade, rows
<1>4. CASE LifecycleJob
  BY <1>4 DEF LifecycleJob, FindExpiredTrials, MovePastDueSubscriptions,
              MoveSuspendedSubscriptions, FindExpiredSubscriptions,
              ExpireSubscription, MoveCancelledSubscriptions, RecordEvents, rows
<1>5. CASE Tick \/ AbortLifecycleRules \/ UNCHANGED vars
  BY <1>5 DEF Tick, AbortLifecycleRules, vars, rows
<1> QED
  BY <1>1, <1>2, <1>3, <1>4, <1>5 DEF Next

(* What is recorded of a charge is never changed nor contradicted.            *)
THEOREM ReportsStayFinal == Spec => ReportsAreFinal
<1>1. IInv /\ IInv' /\ [Next]_vars => [ReportsKept]_vars
  BY PaymentsGrow DEF IInv, UniqueReports, ReportsKept
<1> QED
  BY <1>1, Invariant, PTL DEF Spec, ReportsAreFinal

-----------------------------------------------------------------------------
(* The action properties.  Every write but those of a trial and of a payment  *)
(* report is quiet: it leaves the columns of the ledger alone and reopens     *)
(* nothing.                                                                   *)

Kept(r, s) ==
    /\ s.currentPeriodEnd = r.currentPeriodEnd
    /\ s.trialEndsAt = r.trialEndsAt
    /\ s.lastBillingAt = r.lastBillingAt
    /\ s.tapPaymentAgreementId = r.tapPaymentAgreementId
    /\ r.cancelAtPeriodEnd => s.cancelAtPeriodEnd
    /\ r.status # "none" => s.status # "none"

PlanKept(r, s) ==
    \/ s.planId = r.planId
    \/ s.planId = r.pendingPlanId /\ s.pendingPlanId = Null

Quiet(r, s) ==
    /\ Kept(r, s)
    /\ PlanKept(r, s)
    /\ s.retryCount = r.retryCount
    /\ s.pastDueAt = r.pastDueAt
    /\ s.status \in {r.status, "past_due", "suspended", "expired", "cancelled"}
    /\ s.status = "past_due" => r.status \in {"active", "past_due"}
    /\ s.status = "cancelled" => r.status \in {"active", "past_due", "cancelled"}

Failing(r, s) ==
    /\ Kept(r, s)
    /\ s.status = "active"
    /\ s.planId = r.planId
    /\ s.retryCount = r.retryCount + 1

Capturing(r, s) ==
    /\ PlanKept(r, s)
    /\ s.lastBillingAt # Null
    /\ s.retryCount = 0
    /\ s.status = "active"

LEMMA QuietWrites ==
    ASSUME NEW r \in Row, NEW d \in Nat, NEW p, NEW e, NEW c, NEW a
    PROVE  /\ Quiet(r, r)
           /\ Quiet(r, PendingRow(r, p, e, d))
           /\ Quiet(r, DowngradedRow(r, d))
           /\ Quiet(r, CancelRequestedRow(r, d))
           /\ r.status = "active" => Quiet(r, PastDueRow(r, d))
           /\ Quiet(r, SuspendedRow(r, d))
           /\ Quiet(r, ExpiredRow(r, d))
           /\ r.status \in {"active", "past_due"} => Quiet(r, CancelledRow(r, d))
           /\ Failing(r, PaymentFailedRow(r, d))
           /\ Capturing(r, ActivatedRow(r, c, a, d))
<1>0. r.retryCount \in Nat /\ r.cancelAtPeriodEnd \in BOOLEAN
  BY DEF Row
<1>1. Quiet(r, r)
  BY <1>0 DEF Quiet, Kept, PlanKept
<1>2. Quiet(r, PendingRow(r, p, e, d))
  BY <1>0 DEF Quiet, Kept, PlanKept, PendingRow, Row
<1>3. Quiet(r, DowngradedRow(r, d))
  BY <1>0 DEF Quiet, Kept, PlanKept, DowngradedRow, Row
<1>4. Quiet(r, CancelRequestedRow(r, d))
  BY <1>0 DEF Quiet, Kept, PlanKept, CancelRequestedRow, Row
<1>5. /\ r.status = "active" => Quiet(r, PastDueRow(r, d))
      /\ Quiet(r, SuspendedRow(r, d))
  BY <1>0 DEF Quiet, Kept, PlanKept, PastDueRow, SuspendedRow, Row
<1>6. /\ Quiet(r, ExpiredRow(r, d))
      /\ r.status \in {"active", "past_due"} => Quiet(r, CancelledRow(r, d))
  BY <1>0 DEF Quiet, Kept, PlanKept, ExpiredRow, CancelledRow, Row
<1>7. Failing(r, PaymentFailedRow(r, d))
  BY <1>0 DEF Failing, Kept, PaymentFailedRow, Row
<1>8. Capturing(r, ActivatedRow(r, c, a, d))
  BY <1>0, NullIsNoDate DEF Capturing, PlanKept, ActivatedRow, ActivePlanId, Row
<1> QED
  BY <1>1, <1>2, <1>3, <1>4, <1>5, <1>6, <1>7, <1>8

QuietStep ==
    /\ payments' = payments
    /\ \A t \in Tenants : Quiet(sub[t], sub'[t])

(* A step is quiet, starts a trial, or handles a report of the gateway. *)
LEMMA StepKinds ==
    ASSUME IInv, [Next]_vars
    PROVE  \/ QuietStep
           \/ \E t \in Tenants : StartTrialForNewUser(t)
           \/ \E t \in Tenants : PaymentReport(t)
<1>0. /\ sub \in [Tenants -> Row] /\ now \in Nat
      /\ \A u \in Tenants : sub[u] \in Row
  BY BoundsAssumption DEF IInv, TypeOK
<1>1. ASSUME UNCHANGED <<sub, payments>> PROVE QuietStep
  BY <1>0, <1>1, QuietWrites DEF QuietStep
<1>2. ASSUME NEW u \in Tenants, NEW s, sub' = [sub EXCEPT ![u] = s],
             Quiet(sub[u], s), payments' = payments
      PROVE  QuietStep
  BY <1>0, <1>2, QuietWrites DEF QuietStep
<1>3. ASSUME NEW u \in Tenants, NEW p \in Plans, NEW c \in Cycles,
             RequestUpgradeToPaidPlan(u, p, c)
      PROVE  QuietStep
  BY <1>0, <1>2, <1>3, QuietWrites DEF RequestUpgradeToPaidPlan
<1>4. ASSUME NEW u \in Tenants, NEW p \in Plans, ScheduleDowngrade(u, p)
      PROVE  QuietStep
  BY <1>0, <1>2, <1>4, QuietWrites DEF ScheduleDowngrade
<1>5. ASSUME NEW u \in Tenants, CancelSubscription(u)
      PROVE  QuietStep
  BY <1>0, <1>2, <1>5, QuietWrites DEF CancelSubscription
<1>6. ASSUME NEW u \in Tenants, ApplyScheduledDowngrade(u)
      PROVE  QuietStep
  BY <1>0, <1>1, <1>2, <1>6, QuietWrites DEF ApplyScheduledDowngrade
<1>7. ASSUME NEW u \in Tenants, ExpireSubscription(u)
      PROVE  QuietStep
  BY <1>0, <1>2, <1>7, QuietWrites DEF ExpireSubscription
<1>8. CASE MovePastDueSubscriptions
  BY <1>0, <1>8, QuietWrites DEF MovePastDueSubscriptions, IsPastDue, QuietStep
<1>9. CASE MoveSuspendedSubscriptions
  BY <1>0, <1>9, QuietWrites DEF MoveSuspendedSubscriptions, QuietStep
<1>10. CASE MoveCancelledSubscriptions
  BY <1>0, <1>10, QuietWrites
     DEF MoveCancelledSubscriptions, IsToCancel, QuietStep
<1>11. CASE Tick \/ AbortLifecycleRules \/ FindDueDowngrades
            \/ (\E u \in Tenants : SkipDowngrade(u)) \/ FindExpiredTrials
            \/ FindExpiredSubscriptions \/ RecordEvents \/ UNCHANGED vars
  BY <1>1, <1>11 DEF Tick, AbortLifecycleRules, FindDueDowngrades,
     SkipDowngrade, FindExpiredTrials, FindExpiredSubscriptions, RecordEvents,
     rows, vars
<1> QED
  BY <1>3, <1>4, <1>5, <1>6, <1>7, <1>8, <1>9, <1>10, <1>11
     DEF Next, TenantRequest, DowngradeJob, LifecycleJob

(* What a report does to the row of its tenant. *)
LEMMA ReportKinds ==
    ASSUME IInv, NEW u \in Tenants, PaymentReport(u), NEW t \in Tenants
    PROVE  \/ Quiet(sub[t], sub'[t])
           \/ NewPayment(t, {"succeeded"}) /\ Capturing(sub[t], sub'[t])
           \/ NewPayment(t, {"failed"}) /\ Failing(sub[t], sub'[t])
<1>0. /\ sub \in [Tenants -> Row] /\ now \in Nat
      /\ \A v \in Tenants : sub[v] \in Row
  BY BoundsAssumption DEF IInv, TypeOK
<1>1. CASE u # t
  BY <1>0, <1>1, QuietWrites
     DEF PaymentReport, ActivateAfterSuccessfulPayment, MarkPaymentFailed
<1>2. ASSUME u = t, NEW e \in Charges, NEW a \in Agreements,
             ActivateAfterSuccessfulPayment(t, e, sub[t].billingCycle, a)
      PROVE  NewPayment(t, {"succeeded"}) /\ Capturing(sub[t], sub'[t])
  <2> DEFINE q == [event |-> e, tenant |-> t, status |-> "succeeded"]
  <2>1. q \in payments' /\ q.tenant = t /\ q.status = "succeeded"
    BY <1>2 DEF ActivateAfterSuccessfulPayment
  <2>2. q \notin payments
    BY <1>2 DEF ActivateAfterSuccessfulPayment, IsRecorded
  <2>3. sub'[t] = ActivatedRow(sub[t], sub[t].billingCycle, a, now)
    BY <1>0, <1>2 DEF ActivateAfterSuccessfulPayment
  <2> HIDE DEF q
  <2> QED
    BY <1>0, <2>1, <2>2, <2>3, QuietWrites DEF NewPayment
<1>3. ASSUME u = t, NEW e \in Charges, MarkPaymentFailed(t, e)
      PROVE  NewPayment(t, {"failed"}) /\ Failing(sub[t], sub'[t])
  <2> DEFINE q == [event |-> e, tenant |-> t, status |-> "failed"]
  <2>1. q \in payments' /\ q.tenant = t /\ q.status = "failed"
    BY <1>3 DEF MarkPaymentFailed
  <2>2. q \notin payments
    BY <1>3 DEF MarkPaymentFailed, IsRecorded
  <2>3. sub'[t] = PaymentFailedRow(sub[t], now)
    BY <1>0, <1>3 DEF MarkPaymentFailed
  <2> HIDE DEF q
  <2> QED
    BY <1>0, <2>1, <2>2, <2>3, QuietWrites DEF NewPayment
<1> QED
  BY <1>1, <1>2, <1>3 DEF PaymentReport

LEMMA RowKinds ==
    ASSUME IInv, [Next]_vars, NEW t \in Tenants, Exists(t)
    PROVE  \/ Quiet(sub[t], sub'[t])
           \/ NewPayment(t, {"succeeded"}) /\ Capturing(sub[t], sub'[t])
           \/ NewPayment(t, {"failed"}) /\ Failing(sub[t], sub'[t])
<1>1. ASSUME NEW u \in Tenants, StartTrialForNewUser(u)
      PROVE  Quiet(sub[t], sub'[t])
  BY <1>1, QuietWrites, BoundsAssumption
     DEF StartTrialForNewUser, IInv, TypeOK
<1> QED
  BY <1>1, StepKinds, ReportKinds DEF QuietStep

(* The period moves, and failures are forgiven, only in the step that records *)
(* a captured payment.                                                        *)
THEOREM PeriodsArePaidFor == Spec => PeriodMovesOnlyWithPayment
<1>1. IInv /\ [Next]_vars => [PaidStep]_vars
  <2> SUFFICES ASSUME IInv, [Next]_vars, NEW t \in Tenants, Exists(t),
                      \/ sub'[t].currentPeriodEnd # sub[t].currentPeriodEnd
                      \/ sub'[t].retryCount < sub[t].retryCount
               PROVE  NewPayment(t, {"succeeded"})
    BY DEF PaidStep
  <2>1. sub[t].retryCount \in Nat
    BY DEF IInv, TypeOK, Row
  <2> QED
    BY <2>1, RowKinds DEF Quiet, Failing, Kept
<1> QED
  BY <1>1, Invariant, PTL DEF Spec, PeriodMovesOnlyWithPayment

(* Only a new report of the gateway makes a subscription active again.        *)
THEOREM ReopeningIsReported == Spec => ReopensOnlyByNewReport
<1>1. IInv /\ [Next]_vars => [ReportedStep]_vars
  <2> SUFFICES ASSUME IInv, [Next]_vars, NEW t \in Tenants,
                      sub[t].status # "active", sub'[t].status = "active"
               PROVE  NewPayment(t, {"succeeded", "failed"})
    BY DEF ReportedStep
  <2>1. CASE Exists(t)
    BY <2>1, RowKinds DEF Quiet, NewPayment
  <2>2. CASE ~Exists(t)
    <3>1. TrialRow(now).status = "trialing"
      BY DEF TrialRow, NoRow
    <3>2. ASSUME NEW u \in Tenants, StartTrialForNewUser(u)
          PROVE  FALSE
      BY <3>1, <3>2 DEF StartTrialForNewUser, IInv, TypeOK
    <3>3. ASSUME NEW u \in Tenants, PaymentReport(u)
          PROVE  NewPayment(t, {"succeeded", "failed"})
      BY <2>2, <3>3, ReportKinds DEF Quiet, NewPayment, Exists
    <3> QED
      BY <2>2, <3>2, <3>3, StepKinds DEF QuietStep, Quiet, Exists
  <2> QED
    BY <2>1, <2>2
<1> QED
  BY <1>1, Invariant, PTL DEF Spec, ReopensOnlyByNewReport

(* A requested cancellation is withdrawn by captured charges only.            *)
THEOREM CancellationsAreKept == Spec => CancellationRevokedOnlyByPayment
<1>1. IInv /\ [Next]_vars => [CancellationStep]_vars
  BY RowKinds DEF CancellationStep, Quiet, Failing, Kept
<1> QED
  BY <1>1, Invariant, PTL DEF Spec, CancellationRevokedOnlyByPayment

(* A plan comes into force only by having been the pending one.               *)
THEOREM PlansWerePending == Spec => PlanChangesOnlyToPending
<1>1. IInv /\ [Next]_vars => [PlanStep]_vars
  BY RowKinds DEF PlanStep, Quiet, Failing, Capturing, PlanKept
<1> QED
  BY <1>1, Invariant, PTL DEF Spec, PlanChangesOnlyToPending

-----------------------------------------------------------------------------
(* The guard. *)

(* Grace after a failure at the end of the period gives no access: past_due   *)
(* is not entered before the days of grace are over, and they began when the  *)
(* period was.                                                                *)
THEOREM GraceIsNoAccess == Spec => []GraceGivesNoAccess
<1>1. IInv => GraceGivesNoAccess
  <2> SUFFICES ASSUME IInv, NEW t \in Tenants, NEW route \in Routes,
                      sub[t].status = "past_due",
                      sub[t].pastDueAt >= sub[t].currentPeriodEnd
               PROVE  ~CanActivate(t, route)
    BY DEF GraceGivesNoAccess
  <2>1. /\ sub[t] \in Row /\ now \in Nat
        /\ sub[t].pastDueAt # Null
        /\ sub[t].pastDueAt + PastDueDays <= now
    BY BoundsAssumption DEF IInv, TypeOK, RowInv, GraceHonouredIn
  <2>2. sub[t].pastDueAt \in Nat /\ sub[t].currentPeriodEnd \in Nat
    BY <2>1 DEF Row, Date, OptionalDate
  <2>3. ~(now <= sub[t].currentPeriodEnd)
    BY <2>1, <2>2, DaysAssumption
  <2> QED
    BY <2>3 DEF CanActivate, CanActivateRow
<1> QED
  BY <1>1, Invariant, PTL

LEMMA DayPassesInRows ==
    ASSUME IInv, [Next]_vars
    PROVE  now \in Nat /\ now' \in Nat /\ now <= now'
<1>0. now \in Nat
  BY BoundsAssumption DEF IInv, TypeOK
<1>1. now' = now \/ now' = now + 1
  BY DEF Next, Tick, TenantRequest, StartTrialForNewUser,
     RequestUpgradeToPaidPlan, ScheduleDowngrade, CancelSubscription,
     PaymentReport, ActivateAfterSuccessfulPayment, MarkPaymentFailed,
     DowngradeJob, FindDueDowngrades, ApplyScheduledDowngrade, SkipDowngrade,
     LifecycleJob, FindExpiredTrials, MovePastDueSubscriptions,
     MoveSuspendedSubscriptions, FindExpiredSubscriptions, ExpireSubscription,
     MoveCancelledSubscriptions, RecordEvents, AbortLifecycleRules, vars
<1> QED
  BY <1>0, <1>1

(* Lost access comes back only with a new report of the gateway, with the     *)
(* suspension (reading) or with a plan of the tenant's own (enterprise).      *)
THEOREM AccessIsReported == Spec => AccessComesBackByReport
<1>1. IInv /\ IInv' /\ [Next]_vars => [AccessStep]_vars
  <2> SUFFICES ASSUME IInv, IInv', [Next]_vars, NEW t \in Tenants,
                      NEW route \in Routes, Exists(t),
                      ~CanActivate(t, route), CanActivate(t, route)',
                      ~NewPayment(t, {"succeeded", "failed"}),
                      ~(route = "read" /\ sub'[t].status = "suspended"),
                      ~(route = "enterprise" /\ sub'[t].planId # sub[t].planId)
               PROVE  FALSE
    BY DEF AccessStep
  <2> DEFINE r == sub[t]
             s == sub'[t]
  <2>1. Quiet(r, s)
    BY RowKinds DEF NewPayment
  <2>2. /\ r \in Row /\ s \in Row
        /\ now \in Nat /\ now' \in Nat /\ now <= now'
    BY DayPassesInRows DEF IInv, TypeOK
  <2>3. /\ r.currentPeriodEnd \in Nat /\ r.trialEndsAt \in OptionalDate
        /\ s.currentPeriodEnd = r.currentPeriodEnd
        /\ s.trialEndsAt = r.trialEndsAt
    BY <2>1, <2>2 DEF Row, Date, Quiet, Kept
  <2>4. CanActivateRow(s, t, route, now')
    BY DEF CanActivate
  <2>5. s.status # "suspended"
    BY <2>4 DEF CanActivateRow, AllowedStates, Routes
  <2>6. r.status \in AllowedStates[route] /\ r.status # "none"
    BY <2>1, <2>4, <2>5 DEF Quiet, CanActivateRow, AllowedStates, Routes, Exists
  <2>7. now <= r.currentPeriodEnd
    BY <2>2, <2>3, <2>4, <2>5 DEF CanActivateRow
  <2>8. Owner[r.planId] \in {Null, t}
    BY DEF IInv, RowInv, PendingIsWholeIn
  <2>9. RequireOwnEnterprisePlan(route) => Owner[r.planId] = t
    BY <2>4 DEF CanActivateRow, RequireOwnEnterprisePlan
  <2>10. r.status = "trialing" /\ r.trialEndsAt # Null => now <= r.trialEndsAt
    <3> SUFFICES ASSUME r.status = "trialing", r.trialEndsAt # Null
                 PROVE  now <= r.trialEndsAt
      OBVIOUS
    <3>1. s.status = "trialing"
      BY <2>1, <2>4, <2>5 DEF Quiet, CanActivateRow, AllowedStates, Routes
    <3>2. now' <= s.trialEndsAt
      BY <2>3, <2>4, <3>1 DEF CanActivateRow
    <3> QED
      BY <2>2, <2>3, <3>2 DEF OptionalDate
  <2> QED
    BY <2>6, <2>7, <2>8, <2>9, <2>10 DEF CanActivate, CanActivateRow
<1> QED
  BY <1>1, Invariant, PTL DEF Spec, AccessComesBackByReport

-----------------------------------------------------------------------------
(* The ledger.  The mapped variables, and what a step does to them. *)

opened == {t \in Tenants : Exists(t)}
counted == [t \in Tenants |-> sub[t].retryCount]
paid == [t \in Tenants |-> sub[t].currentPeriodEnd]

LEMMA LedgerInit == Init => Ledger!Init
<1> SUFFICES ASSUME Init PROVE Ledger!Init
  OBVIOUS
<1>1. \A t \in Tenants : sub[t] = NoRow
  BY DEF Init
<1>2. NoRow.status = "none" /\ NoRow.retryCount = 0 /\ NoRow.currentPeriodEnd = 0
  BY DEF NoRow
<1>3. payments = {}
  BY DEF Init
<1> QED
  BY <1>1, <1>2, <1>3 DEF Ledger!Init, Exists

(* Nobody is handed to the unconditional update of the expiry stage without a *)
(* row, so that a row comes into being by a trial only.                       *)
ExpiringExist == stage = "expiring" => \A t \in found : Exists(t)

LEMMA RowsStay ==
    ASSUME IInv, [Next]_vars, NEW t \in Tenants, Exists(t)
    PROVE  Exists(t)'
BY RowKinds DEF Exists, Quiet, Failing, Capturing, Kept

LEMMA WhoIsFoundExpired ==
    ASSUME IInv, [Next]_vars, stage' = "expiring", NEW t \in found'
    PROVE  \/ IsToExpire(sub[t], now) /\ UNCHANGED rows
           \/ stage = "expiring" /\ t \in found
<1>1. CASE FindExpiredSubscriptions
  BY <1>1 DEF FindExpiredSubscriptions
<1>2. CASE LifecycleJob
  BY <1>1, <1>2 DEF LifecycleJob, FindExpiredTrials, MovePastDueSubscriptions,
     MoveSuspendedSubscriptions, ExpireSubscription,
     MoveCancelledSubscriptions, RecordEvents, LogStep
<1>3. CASE AbortLifecycleRules
  BY <1>3 DEF AbortLifecycleRules
<1>4. CASE UNCHANGED <<stage, found>>
  BY <1>4
<1> QED
  BY <1>2, <1>3, <1>4 DEF Next, Tick, TenantRequest, PaymentReport, DowngradeJob,
     StartTrialForNewUser, RequestUpgradeToPaidPlan, ScheduleDowngrade,
     CancelSubscription, ActivateAfterSuccessfulPayment, MarkPaymentFailed,
     FindDueDowngrades, ApplyScheduledDowngrade, SkipDowngrade, lifecycle, vars

LEMMA ExpiringExistInv == IInv /\ ExpiringExist /\ [Next]_vars => ExpiringExist'
<1> SUFFICES ASSUME IInv, ExpiringExist, [Next]_vars, stage' = "expiring",
                    NEW t \in found'
             PROVE  Exists(t)'
  BY DEF ExpiringExist
<1>1. found \subseteq Tenants
  BY DEF IInv, TypeOK
<1>2. CASE IsToExpire(sub[t], now) /\ UNCHANGED rows
  BY <1>2 DEF IsToExpire, Exists, rows
<1>3. CASE stage = "expiring" /\ t \in found
  BY <1>1, <1>3, RowsStay DEF ExpiringExist
<1> QED
  BY <1>2, <1>3, WhoIsFoundExpired

LEMMA OpenedByTrial ==
    ASSUME IInv, ExpiringExist, QuietStep, [Next]_vars,
           NEW t \in Tenants, ~Exists(t), Exists(t)'
    PROVE  StartTrialForNewUser(t)
<1>0. /\ sub \in [Tenants -> Row] /\ now \in Nat
      /\ sub[t] \in Row
  BY BoundsAssumption DEF IInv, TypeOK
<1>1. DowngradedRow(sub[t], now).status = sub[t].status
  BY <1>0 DEF DowngradedRow, Row
<1>2. CASE DowngradeJob
  BY <1>0, <1>1, <1>2 DEF DowngradeJob, FindDueDowngrades,
     ApplyScheduledDowngrade, SkipDowngrade, rows, Exists
<1>3. CASE LifecycleJob
  BY <1>0, <1>3 DEF LifecycleJob, FindExpiredTrials, MovePastDueSubscriptions,
     MoveSuspendedSubscriptions, FindExpiredSubscriptions, ExpireSubscription,
     MoveCancelledSubscriptions, RecordEvents, IsPastDue, IsToSuspend,
     IsToCancel, ExpiringExist, rows, Exists
<1>4. ASSUME NEW u \in Tenants, TenantRequest(u) PROVE StartTrialForNewUser(t)
  <2>1. u = t
    BY <1>0, <1>4 DEF TenantRequest, StartTrialForNewUser,
       RequestUpgradeToPaidPlan, ScheduleDowngrade, CancelSubscription, Exists
  <2> QED
    BY <1>4, <2>1 DEF TenantRequest, RequestUpgradeToPaidPlan,
       ScheduleDowngrade, CancelSubscription, Exists
<1>5. ASSUME NEW u \in Tenants, PaymentReport(u) PROVE FALSE
  BY <1>0, <1>5 DEF PaymentReport, ActivateAfterSuccessfulPayment,
     MarkPaymentFailed, Exists
<1>6. CASE Tick \/ AbortLifecycleRules \/ UNCHANGED vars
  BY <1>6 DEF Tick, AbortLifecycleRules, rows, vars, Exists
<1> QED
  BY <1>2, <1>3, <1>4, <1>5, <1>6 DEF Next

LEMMA LedgerStutter ==
    ASSUME QuietStep, \A t \in Tenants : Exists(t)' => Exists(t)
    PROVE  UNCHANGED Ledger!ledger
<1>1. opened' = opened
  BY DEF opened, Exists, QuietStep, Quiet, Kept
<1>2. counted' = counted /\ paid' = paid
  BY DEF counted, paid, QuietStep, Quiet, Kept
<1> QED
  BY <1>1, <1>2 DEF Ledger!ledger, opened, counted, paid, QuietStep

(* The mapped variables after a step that writes the row of t. *)
LEMMA LedgerRow ==
    ASSUME IInv, NEW t \in Tenants, NEW w, sub' = [sub EXCEPT ![t] = w]
    PROVE  /\ sub'[t] = w
           /\ counted' = [counted EXCEPT ![t] = w.retryCount]
           /\ paid' = [paid EXCEPT ![t] = w.currentPeriodEnd]
           /\ paid'[t] = w.currentPeriodEnd
           /\ w.status # "none" => opened' = opened \cup {t}
<1>1. /\ sub'[t] = w
      /\ \A u \in Tenants : u # t => sub'[u] = sub[u]
  BY DEF IInv, TypeOK
<1>2. counted' = [counted EXCEPT ![t] = w.retryCount]
  <2> DEFINE f == [u \in Tenants |-> IF u = t THEN w.retryCount
                                     ELSE sub[u].retryCount]
  <2>1. counted' = f
    BY <1>1 DEF counted
  <2>2. [counted EXCEPT ![t] = w.retryCount] = f
    BY DEF counted
  <2> QED
    BY <2>1, <2>2
<1>3. paid' = [paid EXCEPT ![t] = w.currentPeriodEnd]
  <2> DEFINE f == [u \in Tenants |-> IF u = t THEN w.currentPeriodEnd
                                     ELSE sub[u].currentPeriodEnd]
  <2>1. paid' = f
    BY <1>1 DEF paid
  <2>2. [paid EXCEPT ![t] = w.currentPeriodEnd] = f
    BY DEF paid
  <2> QED
    BY <2>1, <2>2
<1>4. w.status # "none" => opened' = opened \cup {t}
  BY <1>1 DEF opened, Exists
<1>5. paid'[t] = w.currentPeriodEnd
  BY <1>1 DEF paid
<1> QED
  BY <1>1, <1>2, <1>3, <1>4, <1>5

LEMMA LedgerTrial ==
    ASSUME IInv, NEW t \in Tenants, StartTrialForNewUser(t)
    PROVE  Ledger!Open(t)
<1> DEFINE w == TrialRow(now)
<1>1. ~Exists(t) /\ sub' = [sub EXCEPT ![t] = w] /\ payments' = payments
  BY DEF StartTrialForNewUser
<1>2. w.retryCount = 0 /\ w.status # "none"
  BY DEF TrialRow, NoRow
<1> HIDE DEF w
<1>3. /\ counted' = [counted EXCEPT ![t] = 0]
      /\ paid' = [paid EXCEPT ![t] = paid'[t]]
      /\ opened' = opened \cup {t}
      /\ t \notin opened
  BY <1>1, <1>2, LedgerRow DEF opened
<1> QED
  BY <1>1, <1>3 DEF Ledger!Open, opened, counted, paid

LEMMA LedgerReport ==
    ASSUME IInv, NEW t \in Tenants, PaymentReport(t)
    PROVE  \E c \in Charges : Ledger!Capture(t, c) \/ Ledger!Decline(t, c)
<1>0. sub[t] \in Row /\ counted[t] = sub[t].retryCount
      /\ paid[t] = sub[t].currentPeriodEnd
  BY DEF IInv, TypeOK, counted, paid
<1>1. ASSUME NEW c \in Charges, NEW status, Exists(t), ~IsRecorded(c),
             NEW w, sub' = [sub EXCEPT ![t] = w], w.status # "none",
             payments' = payments \cup
                 {[event |-> c, tenant |-> t, status |-> status]}
      PROVE  Ledger!Record(t, c, status)
  <2>1. opened' = opened \cup {t}
    BY <1>1, LedgerRow
  <2>2. t \in opened
    BY <1>1 DEF opened
  <2>3. opened' = opened
    BY <2>1, <2>2
  <2> QED
    BY <1>1, <2>2, <2>3 DEF Ledger!Record, Ledger!IsRecorded, IsRecorded, opened
<1>2. ASSUME NEW c \in Charges, NEW a \in Agreements,
             ActivateAfterSuccessfulPayment(t, c, sub[t].billingCycle, a)
      PROVE  Ledger!Capture(t, c)
  <2> DEFINE w == ActivatedRow(sub[t], sub[t].billingCycle, a, now)
  <2>1. w.retryCount = 0 /\ w.status = "active"
    BY <1>0 DEF ActivatedRow, Row
  <2>2. /\ sub' = [sub EXCEPT ![t] = w] /\ Exists(t) /\ ~IsRecorded(c)
        /\ payments' = payments \cup
               {[event |-> c, tenant |-> t, status |-> "succeeded"]}
    BY <1>2 DEF ActivateAfterSuccessfulPayment
  <2> HIDE DEF w
  <2>3. Ledger!Record(t, c, "succeeded")
    BY <1>1, <2>1, <2>2
  <2>4. /\ counted' = [counted EXCEPT ![t] = 0]
        /\ paid' = [paid EXCEPT ![t] = paid'[t]]
    BY <2>1, <2>2, LedgerRow
  <2> QED
    BY <2>3, <2>4 DEF Ledger!Capture, counted, paid
<1>3. ASSUME NEW c \in Charges, MarkPaymentFailed(t, c)
      PROVE  Ledger!Decline(t, c)
  <2> DEFINE w == PaymentFailedRow(sub[t], now)
  <2>1. /\ w.retryCount = counted[t] + 1 /\ w.status = "active"
        /\ w.currentPeriodEnd = paid[t]
    BY <1>0 DEF PaymentFailedRow, Row
  <2>2. /\ sub' = [sub EXCEPT ![t] = w] /\ Exists(t) /\ ~IsRecorded(c)
        /\ counted[t] < MaxRetries
        /\ payments' = payments \cup
               {[event |-> c, tenant |-> t, status |-> "failed"]}
    BY <1>0, <1>3 DEF MarkPaymentFailed
  <2> HIDE DEF w
  <2>3. Ledger!Record(t, c, "failed")
    BY <1>1, <2>1, <2>2
  <2>4. counted' = [counted EXCEPT ![t] = counted[t] + 1]
    BY <2>1, <2>2, LedgerRow
  <2>5. paid' = paid
    <3>1. paid' = [paid EXCEPT ![t] = w.currentPeriodEnd]
      BY <2>2, LedgerRow
    <3>2. [paid EXCEPT ![t] = paid[t]] = paid
      BY DEF paid
    <3> QED
      BY <2>1, <3>1, <3>2
  <2> QED
    BY <2>2, <2>3, <2>4, <2>5 DEF Ledger!Decline, counted, paid
<1> QED
  BY <1>2, <1>3 DEF PaymentReport

(* The rows of Subscriptions implement PaymentLedger with the limit of the    *)
(* code: every charge counts once.                                            *)
THEOREM SubscriptionsImplementLedger == Spec => ImplementsLedger
<1>1. Init => Ledger!Init
  BY LedgerInit
<1>2. Init => ExpiringExist
  BY DEF Init, ExpiringExist
<1>3. IInv /\ ExpiringExist /\ [Next]_vars => [Ledger!Next]_(Ledger!ledger)
  <2> SUFFICES ASSUME IInv, ExpiringExist, [Next]_vars
               PROVE  Ledger!Next \/ UNCHANGED Ledger!ledger
    OBVIOUS
  <2>1. ASSUME NEW t \in Tenants, StartTrialForNewUser(t) PROVE Ledger!Next
    BY <2>1, LedgerTrial DEF Ledger!Next
  <2>2. ASSUME NEW t \in Tenants, PaymentReport(t) PROVE Ledger!Next
    BY <2>2, LedgerReport DEF Ledger!Next
  <2>3. CASE QuietStep
    BY <2>1, <2>3, OpenedByTrial, LedgerStutter
  <2> QED
    BY <2>1, <2>2, <2>3, StepKinds
<1> QED
  BY <1>1, <1>2, <1>3, ExpiringExistInv, Invariant, PTL
     DEF Spec, ImplementsLedger, Ledger!Spec
-----------------------------------------------------------------------------
(* The evidence.  What the table of payments bears out today it bears out for *)
(* ever, since it only grows; so it is enough to look at what a step does to  *)
(* the row, and to keep in mind why a tenant waits in the expiry loop.        *)

EvidenceInv ==
    /\ IsFiniteSet(payments)
    /\ StateHasEvidence
    /\ stage = "expiring" => \A t \in found : Reports(t, {"failed"}) # {}

(* What a step does to any row, that of a new tenant included. *)
LEMMA RowMoves ==
    ASSUME IInv, [Next]_vars, NEW t \in Tenants
    PROVE  \/ Quiet(sub[t], sub'[t])
           \/ sub'[t] = TrialRow(now)
           \/ NewPayment(t, {"succeeded"}) /\ Capturing(sub[t], sub'[t])
           \/ NewPayment(t, {"failed"}) /\ Failing(sub[t], sub'[t])
<1>1. ASSUME NEW u \in Tenants, StartTrialForNewUser(u)
      PROVE  Quiet(sub[t], sub'[t]) \/ sub'[t] = TrialRow(now)
  BY <1>1, QuietWrites, BoundsAssumption
     DEF StartTrialForNewUser, IInv, TypeOK
<1> QED
  BY <1>1, StepKinds, ReportKinds DEF QuietStep

(* Only the expiry loop writes the status expired. *)
LEMMA OnlyFoundExpire ==
    ASSUME IInv, [Next]_vars, NEW t \in Tenants,
           sub'[t].status = "expired", sub[t].status # "expired"
    PROVE  stage = "expiring" /\ t \in found
<1>0. /\ sub \in [Tenants -> Row] /\ now \in Nat /\ sub[t] \in Row
  BY BoundsAssumption DEF IInv, TypeOK
<1>1. /\ TrialRow(now).status # "expired"
      /\ \A p, e : PendingRow(sub[t], p, e, now).status = sub[t].status
      /\ DowngradedRow(sub[t], now).status = sub[t].status
      /\ CancelRequestedRow(sub[t], now).status = sub[t].status
      /\ \A c, a : ActivatedRow(sub[t], c, a, now).status # "expired"
      /\ PaymentFailedRow(sub[t], now).status # "expired"
      /\ PastDueRow(sub[t], now).status # "expired"
      /\ SuspendedRow(sub[t], now).status # "expired"
      /\ CancelledRow(sub[t], now).status # "expired"
  BY <1>0 DEF Row, TrialRow, NoRow, PendingRow, DowngradedRow,
     CancelRequestedRow, ActivatedRow, PaymentFailedRow, PastDueRow,
     SuspendedRow, CancelledRow
<1>2. CASE DowngradeJob
  BY <1>0, <1>1, <1>2 DEF DowngradeJob, FindDueDowngrades,
     ApplyScheduledDowngrade, SkipDowngrade, rows
<1>3. CASE LifecycleJob
  BY <1>0, <1>1, <1>3 DEF LifecycleJob, FindExpiredTrials,
     MovePastDueSubscriptions, MoveSuspendedSubscriptions,
     FindExpiredSubscriptions, ExpireSubscription, MoveCancelledSubscriptions,
     RecordEvents, rows
<1>4. ASSUME NEW u \in Tenants, TenantRequest(u) PROVE FALSE
  BY <1>0, <1>1, <1>4 DEF TenantRequest, StartTrialForNewUser,
     RequestUpgradeToPaidPlan, ScheduleDowngrade, CancelSubscription
<1>5. ASSUME NEW u \in Tenants, PaymentReport(u) PROVE FALSE
  BY <1>0, <1>1, <1>5 DEF PaymentReport, ActivateAfterSuccessfulPayment,
     MarkPaymentFailed
<1>6. CASE Tick \/ AbortLifecycleRules \/ UNCHANGED vars
  BY <1>6 DEF Tick, AbortLifecycleRules, rows, vars
<1> QED
  BY <1>2, <1>3, <1>4, <1>5, <1>6 DEF Next

LEMMA PaymentsStayFinite ==
    ASSUME IInv, [Next]_vars, IsFiniteSet(payments)
    PROVE  IsFiniteSet(payments')
<1>1. ASSUME NEW t \in Tenants, PaymentReport(t)
      PROVE  \E p : payments' = payments \cup {p}
  BY <1>1 DEF PaymentReport, ActivateAfterSuccessfulPayment, MarkPaymentFailed
<1>2. CASE \E p : payments' = payments \cup {p}
  BY <1>2, FS_AddElement
<1>3. CASE payments' = payments
  BY <1>3
<1>4. ASSUME NEW t \in Tenants, StartTrialForNewUser(t) PROVE payments' = payments
  BY <1>4 DEF StartTrialForNewUser
<1> QED
  BY <1>1, <1>2, <1>3, <1>4, StepKinds DEF QuietStep

LEMMA ReportsGrow ==
    ASSUME IsFiniteSet(payments), IsFiniteSet(payments'),
           payments \subseteq payments', NEW t, NEW statuses
    PROVE  /\ Reports(t, statuses) \subseteq Reports(t, statuses)'
           /\ NewPayment(t, statuses) => Reports(t, statuses)' # {}
           /\ Cardinality(Reports(t, statuses)) \in Nat
           /\ Cardinality(Reports(t, statuses)') \in Nat
           /\ Cardinality(Reports(t, statuses)) <= Cardinality(Reports(t, statuses)')
           /\ NewPayment(t, statuses)
                  => Cardinality(Reports(t, statuses)) + 1
                         <= Cardinality(Reports(t, statuses)')
<1> DEFINE A == Reports(t, statuses)
           B == Reports(t, statuses)'
<1>1. A \subseteq payments /\ B \subseteq payments' /\ A \subseteq B
  BY DEF Reports
<1>2. IsFiniteSet(A) /\ IsFiniteSet(B)
  BY <1>1, FS_Subset
<1>3. ASSUME NEW p \in payments' \ payments, p.tenant = t, p.status \in statuses
      PROVE  p \in B /\ p \notin A
  BY <1>3 DEF Reports
<1> HIDE DEF A, B
<1>4. /\ Cardinality(A) \in Nat /\ Cardinality(B) \in Nat
      /\ Cardinality(A) <= Cardinality(B)
  BY <1>1, <1>2, FS_Subset, FS_CardinalityType
<1>5. ASSUME NEW p \in B, p \notin A
      PROVE  Cardinality(A) + 1 <= Cardinality(B)
  <2>1. /\ IsFiniteSet(A \cup {p})
        /\ Cardinality(A \cup {p}) = Cardinality(A) + 1
    BY <1>2, <1>5, FS_AddElement
  <2>2. A \cup {p} \subseteq B
    BY <1>1, <1>5
  <2> QED
    BY <1>2, <2>1, <2>2, FS_Subset
<1>6. NewPayment(t, statuses) => \E p \in B : p \notin A
  BY <1>3 DEF NewPayment
<1> QED
  BY <1>1, <1>4, <1>5, <1>6 DEF A, B

LEMMA EvidenceStep ==
    ASSUME IInv, IInv', EvidenceInv, [Next]_vars, NEW t \in Tenants
    PROVE  Evidence(sub[t], t)'
<1> DEFINE r == sub[t]
           s == sub'[t]
           F == Reports(t, {"failed"})
           P == Reports(t, {"succeeded"})
           B == Reports(t, {"succeeded", "failed"})
<1>0. /\ IsFiniteSet(payments) /\ IsFiniteSet(payments')
      /\ payments \subseteq payments'
  BY PaymentsStayFinite, PaymentsGrow DEF EvidenceInv
<1>1. /\ F \subseteq F' /\ P \subseteq P' /\ B \subseteq B'
      /\ F' \subseteq B' /\ P' \subseteq B'
      /\ Cardinality(F) \in Nat /\ Cardinality(F') \in Nat
      /\ Cardinality(F) <= Cardinality(F')
  <2>1. F' \subseteq B' /\ P' \subseteq B'
    BY DEF Reports
  <2> QED
    BY <1>0, <2>1, ReportsGrow
<1>2. /\ r \in Row /\ s \in Row /\ r.retryCount \in Nat /\ s.retryCount \in Nat
      /\ RowInv(s, t, now')
  BY DEF IInv, TypeOK, Row
<1>3. /\ r.retryCount <= Cardinality(F)
      /\ r.status \in {"past_due", "suspended", "expired"} => F # {}
      /\ r.lastBillingAt # Null \/ r.tapPaymentAgreementId # Null => P # {}
      /\ r.status \notin {"none", "trialing"} => B # {}
  BY DEF EvidenceInv, StateHasEvidence, Evidence
<1>4. s.status \in {"past_due", "suspended"} => s.retryCount # 0
  BY <1>2 DEF RowInv, GraceHonouredIn, FailuresAccountedIn
<1>5. s.status = "expired" => F # {}
  BY <1>3, OnlyFoundExpire DEF EvidenceInv
<1>6. F' = {} => Cardinality(F') = 0
  BY FS_EmptySet
<1>7. /\ NewPayment(t, {"succeeded"}) => P' # {}
      /\ NewPayment(t, {"failed"}) => Cardinality(F) + 1 <= Cardinality(F')
  BY <1>0, ReportsGrow
<1> SUFFICES /\ s.retryCount <= Cardinality(F')
             /\ s.status \in {"past_due", "suspended", "expired"} => F' # {}
             /\ s.lastBillingAt # Null \/ s.tapPaymentAgreementId # Null => P' # {}
             /\ s.status \notin {"none", "trialing"} => B' # {}
  BY DEF Evidence
<1>8. CASE sub'[t] = TrialRow(now)
  <2>1. /\ s.retryCount = 0 /\ s.status = "trialing"
        /\ s.lastBillingAt = Null /\ s.tapPaymentAgreementId = Null
    BY <1>8 DEF TrialRow, NoRow
  <2> QED
    BY <1>1, <2>1
<1> HIDE DEF r, s, F, P, B
<1>9. CASE Quiet(r, s)
  <2>1. /\ s.retryCount = r.retryCount
        /\ s.lastBillingAt = r.lastBillingAt
        /\ s.tapPaymentAgreementId = r.tapPaymentAgreementId
        /\ s.status \in {r.status, "past_due", "suspended", "expired", "cancelled"}
        /\ s.status = "cancelled" => r.status \in {"active", "past_due", "cancelled"}
    BY <1>9 DEF Quiet, Kept
  <2>2. s.retryCount <= Cardinality(F')
    BY <1>1, <1>2, <1>3, <2>1
  <2>3. s.status \in {"past_due", "suspended", "expired"} => F' # {}
    BY <1>1, <1>2, <1>4, <1>5, <1>6, <2>2
  <2> QED
    BY <1>1, <1>3, <2>1, <2>2, <2>3
<1>10. CASE NewPayment(t, {"succeeded"}) /\ Capturing(r, s)
  BY <1>1, <1>7, <1>10 DEF Capturing
<1>11. CASE NewPayment(t, {"failed"}) /\ Failing(r, s)
  <2>1. /\ s.retryCount = r.retryCount + 1 /\ s.status = "active"
        /\ s.lastBillingAt = r.lastBillingAt
        /\ s.tapPaymentAgreementId = r.tapPaymentAgreementId
    BY <1>11 DEF Failing, Kept
  <2>2. s.retryCount <= Cardinality(F')
    BY <1>1, <1>2, <1>3, <1>7, <1>11, <2>1
  <2>3. F' # {}
    BY <1>1, <1>2, <1>6, <2>1, <2>2
  <2> QED
    BY <1>1, <1>3, <2>1, <2>2, <2>3
<1> QED
  BY <1>8, <1>9, <1>10, <1>11, RowMoves DEF r, s

LEMMA EvidenceNext == IInv /\ IInv' /\ EvidenceInv /\ [Next]_vars => EvidenceInv'
<1> SUFFICES ASSUME IInv, IInv', EvidenceInv, [Next]_vars PROVE EvidenceInv'
  OBVIOUS
<1>0. /\ IsFiniteSet(payments')
      /\ \A t : Reports(t, {"failed"}) \subseteq Reports(t, {"failed"})'
  BY PaymentsStayFinite, PaymentsGrow, ReportsGrow DEF EvidenceInv
<1>1. StateHasEvidence'
  BY EvidenceStep DEF StateHasEvidence
<1>2. ASSUME stage' = "expiring", NEW t \in found'
      PROVE  Reports(t, {"failed"})' # {}
  <2>1. CASE IsToExpire(sub[t], now) /\ UNCHANGED rows
    <3>1. t \in Tenants
      BY <1>2 DEF IInv, TypeOK
    <3> QED
      BY <1>0, <2>1, <3>1 DEF EvidenceInv, StateHasEvidence, Evidence, IsToExpire
  <2>2. CASE stage = "expiring" /\ t \in found
    BY <1>0, <2>2 DEF EvidenceInv
  <2> QED
    BY <1>2, <2>1, <2>2, WhoIsFoundExpired
<1> QED
  BY <1>0, <1>1, <1>2 DEF EvidenceInv

(* No row claims more than the table of payments bears out: failures are not  *)
(* counted twice, nobody is restricted without a failed charge on record, and *)
(* nobody counts as paying without a captured one, for any number of charges. *)
THEOREM RowsHaveEvidence == Spec => []StateHasEvidence
<1>1. Init => EvidenceInv
  <2> SUFFICES ASSUME Init, NEW t \in Tenants PROVE EvidenceInv
    BY FS_EmptySet DEF Init, EvidenceInv, StateHasEvidence
  <2> QED
    BY FS_EmptySet
       DEF Init, EvidenceInv, StateHasEvidence, Evidence, Reports, NoRow
<1>2. EvidenceInv => StateHasEvidence
  BY DEF EvidenceInv
<1> QED
  BY <1>1, <1>2, EvidenceNext, Invariant, PTL DEF Spec

(* The period of a row that was never billed is its trial.                    *)
TrialPeriod ==
    \A t \in Tenants :
        Exists(t) /\ sub[t].lastBillingAt = Null
        => /\ sub[t].trialEndsAt # Null
           /\ sub[t].currentPeriodEnd = sub[t].trialEndsAt

(* A row comes into being by a trial only. *)
LEMMA OnlyTrialsOpen ==
    ASSUME IInv, ExpiringExist, [Next]_vars, NEW t \in Tenants,
           ~Exists(t), Exists(t)'
    PROVE  sub'[t] = TrialRow(now)
<1>0. sub \in [Tenants -> Row]
  BY DEF IInv, TypeOK
<1>1. ASSUME NEW u \in Tenants, StartTrialForNewUser(u)
      PROVE  sub'[t] = TrialRow(now)
  BY <1>0, <1>1 DEF StartTrialForNewUser, Exists
<1>2. ASSUME NEW u \in Tenants, PaymentReport(u) PROVE FALSE
  BY <1>0, <1>2 DEF PaymentReport, ActivateAfterSuccessfulPayment,
     MarkPaymentFailed, Exists
<1> QED
  BY <1>1, <1>2, StepKinds, OpenedByTrial

LEMMA TrialPeriodNext ==
    IInv /\ ExpiringExist /\ TrialPeriod /\ [Next]_vars => TrialPeriod'
<1> SUFFICES ASSUME IInv, ExpiringExist, TrialPeriod, [Next]_vars,
                    NEW t \in Tenants, Exists(t)', sub'[t].lastBillingAt = Null
             PROVE  /\ sub'[t].trialEndsAt # Null
                    /\ sub'[t].currentPeriodEnd = sub'[t].trialEndsAt
  BY DEF TrialPeriod
<1>1. CASE ~Exists(t)
  <2>1. sub'[t] = TrialRow(now)
    BY <1>1, OnlyTrialsOpen
  <2>2. now + TrialDays \in Nat
    BY BoundsAssumption, DaysAssumption DEF IInv, TypeOK
  <2> QED
    BY <2>1, <2>2, NullIsNoDate DEF TrialRow, NoRow
<1>2. CASE Exists(t)
  BY <1>2, RowKinds DEF TrialPeriod, Quiet, Failing, Capturing, Kept
<1> QED
  BY <1>1, <1>2

(* Nobody but a suspended tenant, who may read, is let in beyond the trial or *)
(* the month that a recorded captured charge bought: a declined payment makes *)
(* a row active and buys no day.                                              *)
THEOREM AccessWasCovered == Spec => []AccessIsCovered
<1>1. Init => ExpiringExist /\ TrialPeriod
  BY DEF Init, ExpiringExist, TrialPeriod, Exists, NoRow
<1>2. IInv /\ TrialPeriod /\ StateHasEvidence => AccessIsCovered
  <2> SUFFICES ASSUME IInv, TrialPeriod, StateHasEvidence,
                      NEW t \in Tenants, NEW route \in Routes,
                      CanActivate(t, route), sub[t].status # "suspended"
               PROVE  /\ CoveredIn(sub[t], now)
                      /\ sub[t].lastBillingAt # Null
                             => Reports(t, {"succeeded"}) # {}
    BY DEF AccessIsCovered
  <2>1. Exists(t) /\ now <= sub[t].currentPeriodEnd
    BY DEF CanActivate, CanActivateRow, Exists
  <2>2. Evidence(sub[t], t) /\ PaidPeriodIsOneMonthIn(sub[t])
    BY DEF StateHasEvidence, IInv, RowInv
  <2>3. CoveredIn(sub[t], now)
    BY <2>1, <2>2 DEF CoveredIn, TrialPeriod, PaidPeriodIsOneMonthIn
  <2> QED
    BY <2>2, <2>3 DEF Evidence
<1> QED
  BY <1>1, <1>2, TrialPeriodNext, ExpiringExistInv, RowsHaveEvidence, Invariant,
     PTL DEF Spec

-----------------------------------------------------------------------------
(* Liveness: what follows from JobComesRound, which is what the fairness of   *)
(* the scheduler and the bound on aborts come to.  A run of the job that is   *)
(* not cut short goes through its stages in one order, and comes round to     *)
(* each of them.                                                              *)

NextStage ==
    [idle |-> "trialEvents", trialEvents |-> "pastDue",
     pastDue |-> "pastDueEvents", pastDueEvents |-> "suspend",
     suspend |-> "suspendEvents", suspendEvents |-> "expire",
     expire |-> "expiring", expiring |-> "cancelEvents",
     cancelEvents |-> "idle"]

(* Only the job moves the stage, and only out of the loop of the expired      *)
(* subscriptions may it need more than one step.                              *)
LEMMA StageMoves ==
    ASSUME IInv, [Next]_vars, [~AbortLifecycleRules]_vars
    PROVE  /\ stage' \in {stage, NextStage[stage]}
           /\ stage # "expiring" /\ <<LifecycleJob>>_vars
                  => stage' = NextStage[stage]
           /\ stage = "idle" /\ stage' # stage => <<FindExpiredTrials>>_vars
           /\ stage = "trialEvents" /\ stage' # stage => <<RecordEvents>>_vars
           /\ stage = "pastDue" /\ stage' # stage
                  => <<MovePastDueSubscriptions>>_vars
           /\ stage = "suspend" /\ stage' # stage
                  => <<MoveSuspendedSubscriptions>>_vars
           /\ stage = "expire" /\ stage' # stage
                  => <<FindExpiredSubscriptions>>_vars
           /\ stage = "expiring" /\ stage' # stage
                  => <<MoveCancelledSubscriptions>>_vars
<1>1. CASE LifecycleJob
  BY <1>1 DEF LifecycleJob, FindExpiredTrials, MovePastDueSubscriptions,
     MoveSuspendedSubscriptions, FindExpiredSubscriptions, ExpireSubscription,
     MoveCancelledSubscriptions, RecordEvents, LogStep, NextStage, vars
<1>2. CASE UNCHANGED stage /\ ~LifecycleJob
  BY <1>2
<1>3. AbortLifecycleRules => FALSE
  BY DEF AbortLifecycleRules, vars
<1> QED
  BY <1>1, <1>2, <1>3 DEF Next, Tick, TenantRequest, PaymentReport, DowngradeJob,
     StartTrialForNewUser, RequestUpgradeToPaidPlan, ScheduleDowngrade,
     CancelSubscription, ActivateAfterSuccessfulPayment, MarkPaymentFailed,
     FindDueDowngrades, ApplyScheduledDowngrade, SkipDowngrade, lifecycle, vars

StagesRecur ==
    /\ []<><<FindExpiredTrials>>_vars
    /\ []<><<MovePastDueSubscriptions>>_vars
    /\ []<><<MoveSuspendedSubscriptions>>_vars
    /\ []<><<FindExpiredSubscriptions>>_vars
    /\ []<><<MoveCancelledSubscriptions>>_vars

LEMMA JobGoesRound == Spec /\ JobComesRound => StagesRecur
<1> DEFINE At(x) == stage = x
           Smooth == IInv /\ [Next]_vars /\ [~AbortLifecycleRules]_vars
<1>1. IInv => \/ At("idle") \/ At("trialEvents") \/ At("pastDue")
              \/ At("pastDueEvents") \/ At("suspend") \/ At("suspendEvents")
              \/ At("expire") \/ At("expiring") \/ At("cancelEvents")
  BY DEF IInv, TypeOK, Stages
<1>2. /\ Smooth /\ At("idle") => At("idle")' \/ At("trialEvents")'
      /\ Smooth /\ At("trialEvents") => At("trialEvents")' \/ At("pastDue")'
      /\ Smooth /\ At("pastDue") => At("pastDue")' \/ At("pastDueEvents")'
      /\ Smooth /\ At("pastDueEvents") => At("pastDueEvents")' \/ At("suspend")'
      /\ Smooth /\ At("suspend") => At("suspend")' \/ At("suspendEvents")'
      /\ Smooth /\ At("suspendEvents") => At("suspendEvents")' \/ At("expire")'
      /\ Smooth /\ At("expire") => At("expire")' \/ At("expiring")'
      /\ Smooth /\ At("expiring") => At("expiring")' \/ At("cancelEvents")'
      /\ Smooth /\ At("cancelEvents") => At("cancelEvents")' \/ At("idle")'
  BY StageMoves DEF NextStage
<1>3. /\ Smooth /\ <<LifecycleJob>>_vars /\ At("idle") => At("trialEvents")'
      /\ Smooth /\ <<LifecycleJob>>_vars /\ At("trialEvents") => At("pastDue")'
      /\ Smooth /\ <<LifecycleJob>>_vars /\ At("pastDue") => At("pastDueEvents")'
      /\ Smooth /\ <<LifecycleJob>>_vars /\ At("pastDueEvents") => At("suspend")'
      /\ Smooth /\ <<LifecycleJob>>_vars /\ At("suspend") => At("suspendEvents")'
      /\ Smooth /\ <<LifecycleJob>>_vars /\ At("suspendEvents") => At("expire")'
      /\ Smooth /\ <<LifecycleJob>>_vars /\ At("expire") => At("expiring")'
      /\ Smooth /\ <<LifecycleJob>>_vars /\ At("cancelEvents") => At("idle")'
  BY StageMoves DEF NextStage
<1>4. /\ Smooth /\ At("idle") => At("idle")' \/ <<FindExpiredTrials>>_vars
      /\ Smooth /\ At("pastDue")
             => At("pastDue")' \/ <<MovePastDueSubscriptions>>_vars
      /\ Smooth /\ At("suspend")
             => At("suspend")' \/ <<MoveSuspendedSubscriptions>>_vars
      /\ Smooth /\ At("expire")
             => At("expire")' \/ <<FindExpiredSubscriptions>>_vars
      /\ Smooth /\ At("expiring")
             => At("expiring")' \/ <<MoveCancelledSubscriptions>>_vars
  BY StageMoves
<1>5. /\ stage # "expiring" => ~At("expiring")
      /\ At("trialEvents") => ~At("idle")
      /\ At("suspendEvents") => ~At("suspend")
      /\ At("expiring") => ~At("expire")
      /\ At("pastDueEvents") => ~At("pastDue")
  OBVIOUS
<1> HIDE DEF At
<1>6. Spec /\ JobComesRound => <>[](At("idle") => <>At("trialEvents"))
  BY <1>2, <1>3, <1>5, Invariant, PTL DEF Spec, JobComesRound, Smooth
<1>7. Spec /\ JobComesRound => <>[](At("trialEvents") => <>At("pastDue"))
  BY <1>2, <1>3, <1>5, Invariant, PTL DEF Spec, JobComesRound, Smooth
<1>8. Spec /\ JobComesRound => <>[](At("pastDue") => <>At("pastDueEvents"))
  BY <1>2, <1>3, <1>5, Invariant, PTL DEF Spec, JobComesRound, Smooth
<1>9. Spec /\ JobComesRound => <>[](At("pastDueEvents") => <>At("suspend"))
  BY <1>2, <1>3, <1>5, Invariant, PTL DEF Spec, JobComesRound, Smooth
<1>10. Spec /\ JobComesRound => <>[](At("suspend") => <>At("suspendEvents"))
  BY <1>2, <1>3, <1>5, Invariant, PTL DEF Spec, JobComesRound, Smooth
<1>11. Spec /\ JobComesRound => <>[](At("suspendEvents") => <>At("expire"))
  BY <1>2, <1>3, <1>5, Invariant, PTL DEF Spec, JobComesRound, Smooth
<1>12. Spec /\ JobComesRound => <>[](At("expire") => <>At("expiring"))
  BY <1>2, <1>3, <1>5, Invariant, PTL DEF Spec, JobComesRound, Smooth
<1>13. Spec /\ JobComesRound => <>[](At("expiring") => <>At("cancelEvents"))
  BY <1>2, <1>3, <1>5, Invariant, PTL DEF Spec, JobComesRound, Smooth
<1>14. Spec /\ JobComesRound => <>[](At("cancelEvents") => <>At("idle"))
  BY <1>2, <1>3, <1>5, Invariant, PTL DEF Spec, JobComesRound, Smooth
<1>15. Spec /\ JobComesRound => <>[](At("idle") => <>At("suspend"))
  BY <1>6, <1>7, <1>8, <1>9, PTL
<1>16. Spec /\ JobComesRound => <>[](At("suspend") => <>At("expiring"))
  BY <1>10, <1>11, <1>12, PTL
<1>17. Spec /\ JobComesRound => <>[](At("expiring") => <>At("idle"))
  BY <1>13, <1>14, PTL
<1>18. Spec /\ JobComesRound
       => <>[](\/ At("trialEvents") \/ At("pastDue") \/ At("pastDueEvents")
               => <>At("suspend"))
  BY <1>7, <1>8, <1>9, PTL
<1>19. Spec /\ JobComesRound
       => <>[](At("suspendEvents") \/ At("expire") => <>At("expiring"))
  BY <1>11, <1>12, PTL
<1>20. Spec /\ JobComesRound => []<>At("idle") /\ []<>At("suspend") /\ []<>At("expiring")
  BY <1>1, <1>14, <1>15, <1>16, <1>17, <1>18, <1>19, Invariant, PTL
<1>21. Spec /\ JobComesRound => []<><<FindExpiredTrials>>_vars
  BY <1>4, <1>5, <1>6, <1>20, Invariant, PTL DEF Spec, JobComesRound, Smooth
<1>22. Spec /\ JobComesRound => []<><<MoveSuspendedSubscriptions>>_vars
  BY <1>4, <1>5, <1>10, <1>20, Invariant, PTL DEF Spec, JobComesRound, Smooth
<1>23. Spec /\ JobComesRound => []<><<MoveCancelledSubscriptions>>_vars
  BY <1>4, <1>5, <1>20, Invariant, PTL DEF Spec, JobComesRound, Smooth
<1>24. Spec /\ JobComesRound => []<>At("expire")
  BY <1>10, <1>11, <1>20, PTL
<1>25. Spec /\ JobComesRound => []<><<FindExpiredSubscriptions>>_vars
  BY <1>4, <1>5, <1>12, <1>24, Invariant, PTL DEF Spec, JobComesRound, Smooth
<1>26. Spec /\ JobComesRound => []<>At("pastDue")
  BY <1>6, <1>7, <1>20, PTL
<1>27. Spec /\ JobComesRound => []<><<MovePastDueSubscriptions>>_vars
  BY <1>4, <1>5, <1>8, <1>26, Invariant, PTL DEF Spec, JobComesRound, Smooth
<1> QED
  BY <1>21, <1>22, <1>23, <1>25, <1>27 DEF StagesRecur

(* The days of grace of an unpaid subscription run out, however many tenants  *)
(* there are and however long the windows: nothing but a report of the gateway*)
(* moves the failure date, and the job's next suspension finds it passed      *)
(* (moveSuspendedSubscriptions).                                              *)
THEOREM GraceEnds == Spec /\ JobComesRound => GraceRunsOut
<1> DEFINE P(t) ==
               sub[t].status = "past_due" /\ sub[t].pastDueAt + SuspendDays <= now
           Q(t) == sub[t].status # "past_due"
<1>1. ASSUME NEW t \in Tenants
      PROVE  IInv /\ [Next]_vars /\ P(t) => P(t)' \/ Q(t)'
  <2> SUFFICES ASSUME IInv, [Next]_vars, P(t), ~Q(t)'
               PROVE  P(t)'
    OBVIOUS
  <2>1. sub'[t].pastDueAt = sub[t].pastDueAt
    <3>1. Exists(t) /\ sub'[t].status = "past_due"
      BY DEF Exists
    <3>2. Quiet(sub[t], sub'[t])
      BY <3>1, RowKinds DEF Failing, Capturing
    <3> QED
      BY <3>2 DEF Quiet
  <2>2. now \in Nat /\ now' \in Nat /\ now <= now'
    BY DayPassesInRows
  <2>3. sub[t].pastDueAt \in Nat
    BY DEF IInv, RowInv, GraceHonouredIn, Row, OptionalDate, Date
  <2> QED
    BY <2>1, <2>2, <2>3, DaysAssumption
<1>2. ASSUME NEW t \in Tenants
      PROVE  IInv /\ <<MoveSuspendedSubscriptions>>_vars /\ P(t) => Q(t)'
  <2> SUFFICES ASSUME IInv, MoveSuspendedSubscriptions, P(t) PROVE Q(t)'
    OBVIOUS
  <2>1. sub[t] \in Row /\ IsToSuspend(sub[t], now)
    BY DEF IInv, RowInv, GraceHonouredIn, IsToSuspend
  <2>2. sub'[t] = SuspendedRow(sub[t], now)
    BY <2>1 DEF MoveSuspendedSubscriptions
  <2> QED
    BY <2>1, <2>2 DEF SuspendedRow, Row
<1> SUFFICES ASSUME NEW t \in Tenants
             PROVE  Spec /\ JobComesRound => (P(t) ~> Q(t))
  BY DEF GraceRunsOut
<1>3. /\ IInv /\ [Next]_vars /\ P(t) => P(t)' \/ Q(t)'
      /\ IInv /\ <<MoveSuspendedSubscriptions>>_vars /\ P(t) => Q(t)'
  BY <1>1, <1>2
<1> HIDE DEF P, Q
<1> QED
  BY <1>3, Invariant, JobGoesRound, PTL DEF Spec, StagesRecur

(* A failed payment takes effect once nothing has been written to the row for *)
(* three days: the job's next pass finds it (movePastDueSubscriptions).       *)
THEOREM FailuresTakeEffect == Spec /\ JobComesRound => FailureTakesEffect
<1> DEFINE P(t) == IsPastDue(sub[t], now)
<1>1. ASSUME NEW t \in Tenants
      PROVE  IInv /\ <<MovePastDueSubscriptions>>_vars /\ P(t) => ~P(t)'
  <2> SUFFICES ASSUME IInv, MovePastDueSubscriptions, P(t) PROVE ~P(t)'
    OBVIOUS
  <2>1. sub[t] \in Row
    BY DEF IInv, RowInv
  <2>2. sub'[t] = PastDueRow(sub[t], now)
    BY DEF MovePastDueSubscriptions
  <2> QED
    BY <2>1, <2>2 DEF PastDueRow, Row, IsPastDue
<1> SUFFICES ASSUME NEW t \in Tenants
             PROVE  Spec /\ JobComesRound => (P(t) ~> ~P(t))
  BY DEF FailureTakesEffect
<1>2. IInv /\ <<MovePastDueSubscriptions>>_vars /\ P(t) => ~P(t)'
  BY <1>1
<1> HIDE DEF P
<1> QED
  BY <1>2, Invariant, JobGoesRound, PTL DEF Spec, StagesRecur

(* A requested cancellation takes effect: the job's next pass over the ended  *)
(* periods finds the row as it stands (moveCancelledSubscriptions).           *)
THEOREM CancellationsEnd == Spec /\ JobComesRound => CancellationTakesEffect
<1> DEFINE P(t) == IsToCancel(sub[t], now)
<1>1. ASSUME NEW t \in Tenants
      PROVE  IInv /\ <<MoveCancelledSubscriptions>>_vars /\ P(t) => ~P(t)'
  <2> SUFFICES ASSUME IInv, MoveCancelledSubscriptions, P(t) PROVE ~P(t)'
    OBVIOUS
  <2>1. sub[t] \in Row
    BY DEF IInv, RowInv
  <2>2. sub'[t] = CancelledRow(sub[t], now)
    BY DEF MoveCancelledSubscriptions
  <2> QED
    BY <2>1, <2>2 DEF CancelledRow, Row, IsToCancel
<1> SUFFICES ASSUME NEW t \in Tenants
             PROVE  Spec /\ JobComesRound => (P(t) ~> ~P(t))
  BY DEF CancellationTakesEffect
<1>2. IInv /\ <<MoveCancelledSubscriptions>>_vars /\ P(t) => ~P(t)'
  BY <1>1
<1> HIDE DEF P
<1> QED
  BY <1>2, Invariant, JobGoesRound, PTL DEF Spec, StagesRecur

(* Whom the query of the expiry returned stays in the loop until it is        *)
(* expired: the loop is left, if no error ends it, by handling everybody.     *)
LEMMA FoundAreExpired ==
    ASSUME IInv, [Next]_vars, [~AbortLifecycleRules]_vars,
           stage = "expiring", NEW t \in found
    PROVE  \/ stage' = "expiring" /\ t \in found'
           \/ sub'[t].status = "expired"
<1>0. t \in Tenants /\ sub \in [Tenants -> Row] /\ sub[t] \in Row
  BY DEF IInv, TypeOK
<1>1. CASE LifecycleJob
  <2>1. ExpiredRow(sub[t], now).status = "expired"
    BY <1>0 DEF ExpiredRow, Row
  <2> QED
    BY <1>0, <1>1, <2>1 DEF LifecycleJob, FindExpiredTrials,
       MovePastDueSubscriptions, MoveSuspendedSubscriptions,
       FindExpiredSubscriptions, ExpireSubscription,
       MoveCancelledSubscriptions, RecordEvents, LogStep
<1>2. CASE UNCHANGED <<stage, found>>
  BY <1>2
<1>3. AbortLifecycleRules => FALSE
  BY DEF AbortLifecycleRules, vars
<1> QED
  BY <1>1, <1>2, <1>3 DEF Next, Tick, TenantRequest, PaymentReport, DowngradeJob,
     StartTrialForNewUser, RequestUpgradeToPaidPlan, ScheduleDowngrade,
     CancelSubscription, ActivateAfterSuccessfulPayment, MarkPaymentFailed,
     FindDueDowngrades, ApplyScheduledDowngrade, SkipDowngrade, lifecycle, vars

(* A suspension whose days are over ends, by expiry or by a payment that was  *)
(* quicker, for any number of tenants in the loop (moveExpiredSubscriptions). *)
THEOREM SuspensionsEnd == Spec /\ JobComesRound => SuspensionEnds
<1> DEFINE P(t) == IsToExpire(sub[t], now)
           W(t) == stage = "expiring" /\ t \in found
           Smooth == IInv /\ [Next]_vars /\ [~AbortLifecycleRules]_vars
<1>1. ASSUME NEW t \in Tenants
      PROVE  IInv /\ <<FindExpiredSubscriptions>>_vars /\ P(t) => W(t)'
  BY DEF FindExpiredSubscriptions
<1>2. ASSUME NEW t \in Tenants
      PROVE  Smooth /\ W(t) => W(t)' \/ ~P(t)'
  <2> SUFFICES ASSUME Smooth, W(t), ~W(t)' PROVE ~P(t)'
    OBVIOUS
  <2>1. sub'[t].status = "expired"
    BY FoundAreExpired
  <2> QED
    BY <2>1 DEF IsToExpire
<1>3. ASSUME NEW t \in Tenants
      PROVE  stage # "expiring" => ~W(t)
  OBVIOUS
<1> SUFFICES ASSUME NEW t \in Tenants
             PROVE  Spec /\ JobComesRound => (P(t) ~> ~P(t))
  BY DEF SuspensionEnds
<1>4. /\ IInv /\ <<FindExpiredSubscriptions>>_vars /\ P(t) => W(t)'
      /\ Smooth /\ W(t) => W(t)' \/ ~P(t)'
      /\ stage # "expiring" => ~W(t)
  BY <1>1, <1>2, <1>3
<1> HIDE DEF P, W
<1> QED
  BY <1>4, Invariant, JobGoesRound, PTL
     DEF Spec, JobComesRound, StagesRecur, Smooth

(* Whom the query of the trials returned stays so until the log is written. *)
LEMMA FoundTrialsAreLogged ==
    ASSUME IInv, [Next]_vars, [~AbortLifecycleRules]_vars,
           stage = "trialEvents", NEW t \in found
    PROVE  \/ stage' = "trialEvents" /\ t \in found'
           \/ stage' = "pastDue" /\ <<t, "trial_expired">> \in events'
<1>1. CASE LifecycleJob
  BY <1>1 DEF LifecycleJob, FindExpiredTrials, MovePastDueSubscriptions,
     MoveSuspendedSubscriptions, FindExpiredSubscriptions, ExpireSubscription,
     MoveCancelledSubscriptions, RecordEvents, LogStep
<1>2. CASE UNCHANGED <<stage, found>>
  BY <1>2
<1>3. AbortLifecycleRules => FALSE
  BY DEF AbortLifecycleRules, vars
<1> QED
  BY <1>1, <1>2, <1>3 DEF Next, Tick, TenantRequest, PaymentReport, DowngradeJob,
     StartTrialForNewUser, RequestUpgradeToPaidPlan, ScheduleDowngrade,
     CancelSubscription, ActivateAfterSuccessfulPayment, MarkPaymentFailed,
     FindDueDowngrades, ApplyScheduledDowngrade, SkipDowngrade, lifecycle, vars

(* The end of every trial is logged in the end: a run that is cut short loses *)
(* what it found, the next one finds it again, and the log written last is no *)
(* obstacle, since only trials without an event are looked for                *)
(* (processTrialExpirations).                                                 *)
THEOREM TrialEndsAreLogged == Spec /\ JobComesRound => TrialEndIsLogged
<1> DEFINE P(t) == IsTrialOver(sub[t], now)
           Q(t) == <<t, "trial_expired">> \in events \/ sub[t].status # "trialing"
           W(t) == stage = "trialEvents" /\ t \in found
           Smooth == IInv /\ [Next]_vars /\ [~AbortLifecycleRules]_vars
<1>1. ASSUME NEW t \in Tenants
      PROVE  IInv /\ [Next]_vars /\ P(t) => P(t)' \/ Q(t)'
  <2> SUFFICES ASSUME IInv, [Next]_vars, P(t), ~Q(t)'
               PROVE  P(t)'
    OBVIOUS
  <2>1. /\ sub[t].status = "trialing" /\ sub'[t].status = "trialing"
        /\ sub[t].trialEndsAt <= now
    BY DEF IsTrialOver
  <2>2. sub'[t].trialEndsAt = sub[t].trialEndsAt
    <3>1. Quiet(sub[t], sub'[t])
      BY <2>1, RowKinds DEF Failing, Capturing, Exists
    <3> QED
      BY <3>1 DEF Quiet, Kept
  <2>3. now \in Nat /\ now' \in Nat /\ now <= now'
    BY DayPassesInRows
  <2>4. sub[t].trialEndsAt \in Nat
    BY <2>1 DEF IInv, RowInv, TrialIsUntouchedIn, Row, OptionalDate, Date
  <2> QED
    BY <2>1, <2>2, <2>3, <2>4 DEF IsTrialOver
<1>2. ASSUME NEW t \in Tenants
      PROVE  IInv /\ <<FindExpiredTrials>>_vars /\ P(t) => Q(t)' \/ W(t)'
  BY DEF FindExpiredTrials
<1>3. ASSUME NEW t \in Tenants
      PROVE  Smooth /\ W(t) => W(t)' \/ Q(t)'
  BY FoundTrialsAreLogged
<1>4. ASSUME NEW t \in Tenants
      PROVE  Smooth /\ W(t) /\ <<LifecycleJob>>_vars => Q(t)'
  BY FoundTrialsAreLogged, StageMoves DEF NextStage
<1> SUFFICES ASSUME NEW t \in Tenants
             PROVE  Spec /\ JobComesRound => (P(t) ~> Q(t))
  BY DEF TrialEndIsLogged
<1>5. /\ IInv /\ [Next]_vars /\ P(t) => P(t)' \/ Q(t)'
      /\ IInv /\ <<FindExpiredTrials>>_vars /\ P(t) => Q(t)' \/ W(t)'
      /\ Smooth /\ W(t) => W(t)' \/ Q(t)'
      /\ Smooth /\ W(t) /\ <<LifecycleJob>>_vars => Q(t)'
  BY <1>1, <1>2, <1>3, <1>4
<1> HIDE DEF P, Q, W
<1> QED
  BY <1>5, Invariant, JobGoesRound, PTL
     DEF Spec, JobComesRound, StagesRecur, Smooth
=============================================================================
