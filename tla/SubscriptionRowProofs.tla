------------------------ MODULE SubscriptionRowProofs ------------------------
(***************************************************************************)
(* The rows the methods write are rows: one lemma per operator of          *)
(* SubscriptionRow, used wherever a module writes such a row.              *)
(***************************************************************************)
EXTENDS SubscriptionRow, TLAPS

LEMMA AmountIsNat ==
    ASSUME NEW p \in Plans, NEW c \in Cycles
    PROVE  SubscriptionPriceAmount(p, c) \in Nat
BY PlansAssumption DEF SubscriptionPriceAmount

LEMMA TrialPlanIsAPlan == TrialPlan \in Plans /\ MonthlyPrice[TrialPlan] \in Nat
BY PlansAssumption

LEMMA NullIsNoDate == ASSUME NEW d \in Nat PROVE d # Null
BY NullAssumption

LEMMA NullIsNoPlan == ASSUME NEW p \in Plans PROVE p # Null
BY NullAssumption

LEMMA NoRowType == NoRow \in Row
BY TrialPlanIsAPlan DEF NoRow, Row, Statuses, Cycles, Date, OptionalDate

LEMMA TrialRowType == ASSUME NEW d \in Nat PROVE TrialRow(d) \in Row
<1>1. d + TrialDays \in Nat /\ "trialing" \in Statuses
  BY DaysAssumption DEF Statuses
<1> QED
  BY <1>1, NoRowType, Zenon DEF TrialRow, Row, Date, OptionalDate

LEMMA PendingRowType ==
    ASSUME NEW r \in Row, NEW p \in Plans, NEW e \in Nat, NEW d \in Nat
    PROVE  PendingRow(r, p, e, d) \in Row
BY Zenon DEF PendingRow, Row, Date, OptionalDate

LEMMA DowngradedRowType ==
    ASSUME NEW r \in Row, NEW d \in Nat, r.pendingPlanId # Null
    PROVE  DowngradedRow(r, d) \in Row
<1> DEFINE p == r.pendingPlanId
           x == SubscriptionPriceAmount(p, r.billingCycle)
<1>1. p \in Plans /\ r.billingCycle \in Cycles
  BY DEF Row
<1>2. x \in Nat
  BY <1>1, AmountIsNat
<1> HIDE DEF p, x
<1>3. [r EXCEPT !.planId = p, !.pendingPlanId = Null,
                !.pendingPlanEffectiveAt = Null, !.priceSnapshot = x,
                !.quotaSnapshot = p, !.updatedAt = d] \in Row
  BY <1>1, <1>2, Zenon DEF Row, Date, OptionalDate
<1> QED
  BY <1>3, Zenon DEF DowngradedRow, p, x

LEMMA CancelRequestedRowType ==
    ASSUME NEW r \in Row, NEW d \in Nat
    PROVE  CancelRequestedRow(r, d) \in Row
BY Zenon DEF CancelRequestedRow, Row, Date

LEMMA ActivePlanIdType ==
    ASSUME NEW r \in Row
    PROVE  ActivePlanId(r) \in Plans
BY DEF ActivePlanId, Row

LEMMA ActivatedRowType ==
    ASSUME NEW r \in Row, NEW c \in Cycles, NEW a \in Agreements, NEW d \in Nat
    PROVE  ActivatedRow(r, c, a, d) \in Row
<1> DEFINE p == ActivePlanId(r)
           x == SubscriptionPriceAmount(p, c)
           e == d + PeriodDays(r.billingCycle)
<1>1. p \in Plans /\ x \in Nat
  BY ActivePlanIdType, AmountIsNat
<1>2. e \in Nat
  BY DaysAssumption DEF PeriodDays
<1>3. "active" \in Statuses /\ 0 \in Nat
  BY DEF Statuses
<1> HIDE DEF p, x, e
<1>4. [r EXCEPT !.planId = p, !.status = "active",
                !.currentPeriodStart = d, !.currentPeriodEnd = e,
                !.nextBillingAt = e, !.lastBillingAt = d,
                !.billingCycle = c, !.retryCount = 0,
                !.cancelAtPeriodEnd = FALSE, !.cancelledAt = Null,
                !.suspendedAt = Null, !.pastDueAt = Null,
                !.pendingPlanId = Null, !.pendingPlanEffectiveAt = Null,
                !.tapPaymentAgreementId = a, !.priceSnapshot = x,
                !.quotaSnapshot = p, !.updatedAt = d] \in Row
  BY <1>1, <1>2, <1>3, ZenonT(40) DEF Row, Date, OptionalDate
<1> QED
  BY <1>4, Zenon DEF ActivatedRow, p, x, e

LEMMA PaymentFailedRowType ==
    ASSUME NEW r \in Row, NEW d \in Nat
    PROVE  PaymentFailedRow(r, d) \in Row
<1>1. r.retryCount + 1 \in Nat /\ "active" \in Statuses
  BY DEF Row, Statuses
<1> QED
  BY <1>1, Zenon DEF PaymentFailedRow, Row, Date, OptionalDate

LEMMA PastDueRowType ==
    ASSUME NEW r \in Row, NEW d \in Nat
    PROVE  PastDueRow(r, d) \in Row
<1>1. "past_due" \in Statuses
  BY DEF Statuses
<1> QED
  BY <1>1, Zenon DEF PastDueRow, Row, Date

LEMMA SuspendedRowType ==
    ASSUME NEW r \in Row, NEW d \in Nat
    PROVE  SuspendedRow(r, d) \in Row
<1>1. "suspended" \in Statuses
  BY DEF Statuses
<1> QED
  BY <1>1, Zenon DEF SuspendedRow, Row, Date, OptionalDate

LEMMA ExpiredRowType ==
    ASSUME NEW r \in Row, NEW d \in Nat
    PROVE  ExpiredRow(r, d) \in Row
<1>1. "expired" \in Statuses
  BY DEF Statuses
<1> QED
  BY <1>1, Zenon DEF ExpiredRow, Row, Date, OptionalDate

LEMMA CancelledRowType ==
    ASSUME NEW r \in Row, NEW d \in Nat
    PROVE  CancelledRow(r, d) \in Row
<1>1. "cancelled" \in Statuses
  BY DEF Statuses
<1> QED
  BY <1>1, Zenon DEF CancelledRow, Row, Date, OptionalDate
=============================================================================
