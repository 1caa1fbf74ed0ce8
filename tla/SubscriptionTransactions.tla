---------------------- MODULE SubscriptionTransactions ----------------------
(***************************************************************************)
(* The transactions of SubscriptionsService when they overlap.  The code   *)
(* asks for no isolation level, so PostgreSQL runs them READ COMMITTED:    *)
(* each reads the row, decides, and later writes the columns it names to   *)
(* the row as it is by then.  Only two things are decided at the write: a  *)
(* providerEventId is unique, and retryCount is incremented in place.      *)
(*                                                                         *)
(* Begin(h, ...) is everything up to the first write; Commit the writes    *)
(* and the end of the transaction (the row is locked from the write on);   *)
(* Rollback any error, the unique providerEventId and Prisma's time limit  *)
(* of 5 seconds included.  That limit is why no day passes while a         *)
(* transaction is open.                                                    *)
(*                                                                         *)
(* The stages of the lifecycle job fall between the reads and the writes   *)
(* of the others.  Three are single statements (updateManyAndReturn).  The *)
(* expiry reads the suspended rows and then writes each in a transaction   *)
(* that looks at nothing, so that this one is a single step.  The order of *)
(* the stages and their log, which no transaction reads, are left to       *)
(* Subscriptions: here a stage comes at any time, and what holds, holds    *)
(* for every order.                                                        *)
(*                                                                         *)
(* The creation of the row, whose transactions Onboarding interleaves, is  *)
(* one step here.                                                          *)
(***************************************************************************)
EXTENDS SubscriptionRow, FiniteSets

CONSTANTS
    Charges,      \* charge ids: providerEventId of a webhook
    Handlers,     \* requests, webhooks and job steps handled at the same time
    MaxTime       \* bound: last day of a behaviour

ASSUME HandlersAssumption == IsFiniteSet(Handlers) /\ Handlers # {}
ASSUME TimeAssumption == MaxTime \in Nat

VARIABLES
    now,          \* the day
    sub,          \* [Tenants -> Row], committed
    payments,     \* recorded payments
    due,          \* tenants the downgrade loop still has to visit
    tx,           \* the open transaction of each handler
    found         \* tenants whose rows the expiry has read and not yet written

vars == <<now, sub, payments, due, tx, found>>

Payment == [event : Charges, tenant : Tenants,
            status : {"succeeded", "failed"}]

Kinds == {"capture", "decline", "upgrade", "downgrade", "apply", "cancel"}

(* plan: of an upgrade or downgrade; charge: of a report; seen: the row read. *)
NoTx == [kind |-> "none"]
Tx == [kind : Kinds, tenant : Tenants, charge : Charges \cup {Null},
       plan : Plans \cup {Null}, seen : Row]

Exists(t) == sub[t].status # "none"
IsRecorded(e) == \E p \in payments : p.event = e
IsOpen(h) == tx[h] # NoTx

TypeOK ==
    /\ now \in 0..MaxTime
    /\ sub \in [Tenants -> Row]
    /\ payments \subseteq Payment
    /\ due \subseteq Tenants
    /\ tx \in [Handlers -> Tx \cup {NoTx}]
    /\ found \subseteq Tenants

Init ==
    /\ now = 0
    /\ sub = [t \in Tenants |-> NoRow]
    /\ payments = {}
    /\ due = {}
    /\ tx = [h \in Handlers |-> NoTx]
    /\ found = {}

StartTrialForNewUser(t) ==
    /\ ~Exists(t)
    /\ sub' = [sub EXCEPT ![t] = TrialRow(now)]
    /\ UNCHANGED <<now, payments, due, tx, found>>

-----------------------------------------------------------------------------
(* The reads and checks. *)

Begin(h, kind, t, e, p) ==
    /\ ~IsOpen(h)
    /\ Exists(t)
    /\ tx' = [tx EXCEPT ![h] = [kind |-> kind, tenant |-> t, charge |-> e,
                                plan |-> p, seen |-> sub[t]]]
    /\ UNCHANGED <<now, sub, payments, found>>

BeginUpgrade(h, t, p) ==
    /\ PlanAvailable(p, t)
    /\ MonthlyPrice[p] > 0
    /\ sub[t].planId # p
    /\ Begin(h, "upgrade", t, Null, p)
    /\ UNCHANGED due

BeginDowngrade(h, t, p) ==
    /\ PlanAvailable(p, t)
    /\ MonthlyPrice[p] < MonthlyPrice[sub[t].planId]
    /\ Begin(h, "downgrade", t, Null, p)
    /\ UNCHANGED due

BeginCancel(h, t) ==
    /\ sub[t].status \in {"active", "past_due"}
    /\ Begin(h, "cancel", t, Null, Null)
    /\ UNCHANGED due

BeginCapture(h, t, e) ==
    /\ ~IsRecorded(e)
    /\ Begin(h, "capture", t, e, Null)
    /\ UNCHANGED due

(* Mutant: the limit is not looked at. *)
BeginDeclineUnlimited(h, t, e) ==
    /\ ~IsRecorded(e)
    /\ Begin(h, "decline", t, e, Null)
    /\ UNCHANGED due

BeginDecline(h, t, e) ==
    /\ ~IsRecorded(e)
    /\ sub[t].retryCount < MaxRetries
    /\ Begin(h, "decline", t, e, Null)
    /\ UNCHANGED due

(* One downgrade job: its loop waits for each transaction. *)
FindDueDowngrades ==
    /\ due = {}
    /\ \A h \in Handlers : IsOpen(h) => tx[h].kind # "apply"
    /\ due' = {t \in Tenants : IsDowngradeDue(sub[t], now)}
    /\ UNCHANGED <<now, sub, payments, tx, found>>

(* Without a pending plan the transaction ends here. *)
BeginApply(h, t) ==
    /\ t \in due
    /\ \A g \in Handlers : IsOpen(g) => tx[g].kind # "apply"
    /\ due' = due \ {t}
    /\ IF sub[t].pendingPlanId = Null
       THEN UNCHANGED <<now, sub, payments, tx, found>>
       ELSE Begin(h, "apply", t, Null, Null)

-----------------------------------------------------------------------------
(* The writes. *)

(* Mutant: the row read is saved whole, not the columns that change. *)
AppliedRowSaved(cur, seen) == DowngradedRow(seen, now)

(* What applyScheduledDowngrade read decides what it writes. *)
AppliedRow(cur, seen) ==
    [cur EXCEPT !.planId = seen.pendingPlanId,
                !.pendingPlanId = Null,
                !.pendingPlanEffectiveAt = Null,
                !.priceSnapshot =
                    SubscriptionPriceAmount(seen.pendingPlanId, seen.billingCycle),
                !.quotaSnapshot = seen.pendingPlanId,
                !.updatedAt = now]

(* Mutant: the counter read before is written back, one higher. *)
DeclinedRowStale(cur, seen) ==
    [PaymentFailedRow(cur, now) EXCEPT !.retryCount = seen.retryCount + 1]

(* { increment: 1 } counts from the row as it is at the write. *)
DeclinedRow(cur, seen) == PaymentFailedRow(cur, now)

(* All columns but trialEndsAt, which never changes, come from the row read.  *)
CapturedRow(cur, seen, a) == ActivatedRow(seen, seen.billingCycle, a, now)

(* The row that x writes over cur. *)
Written(x, cur, a) ==
    CASE x.kind = "capture" -> CapturedRow(cur, x.seen, a)
      [] x.kind = "decline" -> DeclinedRow(cur, x.seen)
      [] x.kind = "upgrade" -> PendingRow(cur, x.plan, now, now)
      [] x.kind = "downgrade" ->
             PendingRow(cur, x.plan, x.seen.currentPeriodEnd, now)
      [] x.kind = "apply" -> AppliedRow(cur, x.seen)
      [] x.kind = "cancel" -> CancelRequestedRow(cur, now)

(* The insert of a report; a charge recorded meanwhile violates the index. *)
Record(x) ==
    IF x.kind \in {"capture", "decline"}
    THEN /\ ~IsRecorded(x.charge)
         /\ payments' = payments \cup
                {[event |-> x.charge, tenant |-> x.tenant,
                  status |-> IF x.kind = "capture" THEN "succeeded" ELSE "failed"]}
    ELSE UNCHANGED payments

Commit(h) ==
    /\ IsOpen(h)
    /\ LET x == tx[h] IN
       /\ Record(x)
       /\ \E a \in Agreements :
              sub' = [sub EXCEPT ![x.tenant] = Written(x, sub[x.tenant], a)]
    /\ tx' = [tx EXCEPT ![h] = NoTx]
    /\ UNCHANGED <<now, due, found>>

Rollback(h) ==
    /\ IsOpen(h)
    /\ tx' = [tx EXCEPT ![h] = NoTx]
    /\ UNCHANGED <<now, sub, payments, due, found>>

-----------------------------------------------------------------------------
(* The stages of the lifecycle job. *)

(* One statement moves every row that is due; PostgreSQL looks again at a row *)
(* that it had to wait for.                                                   *)
Move(IsDue(_, _), Moved(_, _)) ==
    /\ sub' = [t \in Tenants |-> IF IsDue(sub[t], now)
                                 THEN Moved(sub[t], now) ELSE sub[t]]
    /\ UNCHANGED <<now, payments, due, tx, found>>

MovePastDueSubscriptions == Move(IsPastDue, PastDueRow)
MoveSuspendedSubscriptions == Move(IsToSuspend, SuspendedRow)
MoveCancelledSubscriptions == Move(IsToCancel, CancelledRow)

(* The 60 days are counted on the rows the query returned ... *)
FindExpiredSubscriptions ==
    /\ found = {}
    /\ found' = {t \in Tenants : IsToExpire(sub[t], now)}
    /\ UNCHANGED <<now, sub, payments, due, tx>>

(* ... and the transaction of each writes over whatever the row is by then. *)
ExpireSubscription(t) ==
    /\ t \in found
    /\ found' = found \ {t}
    /\ sub' = [sub EXCEPT ![t] = ExpiredRow(sub[t], now)]
    /\ UNCHANGED <<now, payments, due, tx>>

(* An error, or a restart, ends the loop. *)
AbortLifecycleRules ==
    /\ found # {}
    /\ found' = {}
    /\ UNCHANGED <<now, sub, payments, due, tx>>

LifecycleRules ==
    \/ MovePastDueSubscriptions
    \/ MoveSuspendedSubscriptions
    \/ FindExpiredSubscriptions
    \/ \E t \in Tenants : ExpireSubscription(t)
    \/ MoveCancelledSubscriptions
    \/ AbortLifecycleRules

-----------------------------------------------------------------------------

Tick ==
    /\ now < MaxTime
    /\ \A h \in Handlers : ~IsOpen(h)
    /\ now' = now + 1
    /\ UNCHANGED <<sub, payments, due, tx, found>>

BeginSome(h, t) ==
    \/ \E p \in Plans : BeginUpgrade(h, t, p) \/ BeginDowngrade(h, t, p)
    \/ \E e \in Charges : BeginCapture(h, t, e) \/ BeginDecline(h, t, e)
    \/ BeginCancel(h, t)
    \/ BeginApply(h, t)

Next ==
    \/ Tick
    \/ FindDueDowngrades
    \/ \E t \in Tenants : StartTrialForNewUser(t)
    \/ \E h \in Handlers :
           \/ \E t \in Tenants : BeginSome(h, t)
           \/ Commit(h)
           \/ Rollback(h)
    \/ LifecycleRules

Spec == Init /\ [][Next]_vars

-----------------------------------------------------------------------------
(* Properties. *)

Failed(t) == {h \in Handlers : IsOpen(h) /\ tx[h].kind = "decline"
                               /\ tx[h].tenant = t}

RetryBound == MaxRetries + Cardinality(Handlers) - 1

(* Failed charges handled at the same time pass the check of the limit        *)
(* together (markPaymentFailed reads retryCount before it increments it): the *)
(* limit is exceeded by at most one less than the number handled at once,     *)
(* counting those that still have to write.                                   *)
OverrunIsBounded ==
    \A t \in Tenants :
        /\ sub[t].retryCount <= RetryBound
        /\ Failed(t) # {} =>
               sub[t].retryCount + Cardinality(Failed(t)) <= RetryBound

(* However the transactions overlap, a failure is dated exactly while one is  *)
(* counted: a capture that was decided before a failure was recorded clears   *)
(* both, and a failure written over a capture sets both.                      *)
FailuresDated ==
    \A t \in Tenants : sub[t].retryCount = 0 <=> sub[t].pastDueAt = Null

(* However the transactions overlap, price and quota snapshots are those of   *)
(* the plan in the row: applyScheduledDowngrade and                           *)
(* activateAfterSuccessfulPayment write plan and terms from one read.         *)
SnapshotsFollowPlan ==
    \A t \in Tenants :
        /\ sub[t].quotaSnapshot = sub[t].planId
        /\ sub[t].priceSnapshot =
               SubscriptionPriceAmount(sub[t].planId, sub[t].billingCycle)

Reported(t, status) ==
    \E p \in payments' \ payments : p.tenant = t /\ p.status = status

UndoneStep ==
    \A t \in Tenants :
        Exists(t) =>
            /\ \/ sub[t].cancelAtPeriodEnd /\ ~sub'[t].cancelAtPeriodEnd
               \/ sub'[t].retryCount < sub[t].retryCount
               \/ sub'[t].lastBillingAt # sub[t].lastBillingAt
               \/ sub'[t].currentPeriodEnd # sub[t].currentPeriodEnd
               => Reported(t, "succeeded")
            /\ sub[t].status # "active" /\ sub'[t].status = "active"
               => Reported(t, "succeeded") \/ Reported(t, "failed")
            /\ sub[t].status = "active" /\ sub'[t].status # "active"
               => \/ sub[t].pastDueAt # Null
                  \/ sub[t].cancelAtPeriodEnd
                  \/ t \in found

(* However transactions and lifecycle stages overlap, what one has committed  *)
(* no other undoes by writing back what it read before: a requested           *)
(* cancellation, a counted failure and a paid period give way only to a       *)
(* captured charge that is recorded in the same step, and only a report makes *)
(* a row active.  An active row loses that status to the job alone, for a     *)
(* failure or a cancellation that stands in it, with one exception: the       *)
(* expiry closes every row its query found suspended, one that was paid in    *)
(* between included (cancelSubscription, applyScheduledDowngrade,             *)
(* moveExpiredSubscriptions).                                                 *)
UndoneOnlyByReports == [][UndoneStep]_vars

Ledger == INSTANCE PaymentLedger WITH
    Limit <- RetryBound,
    open <- {t \in Tenants : Exists(t)},
    failures <- [t \in Tenants |-> sub[t].retryCount],
    paidUntil <- [t \in Tenants |-> sub[t].currentPeriodEnd]

(* Overlapping transactions still keep the ledger of PaymentLedger, with the  *)
(* limit raised by the failures that overlap: no charge counts twice, and no  *)
(* failure is lost between two that are counted at once.                      *)
ImplementsLedger == Ledger!Spec

-----------------------------------------------------------------------------
(* What does not overlap, and what overlaps without harm. *)

(* The tenants whose downgrade is being applied; Subscriptions has them still *)
(* due. *)
Applying == {t \in Tenants : \E h \in Handlers :
                 IsOpen(h) /\ tx[h].kind = "apply" /\ tx[h].tenant = t}

(* Subscriptions, its lifecycle job at rest, with an entry in the log for     *)
(* every cancellation there may be.                                           *)
Service == INSTANCE Subscriptions WITH
    due <- due \cup Applying,
    events <- Tenants \X {"cancelled"},
    stage <- "idle",
    found <- {},
    aborts <- 0,
    MaxAborts <- 0

ReadIsCurrent(h) == tx[h].seen = sub[tx[h].tenant]

(* However the transactions overlap, one that still finds the row it read     *)
(* does what its method in Subscriptions does in one step, at its commit, and *)
(* so does all else that happens to rows, payments and due downgrades, the    *)
(* stages aside, which are the same there: stale rows are all that            *)
(* overlapping can bring about.                                               *)
OnlyStaleReadsDiffer ==
    [][\/ \E h \in Handlers : Commit(h) /\ ~ReadIsCurrent(h)
       \/ LifecycleRules
       \/ Service!Next]_(Service!vars)

(* No stage of the lifecycle job falls between a read and its write. *)
JobWaits == [][LifecycleRules => \A h \in Handlers : ~IsOpen(h)]_vars

(* With one handler, and no stage in between, reads and writes of a           *)
(* transaction are as one: what is done to rows, payments and due downgrades, *)
(* the stages aside, are the steps of Subscriptions, each taken when the      *)
(* transaction commits.                                                       *)
StepsOfSubscriptions == [][LifecycleRules \/ Service!Next]_(Service!vars)
=============================================================================
