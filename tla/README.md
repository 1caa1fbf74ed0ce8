# Plan subscriptions and billing, specified

TLA+ models, model-checking configurations and machine-checked proofs for the
plan subscription back end in `src/`: a NestJS application over PostgreSQL
(Prisma) that bills tenants through the Tap payment gateway. The specifications
are translated from the source; the product documentation
(`docs/PLANS_SUBSCRIPTIONS_FEATURE.md`, below "the feature document") is used
only to state what the code is said to do.

## 1. The system

| part | code | state it keeps | operations |
|---|---|---|---|
| subscriptions | `src/subscriptions/subscriptions.service.ts` | one `tenant_subscriptions` row per tenant, `subscription_payments`, `subscription_events` | start trial, request upgrade, schedule and apply downgrade, cancel, check a resubscription, activate after payment, mark payment failed, five lifecycle stages |
| billing endpoints | `src/billing/billing.service.ts` | none | upgrade, enterprise subscription, downgrade, resubscribe, cancel: a transaction of the service above, then a Tap charge |
| billing cron | `src/billing/billing-cron.service.ts` | local variables of a run | hourly: apply due downgrades, charge due renewals; half-hourly: the lifecycle stages |
| billing webhook | `src/billing/webhook/` | events being handled, in memory | verify, answer 200, handle without waiting |
| payment gateway | `src/payment-gateway/` | at Tap: charges, cards, agreements | create a charge with the customer present, create a recurring one, check a webhook's hash |
| tenant profiles, usage | `src/tenants/tenant-profiles.service.ts`, `src/subscriptions/subscription-usage-limits.service.ts` | `tenant_usages` | compare with the quota of the current plan, increment |
| enterprise requests | `src/enterprise-plan-requests/` | `enterprise_plan_requests` and its events | create, review (contacted, approved, rejected), approve and create the plan |
| plans | `src/plans/` | `plans` | create, update, remove |
| auth, users, tenants | `src/auth/`, `src/users/`, `src/tenants/` | `users`, `tenants`, verification tokens | sign up, sign in, verify (which starts the trial) |
| guards | `src/common/guards/` | none | token, role, subscription state |
| queries, DTOs, configuration, utilities, generated client | the rest | none | read-only or stateless |

How they interact: the endpoints and the two jobs call the subscriptions
service; endpoints and the hourly job create charges at Tap; Tap reports each
charge to the webhook, which calls the service again. The only shared state is
the database. Nothing ties a report to the request that caused it except the
tenant id in the charge's metadata.

What is hard here:

- **interleaving**: requests, reports and two jobs write the same row, each job
  in several statements, working on rows it read earlier;
- **delivery**: reports come late, repeated and in any order, and are answered
  before they are handled, so that a failing handler loses them;
- **time**: four windows (3, 7, 60 days, and the paid period) count from
  different columns of one row, one of them from `updatedAt`, which every write
  renews;
- **partial failure**: a stage changes rows and logs them in two statements, and
  an error ends the rest of the run; a sign-up inserts user and tenant in two; the
  trial is started by a call nobody waits for, whose rejection ends the process;
- **isolation**: transactions run READ COMMITTED, so that each decides on rows that
  others may have changed by the time it writes.

What must hold, part by part: a row agrees with its payments and dates whatever
the order of events (subscriptions); nobody loses the service early and nobody
keeps it for ever (lifecycle); the ledger says what Tap says and no money is
taken unrecorded or without a saved card (billing, webhook); no tenant gets the
enterprise plan of another (plans, enterprise requests); usage stays within the
quota (profiles); a request is decided once (enterprise requests); a verified
account has exactly one subscription (auth). `PROJECT.json` lists the single
hazards with their lines.

## 2. The modules

| module | what it is |
|---|---|
| `SubscriptionRow` | constants and their assumptions, the row, the row each method writes, the conditions each query asks |
| `Subscriptions` | the service as a state machine over row, ledger and log, one action per transaction: the abstract specification of billing, in which the gateway may report anything |
| `SubscriptionTransactions` | the same transactions when they overlap: each reads, then writes over whatever the row is by then, and the lifecycle stages fall in between; with one at a time, and no stage in between, its steps are those of `Subscriptions` |
| `PaymentLedger` | abstract: what recording a payment promises; implemented by both modules above |
| `AccessGuard` | the subscription guard as an operator of the row and the date, and what `Subscriptions` does to it |
| `Billing` | endpoints, hourly job, webhook and Tap composed with `Subscriptions` |
| `DocumentedClaims` | statements of the feature document, as properties of `Billing`, that the code does not keep |
| `PlanCatalogue` | plans created, edited and removed while overlapping transactions choose, copy and apply them |
| `Quota` | use of metered resources, statement by statement, while plans change |
| `EnterpriseRequests` | requests for enterprise plans, each transaction split into what it reads and what it writes |
| `Onboarding` | sign-up, sign-in, verification and the start of the trial, statement by statement, cut short anywhere |
| `AccountLifecycle` | abstract: what an account can become; implemented by `Onboarding` |
| `...Proofs` | the theorems about the module of that name; `SubscriptionRowProofs` holds the lemmas about rows that two of them share |
| `MC...` | constants of the instances TLC checks |

What implements or uses what:

    Billing -> Subscriptions -> PaymentLedger <- SubscriptionTransactions
                 ^   ^   both built from SubscriptionRow      |
                 |   +-- one at a time, no stage in between --+
                AccessGuard
    Onboarding -> AccountLifecycle

`Quota`, `EnterpriseRequests` and `PlanCatalogue` stand alone: each looks at the
statements of one service more closely than the rows of the others need.

Definitions carry the names of the methods they translate (misspellings
included, such as `SubscripeToEnterprisePlan`); `map` in `PROJECT.json` gives
the lines of each.

### State

- `sub[t]` is the row of tenant `t`, `NoRow` (status `"none"`) before the trial
  starts. Dates are days. The columns left out are those nothing reads back and
  no property needs; the three Tap ids are written together and stand as one
  (`tapPaymentAgreementId`); `quotaSnapshot` is the plan the quotas were copied
  from.
- `payments` is the ledger: one record per charge (`providerEventId` is unique).
- `events` keeps only the event types that are written outside the row's own
  transaction, since only those can get out of step with the row.
- `stage`, `found`, `aborts`: where the half-hourly job is, the rows its last
  query returned, and how often a run was cut short. `due`, `billingStage`,
  `toRenew`: the same for the hourly job. `toRenew` holds copies of the columns,
  because the loop charges from what the query read.
- `tx[h]` in the modules of transactions: what the open transaction of handler `h`
  has read; `NoTx` when it has none. A handler is a slot, used again and again.
- `req[r]` in `Onboarding`: the step request `r` is about to take. `lost` is history
  and no column: the users whose trial start was rejected or fell with the process.
- `offered[p]` in `PlanCatalogue`: history, the terms plan `p` has ever had.
- `charges`, `webhook`: what Tap knows, and how far the report of a charge came.

### Actions

One action is one transaction or, where the code opens none, one statement. The
service's transactions (`StartTrialForNewUser` ... `MarkPaymentFailed`) have the
checks as conjuncts in the code's order and write the row of `SubscriptionRow`.
A lifecycle stage is the query and update (`MovePastDueSubscriptions`, ...), then
the log (`RecordEvents`); for expiry the query and each update are separate, as
in the code, and the update does not look at the row again.
`AbortLifecycleRules` is an error caught by the job, or a restart, at any point
between.

In `Billing` an endpoint's transaction and its call to Tap are one action that
may also fail to create a charge: the amount is fixed by the transaction and
nothing of the database is read or written between the two. `WebhookAccepted`
is the answer 200; `HandleEvent` the handler, later; `LoseEvent` a handler that
fails or a process that stops in between.

`Quota` and `EnterpriseRequests` are finer: there the hazard lies between the
statements of one method. In `Quota` a request passes the guard (`GuardAdmits`),
reads the plan (`ReadPlan`: the nested read is a statement of its own), reads and
compares the usage (`CheckUsage`) and increments it (`Increment`). `ChangePlan` is
any step of `Subscriptions` that puts another plan in force, `UpdatePlan` an
administrator's edit (both in `PlanCatalogue` in full); `highest`, the highest quota a tenant ever had, is history
and no column. In `EnterpriseRequests` an interactive transaction is `Begin...`,
its reads and refusals, and `Commit...`, its writes; at READ COMMITTED others
commit in between, and the writes do not look again, except that the index on plan
names does. `RollBack` is any failure. The log `events` is kept because it tells
which approvals a plan came from; administrators' notes are not.

`SubscriptionTransactions` and `PlanCatalogue` split the transactions of the
subscriptions service the same way. Only what the database decides at the write is
decided there: `{ increment: 1 }` counts from the row as it is, a `providerEventId`
is unique, a foreign key refuses a plan that is gone (RESTRICT) or clears the
reference to it (SET NULL). Everything else is written as it was read.
`PlanCatalogue` splits `activateAfterSuccessfulPayment` and `applyScheduledDowngrade`
once more, between reading the subscription and looking up the plan (`ReadPlan`; the
`include` of the latter is a statement of its own).

In `SubscriptionTransactions` the stages of the lifecycle job fall between the reads
and the writes of the requests and reports. Three stages are one statement each
(`Move`). The expiry is a query (`FindExpiredSubscriptions`) and then one transaction
per row that writes without looking (`ExpireSubscription`), so that one step stands
for that transaction, and `found` holds the rows still to be written. Which stage comes
after which, and the log, are in `Subscriptions`; here any stage may come at any time,
which is more than the job does, and the properties hold all the same.

In `Onboarding` there are no transactions to split: every statement is an action.
`FailRequest` ends a request whose statement fails and leaves what it had written;
`ExitProcess` ends all of them; `RejectTrial` is the trial that fails after nobody
waits for it, which Node answers by ending the process.

`CanActivate(t, route)` translates the guard for three classes of routes, by what
their `@RequireSubscription` allows: those that read, those that use or change
something, and the enterprise endpoint.

## 3. What is checked

| run (module) | properties | shows |
|---|---|---|
| `subscriptions` (`MCSubscriptions`) | `TypeOK`, `GraceHonoured`, `PaidPeriodIsOneMonth`, `StateHasEvidence`, `GraceGivesNoAccess`, `AccessIsCovered`, `CancellationRevokedOnlyByPayment`, `PlanChangesOnlyToPending`, `ImplementsLedger`, `AccessComesBackByReport` | in every order of requests, reports and job steps the row agrees with ledger and dates, and every failure, payment and withdrawal in it is borne out by a recorded payment; grace is given and still opens no route; whatever made a row active, access needs a trial or a month that was paid for; a cancellation, a plan and an access are changed by what the code means to change them, and by what it does not |
| `subscriptions_live` (`MCSubscriptions`) | `GraceRunsOut`, `TrialEndIsLogged`, `CancellationTakesEffect`, `SuspensionEnds` | what the lifecycle job owes does happen, although its stages work on rows read before them and a run may be cut short between any two statements |
| `transactions` (`MCSubscriptionTransactions`) | `OverrunIsBounded`, `ImplementsLedger`, `OnlyStaleReadsDiffer`, `UndoneOnlyByReports` | overlapping transactions pass the retry limit by less than their number; they never count a charge twice or lose a failure; one that still finds the row it read does what its method does in one step; none undoes what another committed by writing back what it read, unless it records a captured charge; and an active row that owes nothing is closed by no stage but the expiry of rows read before it |
| `plan_catalogue` (`MCPlanCatalogue`) | `ReferencesHold`, `TermsWereOffered`, `OnlyOwnPlans`, `WaitingPlanIsNotLost` | removal and edits never leave a row on a plan that is gone, on terms its plan never had, or on another tenant's plan; a chosen plan is lost only to a transaction that had read before |
| `billing` (`MCBilling`) | `LedgerAgreesWithTap`, `RenewalNeedsFirstPayment`, `ImplementsSubscriptions`, `UnpaidOnlyByDowngradeOrFailure` | the composed system implements `Subscriptions`; the ledger is true; cards are charged only after their owner paid; a tenant gets something unpaid from the downgrade loop and from declined charges, and from nothing else |
| `billing_live` (`MCBilling`) | `ReportsCanBeHandled`, `CapturesAreRecorded` | no report gets stuck in any reachable state; a captured charge is recorded unless its handler failed |
| `onboarding` (`MCOnboarding`) | `TypeOK`, `UnverifiedKeepsCode`, `OrphansStay`, `ImplementsLifecycle`, `TrialUnlessLost` | whatever overlaps or is cut short, an account gets at most one tenant and one subscription, in order; an account can be verified until it is; a sign-up cut between its inserts is never repaired; a trial starts unless its one attempt failed |
| `quota` (`MCQuota`) | `OverrunBounded`, `OverQuotaOnlyDrains` | usage passes the highest quota ever granted by less than the number of requests handled at once, and a quota of zero never; over the quota in force nothing new is admitted, whether the tenant used it up, was downgraded, or the plan was cut |
| `enterprise` (`MCEnterpriseRequests`) | `OpenRequestsBounded`, `DecisionSettles`, `PlansAreApproved` | a tenant has at most as many open requests as transactions run at once; a decision is changed only by a transaction that read the request before it; every enterprise plan belongs to the tenant who asked and has an approval of its own in the log |
| `claim_upgrade_needs_payment`, `claim_reactivation_needs_payment` (`MCBilling`), `claim_quota_enforced` (`MCQuota`) | one each | runs that end in a counterexample |

Some invariants and action properties are theorems (section 4)
and not listed in a run, because a checked one says as much or more:
the types of `Quota`, `Billing`, `SubscriptionTransactions`, `PlanCatalogue` and
`EnterpriseRequests` are part of what their other properties are proved from;
`FailureTakesEffect` has the form of `GraceRunsOut`, one stage earlier;
`PeriodMovesOnlyWithPayment`, `ReportsAreFinal` and the counter half of
`FailuresAccounted` follow from `ImplementsLedger`; `ReopensOnlyByNewReport` is
close to `AccessComesBackByReport`; `OnlyOwnPlans` is checked where transactions
overlap; `TrialIsUntouched`, `CancelledIsClosed`, `SnapshotsFollowPlan`,
`FailuresDated` and `FreePlanStays` are parts of the inductive invariants, each a
statement about one update or kept by every write alone.

### Where code and documents disagree

Each `claim_*` run ends with TLC's counterexample to one sentence of the feature
document, or to a comment, quoted at the property and, with its line, in
`PROJECT.json`:

- `UpgradeNeedsPayment`: an upgrade comes into force without payment at the next
  hourly run, which takes it for a downgrade that is due;
- `ReactivationNeedsPayment`: a declined payment makes a trial, or a suspended
  subscription, active (`UnpaidOnlyByDowngradeOrFailure` shows that these two are the
  only ways to something unpaid, and `AccessIsCovered` that neither prolongs access);
- `QuotaEnforced` (a comment of `tenant-profiles.service.ts`: the check of the
  service "protects from parallel requests"): two requests at once both take the
  last unit.

Other sentences are contradicted by a property that holds and says what is true
instead:

- `PlanChangesOnlyToPending`: a captured charge activates the plan that is waiting
  when its report comes, not the one it was made for;
- `CancellationRevokedOnlyByPayment`: a captured charge withdraws a cancellation,
  the renewal that was under way when it was requested included;
- `AccessComesBackByReport`: any new report makes a subscription active, an expired
  one too, although "`expired` is a terminal state";
- `GraceGivesNoAccess`: routes that are documented to allow `past_due` refuse a
  tenant whose renewal failed, since the guard looks at the end of the period too;
  the same tenant may read again when it is suspended;
- `UndoneOnlyByReports`: the expiry closes a subscription that was paid for after its
  query found it suspended, although the document expires "suspended subscriptions";
- `OverrunIsBounded`: the retry counter passes the documented limit of 3 when failed
  charges are handled at once;
- `PaidPeriodIsOneMonth`: no row is ever yearly, although a tenant can pay a yearly
  amount.

Of one transaction at a time only hold `OneOpenRequest` and `DecisionIsFinal` of the
enterprise document, which are theorems for that case and whose failure
`OpenRequestsBounded` and `DecisionSettles` bound for any number.

### Bounds

| bound | value | why it is enough |
|---|---|---|
| tenants | 1; 2 in `plan_catalogue`, `quota`, `enterprise` | rows of different tenants meet only in plan ownership, shared plans and in the jobs' loops, which treat each row alone; the proofs cover any number |
| plans | the free one and one paid or enterprise plan; two in `plan_catalogue` | an upgrade, a downgrade to free, an enterprise plan; a plan chosen instead of another, removed while a third is in force |
| `Offers` | two free ones with different quotas, one paid | the free plan is edited between a read and the write that copies its terms, paid plans come and go; edits of a paid plan take the same path and are covered by the proof |
| charges | 2; 3 in `subscriptions` | a failed, a captured and a further report of one tenant; two concurrent charges; each may be reported again without bound |
| windows, in days | 1 to 3 | only their order matters: past due before suspended, and periods that end before and after them; `subscriptions_live` takes the shortest, so that expiry, and the loop it runs in, is reached by day 3; in `transactions` a suspended row expires the day after, by day 2 (`ExpireDays` 0) |
| `MaxTime` | 1 to 4 days | long enough for trial, payment, failure, suspension and expiry in the runs that need them |
| `MaxRetries` | 2 (1 in `billing_live` and `transactions`) | the limit is reached and one more failure comes |
| `MaxAborts` | 1 in `subscriptions_live`, else 0 | one run of the lifecycle job cut short anywhere; the proofs cover any number |
| `Requests` (quota) | 3, of 2 tenants (2 in the claim run) | two pass the check at the last unit while a third is refused or reads another plan |
| `Limits` | 0 to 2 | a shut resource, the last unit, and a cut below the usage |
| `Handlers` | 2 | creation races creation, a review a decision, a capture a choice, a removal a choice, a failure a failure; the proofs cover any number |
| `Users`, `Names`, `Codes`, `Requests` (onboarding) | 2 each | two requests for one account or one name at every step; a code that is drawn again |
| `Requests`, `PlanNames`, `MaxReviews` (enterprise) | 3, 2, 2 | two requests open at once and a third after them; a name taken meanwhile; a decision overwritten |
| `Losable` | none, or one charge | one handler fails while another succeeds |

The `billing` run has one day only, which still lets the trial end and be billed; the
longer lives of a row are in `subscriptions`, which `Billing` implements.
In the `transactions` run two days pass, between transactions: Prisma ends a
transaction after five seconds. Charges, handlers, requests, tenants and plans are
symmetry sets where they are interchangeable; the runs with liveness properties
(`subscriptions_live`, `billing_live`, `onboarding`) use none. Where the clock has reached `MaxTime` the system goes
on without time passing. No run switches deadlock checking off.

### Fairness

`FairSpec` has weak fairness of `LifecycleJob`: the scheduler starts the job
every thirty minutes for ever, and its statements end. Nothing is assumed of
tenants, of Tap, of the clock or of the hourly job. A run may be cut short, but not for
ever: that is the bound `MaxAborts` of the model. The code has no such bound, so the
liveness properties say what happens once runs complete. `JobComesRound` states
the three things the liveness theorems rest on: the job takes a step again and again,
its loop over the rows to expire ends, and in the end no run is cut short any more.
It is an assumption about the scheduler and no property of the code, and so not listed
in a run.
`FairBillingSpec` has weak fairness of the first delivery of each webhook (Tap
repeats it until it is answered) and of its handler (which succeeds or fails).
It does not make Tap decide a charge, nor deliver anything again once answered.
`FairSpec` of `Onboarding` has weak fairness of each request in progress: the event
loop resumes it until it is answered, fails or falls with the process. Nothing
makes a user come, or come again, and failures are part of what a request may do.

## 4. What is proved

For every number of tenants, plans and charges, and all prices, windows and
bounds that satisfy the assumptions `PlansAssumption`, `DaysAssumption`,
`NullAssumption`, `BoundsAssumption`, `LosableAssumption` (and, below,
`HandlersAssumption`, `TimeAssumption`, `CatalogueAssumption`, `QuotaAssumption`
and `EnterpriseAssumption`):

- `SubscriptionsProofs`: every safety invariant and every action property of
  `Subscriptions` and `AccessGuard`, and that `Subscriptions` implements
  `PaymentLedger`, as theorems of `Spec`;
- `BillingProofs`: `BillingSpec => Spec` (`BillingImplementsSubscriptions`), the
  types, the two ledger properties and the action property of `Billing`, and
  `BillingHonoursGrace`, which shows how a theorem about `Subscriptions` carries over;
- `SubscriptionTransactionsProofs`, `PlanCatalogueProofs`, `OnboardingProofs`,
  `EnterpriseRequestsProofs`, `QuotaProofs`: every property of their runs,
  the refinements `SubscriptionTransactions => PaymentLedger` and
  `Onboarding => AccountLifecycle` included.

The argument for `Subscriptions` goes row by row. `RowInv(r, t, d)` holds of the
row `r` of tenant `t` on day `d`; one lemma per method shows that the row it
writes satisfies it again, and `TickRowInv` that a day's passing keeps it. It is
stronger than the invariants of the runs in the ways that they need:

- `FailureIsAWrite` (`pastDueAt <= updatedAt <= now`): without it nothing says
  that three days since the last write are three days since the failure;
- a trial row has no failure, payment or cancellation, so the log of a trial's
  end is not about a converted row;
- `ExpiringExist` (for the refinement): the rows the expiry loop still holds exist,
  so that its unconditional update creates none;
- `TrialLogInv` carries the date of a trial from the query to the log, where the
  row may have changed.

For `Billing`, each action is shown to be a step of `Subscriptions` or a stutter;
the ledger properties need in addition that a decided charge never changes its
decision, that every charge names a tenant, and that a saved agreement (in a row
or in the copy the renewal loop holds) comes with a recorded captured charge of
that tenant.

`QuotaProofs`, for any number of requests, tenants, resources and plans and any
quotas: one lemma (`CommittedStep`) says what a step does to usage plus the
increments already granted. Only `ReadPlan` raises it, and only while usage is
below the quota read, so the sum never passes the highest quota by the number of
requests or more; both properties follow. `QuotaEnforcedAlone` gives the comment's
claim where requests do not overlap.

`EnterpriseRequestsProofs`, for any number of transactions, tenants, requests and
names: `OpenRequestsBounded` is inductive because it counts what may still be
opened (creations in progress, and requests that a review in progress reopens).
Only `BeginCreate` raises the count, with no request open, when each member of
`MayBeOpen` has a review of its own (an injection into the transactions).
`DecisionSettles` follows from the types of what a transaction has seen;
`OneOpenRequestAlone` and `DecisionIsFinalAlone` are the documented rules for one
transaction at a time. `PlansAreApproved` counts: an approval adds one plan and one
entry to the log together, and entries are never taken back.

`SubscriptionTransactionsProofs`: what a transaction read is stale, but it is a row
that was committed, so `RowInv` holds of it for ever; and `RowInv` of the row read,
together with `RowInv` of the row written over, gives `RowInv` of the result.
`OverrunIsBounded` is inductive because it adds the failures still to be written to
the counter: `BeginDecline` counts one more only while the counter is below the
limit, and every other open failure belongs to another handler.

`PlanCatalogueProofs`: `TxSound` says what a transaction may still write. Its plan
was in the catalogue when it was read and belongs to nobody or to the tenant, both
of which last, since owners and the order new, live, removed never change; its
terms were offered if the plan is still live, and if it is not, the foreign key
refuses the write. `OffersSplit` keeps free and paid terms apart.

`OnboardingProofs`: `RequestInOrder` says what a request may rely on although it read
the rows some steps ago, and `Persists` that no step of another takes it away. Each
action is then a step of `AccountLifecycle` or a stutter.

`StateHasEvidence` relates the row to the ledger as the jobs move it on. It needs
that the tenants the expiry loop still holds have a failed charge on record: their
rows may have changed since the query, recorded payments have not. With the ledger
of `Billing` it gives `RowsAreBorneOutByTap`: whoever lost access was declined by Tap
itself. `CountedFailuresAreReported` is the part of it that survives overlapping
transactions, proved from the steps of `PaymentLedger` that they implement.

What access rests on: `AccessWasCovered` needs that a row comes into being by a trial
only (`OnlyTrialsOpen`), that an unbilled row ends with its trial (`TrialPeriod`), and
that a billed one has its captured charge on record (`StateHasEvidence`) and a period
of one month (`PaidPeriodIsOneMonth`). Declined charges, which make a row active from
every status, never move the end of its period. With the ledger of `Billing` it
becomes `AccessIsPaidAtTap`.

What is had unpaid: `UnpaidHasTwoCauses` goes through every step of the composed
system. Requests and stages keep the plan in force, renewals write no row, and a
handled report records either a captured charge or a declined one, and the declined
one keeps the plan. What remains are the two causes that the runs of claims show.

What a report finds: `ReportsFindTheirRow` shows, for any number of charges, that an
accepted report has the row of its tenant and one branch of the handler that fits it
(`ChargedHaveRows`: whoever is or will be charged had a row, and rows stay). It is
what `ReportsCanBeHandled` says of the guards of the handler; that the action is
`ENABLED` is left to TLC.

What survives overlapping transactions: `WritesOnly` lists the columns that a commit
leaves as they are by then. From it follow `NothingUndoneButByReports` (an action
property: a committed cancellation, failure or period gives way only to a captured
charge recorded in the same step; `StagesKeep` shows what the lifecycle stages leave
alone, and that a stage closes an active row only for a failure or cancellation in it,
or because the expiry had read it) and `PaymentsLeaveTheirTrace` (a billing date is
there exactly if a payment is, and the period is its month). `PlansStayOwn` needs
that the rows which open transactions hold are private too: a stale write may bring a
plan back, never another tenant's. What does not survive is what is decided from the
row read: the retry limit (`OverrunIsBounded`), the plan a downgrade writes and the
date it is given.

What overlapping costs is shown by what holds without it: `QuotaEnforcedAlone`,
`OneOpenRequestAlone`, `DecisionIsFinalAlone`, `RetryLimitKeptAlone` and
`WaitingPlanIsKeptAlone` state the documented rule for one transaction at a time.

`OnlyStaleReadsMatter` says how far the service with one action per method
(`Subscriptions`) is right about transactions that overlap: one that commits over the
row it read is a step of `Subscriptions`, and so is everything else that happens to
rows, payments and due downgrades, the lifecycle stages aside, which have the same
conditions and write the same rows in both. A method takes its step when it commits; a
downgrade being applied is due until then; the log, which no transaction reads, is
taken to be complete. The inductive part, `ReadsChecked`, is that a transaction
remembers a row for which its checks hold and that one downgrade at a time is
applied. With one handler, and no stage between its read and its write (`JobWaits`),
the row read is always the row written over (`ReadsAreCurrent`), hence
`SerialTransactionsAreSubscriptions`.

### Liveness

The proof system reasons about `[]`, `<>` and fairness as temporal formulas, but not
about `ENABLED`, and it cannot do the induction by which a loop over any number of
rows ends. Each of the seven liveness properties is therefore proved for all constants
from a named condition that holds just these parts. TLC checks the properties
themselves, under fairness alone, on the instance:

| theorem | property | condition |
|---|---|---|
| `GraceEnds`, `FailuresTakeEffect`, `SuspensionsEnd`, `TrialEndsAreLogged`, `CancellationsEnd` | `GraceRunsOut`, `FailureTakesEffect`, `SuspensionEnds`, `TrialEndIsLogged`, `CancellationTakesEffect` | `JobComesRound`: the fairness of `FairSpec` and its bound on aborts, and that a loop over finitely many rows ends |
| `CapturesGetRecorded` | `CapturesAreRecorded`, under `FairBillingSpec` | `ReportsCanBeHandled`: a decided charge can be delivered, an accepted report handled; TLC checks it, since it depends on the guards of the handler |
| `TrialsAreServed` | `TrialUnlessLost`, under `FairSpec` of `Onboarding` | `RequestsCanGoOn`: a request in progress has a next step, by the shape of `Serve`, in which every statement may fail |

For the lifecycle job, `JobGoesRound` shows from the condition that every stage is
entered again and again (`StagesRecur`); a row that is due stays due until a query
finds it or it leaves the state by itself, and the query of its stage finds it the
next time. The log of a trial's end is written by the step after the query, which
comes, since runs are cut short only so often. A suspension ends although
the loop of the expiry works on rows read before it: the query leaves only rows that
have left the state or are in `found` (`FoundAreExpired`), and the loop empties
`found`. `BillingKeepsItsPromises` carries the five over to the composed system. For reports and requests the argument is by the
states of a webhook, and by the steps of a request that hold the trial to be started
(`TrialAccounted`); without the condition neither proof goes through.

### What is only model-checked

`ReportsCanBeHandled` (`ENABLED`), and the runs of claims, which are counterexamples.
Every other property of a passing run is a theorem for all constants, the liveness
properties under the conditions above.

## 5. What is not modelled, and why

Of the implementation's lines about seven in ten are the generated Prisma client
(`src/generated/prisma`: types and query builders, no rule of this program). Of the
rest, most are DTOs, mappers, decorators, Swagger annotations and controllers, which
route, validate and rename. What remains, the services, jobs, guard and webhook
handler, is what the modules translate: every statement of the repository that
writes a table is an action of one of them. A map that covers more lines would have
to stretch over code that decides nothing.

- The inside of Tap: card tokens, the request format, and the hash of webhooks. A
  charge is created, decided and reported (`Billing`).
- `lastGraceWarningAt`, which is written and never read; logging, paging, formats of
  amounts, currencies and cards.
- A job that overlaps its own next run: one instance of each job runs at a time.
- In `Subscriptions` and `Billing` plans are constants, in `Quota` they have no
  price. `PlanCatalogue` lets them change under the transactions that refer to them.
  That renewals charge the current price of a plan, and not the snapshot, has no
  promise in the code to hold it against.
- Names and the unique index on them in `PlanCatalogue`; paid plans are edited in the
  proof and not in the run.
- In `Onboarding`: passwords, access tokens and their expiry; an account whose owner
  never signs in again is left as it is, as in the code.
- What an approval answers when its transaction was rolled back unnoticed (a tenant
  without subscription, `enterprise-plan-requests.service.ts:251`).
- The query services (payments, events, listings) only read; roles and token guards
  are stateless.

## 6. State of the plan

Done, each with its run and its proofs: `SubscriptionRow`, `Subscriptions`,
`Billing`, `DocumentedClaims`, `Quota`, `EnterpriseRequests`, `Onboarding`,
`SubscriptionTransactions`, `PlanCatalogue`, `AccessGuard`.

What could follow: `Billing` over `SubscriptionTransactions`, so that webhook
handlers of the composed system overlap too; and prices of `PlanCatalogue` in the
charges of `Billing`.
