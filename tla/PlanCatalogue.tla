---------------------------- MODULE PlanCatalogue ----------------------------
(***************************************************************************)
(* PlansService while tenants use the plans: administrators create, edit   *)
(* and remove rows of table plans, and the transactions of                 *)
(* SubscriptionsService read a plan in one statement and write a reference *)
(* to it, or a copy of its terms, in a later one.                          *)
(*                                                                         *)
(* Transactions run READ COMMITTED (see SubscriptionTransactions): Begin   *)
(* is the reads up to the first write, Commit the writes.  What the        *)
(* foreign keys of the migration decide, they decide at the write: a       *)
(* reference to a removed plan is refused, a plan in force is not deleted  *)
(* (RESTRICT), and a waiting one is (SET NULL).                            *)
(*                                                                         *)
(* The terms of a plan are its prices and quotas, taken as one value; the  *)
(* monthly and yearly price are positive together.  A request to edit or   *)
(* create a plan carries prices of at least 1 (CreatePlanDto, and          *)
(* UpdatePlanDto which is partial), and neither the kind, nor isActive,    *)
(* nor trialDays: no request ever changes those.  Names are left out; the  *)
(* unique index refuses a duplicate.  Of a subscription only the plan      *)
(* columns are kept; the due date that SET NULL leaves behind without a    *)
(* plan is read by nobody.                                                 *)
(***************************************************************************)
EXTENDS Naturals

CONSTANTS
    Tenants,
    Plans,        \* ids of plans; an id is never used again
    FreePlan,     \* the seeded plan with trialDays > 0
    Offers,       \* terms a plan can have
    Handlers,     \* transactions open at the same time (slots, used again)
    Null

ASSUME CatalogueAssumption ==
    /\ FreePlan \in Plans
    /\ Offers \subseteq [price : Nat, quota : Nat]
    /\ Null \notin Tenants \cup Plans \cup Offers

VARIABLES
    plan,         \* table plans
    sub,          \* plan columns of table tenant_subscriptions
    tx,           \* what each open transaction has read
    offered       \* history: the terms each plan has had

vars == <<plan, sub, tx, offered>>

NoSub == [planId |-> Null, pendingPlanId |-> Null, snapshot |-> Null]
Sub == [planId : Plans, pendingPlanId : Plans \cup {Null}, snapshot : Offers]

(* "activate" and "apply" have read the subscription only, "change" also the  *)
(* plan it is going to write; seen is the waiting plan of the row read.       *)
NoTx == [kind |-> "none"]
Tx == [kind : {"trial", "activate", "apply", "change"},
       tenant : Tenants, planId : Plans, terms : Offers,
       seen : Plans \cup {Null}]
      \cup [kind : {"choose"}, tenant : Tenants, planId : Plans]
      \cup [kind : {"remove"}, planId : Plans]

Unused == [state |-> "new", tenantId |-> Null, terms |-> Null]
Removed == [state |-> "removed", tenantId |-> Null, terms |-> Null]
Plan == [state : {"live"}, tenantId : Tenants \cup {Null},
         terms : Offers]

IsLive(p) == plan[p].state = "live"
IsFree(p) == plan[p].terms.price = 0
Exists(t) == sub[t] # NoSub
Subscribers(p) == {t \in Tenants : sub[t].planId = p}

Init ==
    /\ sub = [t \in Tenants |-> NoSub]
    /\ tx = [h \in Handlers |-> NoTx]
    /\ \E o \in Offers :
           /\ o.price = 0
           /\ plan = [p \in Plans |->
                         IF p = FreePlan
                         THEN [state |-> "live", tenantId |-> Null, terms |-> o]
                         ELSE Unused]
           /\ offered = [p \in Plans |-> IF p = FreePlan THEN {o} ELSE {}]

-----------------------------------------------------------------------------
(* PlansService: create, and the plan that approveAndCreatePlan makes for a   *)
(* tenant; update.                                                            *)

Offer(p, owner, o) ==
    /\ plan' = [plan EXCEPT ![p] =
                    [state |-> "live", tenantId |-> owner, terms |-> o]]
    /\ offered' = [offered EXCEPT ![p] = @ \cup {o}]
    /\ UNCHANGED <<sub, tx>>

CreatePlan(p, owner, o) ==
    /\ plan[p] = Unused
    /\ o.price > 0
    /\ Offer(p, owner, o)

(* Whether a plan is free never changes, so that the check and the write can  *)
(* be one step.                                                               *)
UpdatePlan(p, o) ==
    /\ IsLive(p)
    /\ IsFree(p) <=> o.price = 0
    /\ Offer(p, plan[p].tenantId, o)

-----------------------------------------------------------------------------
Begin(h, x) ==
    /\ tx[h] = NoTx
    /\ tx' = [tx EXCEPT ![h] = x]
    /\ UNCHANGED <<plan, sub, offered>>

Done(h) == tx' = [tx EXCEPT ![h] = NoTx] /\ UNCHANGED offered

(* remove: subscriptions on the plan are counted, those waiting for it not.   *)
BeginRemove(h, p) ==
    /\ IsLive(p)
    /\ ~IsFree(p)
    /\ Subscribers(p) = {}
    /\ plan[p].tenantId = Null
    /\ Begin(h, [kind |-> "remove", planId |-> p])

(* Mutant: rows that wait for the plan keep its id. *)
CommitRemoveOnly(h) ==
    /\ tx[h].kind = "remove"
    /\ LET p == tx[h].planId IN
       /\ IsLive(p)
       /\ Subscribers(p) = {}
       /\ plan' = [plan EXCEPT ![p] = Removed]
    /\ Done(h)
    /\ UNCHANGED sub

CommitRemove(h) ==
    /\ tx[h].kind = "remove"
    /\ LET p == tx[h].planId IN
       /\ IsLive(p)
       /\ Subscribers(p) = {}
       /\ plan' = [plan EXCEPT ![p] = Removed]
       /\ sub' = [t \in Tenants |->
                     IF sub[t].pendingPlanId = p
                     THEN [sub[t] EXCEPT !.pendingPlanId = Null] ELSE sub[t]]
    /\ Done(h)

-----------------------------------------------------------------------------
(* SubscriptionsService: the reads. *)

Reads(h, kind, t, p, o) ==
    Begin(h, [kind |-> kind, tenant |-> t, planId |-> p, terms |-> o,
              seen |-> sub[t].pendingPlanId])

BeginTrial(h, t) ==
    /\ ~Exists(t)
    /\ IsLive(FreePlan)
    /\ Reads(h, "trial", t, FreePlan, plan[FreePlan].terms)

(* Mutant: every tenant may choose every plan. *)
AvailableToAll(p, t) == IsLive(p)

(* The plan is there, and it is not another tenant's. *)
Available(p, t) == IsLive(p) /\ plan[p].tenantId \in {Null, t}

(* requestUpgradeToPaidPlan takes a paid plan other than the one in force,    *)
(* scheduleDowngrade one that is cheaper now.                                 *)
BeginChoose(h, t, p) ==
    /\ Exists(t)
    /\ Available(p, t)
    /\ \/ ~IsFree(p) /\ sub[t].planId # p
       \/ plan[p].terms.price < plan[sub[t].planId].terms.price
    /\ Begin(h, [kind |-> "choose", tenant |-> t, planId |-> p])

(* applyScheduledDowngrade: the include is a statement of its own (ReadPlan). *)
BeginApply(h, t) ==
    /\ Exists(t)
    /\ sub[t].pendingPlanId # Null
    /\ Reads(h, "apply", t, sub[t].pendingPlanId, sub[t].snapshot)

(* activateAfterSuccessfulPayment: the pending plan, else the one in force.   *)
ActivePlanId(r) == IF r.pendingPlanId = Null THEN r.planId ELSE r.pendingPlanId

(* Mutant: the waiting plan is overlooked. *)
BeginActivateInForce(h, t) ==
    /\ Exists(t)
    /\ Reads(h, "activate", t, sub[t].planId, sub[t].snapshot)

BeginActivate(h, t) ==
    /\ Exists(t)
    /\ Reads(h, "activate", t, ActivePlanId(sub[t]), sub[t].snapshot)

(* Mutant: the terms are those of the plan in force by now. *)
ReadPlanInForce(h) ==
    /\ tx[h].kind \in {"activate", "apply"}
    /\ tx[h].kind = "apply" => IsLive(tx[h].planId)
    /\ LET x == tx[h] IN
           tx' = [tx EXCEPT ![h] =
                     [x EXCEPT !.kind = "change",
                               !.terms = plan[sub[x.tenant].planId].terms]]
    /\ UNCHANGED <<plan, sub, offered>>

(* Both then look the plan up.  One that is gone by now ends a downgrade, and *)
(* leaves an activation the snapshots of the row that was read.               *)
ReadPlan(h) ==
    /\ tx[h].kind \in {"activate", "apply"}
    /\ tx[h].kind = "apply" => IsLive(tx[h].planId)
    /\ LET x == tx[h] IN
           tx' = [tx EXCEPT ![h] =
                     [x EXCEPT !.kind = "change",
                               !.terms = IF IsLive(x.planId)
                                         THEN plan[x.planId].terms ELSE x.terms]]
    /\ UNCHANGED <<plan, sub, offered>>

-----------------------------------------------------------------------------
(* SubscriptionsService: the writes.  The foreign key wants a live plan. *)

CommitTrial(h) ==
    /\ tx[h].kind = "trial"
    /\ ~Exists(tx[h].tenant)
    /\ IsLive(tx[h].planId)
    /\ sub' = [sub EXCEPT ![tx[h].tenant] =
                   [planId |-> tx[h].planId, pendingPlanId |-> Null,
                    snapshot |-> tx[h].terms]]
    /\ Done(h)
    /\ UNCHANGED plan

CommitChoose(h) ==
    /\ tx[h].kind = "choose"
    /\ IsLive(tx[h].planId)
    /\ sub' = [sub EXCEPT ![tx[h].tenant].pendingPlanId = tx[h].planId]
    /\ Done(h)
    /\ UNCHANGED plan

(* Plan and terms read before come into force, and nothing waits any more.    *)
CommitChange(h) ==
    /\ tx[h].kind = "change"
    /\ IsLive(tx[h].planId)
    /\ sub' = [sub EXCEPT ![tx[h].tenant] =
                   [planId |-> tx[h].planId, pendingPlanId |-> Null,
                    snapshot |-> tx[h].terms]]
    /\ Done(h)
    /\ UNCHANGED plan

(* An error, a restart, a foreign key that refuses the write, or a downgrade  *)
(* without a pending plan.                                                    *)
Rollback(h) ==
    /\ tx[h] # NoTx
    /\ Done(h)
    /\ UNCHANGED <<plan, sub>>

Administer(p) ==
    \E o \in Offers :
        \/ \E owner \in Tenants \cup {Null} : CreatePlan(p, owner, o)
        \/ UpdatePlan(p, o)

Read(h) ==
    \/ \E p \in Plans : BeginRemove(h, p)
    \/ \E t \in Tenants :
           \/ BeginTrial(h, t)
           \/ \E p \in Plans : BeginChoose(h, t, p)
           \/ BeginApply(h, t)
           \/ BeginActivate(h, t)
    \/ ReadPlan(h)

Write(h) ==
    \/ CommitRemove(h)
    \/ CommitTrial(h)
    \/ CommitChoose(h)
    \/ CommitChange(h)
    \/ Rollback(h)

Next ==
    \/ \E p \in Plans : Administer(p)
    \/ \E h \in Handlers : Read(h) \/ Write(h)

Spec == Init /\ [][Next]_vars

-----------------------------------------------------------------------------
(* Properties. *)

TypeOK ==
    /\ plan \in [Plans -> Plan \cup {Unused, Removed}]
    /\ sub \in [Tenants -> Sub \cup {NoSub}]
    /\ tx \in [Handlers -> Tx \cup {NoTx}]
    /\ offered \in [Plans -> SUBSET Offers]

(* However removals overlap with requests, payments and the downgrade job, no *)
(* subscription is on a plan, or waits for one, that was removed (remove,     *)
(* which does not count those who wait).                                      *)
ReferencesHold ==
    \A t \in Tenants :
        Exists(t) =>
            /\ IsLive(sub[t].planId)
            /\ sub[t].pendingPlanId # Null => IsLive(sub[t].pendingPlanId)

(* The terms a subscription runs under were, at some time, offered for the    *)
(* very plan it is on, although plan and terms are read in separate           *)
(* statements and either may change before they are written                   *)
(* (activateAfterSuccessfulPayment keeps the old terms if the plan is gone).  *)
TermsWereOffered ==
    \A t \in Tenants : Exists(t) => sub[t].snapshot \in offered[sub[t].planId]

(* The enterprise plan of one tenant is never in force, nor waiting, for      *)
(* another: only requestUpgradeToPaidPlan and scheduleDowngrade look at the   *)
(* owner, the writes that follow do not.                                      *)
OnlyOwnPlans ==
    \A t \in Tenants :
        Exists(t) =>
            /\ plan[sub[t].planId].tenantId \in {Null, t}
            /\ sub[t].pendingPlanId # Null =>
                   plan[sub[t].pendingPlanId].tenantId \in {Null, t}

(* The trial plan stays, and it alone is free: no edit makes a paid plan free *)
(* or the free one paid, and whoever is on a paid plan has a positive price   *)
(* in the row (update, remove).                                               *)
FreePlanStays ==
    /\ IsLive(FreePlan)
    /\ \A p \in Plans : IsLive(p) => (IsFree(p) <=> p = FreePlan)
    /\ \A t \in Tenants :
           Exists(t) /\ sub[t].planId # FreePlan => sub[t].snapshot.price > 0

(* A transaction that read the row of t when something else was waiting. *)
Outdated(h, t) ==
    /\ tx[h].kind \in {"activate", "apply", "change"}
    /\ tx[h].tenant = t
    /\ tx[h].seen # sub[t].pendingPlanId

WaitingStep ==
    \A t \in Tenants :
        LET p == sub[t].pendingPlanId IN
        /\ p # Null
        /\ sub'[t].pendingPlanId = Null
        /\ \A h \in Handlers : ~Outdated(h, t)
        => sub'[t].planId = p \/ plan'[p] = Removed

(* A tenant ceases to wait for a plan only because the plan comes into force  *)
(* or is removed from the catalogue, or because a transaction is open that    *)
(* had read the subscription before the plan was chosen: a capture or a       *)
(* downgrade clears no choice it has not read (activateAfterSuccessfulPayment,*)
(* applyScheduledDowngrade).  Another choice, which replaces the waiting plan *)
(* by a request of the tenant, is not meant.                                  *)
WaitingPlanIsNotLost == [][WaitingStep]_vars
=============================================================================
