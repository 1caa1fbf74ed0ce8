-------------------------------- MODULE Quota --------------------------------
(***************************************************************************)
(* The use of metered resources: SubscriptionGuard, which compares usage   *)
(* with the quota before a use-* route runs, and                           *)
(* TenantProfilesService.tenantSubscriptionResourceUse, which reads the    *)
(* plan, reads the usage, compares them again and increments the counter.  *)
(* These are four statements without a transaction, and requests run side  *)
(* by side while administrators edit plans (PlansService.update) and       *)
(* billing moves tenants between plans (module Subscriptions).             *)
(*                                                                         *)
(* The rest of the guard (status, dates, owner of the plan) only refuses   *)
(* requests; here a refused request is one that is never made.             *)
(* A definition introduced as a mutant is a plausible mistake in the one   *)
(* that follows it; no specification uses it.                              *)
(***************************************************************************)
EXTENDS Naturals, FiniteSets

CONSTANTS
    Requests,    \* requests handled at the same time (slots, used again)
    Tenants,
    Resources,   \* projectsCount, usersCount, sessionsCount, requestsCount
    Plans,
    Limits       \* values of maxProjects, maxUsers, maxSessions, maxRequests

ASSUME QuotaAssumption ==
    /\ IsFiniteSet(Requests) /\ Requests # {}
    /\ Limits \subseteq Nat

VARIABLES
    planId,      \* plan of the subscription of each tenant
    limit,       \* quota columns of each plan
    usage,       \* TenantUsage: one counter for each resource
    request,     \* what each request is about to do
    highest      \* history: the highest quota each tenant ever had

vars == <<planId, limit, usage, request, highest>>

-----------------------------------------------------------------------------
(* A request in progress: who uses what, the statement that comes next, and  *)
(* the limit it has read.                                                    *)
Idle == [step |-> "idle"]
InProgress == [step : {"readPlan", "checkUsage", "increment"},
               tenant : Tenants, resource : Resources, limit : Limits]

(* Mutant: the last unit is given twice. *)
LimitPassed(lim, current) == current > lim

(* projectsLimitExceeded, usersLimitExceeded and their like. *)
LimitExceeded(lim, current) == current >= lim

CurrentLimit(t, k) == limit[planId[t]][k]

AtStep(r, s) == request[r].step = s

Init ==
    /\ planId \in [Tenants -> Plans]
    /\ limit \in [Plans -> [Resources -> Limits]]
    /\ usage = [t \in Tenants |-> [k \in Resources |-> 0]]
    /\ request = [r \in Requests |-> Idle]
    /\ highest = [t \in Tenants |-> limit[planId[t]]]

-----------------------------------------------------------------------------
(* SubscriptionGuard lets a request through to a route with @RequireQuota. *)
GuardAdmits(r, t, k) ==
    /\ AtStep(r, "idle")
    /\ ~LimitExceeded(CurrentLimit(t, k), usage[t][k])
    /\ request' = [request EXCEPT ![r] =
           [step |-> "readPlan", tenant |-> t, resource |-> k,
            limit |-> CurrentLimit(t, k)]]
    /\ UNCHANGED <<planId, limit, usage, highest>>

(* tenantSubscriptionResourceUse reads the plan in force. *)
ReadPlan(r) ==
    /\ AtStep(r, "readPlan")
    /\ request' = [request EXCEPT
           ![r].step = "checkUsage",
           ![r].limit = CurrentLimit(request[r].tenant, request[r].resource)]
    /\ UNCHANGED <<planId, limit, usage, highest>>

(* Mutant: the service relies on the check of the guard. *)
CheckUsageOfTheGuard(r) ==
    /\ AtStep(r, "checkUsage")
    /\ request' = [request EXCEPT ![r].step = "increment"]
    /\ UNCHANGED <<planId, limit, usage, highest>>

(* isLimitExceeded: the request is refused, or goes on to the increment. *)
CheckUsage(r) ==
    /\ AtStep(r, "checkUsage")
    /\ request' = [request EXCEPT ![r] =
           IF LimitExceeded(@.limit, usage[@.tenant][@.resource])
           THEN Idle
           ELSE [@ EXCEPT !.step = "increment"]]
    /\ UNCHANGED <<planId, limit, usage, highest>>

(* One UPDATE statement, which adds to what the row holds by then. *)
Increment(r) ==
    /\ AtStep(r, "increment")
    /\ usage' = [usage EXCEPT ![request[r].tenant][request[r].resource] = @ + 1]
    /\ request' = [request EXCEPT ![r] = Idle]
    /\ UNCHANGED <<planId, limit, highest>>

(* A restart, or a failing statement, ends a request where it stands. *)
Abandon(r) ==
    /\ ~AtStep(r, "idle")
    /\ request' = [request EXCEPT ![r] = Idle]
    /\ UNCHANGED <<planId, limit, usage, highest>>

-----------------------------------------------------------------------------
Higher(a, b) == IF a < b THEN b ELSE a

(* The highest quotas, now that these plans and limits are in force. *)
RememberHighest ==
    highest' = [t \in Tenants |-> [k \in Resources |->
        Higher(highest[t][k], limit'[planId'[t]][k])]]

(* An upgrade, a downgrade or an enterprise plan comes into force. *)
ChangePlan(t, p) ==
    /\ p # planId[t]
    /\ planId' = [planId EXCEPT ![t] = p]
    /\ UNCHANGED <<limit, usage, request>>
    /\ RememberHighest

(* PlansService.update of a quota column: in force at once for every tenant   *)
(* on the plan, whatever his quotaSnapshot says.                              *)
UpdatePlan(p, k, l) ==
    /\ limit' = [limit EXCEPT ![p][k] = l]
    /\ UNCHANGED <<planId, usage, request>>
    /\ RememberHighest

UseResource(r) ==
    \/ \E t \in Tenants, k \in Resources : GuardAdmits(r, t, k)
    \/ ReadPlan(r)
    \/ CheckUsage(r)
    \/ Increment(r)
    \/ Abandon(r)

Next ==
    \/ \E r \in Requests : UseResource(r)
    \/ \E t \in Tenants, p \in Plans : ChangePlan(t, p)
    \/ \E p \in Plans, k \in Resources, l \in Limits : UpdatePlan(p, k, l)

Spec == Init /\ [][Next]_vars

-----------------------------------------------------------------------------
(* Properties.                                                               *)

(* Rows and requests keep their types. *)
TypeOK ==
    /\ planId \in [Tenants -> Plans]
    /\ limit \in [Plans -> [Resources -> Limits]]
    /\ usage \in [Tenants -> [Resources -> Nat]]
    /\ highest \in [Tenants -> [Resources -> Nat]]
    /\ request \in [Requests -> InProgress \cup {Idle}]

(* The requests that will increment the counter if nothing else happens: they*)
(* passed the check, or have read a limit they are still below.              *)
MayIncrement(r, t, k) ==
    /\ ~AtStep(r, "idle")
    /\ request[r].tenant = t /\ request[r].resource = k
    /\ \/ AtStep(r, "increment")
       \/ AtStep(r, "checkUsage") /\ ~LimitExceeded(request[r].limit, usage[t][k])

Incrementing(t, k) == {r \in Requests : MayIncrement(r, t, k)}

(* What the counter reaches if all of them do. *)
Committed(t, k) == usage[t][k] + Cardinality(Incrementing(t, k))

(* How far the usage may run past a quota: each request but one may have been*)
(* checked before another was counted.  A quota of zero is never passed.     *)
Reach(q) == IF q = 0 THEN 0 ELSE q + Cardinality(Requests) - 1

(* The two checks do not keep usage within the quota, but the overrun is     *)
(* bounded: usage passes the highest quota the tenant ever had by less than  *)
(* the number of requests handled at once, and not at all if there is one.   *)
OverrunBounded ==
    \A t \in Tenants, k \in Resources : Committed(t, k) <= Reach(highest[t][k])

(* Once a tenant has used up the quota in force (because he used it, was     *)
(* downgraded, or the plan was cut) nothing new is admitted: only requests   *)
(* that were checked against an earlier state still count.                   *)
OverQuotaOnlyDrains ==
    [][\A t \in Tenants, k \in Resources :
          LimitExceeded(CurrentLimit(t, k), usage[t][k])
          => Committed(t, k)' <= Committed(t, k)]_vars

(* "Check limit on service-level ... That protects from: parallel requests"  *)
(* (tenant-profiles.service.ts): no tenant uses more than he was ever granted.*)
(* This is the comment's claim; the code keeps it of one request at a time.  *)
QuotaEnforced ==
    \A t \in Tenants, k \in Resources : usage[t][k] <= highest[t][k]

=============================================================================
