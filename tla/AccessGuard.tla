---------------------------- MODULE AccessGuard ----------------------------
(***************************************************************************)
(* SubscriptionGuard over the rows of Subscriptions: which requests of a   *)
(* tenant the state of its subscription lets through.  The guard only      *)
(* reads, so it is an operator of the row and the date; what a behaviour   *)
(* of Subscriptions does to it is stated below.                            *)
(*                                                                         *)
(* The routes of tenants.controller.ts fall into three classes by what     *)
(* their @RequireSubscription asks for.  The quota check of the guard is   *)
(* in Quota; planKinds is asked for by no route.                           *)
(***************************************************************************)
EXTENDS Subscriptions

(* read: profile, subscription, payments, events, usage.                     *)
(* use: profile update, can-use, the four use-... routes.                    *)
(* enterprise: enterprise-endpoint.                                          *)
Routes == {"read", "use", "enterprise"}

AllowedStates ==
    [read       |-> {"trialing", "active", "past_due", "suspended"},
     use        |-> {"trialing", "active"},
     enterprise |-> {"active", "past_due"}]

RequireOwnEnterprisePlan(route) == route = "enterprise"

(* Mutant: the end of a trial is looked at, that of a paid period is not.     *)
CanActivateRowUndated(r, t, route, d) ==
    /\ r.status # "none"
    /\ Owner[r.planId] \in {Null, t}
    /\ r.status \in AllowedStates[route]
    /\ RequireOwnEnterprisePlan(route) => Owner[r.planId] = t
    /\ r.status = "trialing" /\ r.trialEndsAt # Null => d <= r.trialEndsAt

CanActivateRow(r, t, route, d) ==
    /\ r.status # "none"
    /\ Owner[r.planId] \in {Null, t}
    /\ r.status \in AllowedStates[route]
    /\ RequireOwnEnterprisePlan(route) => Owner[r.planId] = t
    /\ r.status = "trialing" /\ r.trialEndsAt # Null => d <= r.trialEndsAt
    /\ r.status # "suspended" => d <= r.currentPeriodEnd

CanActivate(t, route) == CanActivateRow(sub[t], t, route, now)

-----------------------------------------------------------------------------

(* The days of grace give access only to a failure during the paid period: a  *)
(* tenant whose charge failed when its period was over, as a renewal does, is *)
(* refused by every route once it is past_due, those that allow past_due      *)
(* included, since the guard looks at the end of the period as well.          *)
GraceGivesNoAccess ==
    \A t \in Tenants, route \in Routes :
        /\ sub[t].status = "past_due"
        /\ sub[t].pastDueAt >= sub[t].currentPeriodEnd
        => ~CanActivate(t, route)

CoveredIn(r, d) ==
    IF r.lastBillingAt = Null
    THEN r.trialEndsAt # Null /\ d <= r.trialEndsAt
    ELSE d <= r.lastBillingAt + MonthDays

(* Whatever made a row active - declined payments make one so from every     *)
(* status - and whatever plan it is on, nobody uses anything but within the   *)
(* trial, or within a month of the latest captured charge on record: only a   *)
(* suspended tenant, who may read, is let in beyond it (canActivate with      *)
(* markPaymentFailed and activateAfterSuccessfulPayment).                     *)
AccessIsCovered ==
    \A t \in Tenants, route \in Routes :
        CanActivate(t, route) /\ sub[t].status # "suspended"
        => /\ CoveredIn(sub[t], now)
           /\ sub[t].lastBillingAt # Null => Reports(t, {"succeeded"}) # {}

AccessStep ==
    \A t \in Tenants, route \in Routes :
        Exists(t) /\ ~CanActivate(t, route) /\ CanActivate(t, route)'
        => \/ NewPayment(t, {"succeeded", "failed"})
           \/ route = "read" /\ sub'[t].status = "suspended"
           \/ route = "enterprise" /\ sub'[t].planId # sub[t].planId

(* Access that was lost comes back only in the step that records a new report *)
(* of the gateway - reading also by being suspended, the enterprise route by  *)
(* a change of plan - and by no other request or job (canActivate with every  *)
(* method that writes a row).                                                 *)
AccessComesBackByReport == [][AccessStep]_vars
=============================================================================
