-------------------------- MODULE DocumentedClaims --------------------------
(***************************************************************************)
(* Statements the documentation makes about billing, each as a property of *)
(* module Billing.  None of them holds: the runs named in the README show  *)
(* how the code departs from each.                                         *)
(***************************************************************************)
EXTENDS Billing

(* "pendingPlanEffectiveAt is set to now, and activation happens on           *)
(* successful payment": a dearer plan comes into force only with a captured   *)
(* payment.                                                                   *)
UpgradeNeedsPayment ==
    [][\A t \in Tenants :
          Exists(t) /\ MonthlyPrice[sub'[t].planId] > MonthlyPrice[sub[t].planId]
          => NewPayment(t, {"succeeded"})]_bvars

(* "trialing -> active: successful first payment webhook" and "suspended ->   *)
(* active: successful resubscribe payment": neither a trial nor a suspended   *)
(* subscription becomes active without a captured payment.                    *)
ReactivationNeedsPayment ==
    [][\A t \in Tenants :
          sub[t].status \in {"trialing", "suspended"} /\ sub'[t].status = "active"
          => NewPayment(t, {"succeeded"})]_bvars
=============================================================================
