--------------------------- MODULE PaymentLedger ---------------------------
(***************************************************************************)
(* What the recording of payments promises, whatever the rest of a         *)
(* subscription does: a charge counts once, for one tenant; a captured one *)
(* forgives the failures and is the only thing that moves the end of the   *)
(* paid period; a failed one adds exactly one failure, up to a limit.      *)
(*                                                                         *)
(* Subscriptions implements it with the limit of the code, and             *)
(* SubscriptionTransactions, where transactions overlap, with a larger one.*)
(***************************************************************************)
EXTENDS Naturals

CONSTANTS
    Tenants,
    Charges,
    Limit         \* failures a tenant can accumulate

VARIABLES
    open,         \* tenants with a subscription
    payments,     \* what was recorded of each charge
    failures,     \* [Tenants -> Nat]
    paidUntil     \* [Tenants -> date]

ledger == <<open, payments, failures, paidUntil>>

IsRecorded(c) == \E p \in payments : p.event = c

Record(t, c, status) ==
    /\ t \in open
    /\ ~IsRecorded(c)
    /\ payments' = payments \cup
                       {[event |-> c, tenant |-> t, status |-> status]}
    /\ UNCHANGED open

Init ==
    /\ open = {}
    /\ payments = {}
    /\ failures = [t \in Tenants |-> 0]
    /\ paidUntil = [t \in Tenants |-> 0]

(* The trial sets the first end of period. *)
Open(t) ==
    /\ t \notin open
    /\ open' = open \cup {t}
    /\ failures' = [failures EXCEPT ![t] = 0]
    /\ paidUntil' = [paidUntil EXCEPT ![t] = paidUntil'[t]]
    /\ UNCHANGED payments

Capture(t, c) ==
    /\ Record(t, c, "succeeded")
    /\ failures' = [failures EXCEPT ![t] = 0]
    /\ paidUntil' = [paidUntil EXCEPT ![t] = paidUntil'[t]]

Decline(t, c) ==
    /\ Record(t, c, "failed")
    /\ failures[t] < Limit
    /\ failures' = [failures EXCEPT ![t] = @ + 1]
    /\ UNCHANGED paidUntil

Next ==
    \E t \in Tenants :
        \/ Open(t)
        \/ \E c \in Charges : Capture(t, c) \/ Decline(t, c)

Spec == Init /\ [][Next]_ledger
=============================================================================
