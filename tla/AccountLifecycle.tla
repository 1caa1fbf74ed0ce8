-------------------------- MODULE AccountLifecycle --------------------------
(***************************************************************************)
(* What sign-up, verification and the trial promise of an account, however *)
(* the requests of its owner overlap and wherever they are cut short:      *)
(*                                                                         *)
(*   - a registered account stays registered, a verified one verified;     *)
(*   - it gets one tenant, whose name no other tenant has;                 *)
(*   - the tenant gets one subscription, and only once the owner is        *)
(*     verified.                                                           *)
(*                                                                         *)
(* Module Onboarding implements it.                                        *)
(***************************************************************************)
EXTENDS Naturals

CONSTANTS Users, Names, Null

VARIABLES
    stage,     \* [Users -> Stages]
    home,      \* the name of the tenant a user owns, or Null
    rows       \* subscription rows of that tenant

vars == <<stage, home, rows>>

Stages == {"absent", "registered", "verified", "admin"}

IsFree(n) == \A v \in Users : home[v] # n

Init ==
    /\ stage = [u \in Users |-> "absent"]
    /\ home = [u \in Users |-> Null]
    /\ rows = [u \in Users |-> 0]

Register(u, s) ==
    /\ stage[u] = "absent"
    /\ stage' = [stage EXCEPT ![u] = s]
    /\ UNCHANGED <<home, rows>>

Settle(u, n) ==
    /\ stage[u] \in {"registered", "verified"}
    /\ home[u] = Null
    /\ IsFree(n)
    /\ home' = [home EXCEPT ![u] = n]
    /\ UNCHANGED <<stage, rows>>

Rename(u, n) ==
    /\ home[u] # Null
    /\ IsFree(n)
    /\ home' = [home EXCEPT ![u] = n]
    /\ UNCHANGED <<stage, rows>>

Verify(u) ==
    /\ stage[u] = "registered"
    /\ stage' = [stage EXCEPT ![u] = "verified"]
    /\ UNCHANGED <<home, rows>>

StartTrial(u) ==
    /\ stage[u] = "verified"
    /\ home[u] # Null
    /\ rows[u] = 0
    /\ rows' = [rows EXCEPT ![u] = 1]
    /\ UNCHANGED <<stage, home>>

Next ==
    \E u \in Users :
        \/ \E s \in {"registered", "admin"} : Register(u, s)
        \/ \E n \in Names : Settle(u, n) \/ Rename(u, n)
        \/ Verify(u)
        \/ StartTrial(u)

Spec == Init /\ [][Next]_vars
=============================================================================
