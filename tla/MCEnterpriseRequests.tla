------------------------ MODULE MCEnterpriseRequests ------------------------
(* Small instances of EnterpriseRequests: transactions, tenants and plan     *)
(* names are interchangeable, and so are the ids of requests.                *)
EXTENDS EnterpriseRequests, TLC

EnterpriseSymmetry ==
    Permutations(Handlers) \cup Permutations(Tenants)
    \cup Permutations(Requests) \cup Permutations(PlanNames)
=============================================================================
