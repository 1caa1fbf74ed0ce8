-------------------------- MODULE MCPlanCatalogue --------------------------
(* Constants of the small instance of PlanCatalogue. *)
EXTENDS PlanCatalogue, TLC

MCOffers == {[price |-> 0, quota |-> 1], [price |-> 0, quota |-> 2],
             [price |-> 1, quota |-> 1]}

MCSymmetry == Permutations(Plans \ {FreePlan}) \cup Permutations(Tenants)
              \cup Permutations(Handlers)
=============================================================================
