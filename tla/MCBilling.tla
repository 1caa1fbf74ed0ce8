------------------------------ MODULE MCBilling ------------------------------
(* Constants of the small instances of Billing and DocumentedClaims: a free  *)
(* plan with the trial, a standard paid one and the enterprise plan of       *)
(* tenant t1; a cfg chooses among them.                                      *)
EXTENDS DocumentedClaims, TLC

CONSTANT t1

Catalogue == [free   |-> [monthly |-> 0, yearly |-> 0,  owner |-> Null],
              pro    |-> [monthly |-> 5, yearly |-> 50, owner |-> Null],
              custom |-> [monthly |-> 1, yearly |-> 10, owner |-> t1]]

MCMonthlyPrice == [p \in Plans |-> Catalogue[p].monthly]
MCYearlyPrice == [p \in Plans |-> Catalogue[p].yearly]
MCOwner == [p \in Plans |-> Catalogue[p].owner]

ChargeSymmetry == Permutations(Charges)
=============================================================================
