---------------------- MODULE MCSubscriptionTransactions ----------------------
(* Constants of the small instance of SubscriptionTransactions. *)
EXTENDS SubscriptionTransactions, TLC

MCMonthlyPrice == [free |-> 0, pro |-> 5]
MCYearlyPrice == [free |-> 0, pro |-> 50]
MCOwner == [p \in Plans |-> Null]

MCSymmetry == Permutations(Charges) \cup Permutations(Handlers)
=============================================================================
