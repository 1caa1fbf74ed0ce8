------------------------------- MODULE MCQuota -------------------------------
(* Small instances of Quota: the requests are interchangeable. *)
EXTENDS Quota, TLC

RequestSymmetry == Permutations(Requests)
=============================================================================
