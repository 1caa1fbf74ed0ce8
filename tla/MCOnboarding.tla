----------------------------- MODULE MCOnboarding -----------------------------
(* Two addresses, two names, two codes and two requests at a time: enough    *)
(* for a clash of addresses, of names, of verifications and of trials.       *)
EXTENDS Onboarding
=============================================================================
