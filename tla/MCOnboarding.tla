---------------------------- MODULE MCOnboarding ----------------------------
(* Instances of Onboarding for TLC: its constants are model values. *)
EXTENDS Onboarding
=============================================================================
