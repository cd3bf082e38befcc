------------------------------ MODULE MCAccounts ----------------------------
(* Instances of Accounts for TLC. *)
EXTENDS Accounts, TLC

CONSTANTS g1, a1

(* The wallet the registration asks an account for. *)
MCWalletOf == (g1 :> a1)
=============================================================================
