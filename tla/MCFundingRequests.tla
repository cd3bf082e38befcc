-------------------------- MODULE MCFundingRequests -------------------------
(* Instances of FundingRequests for TLC. *)
EXTENDS FundingRequests

(* A job names the deal and whether it is requested or withdrawn. *)
MCPayload == [name : {"NEW_FUNDING_REQUEST", "WITHDRAW_FUNDING_REQUEST"}, deal : Deals]
=============================================================================
