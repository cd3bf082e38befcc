------------------------------ MODULE MCAccess ------------------------------
(* Instances of Access for TLC. *)
EXTENDS Access, TLC

MCSymmetry == Permutations(Slots)

(* Endpoints that act on the same fields are looked at together. *)
MCGroups ==
    { [endpoints |-> {"login", "change", "forgot", "reset", "force", "forced"},
       calls |-> 4],
      [endpoints |-> {"setup", "verify_setup", "verify", "disable", "regenerate"},
       calls |-> 4],
      [endpoints |-> {"create", "setup", "verify_setup", "disable", "regenerate"},
       calls |-> 3],
      [endpoints |-> {"login", "siwe", "create", "invite", "update", "status"},
       calls |-> 2] }
=============================================================================
