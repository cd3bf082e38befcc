---------------------------- MODULE MCDocuments -----------------------------
(* Instances of Documents for TLC. *)
EXTENDS Documents, TLC

MCSymmetry == Permutations(Slots)

(* Operations on the same fields are looked at together. *)
MCGroups ==
    { [operations |-> {"create_from_file", "upload", "delete", "issue"}, calls |-> 3],
      [operations |-> {"create", "update", "delete", "issue"}, calls |-> 3],
      [operations |-> {"share", "access", "unshare", "delete"}, calls |-> 4] }
=============================================================================
