----------------------------- MODULE MCDealDesk -----------------------------
(* Instances of DealDesk for TLC. *)
EXTENDS DealDesk, TLC

(* The desk's own requests, and those of the signing API beside one of each. *)
MCSettings ==
    { [linking |-> TRUE, decisions |-> 2, notes |-> 2, updates |-> 1, flows |-> 1,
       asked |-> 0, faults |-> 2],
      [linking |-> FALSE, decisions |-> 1, notes |-> 1, updates |-> 0, flows |-> 2,
       asked |-> 1, faults |-> 1] }

(* The signing of a note is not noticed. *)
MCExpirySettings ==
    { [linking |-> FALSE, decisions |-> 2, notes |-> 2, updates |-> 1, flows |-> 1,
       asked |-> 0, faults |-> 1] }
=============================================================================
