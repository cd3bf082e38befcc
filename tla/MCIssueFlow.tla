----------------------------- MODULE MCIssueFlow ----------------------------
(* Instances of IssueFlow for TLC: its constants are model values. *)
EXTENDS IssueFlow

CONSTANTS r1, r2

(* One request at a time, of every kind; and two at a time for flows that overlap. *)
MCSettings ==
    { [requests |-> {r1}, kinds |-> {"issue", "update", "delete", "upload"},
       processes |-> 2, faults |-> 3],
      [requests |-> {r1, r2}, kinds |-> {"issue", "delete"}, processes |-> 1, faults |-> 1] }

(* The document is issued once, with one failure. *)
MCStuckSettings ==
    { [requests |-> {r1}, kinds |-> {"issue"}, processes |-> 2, faults |-> 1] }
=============================================================================
