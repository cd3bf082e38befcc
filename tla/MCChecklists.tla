---------------------------- MODULE MCChecklists ----------------------------
(* Instances of Checklists for TLC. *)
EXTENDS Checklists, TLC

MCSymmetry == Permutations(Slots)

(* A template for onboardings with an automated item, and one for deals or none. *)
MCSeeds ==
    LET onboarding == [type |-> "ONBOARDING", version |-> 1,
                       checks |-> [directors |-> "MANUAL", email |-> "AUTOMATED"]]
        deals == [type |-> "DEAL_PROCESSING", version |-> 1,
                  checks |-> [directors |-> "none", email |-> "AUTOMATED"]] IN
    { <<onboarding>>, <<onboarding, deals>>,
      <<onboarding, [deals EXCEPT !.checks = [directors |-> "MANUAL", email |-> "none"]]>> }

(* Three templates are made; or an instance, with two templates and an update, or
   with one template, an update and a fault. *)
MCBounds ==
    { [creates |-> 3, updates |-> 0, made |-> {}, faults |-> 0],
      [creates |-> 2, updates |-> 1, made |-> Instances, faults |-> 0],
      [creates |-> 1, updates |-> 1, made |-> Instances, faults |-> 1] }

(* Nothing fails and nobody asks for anything but the instance. *)
MCQuietBounds == { [creates |-> 0, updates |-> 0, made |-> Instances, faults |-> 0] }
=============================================================================
