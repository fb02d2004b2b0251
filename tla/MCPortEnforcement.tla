------------------------- MODULE MCPortEnforcement -------------------------
(* Instances of PortEnforcement for TLC. *)
EXTENDS PortEnforcement, TLC

CONSTANTS p1

(* A device that is both new and of a known type, under a rule for another
   subnet and one that matches. *)
MCRules == <<[trigger |-> "new_unknown", subnet |-> "lab", switch |-> "any", type |-> "any",
              action |-> "quarantine", timed |-> TRUE],
             [trigger |-> "new_unknown", subnet |-> "any", switch |-> "any", type |-> "any",
              action |-> "quarantine", timed |-> TRUE]>>
MCDevices == <<[port |-> p1, trust |-> "unknown", new |-> TRUE, subnet |-> "office",
                switch |-> "sw", type |-> "printer"]>>
NoRules == <<>>

Perms == Permutations(Operator)
=============================================================================
