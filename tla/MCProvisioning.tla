--------------------------- MODULE MCProvisioning ---------------------------
(* Instances of Provisioning for TLC.                                        *)
EXTENDS Provisioning, TLC

CONSTANTS o1, o2, b1, b2, n1, n2

\* Two different policies of one epoch, and one of the next.
MCPolicies == {[epoch |-> 1, text |-> "a"], [epoch |-> 1, text |-> "b"],
               [epoch |-> 2, text |-> "a"]}

Symmetry == Permutations(Owners) \cup Permutations(Boots) \cup Permutations(Nonces)

=============================================================================
