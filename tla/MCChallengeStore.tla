-------------------------- MODULE MCChallengeStore --------------------------
(* Instances of ChallengeStore for TLC.                                    *)
EXTENDS ChallengeStore, TLC

Symmetry == Permutations(Nonces)

=============================================================================
