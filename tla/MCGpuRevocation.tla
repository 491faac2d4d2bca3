-------------------------- MODULE MCGpuRevocation ---------------------------
(* Instances of GpuRevocation for TLC.                                      *)
EXTENDS GpuRevocation, TLC

CONSTANTS t1, t2, brom, ca

\* A chain too short to check, and one link shared by both threads' checks.
OneLink  == {<<brom>>, <<>>}
\* A GPU's BROM and the intermediate above it.
TwoLinks == {<<brom, ca>>, <<>>}
Symmetry == Permutations(Threads)

=============================================================================
