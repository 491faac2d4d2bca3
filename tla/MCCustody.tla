----------------------------- MODULE MCCustody ------------------------------
(* Instances of Custody for TLC.                                             *)
EXTENDS Custody, TLC

CONSTANTS n1, n2, n3

Ahead    == 1
\* verdict, result and stops are written and never read: they tell no two
\* states of the protocol apart.
View     == <<now, gate, expires, key, stoppedAt, gating, releases, decisions, state, deadline,
              used, renewals, opened, asked, pinned, started, windows, evidenceEnd,
              gateTime>>
Symmetry == Permutations(Nonces)

=============================================================================
