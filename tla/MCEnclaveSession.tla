-------------------------- MODULE MCEnclaveSession --------------------------
(* Instances of EnclaveSession for TLC.                                      *)
EXTENDS EnclaveSession

Sound(issued, expires) ==
    [signed |-> TRUE, renewed |-> TRUE, gates |-> "complete", binds |-> TRUE,
     issued |-> issued, expires |-> expires, evidence |-> "none", bound |-> 0]

Bounded(d, b) == [d EXCEPT !.evidence = "bounded", !.bound = b]

\* Two good decisions, one of them resting on evidence that ends before a full
\* window, a denial, and one decision for each way of being refused.
MCDecisions ==
    {Sound(0, 3),
     Bounded(Sound(1, 2), 2),
     [Sound(1, 4) EXCEPT !.renewed = FALSE, !.gates = "failed"],
     [Sound(1, 4) EXCEPT !.evidence = "unreadable"],
     [Sound(0, 4) EXCEPT !.signed = FALSE],
     [Sound(0, 4) EXCEPT !.gates = "missing"],
     [Sound(0, 4) EXCEPT !.gates = "failed"],
     [Sound(0, 4) EXCEPT !.binds = FALSE]}

=============================================================================
