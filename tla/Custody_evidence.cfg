\* What ReleaseDecision promises about the evidence behind a release.
SPECIFICATION Spec
CONSTANTS
    n1 = n1
    n2 = n2
    n3 = n3
    Nonces = {n1, n2}
    ChallengeTTL = 1
    DecisionTTL = 2
    Cadence = 2
    RetireAt = 9
    Skew = 0
    Bounds = {1}
    MaxKeys = 1
    MaxDecisions = 1
    MaxTime = 3
VIEW View
SYMMETRY Symmetry
INVARIANTS WindowWithinEvidence
