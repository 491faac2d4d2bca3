\* Two broker processes, a broker clock ahead of the enclave's, an image that
\* retires, and three challenges: two sessions in a row and a renewal.
SPECIFICATION Spec
CONSTANTS
    n1 = n1
    n2 = n2
    n3 = n3
    Nonces = {n1, n2, n3}
    ChallengeTTL = 1
    DecisionTTL = 1
    Cadence = 4
    RetireAt = 1
    Skew <- Ahead
    Bounds = {}
    MaxKeys = 2
    MaxDecisions = 1
    MaxTime = 3
VIEW View
SYMMETRY Symmetry
INVARIANTS CutOffBound WindowsAreAttested
