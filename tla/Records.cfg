\* The evidence of what happened: logs, record chains, memory and receipts.
SPECIFICATION Spec
CONSTANTS
    Statements = {"manifest", "revocation"}
    MaxSize = 5
    MaxRewrites = 1
    Leases = {"l1", "l2"}
    MaxRenewals = 1
    MaxProcesses = 2
    MaxPages = 4
    Buffers = 2
    Threads = {"t1", "t2", "t3"}
    MaxChanges = 3
    ObservedBuffers = 2
    MaxEdits = 2
    MaxChallenges = 2
    MaxObservations = 2
    Processes = {"p1", "p2", "p3"}
    MaxReceipts = 3
    MaxFaults = 2
INVARIANTS
    OneHistory
    OneProcessEnded
    SweepFindsAliases
    LatchedOnce
    ObservedAfterChallenge
    RevokedStaysUnrouted
\* Every part stops: at its bounds, when its sweep is read, when its latch has closed.
CHECK_DEADLOCK FALSE
