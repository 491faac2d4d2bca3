\* One session, its monitor, calls up to the horizon, and a wall clock that may
\* be stepped.
SPECIFICATION FairSpec
CONSTANTS
    Cadence = 3
    MaxOps = 1
    Poll = 2
    Decisions <- MCDecisions
    Horizon = 3
    MaxReattests = 1
    MaxServed = 2
INVARIANTS OpBudget OneWindowPerDecision MonitorEndsCustody LapseBound
PROPERTIES NoServiceAfterWipe LapseIsNoticed
\* The clock is bounded: an idle session stops with it.
CHECK_DEADLOCK FALSE
