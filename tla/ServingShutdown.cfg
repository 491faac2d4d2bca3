\* Three threads end custody at once while up to two pieces of work run, under
\* the fairness of the thread that runs the adapter.
SPECIFICATION FairSpec
CONSTANTS
    Callers = {c1, c2, c3}
    MaxWork = 2
INVARIANTS TeardownOnce NoFreeUnderWork
PROPERTIES TerminationAttempted
\* A torn-down worker stays down.
CHECK_DEADLOCK FALSE
