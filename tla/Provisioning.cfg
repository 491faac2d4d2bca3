\* Two owner processes on one floor, two receivers, and a window that runs out.
SPECIFICATION Spec
CONSTANTS
    o1 = o1
    o2 = o2
    b1 = b1
    b2 = b2
    n1 = n1
    n2 = n2
    Owners = {o1, o2}
    Policies <- MCPolicies
    Boots = {b1, b2}
    Nonces = {n1, n2}
    TTL = 1
    Window = 0
    MaxTime = 1
SYMMETRY Symmetry
INVARIANTS OnePolicyPerEpoch InstallOnce SupersededExpires
PROPERTIES NoRollback
\* Owner processes may stay down and every receiver may have retired.
CHECK_DEADLOCK FALSE
