\* Two threads ask about one certificate; two clock units per second.
SPECIFICATION Spec
CONSTANTS
    t1 = t1
    t2 = t2
    brom = brom
    ca = ca
    Threads = {t1, t2}
    Links = {brom}
    Chains <- OneLink
    MaxAge = 1
    Unit = 2
    Validities = {0, 5}
    MaxTime = 4
SYMMETRY Symmetry
INVARIANTS FirstReleaseIsFresh OutageIsBounded
