\* Two threads over chains of two links: an answer given before a revocation is
\* stored after it.
SPECIFICATION Spec
CONSTANTS
    t1 = t1
    t2 = t2
    brom = brom
    ca = ca
    Threads = {t1, t2}
    Links = {brom, ca}
    Chains <- TwoLinks
    MaxAge = 1
    Unit = 2
    Validities = {5}
    MaxTime = 2
SYMMETRY Symmetry
INVARIANTS RevocationSticks
