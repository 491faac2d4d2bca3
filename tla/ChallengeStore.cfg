\* Three nonces and a wall clock that may step back: nonces expire unused, are
\* presented late and are pruned from both tables.
SPECIFICATION Spec
CONSTANTS
    Nonces = {n1, n2, n3}
    TTL = 2
    MaxTime = 4
SYMMETRY Symmetry
INVARIANTS SingleUse RetentionWindow
PROPERTIES ImplementsGate
