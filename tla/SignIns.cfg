CONSTANTS
    Requests = {s1, s2}
    MaxPairs = 3
SPECIFICATION Spec
SYMMETRY Symmetric
INVARIANTS
    TypeOK
    RevokedIsDead
    ToldIsDone
PROPERTIES
    RefusedForGood
    ImplementsDevices
