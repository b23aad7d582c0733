CONSTANTS
    People = {f, p}
    Founder = f
    NoUser = NoUser
    NoRow = NoRow
    Requests = {s1, s2}
    Roles = {"VIEWER", "OWNER"}
    MaxRows = 3
SPECIFICATION FairSpec
INVARIANTS
    TypeOK
    ProvenSeats
    OwnerRemains
\* Once nobody is on the project nothing can be asked of it.
CHECK_DEADLOCK FALSE
PROPERTIES
    RemovalsAreAimed
    OutsiderSocketCloses
