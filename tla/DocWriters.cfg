CONSTANTS
    Requests = {p1, p2, p3}
    Users = {alice, bob}
    Contents = {d1}
    Empty = Empty
    NoBase = NoBase
    NoJob = NoJob
    Unread = Unread
    Ops = {"save", "restore"}
    Modes = {"none", "auto", "named"}
    VersionLimit = 1
    MaxRevisions = 4
SYMMETRY Symmetric
SPECIFICATION Spec
\* The instance takes no more requests at the bound.
CHECK_DEADLOCK FALSE
INVARIANTS
    TypeOK
    NoLostUpdate
    FeedMatchesHistory
    OverwriteRecoverable
PROPERTY ImplementsHistory
