CONSTANTS
    Requests = {p1, p2}
    Users = {alice}
    Contents = {d1}
    Empty = Empty
    NoBase = NoBase
    NoJob = NoJob
    Unread = Unread
    Ops = {"save", "restore", "name", "update", "trash", "untrash"}
    Modes = {"auto", "named"}
    VersionLimit = 1
    MaxRevisions = 3
SPECIFICATION FairSpec
INVARIANT VersionRowsAreHistory
PROPERTY EveryRequestAnswered
