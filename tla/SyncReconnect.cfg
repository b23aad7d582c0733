CONSTANTS
    Clients = {a, b}
    Workers = {w1}
    Http = Http
    NoSocket = NoSocket
    NoHost = NoHost
    NoBase = NoBase
    MaxLinks = 2
    MaxEdits = 2
    Typists = {a}
    Sleepers = {b}
    EarlyTyping = FALSE
    RestWriters = FALSE
    Crashes = TRUE
SPECIFICATION FairSpec
\* The instance makes no more edits and opens no more sockets at the bounds.
CHECK_DEADLOCK FALSE
INVARIANT ConflictIsNewer
PROPERTIES
    SendsHaveSeenTheirBase
    SentSaveAnswered
