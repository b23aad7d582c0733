CONSTANTS
    Clients = {a, b}
    Workers = {w1, w2}
    Http = Http
    NoSocket = NoSocket
    NoHost = NoHost
    NoBase = NoBase
    MaxLinks = 1
    MaxEdits = 3
    Typists = {a, b}
    Sleepers = {}
    EarlyTyping = TRUE
    RestWriters = TRUE
    Crashes = FALSE
SPECIFICATION Spec
SYMMETRY Symmetric
\* The instance makes no more edits and opens no more sockets at the bounds.
CHECK_DEADLOCK FALSE
INVARIANTS
    TypeOK
    NoFutureVersion
    FramesTruthful
PROPERTY SendsHaveSeenTheirBase
