CONSTANTS
    Clients = {a}
    Workers = {w1}
    Http = Http
    NoSocket = NoSocket
    NoHost = NoHost
    NoBase = NoBase
    MaxLinks = 1
    MaxEdits = 4
    Typists = {a}
    Sleepers = {}
    EarlyTyping = FALSE
    RestWriters = FALSE
    Crashes = FALSE
SPECIFICATION Spec
\* The instance makes no more edits and opens no more sockets at the bounds.
CHECK_DEADLOCK FALSE
INVARIANT SaveHasSeenItsBase
