CONSTANTS
    Requests = {s1, s2}
    MaxTokens = 3
    Limit = 2
SPECIFICATION FairSpec
PROPERTIES
    GoneStaysGone
    LinkStays
    WindowEnds
