CONSTANTS
    Conns = {c1, c2, c3}
    Ttl = 2
SPECIFICATION RosterFairSpec
INVARIANT RosterFollowsSockets
PROPERTY GhostsGo
