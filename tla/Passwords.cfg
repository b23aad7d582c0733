CONSTANTS
    Requests = {s1, s2}
    MaxFailed = 2
    LockTime = 1
    MaxTime = 1
    MaxLinks = 2
    MaxSignIns = 2
SPECIFICATION Spec
SYMMETRY Symmetric
INVARIANTS
    TypeOK
    GuessesAreBounded
    WallFollowsPassword
    AnsweredIsAlone
PROPERTIES
    LinksSetOnce
