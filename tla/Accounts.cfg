CONSTANTS
    Accounts = {f, a}
    Founders = {f}
    Editors = {a}
    None = None
    Requests = {s1, s2}
SPECIFICATION FairSpec
INVARIANTS
    TypeOK
PROPERTIES
    SuperadminRemains
    PowerIsTheirs
    ShutOutSocketsClose
CHECK_DEADLOCK FALSE
