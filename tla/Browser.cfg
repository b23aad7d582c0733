CONSTANTS
    a = a
    b = b
    get = get
    boot = boot
    logout = logout
    Tabs = {a, b}
    Calls = {get, boot, logout}
    TabOf <- InTabs
    KindOf <- Kinds
    MaxPairs = 2
SPECIFICATION Spec
INVARIANTS
    TypeOK
PROPERTIES
    KeptWhileGood
