CONSTANTS
    Users = {alice, guest}
    Guest = guest
    b1 = b1
    Browsers = {b1}
    Tabs = {t1, t2}
    Home <- OneHome
    Short = 1
    Long = 1
    AccessTTL = 1
    Skew = 1
    MaxPairs = 3
    MaxChanges = 1
    Instants = {0, 2}
    None = None
SYMMETRY Swaps
SPECIFICATION Spec
PROPERTY
    RenewalEndsNoLogin
CHECK_DEADLOCK FALSE
