CONSTANTS
    Agents = {a}
    Starts = {s1}
    Workers = {w}
    Supervisor = supervisor
    Keys = {k1, k2, k3}
    Files = {f}
    MaxItems = 2
    MaxEdits = 2
    Tasks = {t1, t2}
    Convs = {c1, c2}
    MaxPosts = 2
    MaxClosed = 1
    RowIds = {r1}
    MaxCalls = 2
    MaxCaptchas = 2
    MaxCodes = 1
    MaxGets = 2
    Smtp = TRUE
    Items = {i1, i2}
    Seeds = {i1}
    Strict = FALSE
    Asked = Asked
    None = None
SPECIFICATION Spec
SYMMETRY Symmetric
INVARIANTS
    PagesTypeOK
    SavedWasHeld
    PoolSettles
    PreviewIsTaskContext
    SentStays
    RemovedStaysGone
    CaptchaIsFresh
    
PROPERTY
    DraftIsLeftAlone
CHECK_DEADLOCK FALSE
