CONSTANTS
    MaxEvents = 4
    MaxPipe = 1
    MaxFaults = 1
    MaxPatches = 1
    MaxVisits = 1
    Asked = Asked
    None = None
SPECIFICATION FairSpec
INVARIANTS TypeOK SourceIsWanted TagIsTrue HeardUpToId
CHECK_DEADLOCK FALSE
PROPERTIES InOrder EndIsShown EndLetsGo EventuallyHeard
