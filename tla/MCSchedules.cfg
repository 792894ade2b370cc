CONSTANTS
    MaxRows = 2
    Periods = {1, 2}
    Drafts <- MCDrafts
    Edits <- MCEdits
    Presses = {p1}
    MaxMinute = 2
    MaxTold = 1
    MaxRestarts = 1
    None = None
SPECIFICATION FairSpec
INVARIANT
    TypeOK
PROPERTIES
    NoInstantTwice
    DeletedStaysDeleted
    DueIsServed
    LoopSurvives
CHECK_DEADLOCK FALSE
