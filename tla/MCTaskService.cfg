CONSTANTS
    Tasks = {t1}
    Calls = {c1, c2}
    Users = {alice, root}
    Admins = {root}
    NoUser = nobody
    None = None
    Requests <- MCRequests
    EnabledChoices <- MCEnabledChoices
    MaxRestarts = 2
SPECIFICATION FairSpec
INVARIANTS
    TypeOK
    OneDriver
    AtMostOneWrite
    WriteNeedsApproval
    AwaitingAtGate
    RefusedIsUntouched
    VerifiedOnItsReceipt
    OwnerKept
PROPERTIES
    RestartLosesNothing
    EveryCallAnswered
    KeepsPromise
