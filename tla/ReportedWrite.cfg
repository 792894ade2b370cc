CONSTANTS
    Tasks = {t1}
    Calls = {c1}
    Users = {alice}
    Admins = {}
    NoUser = nobody
    None = None
    Requests <- WriteOnly
    EnabledChoices <- AllEnabled
    MaxRestarts = 0
SPECIFICATION Spec
INVARIANT
    FailureIsReported
