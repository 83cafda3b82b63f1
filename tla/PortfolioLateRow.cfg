SPECIFICATION Spec
CONSTANTS
    MaxReqId = 1009
    MaxStatuses = 1
    Accounts = {1}
    ConIds <- MCConIds
    NoConId <- MCNoConId
INVARIANTS
    ClosedIsQuiet
