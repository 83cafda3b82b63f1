SPECIFICATION FairSpec
CONSTANTS
    MaxReqId = 1007
    MaxStatuses = 1
    Accounts = {1, 2}
    ConIds <- MCConIds
    NoConId <- MCNoConId
INVARIANTS
    TypeOK
    NoOrphanSubscription
    ReadyMeansLoaded
    ActiveIsServed
PROPERTIES
    PortfolioLoads
