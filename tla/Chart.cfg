SPECIFICATION FairSpec
CONSTANTS
    MaxReqId = 1003
    MaxStatuses = 3
    Instruments <- MCInstruments
    KnownExchange <- MCKnownExchange
    KeepUpToDate <- MCKeepUpToDate
    NoInstrument <- MCNoInstrument
    MaxBarTs = 2
INVARIANTS
    TypeOK
    OneSubscription
    BarsBelongToInstrument
    OneBatchInOrder
    ReadyShowsWholeBatch
PROPERTIES
    NoFlicker
    RefreshEndsUnlessRefused
    ImplementsLiveFeed
