SPECIFICATION FairSharedSpec
CONSTANTS
    MaxReqId = 1003
    MaxStatuses = 2
    Instruments <- MCInstruments
    KnownExchange <- MCKnownExchange
    NoInstrument <- MCNoInstrument
    Articles <- MCArticles
    NoArticle <- MCNoArticle
INVARIANTS
    SharedTypeOK
    OneSubscription
    TicksBelongToInstrument
    ReadyWithLastPrice
    OneOwner
    BodyUnderItsTitle
PROPERTIES
    ImplementsLiveFeed
    ReaderFills
