SPECIFICATION SharedSpec
CONSTANTS
    MaxReqId = 1003
    MaxStatuses = 2
    Instruments <- MCInstruments
    KnownExchange <- MCKnownExchange
    NoInstrument <- MCNoInstrument
    Articles <- MCArticles
    NoArticle <- MCNoArticle
PROPERTIES
    NeverClobbered
