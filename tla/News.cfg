SPECIFICATION FairSpec
CONSTANTS
    MaxReqId = 1007
    MaxStatuses = 1
    Tickers <- MCTickers
    NumSources = 2
    Articles <- MCArticles
    NoArticle <- MCNoArticle
    MaxHeadlines = 1
INVARIANTS
    TypeOK
    NoStreamLeak
    HeadlinesOfSession
    NoRepeatedHeadline
    StageHasRequest
PROPERTIES
    SessionSettles
