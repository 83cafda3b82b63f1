SPECIFICATION Spec
CONSTANTS
    MaxReqId = 1008
    MaxStatuses = 1
    Tickers <- MCTickers
    NumSources = 2
    Articles <- MCArticles
    NoArticle <- MCNoArticle
    MaxHeadlines = 1
PROPERTIES
    FallsBackWithoutCodes
