---------------------------- MODULE MCNewsService -----------------------------
(* An instance of NewsService: one ticker, two BroadTape sources, one article *)
(* besides headlines that have none.                                          *)
EXTENDS NewsService

MCTickers == {"AAPL"}
MCArticles == {"BRFG$1"}
MCNoArticle == "no article"

=============================================================================
