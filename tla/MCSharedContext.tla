---------------------------- MODULE MCSharedContext ---------------------------
(* An instance of SharedContext: a stock, a continuous future, a future the  *)
(* exchange table does not know, and two articles.                           *)
EXTENDS SharedContext

MCInstruments == {"AAPL STK", "CL CONTFUT", "XX CONTFUT"}
MCKnownExchange == {"AAPL STK", "CL CONTFUT"}
MCNoInstrument == "none"
MCArticles == {"BRFG$1", "DJNL$2"}
MCNoArticle == "no article"

=============================================================================
