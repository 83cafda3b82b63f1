---------------------------- MODULE MCChartService ----------------------------
(* Instances of ChartService: a stock, a continuous future, and a future the *)
(* exchange table does not know.                                             *)
EXTENDS ChartService

MCInstruments == {"AAPL STK", "CL CONTFUT", "XX CONTFUT"}
MCKnownExchange == {"AAPL STK", "CL CONTFUT"}
MCKeepUpToDate == {"AAPL STK"}
MCNoInstrument == "none"

=============================================================================
