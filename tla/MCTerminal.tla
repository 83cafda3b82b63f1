------------------------------ MODULE MCTerminal ------------------------------
(* An instance of Terminal: a stock and a continuous future. *)
EXTENDS Terminal

MCSymbols == {"AAPL", "CL"}
MCContinuous == {"CL"}
MCEverything == "everything"
MCNothing == "nothing"

=============================================================================
