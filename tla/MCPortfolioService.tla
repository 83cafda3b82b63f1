-------------------------- MODULE MCPortfolioService --------------------------
(* An instance of PortfolioService: one contract that may be held. *)
EXTENDS PortfolioService

MCConIds == {265598}
MCNoConId == 0

=============================================================================
