----------------------------- MODULE SharedContext -----------------------------
(***************************************************************************)
(* QuoteService and the reader of articles in one program: both take their *)
(* request ids from the one counter of ServiceContext and report to its    *)
(* one queue, and both lose what they were asked for when the connection   *)
(* goes.  An article may still be on its way while the user, back from the *)
(* news, looks at quotes, and the ticks of a quote while he reads.         *)
(***************************************************************************)
EXTENDS QuoteService, NewsReader

\* What only the quote, and only the reader with its connection, may change.
quoteOnly == <<serviceVars, tws_asked, tws_live>>
readerOnly == <<is_connected, readerVars, article, tws_articles, tws_open,
                tws_in_order, tws_failed>>
sharedVars == <<next_req_id, status_queue, quoteOnly, readerOnly>>

SharedTypeOK == QuoteTypeOK /\ ReaderTypeOK

SharedInit == QuoteInit /\ ReaderInit

\* IbkrClient forwards RequestQuote() and CancelQuote() only while connected.
QuoteStep == is_connected /\ QuoteNext /\ UNCHANGED readerOnly

ReaderStep == ReaderNext /\ UNCHANGED quoteOnly

\* IbkrClient::Disconnect() resets all services in one call.
DisconnectAll == DisconnectQuote /\ DisconnectReader

\* The main loop drains the one queue, while connected.
DrainShared ==
    /\ is_connected
    /\ DrainQueue
    /\ UNCHANGED <<next_req_id, quoteOnly, readerOnly>>

SharedNext ==
    \/ QuoteStep
    \/ ReaderStep
    \/ DisconnectAll
    \/ DrainShared

SharedSpec == SharedInit /\ [][SharedNext]_sharedVars

\* Fairness: the main loop draws frames, and TWS answers every request.
FairSharedSpec ==
    /\ SharedSpec
    /\ WF_sharedVars(OnFrame /\ UNCHANGED quoteOnly)
    /\ \A id \in ReqIds : WF_sharedVars(Answered(id) /\ UNCHANGED quoteOnly)

-----------------------------------------------------------------------------
(* Property. *)

\* A callback finds its service by its request id alone: no id is ever used by
\* both, though they ask in any order, and go on after a disconnect.
OneOwner ==
    \A id \in ReqIds : tws_asked[id] = NoInstrument \/ tws_articles[id] = NoArticle

=============================================================================
