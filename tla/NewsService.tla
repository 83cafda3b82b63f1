----------------------------- MODULE NewsService -----------------------------
(***************************************************************************)
(* services/news_service.cc: the news session state machine.  A ticker     *)
(* session resolves the contract, fetches a historical batch and streams   *)
(* live headlines; the general session probes the BroadTape sources and    *)
(* streams those that exist, or falls back to a ticker session for SPY.    *)
(* Full articles are the module NewsReader.                                *)
(*                                                                         *)
(* Each operation is one step under the Dispatcher's mutex.  The calls of  *)
(* the facade are made while connected (IbkrClient tests that); callbacks  *)
(* come from TWS in any order it can answer in.                            *)
(***************************************************************************)
EXTENDS ServiceContext, Sequences

CONSTANTS
    Tickers,        \* symbols NewsScreen is opened for
    NumSources,     \* number of BroadTape sources probed (7 in the code)
    Articles,       \* article ids of headlines
    NoArticle,      \* a headline with an empty article id
    MaxHeadlines    \* bound: headlines queued between two drains

ASSUME NewsAssumption ==
    /\ NumSources \in Nat \ {0}
    /\ MaxHeadlines \in Nat
    /\ NoArticle \notin Articles

VARIABLES
    connected,              \* IbkrClient is connected
    session,                \* the fields of the session, named as in the class
    headlines,              \* headlines_: queued for DrainHeadlines()
    have_codes,             \* provider_codes_ is not empty
    want_providers, providers_requested,
    feed,                   \* NewsScreen::headlines_: what it was given
    tws_hello,              \* nextValidId of this connection: "due" or "sent"
    tws_providers,          \* an answer to reqNewsProviders is due
    tws_asked,              \* what a request id was used for, and for whom
    tws_open,               \* how many requests under an id await their end
    tws_failed,             \* the session's ids TWS answered with an error
    tws_live                \* market-data streams TWS is serving

contextVars == <<next_req_id, status_queue>>
providerVars == <<have_codes, want_providers, providers_requested>>
linkVars == <<connected, tws_hello, tws_providers>>
requestVars == <<tws_asked, tws_open, tws_failed, tws_live>>
vars == <<contextVars, session, headlines, feed, providerVars, linkVars, requestVars>>

Stages == {"kIdle", "kResolving", "kFetchingHist", "kStreamingTicker",
           "kBroadtapeDiscover", "kBroadtapeStream"}
Subjects == Tickers \union {"SPY", "MARKET", ""}
Operations == {"none", "details", "probe", "history", "stream"}
MaybeId == ReqIds \union {NoReqId}
Headline == [req : ReqIds, article : Articles \union {NoArticle}]
Session == [
    stage : Stages,
    symbol : Subjects,
    con_id : Subjects,      \* whose contract was found ("": the code's 0)
    details_req_id : MaybeId, hist_req_id : MaybeId,
    ticker_stream_req_id : MaybeId,
    broadtape_probe_ids : SUBSET ReqIds,    \* probes not finished yet
    broadtape_contracts : SUBSET ReqIds,    \* probes that returned a contract
    broadtape_stream_req_ids : SUBSET ReqIds,
    seen_article_ids : SUBSET Articles]

TypeOK ==
    /\ next_req_id \in Nat
    /\ status_queue \subseteq {"Historical loaded", "Streaming BroadTape",
            "No contract found", "No news providers", "No BroadTape", "ERR"}
    /\ session \in Session
    /\ headlines \in Seq(Headline) /\ feed \subseteq Headline
    /\ {have_codes, want_providers, providers_requested} \subseteq BOOLEAN
    /\ {connected, tws_providers} \subseteq BOOLEAN /\ tws_hello \in {"due", "sent"}
    /\ tws_asked \in [ReqIds -> [op : Operations, subject : Subjects]]
    /\ tws_open \in [ReqIds -> Nat]
    /\ tws_failed \subseteq ReqIds /\ tws_live \subseteq ReqIds

\* A session at the given stage for the given subject, with nothing else set.
NewSession(stage, subject) ==
    [stage |-> stage, symbol |-> subject, con_id |-> "",
     details_req_id |-> NoReqId, hist_req_id |-> NoReqId,
     ticker_stream_req_id |-> NoReqId, broadtape_probe_ids |-> {},
     broadtape_contracts |-> {}, broadtape_stream_req_ids |-> {},
     seen_article_ids |-> {}]
NoSession == NewSession("kIdle", "")

NothingAsked == [id \in ReqIds |-> [op |-> "none", subject |-> ""]]
NothingOpen == [id \in ReqIds |-> 0]

Init ==
    /\ ContextInit
    /\ session = NoSession /\ headlines = <<>> /\ feed = {}
    /\ have_codes = FALSE /\ want_providers = FALSE /\ providers_requested = FALSE
    /\ connected = FALSE /\ tws_hello = "due" /\ tws_providers = FALSE
    /\ tws_asked = NothingAsked /\ tws_open = NothingOpen
    /\ tws_failed = {} /\ tws_live = {}

-----------------------------------------------------------------------------
(* Parts of the operations; ...Variant is a faulty version. *)

\* OwnsReqId(): the ids of the session (the service itself never asks).
SessionIds ==
    ({session.details_req_id, session.hist_req_id, session.ticker_stream_req_id}
        \ {NoReqId})
    \union session.broadtape_probe_ids \union session.broadtape_stream_req_ids

\* The ids NextReqId() returns when called n times.
NextReqIds(n) == (next_req_id + 1)..(next_req_id + n)

\* TWS receives the request `op' for `subject' under each of the fresh ids;
\* `open' is what it is working on besides.
Send(ids, op, subject, open) ==
    /\ tws_asked' = [id \in ReqIds |->
            IF id \in ids THEN [op |-> op, subject |-> subject] ELSE tws_asked[id]]
    /\ tws_open' = [id \in ReqIds |-> IF id \in ids THEN 1 ELSE open[id]]

\* TWS has finished one request of this id.
Finished(id) == [tws_open EXCEPT ![id] = @ - 1]

\* CancelActive() cancels the streams, and nothing else: pending detail,
\* history and article requests are left to be ignored when they answer.
OnlyTickerCancelledVariant == tws_live \ {session.ticker_stream_req_id}
CancelStreams ==
    tws_live \ (session.broadtape_stream_req_ids
                    \union {session.ticker_stream_req_id})

\* The headlines a new session begins with.
KeepHeadlinesVariant == headlines
NoHeadlines == <<>>

\* StartTickerSession(), also called by the BroadTape fallback.
StartTickerSession(s, open) ==
    /\ Allocate(1)
    /\ session' = [NewSession("kResolving", s) EXCEPT !.details_req_id = NextReqId]
    /\ headlines' = NoHeadlines
    /\ Send({NextReqId}, "details", s, open)
    /\ tws_live' = CancelStreams /\ tws_failed' = {}

\* Bound: a session begins only while the ids it may come to need are left (a
\* ticker: details, history, stream; a general one: its probes, then as many
\* streams or a ticker session).
TickerIds == 3
GeneralIds == NumSources + (IF NumSources > TickerIds THEN NumSources ELSE TickerIds)

\* The tests the callbacks begin with.
IsResolving(id) == session.stage = "kResolving" /\ id = session.details_req_id
IsProbing(id) ==
    session.stage = "kBroadtapeDiscover" /\ id \in session.broadtape_probe_ids
IsFetching(id) == session.stage = "kFetchingHist" /\ id = session.hist_req_id
IsStreaming(id) ==
    \/ session.stage = "kBroadtapeStream" /\ id \in session.broadtape_stream_req_ids
    \/ session.stage = "kStreamingTicker" /\ id = session.ticker_stream_req_id

\* The headline is queued unless its article was seen in this session.
AlwaysNewVariant(a) == TRUE
IsNew(a) == a = NoArticle \/ a \notin session.seen_article_ids
Queue(id, a) ==
    /\ Len(headlines) < MaxHeadlines
    /\ headlines' = IF IsNew(a)
                    THEN Append(headlines, [req |-> id, article |-> a])
                    ELSE headlines
    /\ session' = [session EXCEPT !.seen_article_ids = @ \union ({a} \ {NoArticle})]
    /\ UNCHANGED <<contextVars, feed, providerVars, linkVars, requestVars>>

\* The probes that remain when `id' is done.
NotErasedVariant(id) == session.broadtape_probe_ids
ProbesLeft(id) == session.broadtape_probe_ids \ {id}

\* HandleBroadtapeProbeFinished(), for the probe `id' that ended or failed.
BroadtapeFinished(id) ==
    LET found == Cardinality(session.broadtape_contracts)
        streams == NextReqIds(found)
    IN
    IF ProbesLeft(id) # {}
    THEN /\ session' = [session EXCEPT !.broadtape_probe_ids = ProbesLeft(id)]
         /\ tws_open' = Finished(id)
         /\ UNCHANGED <<contextVars, headlines, tws_asked, tws_failed, tws_live>>
    ELSE IF found = 0
    THEN EmitStatus({"No BroadTape"}) /\ StartTickerSession("SPY", Finished(id))
    ELSE /\ Allocate(found)
         /\ session' = [session EXCEPT
                !.stage = "kBroadtapeStream", !.broadtape_probe_ids = {},
                !.broadtape_stream_req_ids = @ \union streams]
         /\ EmitStatus({"Streaming BroadTape"})
         /\ Send(streams, "stream", "MARKET", Finished(id))
         /\ tws_live' = tws_live \union streams
         /\ UNCHANGED <<headlines, tws_failed>>

-----------------------------------------------------------------------------
(* The connection and the calls from NewsScreen. *)

\* IbkrClient::Connect(): EnsureProvidersRequested() once the reader runs.
Connect ==
    /\ ~connected
    /\ connected' = TRUE /\ want_providers' = TRUE /\ tws_hello' = "due"
    /\ UNCHANGED <<contextVars, session, headlines, feed, have_codes,
                   providers_requested, tws_providers, requestVars>>

\* IbkrClient::Disconnect(): CancelActive(), eDisconnect(), OnReset().  What
\* TWS was asked on this connection is forgotten with it.
Disconnect ==
    /\ connected
    /\ connected' = FALSE
    /\ session' = NoSession /\ headlines' = <<>>
    /\ have_codes' = FALSE /\ want_providers' = FALSE
    /\ providers_requested' = FALSE
    /\ tws_hello' = "due" /\ tws_providers' = FALSE
    /\ tws_asked' = NothingAsked /\ tws_open' = NothingOpen
    /\ tws_failed' = {} /\ tws_live' = {}
    /\ UNCHANGED <<contextVars, feed>>

\* NewsScreen::OnEnter() of a new screen (its feed is empty).
SubscribeNews(s) ==
    /\ connected
    /\ CanAllocate(TickerIds)
    /\ StartTickerSession(s, tws_open)
    /\ feed' = {}
    /\ UNCHANGED <<status_queue, providerVars, linkVars>>

\* StartGeneralSession(): the probes go out at once, the client being set.
SubscribeGeneralNews ==
    LET probes == NextReqIds(NumSources) IN
    /\ connected
    /\ CanAllocate(GeneralIds)
    /\ Allocate(NumSources)
    /\ session' = [NewSession("kBroadtapeDiscover", "MARKET")
                        EXCEPT !.broadtape_probe_ids = probes]
    /\ headlines' = NoHeadlines /\ feed' = {}
    /\ Send(probes, "probe", "MARKET", tws_open)
    /\ tws_live' = CancelStreams /\ tws_failed' = {}
    /\ UNCHANGED <<status_queue, providerVars, linkVars>>

\* NewsScreen::OnExit(): CancelActive().  Queued headlines stay queued.
CancelNews ==
    /\ connected
    /\ session' = NoSession
    /\ feed' = {}
    /\ tws_live' = CancelStreams /\ tws_failed' = {}
    /\ UNCHANGED <<contextVars, headlines, providerVars, linkVars, tws_asked,
                   tws_open>>

\* NewsScreen::OnFrame(): only a screen whose session was begun finds any.
DrainHeadlines ==
    /\ connected /\ session.symbol # "" /\ headlines # <<>>
    /\ feed' = feed \union {headlines[i] : i \in DOMAIN headlines}
    /\ headlines' = <<>>
    /\ UNCHANGED <<contextVars, session, providerVars, linkVars, requestVars>>

DrainStatus ==
    /\ DrainQueue
    /\ UNCHANGED <<next_req_id, session, headlines, feed, providerVars, linkVars,
                   requestVars>>

-----------------------------------------------------------------------------
(* Callbacks. *)

\* nextValidId: asks for the providers, and asks once more for the contract
\* of a session that is resolving (its request went out when it began).
OnReady ==
    /\ connected /\ tws_hello = "due"
    /\ tws_hello' = "sent"
    /\ providers_requested' = (providers_requested \/ want_providers)
    /\ tws_providers' = (tws_providers \/ (want_providers /\ ~providers_requested))
    /\ tws_open' = IF session.stage = "kResolving"
                   THEN [tws_open EXCEPT ![session.details_req_id] = @ + 1]
                   ELSE tws_open
    /\ UNCHANGED <<contextVars, session, headlines, feed, have_codes,
                   want_providers, connected, tws_asked, tws_failed, tws_live>>

\* The account may have no provider at all: then the codes stay empty.
OnNewsProviders(any) ==
    /\ tws_providers
    /\ tws_providers' = FALSE
    /\ have_codes' = any
    /\ UNCHANGED <<contextVars, session, headlines, feed, want_providers,
                   providers_requested, connected, tws_hello, requestVars>>

\* TWS works on requests once it has greeted the client.
Answering(id, ops) ==
    tws_hello = "sent" /\ tws_open[id] > 0 /\ tws_asked[id].op \in ops

\* A probe finds at most one contract; of several details the first counts.
OnContractDetails(id) ==
    /\ Answering(id, {"details", "probe"})
    /\ session' = [session EXCEPT
            !.con_id = IF IsResolving(id) /\ @ = "" THEN tws_asked[id].subject ELSE @,
            !.broadtape_contracts = IF IsProbing(id) THEN @ \union {id} ELSE @]
    /\ UNCHANGED <<contextVars, headlines, feed, providerVars, linkVars, requestVars>>

\* contractDetailsEnd of the ticker: no contract, no providers, or history.
Resolved(id) ==
    /\ IF session.con_id # "" /\ have_codes
       THEN /\ Allocate(1)
            /\ session' = [session EXCEPT !.hist_req_id = NextReqId,
                                          !.stage = "kFetchingHist"]
            /\ Send({NextReqId}, "history", session.con_id, Finished(id))
            /\ UNCHANGED status_queue
       ELSE /\ EmitStatus({IF session.con_id = "" THEN "No contract found"
                                                 ELSE "No news providers"})
            /\ session' = [session EXCEPT !.stage = "kIdle"]
            /\ tws_open' = Finished(id)
            /\ UNCHANGED <<next_req_id, tws_asked>>
    /\ UNCHANGED <<headlines, tws_failed, tws_live>>

OnContractDetailsEnd(id) ==
    /\ Answering(id, {"details", "probe"})
    /\ CASE IsResolving(id) -> Resolved(id)
         [] IsProbing(id) -> BroadtapeFinished(id)
         [] OTHER -> /\ tws_open' = Finished(id)
                     /\ UNCHANGED <<contextVars, session, headlines, tws_asked,
                                    tws_failed, tws_live>>
    /\ UNCHANGED <<feed, providerVars, linkVars>>

OnHistoricalNews(id, a) ==
    Answering(id, {"history"}) /\ IsFetching(id) /\ Queue(id, a)

\* The history is complete: stream, with the provider codes or the default ones.
OnHistoricalNewsEnd(id) ==
    /\ Answering(id, {"history"})
    /\ IF IsFetching(id)
       THEN /\ Allocate(1)
            /\ session' = [session EXCEPT !.ticker_stream_req_id = NextReqId,
                                          !.stage = "kStreamingTicker"]
            /\ EmitStatus({"Historical loaded"})
            /\ Send({NextReqId}, "stream", session.symbol, Finished(id))
            /\ tws_live' = tws_live \union {NextReqId}
       ELSE /\ tws_open' = Finished(id)
            /\ UNCHANGED <<contextVars, session, tws_asked, tws_live>>
    /\ UNCHANGED <<headlines, feed, providerVars, linkVars, tws_failed>>

\* A tick sent just before the cancel reached TWS may come after it.
OnTickNews(id, a) ==
    /\ tws_hello = "sent" /\ tws_asked[id].op = "stream"
    /\ IsStreaming(id) /\ Queue(id, a)

\* Dispatcher::error() for a request of ours.  A 200 for a probe is silent and
\* finishes the probe; anything else is a status message and nothing more.
OnError(id, code) ==
    /\ tws_open[id] > 0
    /\ code = 200 => tws_asked[id].op \in {"details", "probe"}
    /\ IF code = 200 /\ IsProbing(id)
       THEN BroadtapeFinished(id)
       ELSE /\ EmitStatus({"ERR"})
            /\ tws_open' = Finished(id)
            /\ tws_failed' = tws_failed \union ({id} \intersect SessionIds)
            /\ tws_live' = tws_live \ {id}
            /\ UNCHANGED <<next_req_id, session, headlines, tws_asked>>
    /\ UNCHANGED <<feed, providerVars, linkVars>>

-----------------------------------------------------------------------------

Codes == {200, 10089}   \* 10089 stands for every code that is not 200

Callback(id) ==
    \/ OnContractDetails(id)
    \/ OnContractDetailsEnd(id)
    \/ \E a \in Articles \union {NoArticle} : OnHistoricalNews(id, a)
    \/ OnHistoricalNewsEnd(id)
    \/ \E a \in Articles \union {NoArticle} : OnTickNews(id, a)
    \/ \E code \in Codes : OnError(id, code)

Next ==
    \/ Connect
    \/ Disconnect
    \/ \E s \in Tickers : SubscribeNews(s)
    \/ SubscribeGeneralNews
    \/ CancelNews
    \/ DrainHeadlines
    \/ DrainStatus
    \/ OnReady
    \/ \E any \in BOOLEAN : OnNewsProviders(any)
    \/ \E id \in ReqIds : Callback(id)

Spec == Init /\ [][Next]_vars

\* Fairness: TWS greets the client, then ends or refuses every request that has
\* an end, and the main loop drains the status queue each frame.  Nothing is
\* assumed of the user.
Answered(id) ==
    /\ Answering(id, {"details", "probe", "history"})
    /\ \/ OnContractDetailsEnd(id)
       \/ OnHistoricalNewsEnd(id)
       \/ \E code \in Codes : OnError(id, code)
FairSpec ==
    /\ Spec /\ WF_vars(OnReady) /\ WF_vars(DrainStatus)
    /\ \A id \in ReqIds : WF_vars(Answered(id))

-----------------------------------------------------------------------------
(* Properties. *)

Queued == {headlines[i] : i \in DOMAIN headlines}
SameArticle(g, h) == g.article = h.article /\ g.article # NoArticle

\* However sessions replace one another, TWS streams nothing that the next
\* CancelActive() would not cancel, and nothing at all to a session that is
\* idle or has not come to its streaming stage.
NoStreamLeak ==
    /\ tws_live \subseteq session.broadtape_stream_req_ids
                        \union {session.ticker_stream_req_id}
    /\ session.stage \notin {"kStreamingTicker", "kBroadtapeStream"} => tws_live = {}

\* Every headline queued or on display was requested for the symbol the
\* session is about: neither late answers to an abandoned session nor its
\* contract id nor headlines still queued from it ever show up.
HeadlinesOfSession ==
    session.stage # "kIdle" =>
        \A h \in Queued \union feed : tws_asked[h.req].subject = session.symbol

\* An article is given to the screen once, though TWS replays the history on
\* the live stream and several BroadTape sources carry it (services.md,
\* "Article dedupe").
NoRepeatedHeadline ==
    /\ \A i, j \in DOMAIN headlines : i # j => ~SameArticle(headlines[i], headlines[j])
    /\ \A g \in Queued, h \in feed : ~SameArticle(g, h)

\* A session is never left waiting for nothing: its stage always goes with
\* requests of that kind that TWS is still working on or has refused.
StageHasRequest ==
    LET Waiting(id, op) ==
            /\ id # NoReqId /\ tws_asked[id].op = op
            /\ tws_open[id] > 0 \/ id \in tws_failed
    IN  /\ session.stage = "kResolving" => Waiting(session.details_req_id, "details")
        /\ session.stage = "kFetchingHist" => Waiting(session.hist_req_id, "history")
        /\ session.stage = "kBroadtapeDiscover" =>
              /\ session.broadtape_probe_ids # {}
              /\ \A id \in session.broadtape_probe_ids : Waiting(id, "probe")
        /\ session.stage = "kStreamingTicker" =>
              Waiting(session.ticker_stream_req_id, "stream")
        /\ session.stage = "kBroadtapeStream" =>
              \A id \in session.broadtape_stream_req_ids : Waiting(id, "stream")

\* A session that is loading comes to stream, or to the idle stage with its
\* message, unless TWS refuses one of its requests: OnError() handles a
\* refusal only for the BroadTape probes, and there only the code 200.
SessionSettles ==
    session.stage \in {"kResolving", "kFetchingHist", "kBroadtapeDiscover"}
        ~> \/ session.stage \in {"kIdle", "kStreamingTicker", "kBroadtapeStream"}
           \/ tws_failed # {}

\* services.md, on the provider codes: "If empty when needed, the service falls
\* back".  So a contract that was found leads on to its history.
FallsBackWithoutCodes ==
    [][/\ session.stage = "kResolving" /\ session.con_id # ""
       /\ session'.symbol = session.symbol
       => session'.stage # "kIdle"]_vars

=============================================================================
