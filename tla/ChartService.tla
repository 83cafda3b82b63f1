----------------------------- MODULE ChartService -----------------------------
(***************************************************************************)
(* services/chart_service.cc: one historical-bar subscription, replaced    *)
(* when another chart is requested and re-issued in place by Refresh().    *)
(*                                                                         *)
(* Every operation below is one call made by the Dispatcher with its mutex *)
(* held, so each is one atomic step.  The TWS side is external: it answers *)
(* any request it has received, in any order, and may still deliver what   *)
(* it sent before a cancel reached it.                                     *)
(*                                                                         *)
(* pending_subscribe_ has no variable: with a client set, Request() and    *)
(* Refresh() raise it and their call of OnReady() lowers it again, except  *)
(* that nothing is sent for a future no exchange is known for.  The        *)
(* OnReady() that nextValidId calls therefore finds nothing to do.         *)
(***************************************************************************)
EXTENDS ServiceContext, Sequences, FiniteSets

CONSTANTS
    Instruments,    \* the (symbol, ChartInstrument) pairs that are charted
    KnownExchange,  \* those OnReady() finds an exchange for (stocks: always)
    KeepUpToDate,   \* those requested with keepUpToDate: all but CONTFUT
    NoInstrument,   \* symbol_ is empty
    MaxBarTs        \* bound: bars carry the timestamps 1..MaxBarTs

ASSUME InstrumentAssumption ==
    /\ KnownExchange \subseteq Instruments
    /\ KeepUpToDate \subseteq Instruments
    /\ NoInstrument \notin Instruments
ASSUME MaxBarTsAssumption == MaxBarTs \in Nat

VARIABLES
    req_id,         \* req_id_, NoReqId when nothing was requested
    instrument,     \* symbol_ and kind_
    ready,          \* ready_
    bars,           \* bars_: what Snapshot() shows
    incoming_bars,  \* incoming_bars_: the batch of a Refresh
    replacing,      \* replacing_
    tws_asked,      \* what each request id was used for
    tws_phase,      \* how far TWS is with it
    tws_sent,       \* timestamps of the bars it was answered with
    tws_live        \* the requests TWS is serving and will not drop by itself

serviceVars == <<req_id, instrument, ready, bars, incoming_bars, replacing>>
twsVars == <<tws_asked, tws_phase, tws_sent, tws_live>>
vars == <<next_req_id, status_queue, serviceVars, twsVars>>

\* "open": sending the batch; "ended": batch complete; "failed": error reply;
\* "closed": the connection it was made on is gone.
Phases == {"unused", "open", "ended", "failed", "closed"}

\* A bar keeps the request it answered and its timestamp; prices are left out.
ChartBar == [req : ReqIds, ts : 1..MaxBarTs]

TypeOK ==
    /\ next_req_id \in Nat
    /\ status_queue \subseteq {"Chart loaded", "Unknown futures", "ERR"}
    /\ req_id \in ReqIds \union {NoReqId}
    /\ instrument \in Instruments \union {NoInstrument}
    /\ ready \in BOOLEAN
    /\ bars \in Seq(ChartBar)
    /\ incoming_bars \in Seq(ChartBar)
    /\ replacing \in BOOLEAN
    /\ tws_asked \in [ReqIds -> Instruments \union {NoInstrument}]
    /\ tws_phase \in [ReqIds -> Phases]
    /\ tws_sent \in [ReqIds -> SUBSET (1..MaxBarTs)]
    /\ tws_live \in SUBSET ReqIds

Init ==
    /\ ContextInit
    /\ req_id = NoReqId
    /\ instrument = NoInstrument
    /\ ready = FALSE
    /\ bars = <<>>
    /\ incoming_bars = <<>>
    /\ replacing = FALSE
    /\ tws_asked = [id \in ReqIds |-> NoInstrument]
    /\ tws_phase = [id \in ReqIds |-> "unused"]
    /\ tws_sent = [id \in ReqIds |-> {}]
    /\ tws_live = {}

-----------------------------------------------------------------------------
(* Parts of the operations.  The definitions named ...Variant are faulty       *)
(* versions, used to see that the properties below do fail for them.           *)

\* The test every callback begins with.
AnyRequestVariant(id) == TRUE
IsCurrent(id) == id = req_id

\* cancelHistoricalData(req_id_), if a request was made.
NotCancelledVariant == tws_live
CancelHistoricalData == tws_live \ {req_id}

\* historicalDataEnd during a Refresh: the new batch replaces the old.
SwapLosesBatchVariant ==
    incoming_bars' = <<>> /\ replacing' = FALSE /\ UNCHANGED bars
SwapKeepsFlagVariant ==
    /\ IF replacing THEN bars' = incoming_bars /\ incoming_bars' = <<>>
       ELSE UNCHANGED <<bars, incoming_bars>>
    /\ UNCHANGED replacing
SwapInBatch ==
    /\ IF replacing THEN bars' = incoming_bars /\ incoming_bars' = <<>>
       ELSE UNCHANGED <<bars, incoming_bars>>
    /\ replacing' = FALSE

\* historicalDataUpdate: the last bar again (same ts), or the next one.
AlwaysAppendVariant(bar) == Append(bars, bar)
WithUpdate(bar) ==
    IF bars # <<>> /\ bars[Len(bars)].ts = bar.ts
    THEN [bars EXCEPT ![Len(bars)] = bar]
    ELSE Append(bars, bar)

\* OnReady(): the request for `c' goes out under `id', unless the futures
\* table has no exchange for it; then a status is all that happens.
\* The callers have cancelled the request of req_id_ first.
OnReady(id, c) ==
    IF c \in KnownExchange
    THEN /\ tws_asked' = [tws_asked EXCEPT ![id] = c]
         /\ tws_phase' = [tws_phase EXCEPT ![id] = "open"]
         /\ tws_live' = CancelHistoricalData \union {id}
         /\ UNCHANGED <<tws_sent, status_queue>>
    ELSE /\ EmitStatus({"Unknown futures"})
         /\ tws_live' = CancelHistoricalData
         /\ UNCHANGED <<tws_asked, tws_phase, tws_sent>>

\* What Cancel() and OnReset() leave in the service.
Cleared ==
    /\ req_id' = NoReqId
    /\ instrument' = NoInstrument
    /\ bars' = <<>>
    /\ incoming_bars' = <<>>
    /\ replacing' = FALSE
    /\ ready' = FALSE

-----------------------------------------------------------------------------
(* Calls from the screens. *)

\* Request(): Cancel(), then a request under a fresh id.
Request(c) ==
    /\ Allocate(1)
    /\ req_id' = NextReqId
    /\ instrument' = c
    /\ bars' = <<>>
    /\ incoming_bars' = <<>>
    /\ replacing' = FALSE
    /\ ready' = FALSE
    /\ OnReady(NextReqId, c)

RefreshClearsVariant ==
    /\ instrument # NoInstrument
    /\ ~replacing
    /\ Allocate(1)
    /\ req_id' = NextReqId
    /\ replacing' = TRUE
    /\ incoming_bars' = <<>>
    /\ bars' = <<>>
    /\ OnReady(NextReqId, instrument)
    /\ UNCHANGED <<instrument, ready>>

\* Refresh(): the bars on display stay, a new batch is requested beside them.
\* ChartScreen::OnFrame() calls it every 30 s for a CONTFUT; it does not look
\* at the kind itself.
Refresh ==
    /\ instrument # NoInstrument
    /\ ~replacing
    /\ Allocate(1)
    /\ req_id' = NextReqId
    /\ replacing' = TRUE
    /\ incoming_bars' = <<>>
    /\ OnReady(NextReqId, instrument)
    /\ UNCHANGED <<instrument, ready, bars>>

Cancel ==
    /\ Cleared
    /\ tws_live' = CancelHistoricalData
    /\ UNCHANGED <<next_req_id, status_queue, tws_asked, tws_phase, tws_sent>>

\* IbkrClient::Disconnect(): Cancel(), eDisconnect(), OnReset().  Request ids
\* keep growing across connections; answers of the old one never come.
Disconnect ==
    /\ Cleared
    /\ tws_live' = {}
    /\ tws_phase' = [id \in ReqIds |->
                        IF tws_phase[id] = "unused" THEN "unused" ELSE "closed"]
    /\ UNCHANGED <<next_req_id, status_queue, tws_asked, tws_sent>>

-----------------------------------------------------------------------------
(* Callbacks. *)

\* TWS sends the bars of a batch in ascending order.
OnHistoricalData(id, ts) ==
    /\ tws_phase[id] = "open"
    /\ \A t \in tws_sent[id] : t < ts
    /\ tws_sent' = [tws_sent EXCEPT ![id] = @ \union {ts}]
    /\ IF ~IsCurrent(id)
       THEN UNCHANGED <<bars, incoming_bars>>
       ELSE LET bar == [req |-> id, ts |-> ts] IN
            IF replacing
            THEN incoming_bars' = Append(incoming_bars, bar) /\ UNCHANGED bars
            ELSE bars' = Append(bars, bar) /\ UNCHANGED incoming_bars
    /\ UNCHANGED <<next_req_id, status_queue, req_id, instrument, ready,
                   replacing, tws_asked, tws_phase, tws_live>>

\* A request without keepUpToDate is finished with its batch.
OnHistoricalDataEnd(id) ==
    /\ tws_phase[id] = "open"
    /\ tws_phase' = [tws_phase EXCEPT ![id] = "ended"]
    /\ tws_live' = IF tws_asked[id] \in KeepUpToDate THEN tws_live
                   ELSE tws_live \ {id}
    /\ IF ~IsCurrent(id)
       THEN UNCHANGED <<bars, incoming_bars, replacing, ready, status_queue>>
       ELSE /\ SwapInBatch
            /\ ready' = TRUE
            /\ EmitStatus({"Chart loaded"})
    /\ UNCHANGED <<next_req_id, req_id, instrument, tws_asked, tws_sent>>

\* The live tail of a request made with keepUpToDate, never before its end.
OnHistoricalDataUpdate(id, ts) ==
    /\ tws_phase[id] = "ended"
    /\ tws_asked[id] \in KeepUpToDate
    /\ \A t \in tws_sent[id] : t <= ts
    /\ tws_sent' = [tws_sent EXCEPT ![id] = @ \union {ts}]
    /\ bars' = IF IsCurrent(id) THEN WithUpdate([req |-> id, ts |-> ts])
               ELSE bars
    /\ UNCHANGED <<next_req_id, status_queue, req_id, instrument, ready,
                   incoming_bars, replacing, tws_asked, tws_phase, tws_live>>

\* Dispatcher::error() for a chart request: NewsService does not claim it and
\* no other service is asked, so a status message is its only effect.
OnError(id) ==
    /\ tws_phase[id] \in {"open", "ended"}
    /\ tws_phase' = [tws_phase EXCEPT ![id] = "failed"]
    /\ tws_live' = tws_live \ {id}
    /\ EmitStatus({"ERR"})
    /\ UNCHANGED <<next_req_id, serviceVars, tws_asked, tws_sent>>

DrainStatus == DrainQueue /\ UNCHANGED <<next_req_id, serviceVars, twsVars>>

-----------------------------------------------------------------------------

Callback(id) ==
    \/ \E ts \in 1..MaxBarTs : OnHistoricalData(id, ts)
    \/ OnHistoricalDataEnd(id)
    \/ \E ts \in 1..MaxBarTs : OnHistoricalDataUpdate(id, ts)
    \/ OnError(id)

Next ==
    \/ \E c \in Instruments : Request(c)
    \/ Refresh
    \/ Cancel
    \/ Disconnect
    \/ \E id \in ReqIds : Callback(id)
    \/ DrainStatus

Spec == Init /\ [][Next]_vars

\* Fairness: TWS finishes a batch it has begun, or refuses it.  Nothing is
\* assumed of the user, nor that bars or updates ever come.
Answered(id) == tws_phase[id] = "open" /\ (OnHistoricalDataEnd(id) \/ OnError(id))
FairSpec == Spec /\ \A id \in ReqIds : WF_vars(Answered(id))

-----------------------------------------------------------------------------
(* Properties. *)

Elements(s) == {s[i] : i \in DOMAIN s}
HeldBars == Elements(bars) \union Elements(incoming_bars)
Timestamps(s) == {s[i].ts : i \in DOMAIN s}

\* However requests, refreshes, cancels and late answers interleave, TWS is
\* never left serving a chart request that the next Cancel() would not cancel.
OneSubscription == tws_live \subseteq {req_id}

\* No bar of another chart is ever displayed, or collected for display: the
\* request id test at the head of each callback and the clearing of both
\* vectors by Request() keep late bars of a cancelled chart out.
BarsBelongToInstrument == \A b \in HeldBars : tws_asked[b.req] = instrument

\* The displayed bars are those of one request, in ascending time: neither a
\* Refresh nor the live tail ever mixes two batches or repeats a bar.
OneBatchInOrder ==
    \A i, j \in DOMAIN bars :
        i < j => bars[i].req = bars[j].req /\ bars[i].ts < bars[j].ts

\* Once loaded, and with no refresh under way, the chart shows every bar TWS
\* has sent for the current request and nothing else.
ReadyShowsWholeBatch ==
    ready /\ ~replacing => Timestamps(bars) = tws_sent[req_id]

\* A loaded chart is never seen emptied or half filled: while it stays loaded,
\* the displayed bars change only by answers to a request whose batch is
\* complete (the swap of historicalDataEnd, or the live tail).
NoFlicker ==
    [][ready /\ ready' /\ instrument' = instrument /\ bars' # bars
         => tws_phase'[req_id'] = "ended"]_vars

\* A refresh always comes to an end unless TWS refuses the request (or there
\* was no exchange to send it to).
RefreshEndsUnlessRefused ==
    replacing ~> (~replacing \/ tws_phase[req_id] \in {"failed", "unused"})

\* What chart_service.cc:35 ("let the in-flight one finish first") and the
\* 30 s polling of tws-api.md take for granted: every refresh finishes.
EveryRefreshEnds == replacing ~> ~replacing

\* The promise of LiveFeed, kept by this service.
Feed == INSTANCE LiveFeed WITH
    Requests <- ReqIds,
    target <- instrument,
    shown <- {tws_asked[b.req] : b \in HeldBars},
    live <- tws_live
ImplementsLiveFeed == Feed!Spec

=============================================================================
