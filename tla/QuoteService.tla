----------------------------- MODULE QuoteService -----------------------------
(***************************************************************************)
(* services/quote_service.cc: one live Level-I quote (reqMktData).  As in  *)
(* ChartService each operation is one step under the Dispatcher's mutex,   *)
(* and pending_subscribe_ never survives the call that raises it.          *)
(* SharedContext adds what concerns all services at once: Disconnect() and *)
(* DrainStatus().                                                          *)
(***************************************************************************)
EXTENDS ServiceContext

CONSTANTS
    Instruments,    \* the (symbol, ChartInstrument) pairs that are quoted
    KnownExchange,  \* those OnReady() finds an exchange for
    NoInstrument    \* snap_.symbol is empty

ASSUME InstrumentAssumption ==
    KnownExchange \subseteq Instruments /\ NoInstrument \notin Instruments

VARIABLES
    req_id,         \* req_id_
    instrument,     \* snap_.symbol and snap_.kind
    ready,          \* snap_.ready
    fields,         \* snap_'s prices, sizes and time: whose tick set each one
    unset,          \* the fields that hold TWS's DBL_MAX for "no data"
    tws_asked,      \* what each request id was used for
    tws_live        \* the requests TWS streams ticks for

serviceVars == <<req_id, instrument, ready, fields, unset>>
quoteVars == <<next_req_id, status_queue, serviceVars, tws_asked, tws_live>>

\* The fields of a QuoteSnapshot, by the callback that writes them; "last" is
\* apart because it also makes the snapshot ready.  A field holds the request
\* whose tick set it, or NoReqId while it is NaN, -1 or 0.
Fields == {"last", "price", "size", "last_ts"}

\* What a tick carries: a value, or one of the two ways TWS says it has none:
\* -1 (for a time: empty or not positive), and, for prices, DBL_MAX.
TickValues(f) ==
    {"value", "minus_one"} \union (IF f \in {"last", "price"} THEN {"DBL_MAX"} ELSE {})

QuoteTypeOK ==
    /\ next_req_id \in Nat
    /\ status_queue \subseteq {"Unknown futures", "ERR"}
    /\ req_id \in ReqIds \union {NoReqId}
    /\ instrument \in Instruments \union {NoInstrument}
    /\ ready \in BOOLEAN
    /\ fields \in [Fields -> ReqIds \union {NoReqId}]
    /\ unset \in SUBSET Fields
    /\ tws_asked \in [ReqIds -> Instruments \union {NoInstrument}]
    /\ tws_live \in SUBSET ReqIds

\* QuoteSnapshot{}.
EmptySnapshot == [f \in Fields |-> NoReqId]

QuoteInit ==
    /\ ContextInit
    /\ req_id = NoReqId
    /\ instrument = NoInstrument
    /\ ready = FALSE
    /\ fields = EmptySnapshot
    /\ unset = {}
    /\ tws_asked = [id \in ReqIds |-> NoInstrument]
    /\ tws_live = {}

-----------------------------------------------------------------------------
(* Parts of the operations; ...Variant is a faulty version. *)

AnyRequestVariant(id) == TRUE
IsCurrent(id) == id = req_id

\* cancelMktData(req_id_), if a request was made.
NotCancelledVariant == tws_live
CancelMktData == tws_live \ {req_id}

\* IsValidPrice() and its siblings: finite and not negative.  DBL_MAX is both.
IsValid(v) == v # "minus_one"

\* Only a last price makes the snapshot ready.
MakesReady(f) == f = "last"

\* OnReady(): the request goes out, or a status for an unknown future.
OnReady(id, c) ==
    IF c \in KnownExchange
    THEN /\ tws_asked' = [tws_asked EXCEPT ![id] = c]
         /\ tws_live' = CancelMktData \union {id}
         /\ UNCHANGED status_queue
    ELSE /\ EmitStatus({"Unknown futures"})
         /\ tws_live' = CancelMktData
         /\ UNCHANGED tws_asked

\* What Cancel() and OnReset() leave in the service.
KeepsReadyVariant ==
    /\ req_id' = NoReqId
    /\ instrument' = NoInstrument
    /\ fields' = EmptySnapshot
    /\ unset' = {}
    /\ UNCHANGED ready
Cleared ==
    /\ req_id' = NoReqId
    /\ instrument' = NoInstrument
    /\ ready' = FALSE
    /\ fields' = EmptySnapshot
    /\ unset' = {}

-----------------------------------------------------------------------------

RequestKeepsTicksVariant(c) ==
    /\ Allocate(1)
    /\ req_id' = NextReqId
    /\ instrument' = c
    /\ OnReady(NextReqId, c)
    /\ UNCHANGED <<ready, fields, unset>>

\* Request(): Cancel(), then a request under a fresh id.
Request(c) ==
    /\ Allocate(1)
    /\ req_id' = NextReqId
    /\ instrument' = c
    /\ ready' = FALSE
    /\ fields' = EmptySnapshot
    /\ unset' = {}
    /\ OnReady(NextReqId, c)

Cancel ==
    /\ Cleared
    /\ tws_live' = CancelMktData
    /\ UNCHANGED <<next_req_id, status_queue, tws_asked>>

\* IbkrClient::Disconnect(): Cancel(), eDisconnect(), OnReset(); what the old
\* connection was asked for is forgotten with it.
DisconnectQuote ==
    /\ Cleared
    /\ tws_live' = {}
    /\ tws_asked' = [id \in ReqIds |-> NoInstrument]
    /\ UNCHANGED <<next_req_id, status_queue>>

\* OnTickPrice(), OnTickSize(), OnTickString().  TWS may have sent a tick just
\* before the cancel reached it, so any request of this connection may tick.
OnTick(id, f, v) ==
    /\ tws_asked[id] # NoInstrument
    /\ IsCurrent(id)
    /\ IsValid(v)
    /\ fields' = [fields EXCEPT ![f] = id]
    /\ unset' = IF v = "value" THEN unset \ {f} ELSE unset \union {f}
    /\ ready' = (ready \/ MakesReady(f))
    /\ UNCHANGED <<next_req_id, status_queue, req_id, instrument, tws_asked,
                   tws_live>>

\* Dispatcher::error() for a quote request: a status message, nothing else.
OnQuoteError(id) ==
    /\ id \in tws_live
    /\ tws_live' = tws_live \ {id}
    /\ EmitStatus({"ERR"})
    /\ UNCHANGED <<next_req_id, serviceVars, tws_asked>>

QuoteNext ==
    \/ \E c \in Instruments : Request(c)
    \/ Cancel
    \/ \E id \in ReqIds, f \in Fields : \E v \in TickValues(f) : OnTick(id, f, v)
    \/ \E id \in ReqIds : OnQuoteError(id)

-----------------------------------------------------------------------------
(* Properties. *)

\* TWS never streams a quote that the next Cancel() would not cancel.
OneSubscription == tws_live \subseteq {req_id}

\* Every price, size and time on display was sent for the instrument in the
\* header, in spite of ticks that were under way when the quote was replaced.
TicksBelongToInstrument ==
    \A f \in Fields : fields[f] # NoReqId => tws_asked[fields[f]] = instrument

\* The snapshot is ready exactly when a last price was taken for the quote on
\* display, over requests, cancels and ticks in any order: QuoteScreen decides
\* on the flag what it may format.
ReadyWithLastPrice == ready <=> fields["last"] # NoReqId

\* "-1 / DBL_MAX = no data" (the comment in OnTickPrice()), so that "a
\* previously-good field is never clobbered" (tws-api.md): as long as the same
\* request stands, a field once filled keeps a value.
NeverClobbered ==
    [][\A f \in Fields :
         fields[f] # NoReqId /\ f \notin unset /\ req_id' = req_id
           => fields'[f] # NoReqId /\ f \notin unset']_quoteVars

\* The promise of LiveFeed, kept by this service.
Feed == INSTANCE LiveFeed WITH
    Requests <- ReqIds,
    target <- instrument,
    shown <- {tws_asked[fields[f]] : f \in {g \in Fields : fields[g] # NoReqId}},
    live <- tws_live
ImplementsLiveFeed == Feed!Spec

=============================================================================
