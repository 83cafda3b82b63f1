-------------------------- MODULE ChartServiceProofs --------------------------
(***************************************************************************)
(* Proofs about ChartService for every set of instruments and all bounds.  *)
(* TypeOK and the three safety facts below form one inductive invariant:   *)
(* a bar is accepted only under the current request id, so what has to be  *)
(* known is that a current id TWS answers was asked for the instrument on  *)
(* display; and since an id handed out is one TWS has never seen, that     *)
(* holds for each new request, sent or not.                                *)
(***************************************************************************)
EXTENDS ChartService, SequenceTheorems, TLAPS

\* Ids above the counter were never used; the current one is not above it.
CounterInv ==
    /\ next_req_id >= InitialReqId
    /\ req_id <= next_req_id
    /\ \A id \in ReqIds : id > next_req_id => tws_phase[id] = "unused"

\* If TWS knows the current request, it was asked for what is on display.
CurrentInv ==
    req_id # NoReqId /\ tws_phase[req_id] # "unused"
        => tws_asked[req_id] = instrument

IInv ==
    /\ TypeOK
    /\ CounterInv
    /\ CurrentInv
    /\ OneSubscription
    /\ BarsBelongToInstrument

\* The bounds and constants every step may use.
USE BoundsAssumption, InstrumentAssumption, MaxBarTsAssumption

-----------------------------------------------------------------------------
(* The sequences of bars, seen as sets. *)

LEMMA NoElements == <<>> \in Seq(ChartBar) /\ Elements(<<>>) = {}
BY DEF Elements

\* Append() adds one element.
LEMMA AppendElements ==
    ASSUME NEW s \in Seq(ChartBar), NEW b \in ChartBar
    PROVE  /\ Append(s, b) \in Seq(ChartBar)
           /\ Elements(Append(s, b)) = Elements(s) \union {b}
<1>1. Append(s, b) \in Seq(ChartBar)
  OBVIOUS
<1>2. /\ DOMAIN Append(s, b) = 1..(Len(s) + 1) /\ DOMAIN s = 1..Len(s)
      /\ Len(s) \in Nat
  OBVIOUS
<1>3. /\ \A i \in 1..Len(s) : Append(s, b)[i] = s[i]
      /\ Append(s, b)[Len(s) + 1] = b
  OBVIOUS
<1>4. \A x \in Elements(Append(s, b)) : x \in Elements(s) \union {b}
  BY <1>2, <1>3 DEF Elements
<1>5. \A x \in Elements(s) \union {b} : x \in Elements(Append(s, b))
  BY <1>2, <1>3 DEF Elements
<1> QED BY <1>1, <1>4, <1>5

\* The live tail adds the bar, in the place of the last one or after it.
LEMMA UpdateElements ==
    ASSUME bars \in Seq(ChartBar), NEW b \in ChartBar
    PROVE  /\ WithUpdate(b) \in Seq(ChartBar)
           /\ Elements(WithUpdate(b)) \subseteq Elements(bars) \union {b}
<1>1. CASE bars # <<>> /\ bars[Len(bars)].ts = b.ts
  <2>1. WithUpdate(b) = [bars EXCEPT ![Len(bars)] = b]
    BY <1>1 DEF WithUpdate
  <2>2. [bars EXCEPT ![Len(bars)] = b] \in Seq(ChartBar)
    <3> DEFINE n == Len(bars)
    <3>1. n \in Nat /\ bars \in [1..n -> ChartBar]
      OBVIOUS
    <3>2. [bars EXCEPT ![n] = b] \in [1..n -> ChartBar]
      BY <3>1
    <3> QED BY <3>1, <3>2, SeqDef
  <2>3. Elements([bars EXCEPT ![Len(bars)] = b]) \subseteq Elements(bars) \union {b}
    BY DEF Elements
  <2> QED BY <2>1, <2>2, <2>3
<1>2. CASE ~(bars # <<>> /\ bars[Len(bars)].ts = b.ts)
  BY <1>2, AppendElements DEF WithUpdate
<1> QED BY <1>1, <1>2

-----------------------------------------------------------------------------
(* The invariant. *)

\* The initial state satisfies the invariant: nothing is held, asked or live.
LEMMA InitIInv == Init => IInv
<1> SUFFICES ASSUME Init PROVE IInv
  OBVIOUS
<1>1. bars \in Seq(ChartBar) /\ incoming_bars \in Seq(ChartBar) /\ HeldBars = {}
  BY NoElements DEF Init, HeldBars
<1>2. TypeOK
  <2>1. next_req_id \in Nat /\ status_queue = {}
    BY DEF Init, ContextInit, InitialReqId
  <2>2. /\ tws_asked \in [ReqIds -> Instruments \union {NoInstrument}]
        /\ tws_phase \in [ReqIds -> Phases]
        /\ tws_sent \in [ReqIds -> SUBSET (1..MaxBarTs)]
    BY DEF Init, Phases
  <2> QED BY <1>1, <2>1, <2>2 DEF Init, TypeOK
<1>3. CounterInv /\ CurrentInv /\ OneSubscription
  BY DEF Init, ContextInit, CounterInv, CurrentInv, OneSubscription,
         InitialReqId, NoReqId
<1>4. BarsBelongToInstrument
  BY <1>1 DEF BarsBelongToInstrument
<1> QED BY <1>2, <1>3, <1>4 DEF IInv

\* NextReqId() hands out an id of the instance, never used before.
LEMMA FreshId ==
    ASSUME IInv, CanAllocate(1)
    PROVE  /\ NextReqId \in ReqIds
           /\ NextReqId # NoReqId
           /\ NextReqId > next_req_id
           /\ tws_phase[NextReqId] = "unused"
<1>1. /\ next_req_id \in Nat /\ next_req_id >= 1000
      /\ \A id \in ReqIds : id > next_req_id => tws_phase[id] = "unused"
  BY DEF IInv, TypeOK, CounterInv, InitialReqId
<1>2. NextReqId = next_req_id + 1 /\ next_req_id + 1 <= MaxReqId
  BY DEF CanAllocate, NextReqId
<1>3. NextReqId \in ReqIds /\ NextReqId > next_req_id
  BY <1>1, <1>2 DEF ReqIds, InitialReqId
<1> QED BY <1>1, <1>2, <1>3 DEF NoReqId

\* What becomes of the TWS side when `id' is handed out for the instrument `c':
\* it stays well typed, TWS serves at most `id', and knows it, if at all, for
\* `c'.  No other request changes.
AskedFor(id, c) ==
    /\ status_queue' \subseteq {"Chart loaded", "Unknown futures", "ERR"}
    /\ tws_asked' \in [ReqIds -> Instruments \union {NoInstrument}]
    /\ tws_phase' \in [ReqIds -> Phases]
    /\ tws_sent' = tws_sent
    /\ tws_live' \subseteq {id}
    /\ tws_phase'[id] # "unused" => tws_asked'[id] = c
    /\ \A other \in ReqIds : other # id =>
            tws_phase'[other] = tws_phase[other] /\ tws_asked'[other] = tws_asked[other]
    /\ tws_asked'[id] \in {c, tws_asked[id]}

\* OnReady() does that, whether it sends the request or not.
LEMMA OnReadyEffect ==
    ASSUME IInv, NEW c \in Instruments, CanAllocate(1), OnReady(NextReqId, c)
    PROVE  AskedFor(NextReqId, c)
<1>1. NextReqId \in ReqIds /\ tws_phase[NextReqId] = "unused"
  BY FreshId
<1>2. tws_live \ {req_id} = {}
  BY DEF IInv, OneSubscription
<1>3. CASE c \in KnownExchange
  BY <1>1, <1>2, <1>3 DEF OnReady, IInv, TypeOK, Phases, CancelHistoricalData, AskedFor
<1>4. CASE c \notin KnownExchange
  BY <1>1, <1>2, <1>4 DEF OnReady, IInv, TypeOK, EmitStatus,
     CancelHistoricalData, AskedFor
<1> QED BY <1>3, <1>4

-----------------------------------------------------------------------------
(* One lemma per action, or per group of actions with the same effect. *)

\* Request(): a fresh id, and nothing held.
LEMMA RequestStep ==
    ASSUME IInv, NEW c \in Instruments, Request(c)
    PROVE  IInv'
<1>1. /\ CanAllocate(1) /\ next_req_id' = next_req_id + 1 /\ req_id' = NextReqId
      /\ instrument' = c /\ OnReady(NextReqId, c)
      /\ bars' = <<>> /\ incoming_bars' = <<>>
      /\ replacing' = FALSE /\ ready' = FALSE
  BY DEF Request, Allocate
<1>2. NextReqId \in ReqIds /\ NextReqId = next_req_id + 1
  BY <1>1, FreshId DEF NextReqId
<1>a. AskedFor(NextReqId, c)
  BY <1>1, OnReadyEffect
<1>t. /\ next_req_id \in Nat /\ next_req_id >= 1000
      /\ \A id \in ReqIds : id > next_req_id => tws_phase[id] = "unused"
  BY DEF IInv, TypeOK, CounterInv, InitialReqId
<1>3. TypeOK'
  <2>1. next_req_id' \in Nat
    BY <1>1, <1>t
  <2>2. req_id' \in ReqIds \union {NoReqId}
    BY <1>1, <1>2
  <2>3. tws_live' \in SUBSET ReqIds
    BY <1>2, <1>a DEF AskedFor
  <2> QED BY <1>1, <1>a, <2>1, <2>2, <2>3, NoElements DEF IInv, TypeOK, AskedFor
<1>4. CounterInv' /\ CurrentInv'
  <2>1. \A id \in ReqIds : id \in Int
    BY DEF ReqIds, InitialReqId
  <2>2. CounterInv'
    <3>1. /\ next_req_id' >= InitialReqId /\ req_id' <= next_req_id'
          /\ \A id \in ReqIds : id > next_req_id' => id > next_req_id /\ id # NextReqId
      BY <1>1, <1>2, <1>t, <2>1 DEF InitialReqId
    <3>2. \A id \in ReqIds : id # NextReqId => tws_phase'[id] = tws_phase[id]
      BY <1>a DEF AskedFor
    <3> QED BY <1>t, <3>1, <3>2 DEF CounterInv
  <2>3. CurrentInv'
    BY <1>1, <1>a DEF AskedFor, CurrentInv
  <2> QED BY <2>2, <2>3
<1>5. OneSubscription'
  BY <1>1, <1>a DEF OneSubscription, AskedFor
<1>6. BarsBelongToInstrument'
  BY <1>1, NoElements DEF BarsBelongToInstrument, HeldBars
<1> QED BY <1>3, <1>4, <1>5, <1>6 DEF IInv

\* Refresh(): a fresh id for the same instrument, and the bars are kept.
LEMMA RefreshStep ==
    ASSUME IInv, Refresh
    PROVE  IInv'
<1>1. /\ CanAllocate(1) /\ next_req_id' = next_req_id + 1 /\ req_id' = NextReqId
      /\ instrument \in Instruments /\ OnReady(NextReqId, instrument)
      /\ incoming_bars' = <<>> /\ replacing' = TRUE
      /\ UNCHANGED <<instrument, ready, bars>>
  BY DEF Refresh, Allocate, IInv, TypeOK
<1>2. NextReqId \in ReqIds /\ NextReqId = next_req_id + 1
  BY <1>1, FreshId DEF NextReqId
<1>a. AskedFor(NextReqId, instrument)
  BY <1>1, OnReadyEffect
<1>t. /\ next_req_id \in Nat /\ next_req_id >= 1000
      /\ \A id \in ReqIds : id > next_req_id => tws_phase[id] = "unused"
  BY DEF IInv, TypeOK, CounterInv, InitialReqId
<1>3. TypeOK'
  <2>1. next_req_id' \in Nat
    BY <1>1, <1>t
  <2>2. req_id' \in ReqIds \union {NoReqId}
    BY <1>1, <1>2
  <2>3. tws_live' \in SUBSET ReqIds
    BY <1>2, <1>a DEF AskedFor
  <2> QED BY <1>1, <1>a, <2>1, <2>2, <2>3, NoElements DEF IInv, TypeOK, AskedFor
<1>4. CounterInv' /\ CurrentInv'
  <2>1. \A id \in ReqIds : id \in Int
    BY DEF ReqIds, InitialReqId
  <2>2. CounterInv'
    <3>1. /\ next_req_id' >= InitialReqId /\ req_id' <= next_req_id'
          /\ \A id \in ReqIds : id > next_req_id' => id > next_req_id /\ id # NextReqId
      BY <1>1, <1>2, <1>t, <2>1 DEF InitialReqId
    <3>2. \A id \in ReqIds : id # NextReqId => tws_phase'[id] = tws_phase[id]
      BY <1>a DEF AskedFor
    <3> QED BY <1>t, <3>1, <3>2 DEF CounterInv
  <2>3. CurrentInv'
    BY <1>1, <1>a DEF AskedFor, CurrentInv
  <2> QED BY <2>2, <2>3
<1>5. OneSubscription'
  BY <1>1, <1>a DEF OneSubscription, AskedFor
<1>6. BarsBelongToInstrument'
  <2>1. HeldBars' \subseteq HeldBars
    BY <1>1, NoElements DEF HeldBars
  <2>2. SUFFICES ASSUME NEW b \in HeldBars PROVE tws_asked'[b.req] = instrument
    BY <1>1, <2>1 DEF BarsBelongToInstrument
  <2>3. b.req \in ReqIds
    <3>1. bars \in Seq(ChartBar) /\ incoming_bars \in Seq(ChartBar)
      BY DEF IInv, TypeOK
    <3>2. b \in ChartBar
      BY <3>1 DEF HeldBars, Elements
    <3> QED BY <3>2 DEF ChartBar
  <2>4. tws_asked[b.req] = instrument
    BY DEF IInv, BarsBelongToInstrument
  <2>5. CASE b.req = NextReqId
    BY <1>a, <2>4, <2>5 DEF AskedFor
  <2>6. CASE b.req # NextReqId
    BY <1>a, <2>3, <2>4, <2>6 DEF AskedFor
  <2> QED BY <2>5, <2>6
<1> QED BY <1>3, <1>4, <1>5, <1>6 DEF IInv

\* Cancel() and Disconnect() leave nothing to be wrong.
LEMMA ClearedStep ==
    ASSUME IInv, Cancel \/ Disconnect
    PROVE  IInv'
<1>1. /\ next_req_id' = next_req_id /\ status_queue' = status_queue
      /\ req_id' = NoReqId /\ instrument' = NoInstrument
      /\ bars' = <<>> /\ incoming_bars' = <<>>
      /\ replacing' = FALSE /\ ready' = FALSE
      /\ tws_asked' = tws_asked /\ tws_sent' = tws_sent
  BY DEF Cancel, Disconnect, Cleared
<1>2. tws_live' = {}
  BY DEF Cancel, Disconnect, CancelHistoricalData, IInv, OneSubscription
<1>3. /\ tws_phase' \in [ReqIds -> Phases]
      /\ \A id \in ReqIds : tws_phase[id] = "unused" => tws_phase'[id] = "unused"
  <2>1. CASE Cancel
    BY <2>1 DEF Cancel, IInv, TypeOK
  <2>2. CASE Disconnect
    BY <2>2 DEF Disconnect, Phases
  <2> QED BY <2>1, <2>2
<1>4. TypeOK'
  BY <1>1, <1>2, <1>3, NoElements DEF IInv, TypeOK
<1>5. CounterInv' /\ CurrentInv'
  <2>1. next_req_id \in Nat
    BY DEF IInv, TypeOK
  <2>2. NoReqId <= next_req_id
    BY <2>1 DEF NoReqId
  <2> QED BY <1>1, <1>3, <2>2 DEF IInv, CounterInv, CurrentInv
<1>6. OneSubscription' /\ BarsBelongToInstrument'
  BY <1>1, <1>2, NoElements DEF OneSubscription, BarsBelongToInstrument, HeldBars
<1> QED BY <1>4, <1>5, <1>6 DEF IInv

\* The answers: the counter, the current id and its instrument stay, no id
\* changes what it was asked for, and none comes to be served.
Answering ==
    /\ next_req_id' = next_req_id
    /\ req_id' = req_id /\ instrument' = instrument
    /\ tws_asked' = tws_asked
    /\ tws_phase' \in [ReqIds -> Phases]
    /\ \A id \in ReqIds : tws_phase[id] = "unused" <=> tws_phase'[id] = "unused"
    /\ tws_live' \subseteq tws_live

\* So an answer keeps the invariant if it is well typed and the bars it adds,
\* if any, are those of the current request.
LEMMA AnswerKeepsIInv ==
    ASSUME IInv, TypeOK', Answering,
           \A b \in HeldBars' : b \in HeldBars \/ tws_asked[b.req] = instrument
    PROVE  IInv'
<1>1. CounterInv' /\ CurrentInv'
  BY DEF IInv, TypeOK, CounterInv, CurrentInv, Answering, NoReqId
<1>2. OneSubscription' /\ BarsBelongToInstrument'
  BY DEF IInv, OneSubscription, BarsBelongToInstrument, Answering
<1> QED BY <1>1, <1>2 DEF IInv

\* A bar accepted by the id test belongs to the instrument on display.
LEMMA CurrentAsked ==
    ASSUME IInv, NEW id \in ReqIds, IsCurrent(id), tws_phase[id] # "unused"
    PROVE  tws_asked[id] = instrument
BY DEF IInv, CurrentInv, IsCurrent, ReqIds, InitialReqId, NoReqId

\* historicalData: the bar is appended to one of the vectors, or dropped.
LEMMA DataStep ==
    ASSUME IInv, NEW id \in ReqIds, NEW ts \in 1..MaxBarTs, OnHistoricalData(id, ts)
    PROVE  IInv'
<1> DEFINE bar == [req |-> id, ts |-> ts]
<1>1. bar \in ChartBar
  BY DEF ChartBar
<1>2. bars \in Seq(ChartBar) /\ incoming_bars \in Seq(ChartBar)
  BY DEF IInv, TypeOK
<1>3. /\ bars' \in Seq(ChartBar) /\ incoming_bars' \in Seq(ChartBar)
      /\ \A b \in HeldBars' : b \in HeldBars \/ (IsCurrent(id) /\ b = bar)
  <2>1. CASE ~IsCurrent(id)
    BY <1>2, <2>1 DEF OnHistoricalData, HeldBars
  <2>2. CASE IsCurrent(id) /\ replacing
    <3>1. incoming_bars' = Append(incoming_bars, bar) /\ bars' = bars
      BY <2>2 DEF OnHistoricalData
    <3> QED BY <1>1, <1>2, <2>2, <3>1, AppendElements DEF HeldBars
  <2>3. CASE IsCurrent(id) /\ ~replacing
    <3>1. bars' = Append(bars, bar) /\ incoming_bars' = incoming_bars
      BY <2>3 DEF OnHistoricalData
    <3> QED BY <1>1, <1>2, <2>3, <3>1, AppendElements DEF HeldBars
  <2> QED BY <2>1, <2>2, <2>3
<1>4. tws_phase[id] = "open" /\ tws_asked' = tws_asked
  BY DEF OnHistoricalData
<1>5. \A b \in HeldBars' : b \in HeldBars \/ tws_asked[b.req] = instrument
  BY <1>3, <1>4, CurrentAsked
<1>6. tws_sent' \in [ReqIds -> SUBSET (1..MaxBarTs)]
  BY DEF OnHistoricalData, IInv, TypeOK
<1>7. TypeOK' /\ Answering
  BY <1>3, <1>6 DEF OnHistoricalData, IInv, TypeOK, Answering
<1> QED BY <1>5, <1>7, AnswerKeepsIInv

\* historicalDataEnd: at most the batch collected for display is displayed.
LEMMA DataEndStep ==
    ASSUME IInv, NEW id \in ReqIds, OnHistoricalDataEnd(id)
    PROVE  IInv'
<1>1. /\ bars \in Seq(ChartBar) /\ incoming_bars \in Seq(ChartBar)
      /\ ready \in BOOLEAN /\ replacing \in BOOLEAN
      /\ status_queue \subseteq {"Chart loaded", "Unknown futures", "ERR"}
  BY DEF IInv, TypeOK
<1>2. /\ bars' \in Seq(ChartBar) /\ incoming_bars' \in Seq(ChartBar)
      /\ ready' \in BOOLEAN /\ replacing' \in BOOLEAN
      /\ status_queue' \subseteq {"Chart loaded", "Unknown futures", "ERR"}
      /\ HeldBars' \subseteq HeldBars
  <2>1. CASE ~IsCurrent(id)
    BY <1>1, <2>1 DEF OnHistoricalDataEnd, HeldBars
  <2>2. CASE IsCurrent(id)
    <3>1. /\ \/ bars' = incoming_bars /\ incoming_bars' = <<>>
             \/ bars' = bars /\ incoming_bars' = incoming_bars
          /\ ready' = TRUE /\ replacing' = FALSE
          /\ status_queue' = status_queue \union {"Chart loaded"}
      BY <2>2 DEF OnHistoricalDataEnd, SwapInBatch, EmitStatus
    <3> QED BY <1>1, <3>1, NoElements DEF HeldBars
  <2> QED BY <2>1, <2>2
<1>3. /\ tws_phase[id] = "open" /\ tws_phase' = [tws_phase EXCEPT ![id] = "ended"]
      /\ tws_live' \subseteq tws_live
      /\ UNCHANGED <<next_req_id, req_id, instrument, tws_asked, tws_sent>>
  BY DEF OnHistoricalDataEnd
<1>4. tws_phase' \in [ReqIds -> Phases]
  BY <1>3 DEF IInv, TypeOK, Phases
<1>5. TypeOK'
  BY <1>2, <1>3, <1>4 DEF IInv, TypeOK
<1>6. Answering
  BY <1>3, <1>4 DEF Answering, IInv, TypeOK
<1> QED BY <1>2, <1>5, <1>6, AnswerKeepsIInv

\* historicalDataUpdate: the live tail of the current request, or nothing.
LEMMA UpdateStep ==
    ASSUME IInv, NEW id \in ReqIds, NEW ts \in 1..MaxBarTs,
           OnHistoricalDataUpdate(id, ts)
    PROVE  IInv'
<1> DEFINE bar == [req |-> id, ts |-> ts]
<1>1. bar \in ChartBar
  BY DEF ChartBar
<1>2. bars \in Seq(ChartBar)
  BY DEF IInv, TypeOK
<1>3. /\ bars' \in Seq(ChartBar)
      /\ \A b \in HeldBars' : b \in HeldBars \/ (IsCurrent(id) /\ b = bar)
  <2>1. CASE ~IsCurrent(id)
    BY <1>2, <2>1 DEF OnHistoricalDataUpdate, HeldBars
  <2>2. CASE IsCurrent(id)
    <3>1. bars' = WithUpdate(bar) /\ incoming_bars' = incoming_bars
      BY <2>2 DEF OnHistoricalDataUpdate
    <3> QED BY <1>1, <1>2, <2>2, <3>1, UpdateElements DEF HeldBars
  <2> QED BY <2>1, <2>2
<1>4. tws_phase[id] = "ended" /\ tws_asked' = tws_asked
  BY DEF OnHistoricalDataUpdate
<1>5. \A b \in HeldBars' : b \in HeldBars \/ tws_asked[b.req] = instrument
  BY <1>3, <1>4, CurrentAsked
<1>6. tws_sent' \in [ReqIds -> SUBSET (1..MaxBarTs)]
  BY DEF OnHistoricalDataUpdate, IInv, TypeOK
<1>7. TypeOK' /\ Answering
  BY <1>3, <1>6 DEF OnHistoricalDataUpdate, IInv, TypeOK, Answering
<1> QED BY <1>5, <1>7, AnswerKeepsIInv

\* error: the request is no longer served, and the screen is told.
LEMMA ErrorStep ==
    ASSUME IInv, NEW id \in ReqIds, OnError(id)
    PROVE  IInv'
<1>1. /\ tws_phase[id] \in {"open", "ended"}
      /\ tws_phase' = [tws_phase EXCEPT ![id] = "failed"]
      /\ tws_live' \subseteq tws_live
      /\ status_queue' = status_queue \union {"ERR"}
      /\ UNCHANGED <<next_req_id, serviceVars, tws_asked, tws_sent>>
  BY DEF OnError, EmitStatus
<1>2. tws_phase' \in [ReqIds -> Phases]
  BY <1>1 DEF IInv, TypeOK, Phases
<1>3. TypeOK'
  BY <1>1, <1>2 DEF serviceVars, IInv, TypeOK
<1>4. Answering
  BY <1>1, <1>2 DEF serviceVars, Answering, IInv, TypeOK
<1>5. HeldBars' = HeldBars
  BY <1>1 DEF serviceVars, HeldBars
<1> QED BY <1>3, <1>4, <1>5, AnswerKeepsIInv

\* Draining the status queue, or doing nothing.
LEMMA QuietStep ==
    ASSUME IInv, DrainStatus \/ UNCHANGED vars
    PROVE  IInv'
<1>1. /\ UNCHANGED <<next_req_id, serviceVars, twsVars>>
      /\ status_queue' \subseteq status_queue
  BY DEF DrainStatus, DrainQueue, vars
<1>2. TypeOK' /\ Answering
  BY <1>1 DEF serviceVars, twsVars, IInv, TypeOK, Answering
<1>3. HeldBars' = HeldBars
  BY <1>1 DEF serviceVars, HeldBars
<1> QED BY <1>2, <1>3, AnswerKeepsIInv

\* Every step preserves the invariant.
LEMMA StepIInv == IInv /\ [Next]_vars => IInv'
<1> SUFFICES ASSUME IInv, [Next]_vars PROVE IInv'
  OBVIOUS
<1>1. ASSUME NEW c \in Instruments, Request(c) PROVE IInv'
  BY <1>1, RequestStep
<1>2. CASE Refresh
  BY <1>2, RefreshStep
<1>3. CASE Cancel \/ Disconnect
  BY <1>3, ClearedStep
<1>4. ASSUME NEW id \in ReqIds, Callback(id) PROVE IInv'
  <2>1. ASSUME NEW ts \in 1..MaxBarTs, OnHistoricalData(id, ts) PROVE IInv'
    BY <2>1, DataStep
  <2>2. CASE OnHistoricalDataEnd(id)
    BY <2>2, DataEndStep
  <2>3. ASSUME NEW ts \in 1..MaxBarTs, OnHistoricalDataUpdate(id, ts) PROVE IInv'
    BY <2>3, UpdateStep
  <2>4. CASE OnError(id)
    BY <2>4, ErrorStep
  <2> QED BY <1>4, <2>1, <2>2, <2>3, <2>4 DEF Callback
<1>5. CASE DrainStatus \/ UNCHANGED vars
  BY <1>5, QuietStep
<1> QED BY <1>1, <1>2, <1>3, <1>4, <1>5 DEF Next

\* The invariant holds in every behaviour of the service.
LEMMA Invariant == Spec => []IInv
BY InitIInv, StepIInv, PTL DEF Spec

-----------------------------------------------------------------------------
(* The theorems. *)

\* Every variable keeps to its type: in particular no operation ever hands out
\* or holds an id outside the ids of the instance.
THEOREM TypeCorrect == Spec => []TypeOK
<1>1. IInv => TypeOK
  BY DEF IInv
<1> QED BY <1>1, Invariant, PTL

\* TWS is never left serving a chart request that the next Cancel() would miss
\* (Request(), Refresh() and Cancel() of chart_service.cc against late answers).
THEOREM AtMostOneSubscription == Spec => []OneSubscription
<1>1. IInv => OneSubscription
  BY DEF IInv
<1> QED BY <1>1, Invariant, PTL

\* No bar of another chart is displayed or collected for display: the id test
\* at the head of each callback suffices, however late the answers come.
THEOREM NoForeignBars == Spec => []BarsBelongToInstrument
<1>1. IInv => BarsBelongToInstrument
  BY DEF IInv
<1> QED BY <1>1, Invariant, PTL

-----------------------------------------------------------------------------
(* The displayed batch is in order, and whole once it is loaded. *)

\* The bars of `s' are all those TWS has sent for the request `id', ascending.
IsBatchOf(s, id, sent) ==
    /\ \A i \in DOMAIN s : s[i].req = id
    /\ \A i, j \in DOMAIN s : i < j => s[i].ts < s[j].ts
    /\ Timestamps(s) = sent

\* Without a refresh the displayed bars are the batch of the current request;
\* during one they are still in order, and the batch is collected beside them,
\* which is not complete: its end would have ended the refresh.
BatchInv ==
    /\ OneBatchInOrder
    /\ \A id \in ReqIds : tws_phase[id] = "unused" => tws_sent[id] = {}
    /\ req_id = NoReqId => bars = <<>> /\ ~ready /\ ~replacing
    /\ req_id # NoReqId /\ ~replacing => IsBatchOf(bars, req_id, tws_sent[req_id])
    /\ replacing => /\ IsBatchOf(incoming_bars, req_id, tws_sent[req_id])
                    /\ tws_phase[req_id] # "ended"
    /\ ready /\ ~replacing => tws_phase[req_id] \in {"ended", "failed"}

\* The batch of a request that was not answered yet.
LEMMA EmptyBatch == \A id : IsBatchOf(<<>>, id, {})
BY DEF IsBatchOf, Timestamps

\* A batch is in order.
LEMMA BatchInOrder ==
    ASSUME NEW id, NEW sent, IsBatchOf(bars, id, sent)
    PROVE  OneBatchInOrder
BY DEF IsBatchOf, OneBatchInOrder

\* TWS sends ascending timestamps, so that appending keeps the order.
LEMMA AppendBatch ==
    ASSUME NEW s \in Seq(ChartBar), NEW id \in ReqIds, NEW sent \in SUBSET (1..MaxBarTs),
           IsBatchOf(s, id, sent), NEW ts \in 1..MaxBarTs, \A t \in sent : t < ts
    PROVE  IsBatchOf(Append(s, [req |-> id, ts |-> ts]), id, sent \union {ts})
<1> DEFINE bar == [req |-> id, ts |-> ts]
           t == Append(s, bar)
<1>1. /\ Len(s) \in Nat /\ DOMAIN s = 1..Len(s) /\ DOMAIN t = 1..(Len(s) + 1)
      /\ \A i \in 1..Len(s) : t[i] = s[i]
      /\ t[Len(s) + 1] = bar
  BY DEF ChartBar
<1> HIDE DEF t
<1>2. \A i \in 1..Len(s) : s[i].req = id /\ s[i].ts \in sent
  BY <1>1 DEF IsBatchOf, Timestamps
<1>3. \A i \in DOMAIN t : t[i].req = id
  BY <1>1, <1>2
<1>4. \A i, j \in DOMAIN t : i < j => t[i].ts < t[j].ts
  <2> SUFFICES ASSUME NEW i \in DOMAIN t, NEW j \in DOMAIN t, i < j
               PROVE  t[i].ts < t[j].ts
    OBVIOUS
  <2>1. i \in 1..Len(s) /\ t[i] = s[i]
    BY <1>1
  <2>2. CASE j \in 1..Len(s)
    BY <1>1, <2>1, <2>2 DEF IsBatchOf
  <2>3. CASE j = Len(s) + 1
    <3>1. t[j].ts = ts /\ t[i].ts \in sent
      BY <1>1, <1>2, <2>1, <2>3
    <3> QED BY <3>1
  <2> QED BY <1>1, <2>2, <2>3
<1>5. Timestamps(t) = sent \union {ts}
  <2>1. \A x \in sent : \E i \in 1..Len(s) : s[i].ts = x
    BY <1>1 DEF IsBatchOf, Timestamps
  <2>2. \A x \in sent \union {ts} : \E i \in DOMAIN t : t[i].ts = x
    BY <1>1, <2>1
  <2>3. \A i \in DOMAIN t : t[i].ts \in sent \union {ts}
    BY <1>1, <1>2
  <2> QED BY <2>2, <2>3 DEF Timestamps
<1> QED BY <1>3, <1>4, <1>5 DEF IsBatchOf, t

\* The live tail: the last bar again, or the next one.
LEMMA UpdateBatch ==
    ASSUME bars \in Seq(ChartBar), NEW id \in ReqIds,
           NEW sent \in SUBSET (1..MaxBarTs), IsBatchOf(bars, id, sent),
           NEW ts \in 1..MaxBarTs, \A t \in sent : t <= ts
    PROVE  IsBatchOf(WithUpdate([req |-> id, ts |-> ts]), id, sent \union {ts})
<1> DEFINE bar == [req |-> id, ts |-> ts]
           n == Len(bars)
<1>1. n \in Nat /\ DOMAIN bars = 1..n
  OBVIOUS
<1>2. \A i \in 1..n : bars[i].req = id /\ bars[i].ts \in sent /\ bars[i].ts \in Nat
  <2>1. \A i \in 1..n : bars[i].req = id /\ bars[i].ts \in sent
    BY <1>1 DEF IsBatchOf, Timestamps
  <2>2. \A x \in sent : x \in Nat
    OBVIOUS
  <2> QED BY <2>1, <2>2
<1>3. CASE bars # <<>> /\ bars[n].ts = ts
  <2> DEFINE t == [bars EXCEPT ![n] = bar]
  <2>1. WithUpdate(bar) = t /\ n \in 1..n
    BY <1>1, <1>3 DEF WithUpdate
  <2>2. /\ DOMAIN t = 1..n /\ t[n] = bar
        /\ \A i \in 1..n : i # n => t[i] = bars[i]
    BY <1>1, <2>1
  <2> HIDE DEF t
  <2>3. \A i \in 1..n : t[i].req = id /\ t[i].ts = bars[i].ts
    BY <1>2, <1>3, <2>2
  <2>4. Timestamps(t) = sent /\ ts \in sent
    <3>1. Timestamps(t) = Timestamps(bars)
      BY <1>1, <2>2, <2>3 DEF Timestamps
    <3>2. ts \in sent
      BY <1>2, <1>3, <2>1
    <3> QED BY <3>1, <3>2 DEF IsBatchOf
  <2>5. \A i, j \in DOMAIN t : i < j => t[i].ts < t[j].ts
    BY <1>1, <2>2, <2>3 DEF IsBatchOf
  <2>6. \A i \in DOMAIN t : t[i].req = id
    BY <2>2, <2>3
  <2>7. sent = sent \union {ts}
    BY <2>4
  <2> QED BY <2>1, <2>4, <2>5, <2>6, <2>7 DEF IsBatchOf
<1>4. CASE ~(bars # <<>> /\ bars[n].ts = ts)
  <2>1. WithUpdate(bar) = Append(bars, bar)
    BY <1>4 DEF WithUpdate
  <2>2. \A x \in sent : x < ts
    <3> SUFFICES ASSUME NEW x \in sent PROVE x < ts
      OBVIOUS
    <3>1. PICK i \in 1..n : bars[i].ts = x
      BY <1>1 DEF IsBatchOf, Timestamps
    <3>2. bars # <<>> /\ bars[n].ts # ts /\ n \in 1..n
      BY <1>1, <1>4, <3>1
    <3>3. bars[n].ts <= ts /\ bars[n].ts \in Nat
      BY <1>2, <3>2
    <3>4. CASE i = n
      BY <3>1, <3>2, <3>3, <3>4
    <3>5. CASE i # n
      <4>1. i < n
        BY <1>1, <3>1, <3>5
      <4>2. bars[i].ts < bars[n].ts
        BY <1>1, <3>2, <4>1 DEF IsBatchOf
      <4> QED BY <1>2, <3>1, <3>3, <4>2
    <3> QED BY <3>4, <3>5
  <2>3. IsBatchOf(Append(bars, bar), id, sent \union {ts})
    BY <2>2, AppendBatch
  <2> QED BY <2>1, <2>3
<1> QED BY <1>3, <1>4

\* Nothing was requested, displayed or sent.
LEMMA InitBatch == Init => BatchInv
BY DEF Init, BatchInv, OneBatchInOrder

\* Request() and Refresh() wait for a batch of which nothing was sent.
LEMMA FreshBatchStep ==
    ASSUME IInv, BatchInv,
           Refresh \/ \E c \in Instruments : Request(c)
    PROVE  BatchInv'
<1>1. PICK c \in Instruments :
        /\ CanAllocate(1) /\ req_id' = NextReqId /\ OnReady(NextReqId, c)
        /\ \/ Refresh
           \/ bars' = <<>> /\ replacing' = FALSE /\ ready' = FALSE
  BY DEF Refresh, Request, Allocate, IInv, TypeOK
<1>2. /\ NextReqId \in ReqIds /\ NextReqId # NoReqId
      /\ tws_phase[NextReqId] = "unused" /\ tws_sent[NextReqId] = {}
  BY <1>1, FreshId DEF BatchInv
<1>3. /\ tws_sent' = tws_sent /\ tws_phase' \in [ReqIds -> Phases]
      /\ \A id \in ReqIds : id # NextReqId => tws_phase'[id] = tws_phase[id]
      /\ tws_phase'[NextReqId] \in {"unused", "open"}
  <2>1. AskedFor(NextReqId, c)
    BY <1>1, OnReadyEffect
  <2>2. tws_phase'[NextReqId] \in {"unused", "open"}
    BY <1>1, <1>2 DEF OnReady, IInv, TypeOK
  <2> QED BY <2>1, <2>2 DEF AskedFor
<1>4. \A id \in ReqIds : tws_phase'[id] = "unused" => tws_sent'[id] = {}
  BY <1>2, <1>3 DEF BatchInv
<1>5. CASE Refresh
  <2>1. bars' = bars /\ incoming_bars' = <<>> /\ replacing' = TRUE
    BY <1>5 DEF Refresh
  <2>2. OneBatchInOrder'
    BY <2>1 DEF BatchInv, OneBatchInOrder
  <2> QED BY <1>1, <1>2, <1>3, <1>4, <2>1, <2>2, EmptyBatch DEF BatchInv
<1>6. CASE bars' = <<>> /\ replacing' = FALSE /\ ready' = FALSE
  <2>1. OneBatchInOrder'
    BY <1>6 DEF OneBatchInOrder
  <2>2. IsBatchOf(bars', req_id', tws_sent'[req_id'])
    BY <1>1, <1>2, <1>3, <1>6, EmptyBatch
  <2> QED BY <1>1, <1>2, <1>4, <1>6, <2>1, <2>2 DEF BatchInv
<1> QED BY <1>1, <1>5, <1>6

\* Cancel() and Disconnect() leave neither request nor bars.
LEMMA ClearedBatchStep ==
    ASSUME IInv, BatchInv, Cancel \/ Disconnect
    PROVE  BatchInv'
<1>1. /\ req_id' = NoReqId /\ bars' = <<>> /\ ready' = FALSE /\ replacing' = FALSE
      /\ tws_sent' = tws_sent
      /\ \A id \in ReqIds : tws_phase'[id] = "unused" => tws_phase[id] = "unused"
  BY DEF Cancel, Disconnect, Cleared
<1> QED BY <1>1 DEF BatchInv, OneBatchInOrder

\* What an answer to the request `id' leaves alone.
Elsewhere(id) ==
    /\ req_id' = req_id
    /\ \A other \in ReqIds : other # id =>
         tws_phase'[other] = tws_phase[other] /\ tws_sent'[other] = tws_sent[other]
    /\ tws_phase'[id] # "unused"

\* An answer to a request that is not current changes nothing on display.
LEMMA StaleAnswer ==
    ASSUME IInv, BatchInv, NEW id \in ReqIds, ~IsCurrent(id), Elsewhere(id),
           UNCHANGED <<bars, incoming_bars, replacing, ready>>
    PROVE  BatchInv'
<1>1. req_id \in ReqIds \/ req_id = NoReqId
  BY DEF IInv, TypeOK
<1>2. CASE req_id = NoReqId
  BY <1>2 DEF BatchInv, Elsewhere, OneBatchInOrder
<1>3. CASE req_id \in ReqIds
  <2>1. tws_phase'[req_id] = tws_phase[req_id] /\ tws_sent'[req_id] = tws_sent[req_id]
    BY <1>3 DEF Elsewhere, IsCurrent
  <2> QED BY <1>3, <2>1 DEF BatchInv, Elsewhere, OneBatchInOrder
<1> QED BY <1>1, <1>2, <1>3

\* What the current request is, once it is answered.
LEMMA CurrentBatch ==
    ASSUME IInv, NEW id \in ReqIds, IsCurrent(id)
    PROVE  /\ req_id = id /\ id # NoReqId
           /\ bars \in Seq(ChartBar) /\ incoming_bars \in Seq(ChartBar)
           /\ tws_sent[id] \in SUBSET (1..MaxBarTs)
<1>1. req_id = id /\ id # NoReqId
  BY DEF IsCurrent, ReqIds, InitialReqId, NoReqId
<1>2. /\ bars \in Seq(ChartBar) /\ incoming_bars \in Seq(ChartBar)
      /\ tws_sent \in [ReqIds -> SUBSET (1..MaxBarTs)]
  BY DEF IInv, TypeOK
<1> QED BY <1>1, <1>2

\* historicalData: the next bar of the displayed or of the collected batch.
LEMMA DataBatchStep ==
    ASSUME IInv, BatchInv, NEW id \in ReqIds, NEW ts \in 1..MaxBarTs,
           OnHistoricalData(id, ts)
    PROVE  BatchInv'
<1> DEFINE bar == [req |-> id, ts |-> ts]
<1>1. /\ tws_phase[id] = "open" /\ \A t \in tws_sent[id] : t < ts
      /\ tws_phase' = tws_phase /\ req_id' = req_id
      /\ replacing' = replacing /\ ready' = ready
      /\ tws_sent'[id] = tws_sent[id] \union {ts}
      /\ \A other \in ReqIds : other # id => tws_sent'[other] = tws_sent[other]
  BY DEF OnHistoricalData, IInv, TypeOK
<1>2. CASE ~IsCurrent(id)
  <2>1. UNCHANGED <<bars, incoming_bars>>
    BY <1>2 DEF OnHistoricalData
  <2> QED BY <1>1, <1>2, <2>1, StaleAnswer DEF Elsewhere
<1>3. CASE IsCurrent(id) /\ replacing
  <2>1. incoming_bars' = Append(incoming_bars, bar) /\ bars' = bars
    BY <1>3 DEF OnHistoricalData
  <2>2. IsBatchOf(incoming_bars', id, tws_sent'[id])
    <3>1. IsBatchOf(incoming_bars, id, tws_sent[id])
      BY <1>3, CurrentBatch DEF BatchInv
    <3>2. incoming_bars \in Seq(ChartBar) /\ tws_sent[id] \in SUBSET (1..MaxBarTs)
      BY <1>3, CurrentBatch
    <3> QED BY <1>1, <2>1, <3>1, <3>2, AppendBatch
  <2>3. OneBatchInOrder'
    BY <2>1 DEF BatchInv, OneBatchInOrder
  <2> QED BY <1>1, <1>3, <2>2, <2>3, CurrentBatch DEF BatchInv
<1>4. CASE IsCurrent(id) /\ ~replacing
  <2>1. bars' = Append(bars, bar)
    BY <1>4 DEF OnHistoricalData
  <2>2. IsBatchOf(bars', id, tws_sent'[id])
    <3>1. IsBatchOf(bars, id, tws_sent[id])
      BY <1>4, CurrentBatch DEF BatchInv
    <3>2. bars \in Seq(ChartBar) /\ tws_sent[id] \in SUBSET (1..MaxBarTs)
      BY <1>4, CurrentBatch
    <3> QED BY <1>1, <2>1, <3>1, <3>2, AppendBatch
  <2>3. OneBatchInOrder'
    BY <2>2 DEF IsBatchOf, OneBatchInOrder
  <2> QED BY <1>1, <1>4, <2>2, <2>3, CurrentBatch DEF BatchInv
<1> QED BY <1>2, <1>3, <1>4

\* historicalDataEnd: the batch that is complete is on display.
LEMMA DataEndBatchStep ==
    ASSUME IInv, BatchInv, NEW id \in ReqIds, OnHistoricalDataEnd(id)
    PROVE  BatchInv'
<1>1. /\ tws_phase'[id] = "ended"
      /\ \A other \in ReqIds : other # id => tws_phase'[other] = tws_phase[other]
      /\ tws_sent' = tws_sent /\ req_id' = req_id
  BY DEF OnHistoricalDataEnd, IInv, TypeOK
<1>2. CASE ~IsCurrent(id)
  <2>1. UNCHANGED <<bars, incoming_bars, replacing, ready>>
    BY <1>2 DEF OnHistoricalDataEnd
  <2> QED BY <1>1, <1>2, <2>1, StaleAnswer DEF Elsewhere
<1>3. CASE IsCurrent(id)
  <2>1. /\ bars' = IF replacing THEN incoming_bars ELSE bars
        /\ replacing' = FALSE
    BY <1>3 DEF OnHistoricalDataEnd, SwapInBatch
  <2>2. IsBatchOf(bars', id, tws_sent'[id])
    BY <1>1, <1>3, <2>1, CurrentBatch DEF BatchInv
  <2>3. OneBatchInOrder'
    BY <2>2 DEF IsBatchOf, OneBatchInOrder
  <2> QED BY <1>1, <1>3, <2>1, <2>2, <2>3, CurrentBatch DEF BatchInv
<1> QED BY <1>2, <1>3

\* historicalDataUpdate: only after the end, so that it is no refresh.
LEMMA UpdateBatchStep ==
    ASSUME IInv, BatchInv, NEW id \in ReqIds, NEW ts \in 1..MaxBarTs,
           OnHistoricalDataUpdate(id, ts)
    PROVE  BatchInv'
<1> DEFINE bar == [req |-> id, ts |-> ts]
<1>1. /\ tws_phase[id] = "ended" /\ \A t \in tws_sent[id] : t <= ts
      /\ tws_phase' = tws_phase /\ req_id' = req_id
      /\ replacing' = replacing /\ ready' = ready /\ incoming_bars' = incoming_bars
      /\ tws_sent'[id] = tws_sent[id] \union {ts}
      /\ \A other \in ReqIds : other # id => tws_sent'[other] = tws_sent[other]
  BY DEF OnHistoricalDataUpdate, IInv, TypeOK
<1>2. CASE ~IsCurrent(id)
  <2>1. bars' = bars
    BY <1>2 DEF OnHistoricalDataUpdate
  <2> QED BY <1>1, <1>2, <2>1, StaleAnswer DEF Elsewhere
<1>3. CASE IsCurrent(id)
  <2>1. bars' = WithUpdate(bar) /\ ~replacing
    BY <1>1, <1>3, CurrentBatch DEF OnHistoricalDataUpdate, BatchInv
  <2>2. IsBatchOf(bars', id, tws_sent'[id])
    BY <1>1, <1>3, <2>1, CurrentBatch, UpdateBatch DEF BatchInv
  <2>3. OneBatchInOrder'
    BY <2>2 DEF IsBatchOf, OneBatchInOrder
  <2> QED BY <1>1, <1>3, <2>1, <2>2, <2>3, CurrentBatch DEF BatchInv
<1> QED BY <1>2, <1>3

\* Every step preserves the invariant.
LEMMA StepBatch == IInv /\ BatchInv /\ [Next]_vars => BatchInv'
<1> SUFFICES ASSUME IInv, BatchInv, [Next]_vars PROVE BatchInv'
  OBVIOUS
<1>1. CASE Refresh \/ \E c \in Instruments : Request(c)
  BY <1>1, FreshBatchStep
<1>2. CASE Cancel \/ Disconnect
  BY <1>2, ClearedBatchStep
<1>3. ASSUME NEW id \in ReqIds, Callback(id) PROVE BatchInv'
  <2>1. ASSUME NEW ts \in 1..MaxBarTs, OnHistoricalData(id, ts) PROVE BatchInv'
    BY <2>1, DataBatchStep
  <2>2. CASE OnHistoricalDataEnd(id)
    BY <2>2, DataEndBatchStep
  <2>3. ASSUME NEW ts \in 1..MaxBarTs, OnHistoricalDataUpdate(id, ts) PROVE BatchInv'
    BY <2>3, UpdateBatchStep
  <2>4. CASE OnError(id)
    <3>1. /\ tws_phase'[id] = "failed"
          /\ \A other \in ReqIds : other # id => tws_phase'[other] = tws_phase[other]
          /\ tws_sent' = tws_sent /\ UNCHANGED serviceVars
      BY <2>4 DEF OnError, IInv, TypeOK
    <3>2. CASE ~IsCurrent(id)
      BY <3>1, <3>2, StaleAnswer DEF Elsewhere, serviceVars
    <3>3. CASE IsCurrent(id)
      BY <3>1, <3>3, CurrentBatch DEF BatchInv, OneBatchInOrder, serviceVars
    <3> QED BY <3>2, <3>3
  <2> QED BY <1>3, <2>1, <2>2, <2>3, <2>4 DEF Callback
<1>4. CASE DrainStatus \/ UNCHANGED vars
  BY <1>4 DEF DrainStatus, vars, serviceVars, twsVars, BatchInv, OneBatchInOrder
<1> QED BY <1>1, <1>2, <1>3, <1>4 DEF Next

LEMMA BatchInvariant == Spec => []BatchInv
BY InitBatch, StepBatch, Invariant, PTL DEF Spec

\* The displayed bars are those of one request in ascending time: SwapInBatch()
\* replaces a batch by the next, and the live tail never repeats a bar.
THEOREM BatchesInOrder == Spec => []OneBatchInOrder
<1>1. BatchInv => OneBatchInOrder
  BY DEF BatchInv
<1> QED BY <1>1, BatchInvariant, PTL

\* A chart that says it is loaded, with no refresh under way, shows every bar
\* TWS has sent for its request.
THEOREM ReadyIsWhole == Spec => []ReadyShowsWholeBatch
<1>1. BatchInv => ReadyShowsWholeBatch
  BY DEF BatchInv, ReadyShowsWholeBatch, IsBatchOf
<1> QED BY <1>1, BatchInvariant, PTL

\* While a chart stays loaded, only a complete batch or its live tail changes
\* what it displays: Refresh() of chart_service.cc does not blank it.
THEOREM NeverFlickers == Spec => NoFlicker
<1> DEFINE Change == ready /\ ready' /\ instrument' = instrument /\ bars' # bars
<1>1. IInv /\ BatchInv /\ [Next]_vars /\ Change => tws_phase'[req_id'] = "ended"
  <2> SUFFICES ASSUME IInv, BatchInv, Next, Change PROVE tws_phase'[req_id'] = "ended"
    BY DEF vars, serviceVars
  <2>1. PICK id \in ReqIds : Callback(id)
    BY DEF Next, Request, Refresh, Cancel, Disconnect, Cleared, DrainStatus, serviceVars
  <2>2. IsCurrent(id) /\ ~OnError(id)
    BY <2>1 DEF Callback, OnHistoricalData, OnHistoricalDataEnd,
       OnHistoricalDataUpdate, OnError, serviceVars
  <2>3. ASSUME NEW ts \in 1..MaxBarTs, OnHistoricalData(id, ts) PROVE FALSE
    <3>1. tws_phase[req_id] = "open" /\ ~replacing
      BY <2>2, <2>3 DEF OnHistoricalData, IsCurrent
    <3> QED BY <3>1 DEF BatchInv
  <2>4. CASE OnHistoricalDataEnd(id)
    BY <2>2, <2>4 DEF OnHistoricalDataEnd, IsCurrent, IInv, TypeOK
  <2>5. ASSUME NEW ts \in 1..MaxBarTs, OnHistoricalDataUpdate(id, ts)
        PROVE  tws_phase'[req_id'] = "ended"
    BY <2>2, <2>5 DEF OnHistoricalDataUpdate, IsCurrent
  <2> QED BY <2>1, <2>2, <2>3, <2>4, <2>5 DEF Callback
<1>2. IInv /\ BatchInv /\ [Next]_vars => [Change => tws_phase'[req_id'] = "ended"]_vars
  BY <1>1
<1> QED BY <1>2, Invariant, BatchInvariant, PTL DEF Spec, NoFlicker

-----------------------------------------------------------------------------
(* The service implements LiveFeed. *)

\* What LiveFeed sees of the bars.
Shown == {tws_asked[b.req] : b \in HeldBars}

\* Without a target there is no request and nothing is held; and bars are
\* collected beside the displayed ones only during a refresh.
TargetInv ==
    /\ instrument = NoInstrument => req_id = NoReqId /\ bars = <<>>
    /\ ~replacing => incoming_bars = <<>>
    /\ instrument = NoInstrument => ~replacing

LEMMA InitTarget == Init => TargetInv
BY DEF Init, TargetInv

\* A callback can then only concern a request that is not the current one.
LEMMA NoTargetNoCurrent ==
    ASSUME TargetInv, instrument = NoInstrument, NEW id \in ReqIds, Callback(id)
    PROVE  UNCHANGED <<req_id, instrument, bars, incoming_bars, replacing>>
<1>1. ~IsCurrent(id)
  BY DEF TargetInv, IsCurrent, ReqIds, InitialReqId, NoReqId
<1> QED
  BY <1>1 DEF Callback, OnHistoricalData, OnHistoricalDataEnd,
     OnHistoricalDataUpdate, OnError, serviceVars

LEMMA StepTarget == IInv /\ TargetInv /\ [Next]_vars => TargetInv'
<1> SUFFICES ASSUME IInv, TargetInv, [Next]_vars PROVE TargetInv'
  OBVIOUS
<1>1. ASSUME NEW c \in Instruments, Request(c) PROVE TargetInv'
  BY <1>1 DEF Request, TargetInv
<1>2. CASE Refresh
  BY <1>2 DEF Refresh, TargetInv
<1>3. CASE Cancel \/ Disconnect
  BY <1>3 DEF Cancel, Disconnect, Cleared, TargetInv
<1>4. ASSUME NEW id \in ReqIds, Callback(id) PROVE TargetInv'
  <2>1. instrument' = instrument /\ (~replacing' => incoming_bars' = <<>>)
    <3>1. ASSUME NEW ts \in 1..MaxBarTs, OnHistoricalData(id, ts)
          PROVE  instrument' = instrument /\ (~replacing' => incoming_bars' = <<>>)
      BY <3>1 DEF OnHistoricalData, TargetInv
    <3>2. CASE OnHistoricalDataEnd(id)
      BY <3>2 DEF OnHistoricalDataEnd, SwapInBatch, TargetInv
    <3>3. ASSUME NEW ts \in 1..MaxBarTs, OnHistoricalDataUpdate(id, ts)
          PROVE  instrument' = instrument /\ (~replacing' => incoming_bars' = <<>>)
      BY <3>3 DEF OnHistoricalDataUpdate, TargetInv
    <3>4. CASE OnError(id)
      BY <3>4 DEF OnError, serviceVars, TargetInv
    <3> QED BY <1>4, <3>1, <3>2, <3>3, <3>4 DEF Callback
  <2>2. CASE instrument = NoInstrument
    BY <1>4, <2>2, NoTargetNoCurrent DEF TargetInv
  <2> QED BY <2>1, <2>2 DEF TargetInv
<1>5. CASE DrainStatus \/ UNCHANGED vars
  BY <1>5 DEF DrainStatus, vars, serviceVars, TargetInv
<1> QED BY <1>1, <1>2, <1>3, <1>4, <1>5 DEF Next

\* A request handed out replaces the one TWS was serving, if it is sent.
LEMMA OnReadyReplaces ==
    ASSUME IInv, NEW c \in Instruments, CanAllocate(1), OnReady(NextReqId, c)
    PROVE  Feed!Replace
<1>1. NextReqId \in ReqIds \ tws_live
  <2>1. NextReqId # req_id
    <3>1. next_req_id \in Nat /\ req_id <= next_req_id
      BY DEF IInv, TypeOK, CounterInv
    <3>2. req_id \in ReqIds \union {NoReqId}
      BY DEF IInv, TypeOK
    <3>3. req_id \in Int
      BY <3>2 DEF ReqIds, InitialReqId, NoReqId
    <3> QED BY <3>1, <3>3 DEF NextReqId
  <2> QED BY <2>1, FreshId DEF IInv, OneSubscription
<1>2. tws_live' = {} \/ tws_live' = {NextReqId}
  BY DEF OnReady, CancelHistoricalData, IInv, OneSubscription
<1> QED BY <1>1, <1>2 DEF Feed!Replace

\* An answer delivers, if there is a target.
LEMMA AnswerDelivers ==
    ASSUME IInv', instrument # NoInstrument, instrument' = instrument,
           tws_live' \subseteq tws_live
    PROVE  Feed!Deliver
<1>1. Shown' \subseteq {instrument}
  BY DEF IInv, BarsBelongToInstrument, Shown
<1> QED BY <1>1 DEF Feed!Deliver, Shown

\* Every step of the service is a step of LiveFeed, or unseen by it.
LEMMA StepSimulation ==
    IInv /\ IInv' /\ TargetInv /\ [Next]_vars => [Feed!Next]_(Feed!vars)
<1> SUFFICES ASSUME IInv, IInv', TargetInv, [Next]_vars
             PROVE  Feed!Next \/ UNCHANGED <<instrument, Shown, tws_live>>
  BY DEF Feed!vars, Shown
<1>1. ASSUME NEW c \in Instruments, Request(c) PROVE Feed!Ask(c)
  <2>1. CanAllocate(1) /\ OnReady(NextReqId, c) /\ instrument' = c /\ HeldBars' = {}
    BY <1>1, NoElements DEF Request, Allocate, HeldBars
  <2>2. Feed!Replace
    BY <2>1, OnReadyReplaces
  <2> QED BY <2>1, <2>2 DEF Feed!Ask
<1>2. CASE Refresh
  <2>1. /\ CanAllocate(1) /\ OnReady(NextReqId, instrument)
        /\ instrument \in Instruments /\ instrument # NoInstrument
        /\ instrument' = instrument /\ bars' = bars /\ incoming_bars' = <<>>
    BY <1>2 DEF Refresh, Allocate, IInv, TypeOK
  <2>2. Feed!Replace
    BY <2>1, OnReadyReplaces
  <2>3. HeldBars' = HeldBars
    BY <1>2, <2>1 DEF Refresh, TargetInv, HeldBars
  <2>4. Shown' = Shown
    BY <2>1, <2>3 DEF IInv, BarsBelongToInstrument, Shown
  <2>5. Feed!Renew
    BY <2>1, <2>2, <2>4 DEF Feed!Renew, Shown
  <2> QED BY <2>5 DEF Feed!Next
<1>3. CASE Cancel \/ Disconnect
  <2>1. instrument' = NoInstrument /\ HeldBars' = {} /\ tws_live' = {}
    BY <1>3, NoElements DEF Cancel, Disconnect, Cleared, HeldBars,
       CancelHistoricalData, IInv, OneSubscription
  <2>2. Feed!Drop
    BY <2>1 DEF Feed!Drop
  <2> QED BY <2>2 DEF Feed!Next
<1>4. ASSUME NEW id \in ReqIds, Callback(id)
      PROVE  Feed!Next \/ UNCHANGED <<instrument, Shown, tws_live>>
  <2>1. /\ UNCHANGED <<req_id, instrument, tws_asked>>
        /\ tws_live' \subseteq tws_live
    BY <1>4 DEF Callback, OnHistoricalData, OnHistoricalDataEnd,
       OnHistoricalDataUpdate, OnError, serviceVars
  <2>2. CASE instrument = NoInstrument
    <3>1. HeldBars' = HeldBars
      BY <1>4, <2>2, NoTargetNoCurrent DEF HeldBars
    <3>2. tws_live = {}
      <4>1. tws_live \subseteq {NoReqId} /\ tws_live \subseteq ReqIds
        BY <2>2 DEF TargetInv, IInv, TypeOK, OneSubscription
      <4>2. NoReqId \notin ReqIds
        BY DEF ReqIds, InitialReqId, NoReqId
      <4> QED BY <4>1, <4>2
    <3> QED BY <2>1, <3>1, <3>2 DEF Shown
  <2>3. CASE instrument # NoInstrument
    <3>1. Feed!Deliver
      BY <2>1, <2>3, AnswerDelivers
    <3> QED BY <3>1 DEF Feed!Next
  <2> QED BY <2>2, <2>3
<1>5. CASE DrainStatus \/ UNCHANGED vars
  BY <1>5 DEF DrainStatus, vars, serviceVars, twsVars, Shown, HeldBars
<1> QED BY <1>1, <1>2, <1>3, <1>4, <1>5 DEF Next, Feed!Next

\* chart_service.cc keeps the promise of LiveFeed: one target at a time, only
\* its data held, at most one request served, and all of it changed together.
THEOREM ImplementsFeed == Spec => ImplementsLiveFeed
<1>1. Init => Feed!Init
  BY NoElements DEF Init, Feed!Init, HeldBars
<1>2. Spec => []TargetInv
  BY InitTarget, StepTarget, Invariant, PTL DEF Spec
<1> QED
  BY <1>1, <1>2, StepSimulation, Invariant, PTL DEF Spec, ImplementsLiveFeed, Feed!Spec

=============================================================================
