---------------------------- MODULE NewsServiceProofs --------------------------
(***************************************************************************)
(* Proofs about NewsService for all tickers, sources, articles and bounds. *)
(* Answers to abandoned sessions may come at any time and are told apart   *)
(* by their request id only.  The invariant therefore says of every id the *)
(* session owns what it was asked for, and that ids handed out from now on *)
(* are new to everything there is; and, for the fallback, which begins a   *)
(* session without a new screen, that a general session that is still      *)
(* probing has shown nothing.                                              *)
(***************************************************************************)
EXTENDS NewsService, FiniteSetTheorems, TLAPS

CounterInv == next_req_id >= InitialReqId

\* The ids of a session were asked for its subject, and so was its contract.
OwnedInv ==
    session.stage # "kIdle" =>
        /\ session.con_id \in {"", session.symbol}
        /\ \A id \in SessionIds :
              id <= next_req_id /\ tws_asked[id].subject = session.symbol

\* A headline comes from an id that was handed out, and once the session has
\* begun it has seen the article.
HeadlineInv ==
    \A h \in Queued \union feed :
        /\ h.req <= next_req_id
        /\ session.stage # "kIdle" \/ session.symbol # "" =>
              h.article = NoArticle \/ h.article \in session.seen_article_ids

ProbingInv ==
    session.stage = "kBroadtapeDiscover" =>
        /\ headlines = <<>> /\ feed = {}
        /\ session.symbol = "MARKET" /\ session.broadtape_stream_req_ids = {}

IInv ==
    /\ TypeOK /\ CounterInv /\ OwnedInv /\ HeadlineInv /\ ProbingInv
    /\ NoStreamLeak /\ HeadlinesOfSession /\ NoRepeatedHeadline /\ StageHasRequest

USE BoundsAssumption, NewsAssumption

-----------------------------------------------------------------------------
(* Ids and requests. *)

\* The next n ids are ids of the instance, above the counter.
LEMMA NextIds ==
    ASSUME next_req_id \in Nat, CounterInv, NEW n \in Nat, Allocate(n)
    PROVE  /\ NextReqIds(n) \subseteq ReqIds
           /\ \A id \in NextReqIds(n) : id > next_req_id /\ id <= next_req_id'
           /\ next_req_id' \in Nat /\ next_req_id <= next_req_id' /\ CounterInv'
           /\ n = 1 => NextReqId \in NextReqIds(n) /\ NextReqIds(n) = {NextReqId}
BY DEF NextReqIds, NextReqId, Allocate, CanAllocate, ReqIds, CounterInv, InitialReqId

LEMMA IdsAreFinite ==
    ASSUME NEW S \in SUBSET ReqIds
    PROVE  Cardinality(S) \in Nat /\ (Cardinality(S) = 0 => S = {})
<1>1. InitialReqId + 1 \in Int /\ MaxReqId \in Int
  BY DEF InitialReqId
<1>2. IsFiniteSet(ReqIds)
  BY <1>1, FS_Interval DEF ReqIds
<1>3. IsFiniteSet(S)
  BY <1>2, FS_Subset
<1> QED BY <1>3, FS_CardinalityType, FS_EmptySet

\* Send() changes what is known of the ids it uses, and of no other.
LEMMA SendAsks ==
    ASSUME NEW ids \in SUBSET ReqIds, NEW op \in Operations, NEW subject \in Subjects,
           NEW open \in [ReqIds -> Nat],
           tws_asked \in [ReqIds -> [op : Operations, subject : Subjects]],
           Send(ids, op, subject, open)
    PROVE  /\ tws_asked' \in [ReqIds -> [op : Operations, subject : Subjects]]
           /\ tws_open' \in [ReqIds -> Nat]
           /\ \A id \in ids : /\ tws_asked'[id].op = op
                              /\ tws_asked'[id].subject = subject
                              /\ tws_open'[id] > 0
           /\ \A id \in ReqIds \ ids :
                tws_asked'[id] = tws_asked[id] /\ tws_open'[id] = open[id]
<1>1. [op |-> op, subject |-> subject] \in [op : Operations, subject : Subjects]
  OBVIOUS
<1>2. /\ tws_asked' = [id \in ReqIds |->
            IF id \in ids THEN [op |-> op, subject |-> subject] ELSE tws_asked[id]]
      /\ tws_open' = [id \in ReqIds |-> IF id \in ids THEN 1 ELSE open[id]]
  BY DEF Send
<1> QED BY <1>1, <1>2

LEMMA FinishedTyped ==
    ASSUME TypeOK, NEW id \in ReqIds, tws_open[id] > 0
    PROVE  /\ Finished(id) \in [ReqIds -> Nat]
           /\ \A other \in ReqIds : other # id => Finished(id)[other] = tws_open[other]
<1>1. tws_open \in [ReqIds -> Nat] /\ tws_open[id] - 1 \in Nat
  <2>1. tws_open \in [ReqIds -> Nat]
    BY DEF TypeOK
  <2>2. tws_open[id] \in Nat
    BY <2>1
  <2> QED BY <2>1, <2>2
<1>2. Finished(id) = [tws_open EXCEPT ![id] = tws_open[id] - 1]
  BY DEF Finished
<1> QED BY <1>1, <1>2

\* The fields of the session.
LEMMA Typed ==
    ASSUME TypeOK
    PROVE  /\ session.stage \in Stages /\ session.symbol \in Subjects
           /\ session.con_id \in Subjects
           /\ session.details_req_id \in MaybeId /\ session.hist_req_id \in MaybeId
           /\ session.ticker_stream_req_id \in MaybeId
           /\ session.broadtape_probe_ids \in SUBSET ReqIds
           /\ session.broadtape_contracts \in SUBSET ReqIds
           /\ session.broadtape_stream_req_ids \in SUBSET ReqIds
           /\ session.seen_article_ids \in SUBSET Articles
           /\ SessionIds \in SUBSET ReqIds
           /\ \A h \in Queued \union feed : h.req \in ReqIds
<1>1. session \in Session
  BY DEF TypeOK
<1>2. SessionIds \in SUBSET ReqIds
  BY <1>1 DEF Session, SessionIds, MaybeId
<1>3. \A h \in Queued \union feed : h.req \in ReqIds
  <2>1. /\ \A i \in DOMAIN headlines : headlines[i] \in Headline
        /\ feed \subseteq Headline
    <3>1. headlines \in Seq(Headline) /\ feed \subseteq Headline
      BY DEF TypeOK
    <3> QED BY <3>1
  <2>2. \A h \in Headline : h.req \in ReqIds
    BY DEF Headline
  <2> QED BY <2>1, <2>2 DEF Queued
<1> QED BY <1>1, <1>2, <1>3 DEF Session

-----------------------------------------------------------------------------
(* Steps that leave the session as it is. *)

\* The requests a stage waits for.
Waiting(id, op) ==
    /\ id # NoReqId /\ tws_asked[id].op = op
    /\ tws_open[id] > 0 \/ id \in tws_failed
Required(id, op) ==
    \/ session.stage = "kResolving" /\ id = session.details_req_id /\ op = "details"
    \/ session.stage = "kFetchingHist" /\ id = session.hist_req_id /\ op = "history"
    \/ /\ session.stage = "kBroadtapeDiscover" /\ id \in session.broadtape_probe_ids
       /\ op = "probe"
    \/ /\ session.stage = "kStreamingTicker" /\ id = session.ticker_stream_req_id
       /\ op = "stream"
    \/ /\ session.stage = "kBroadtapeStream" /\ id \in session.broadtape_stream_req_ids
       /\ op = "stream"

LEMMA StageWaits ==
    StageHasRequest <=>
        /\ \A id, op : Required(id, op) => Waiting(id, op)
        /\ session.stage = "kBroadtapeDiscover" => session.broadtape_probe_ids # {}
BY DEF StageHasRequest, Required, Waiting

LEMMA RequiredIsOwned ==
    ASSUME TypeOK, NEW id, NEW op, Required(id, op), id # NoReqId
    PROVE  id \in SessionIds /\ id \in ReqIds
BY Typed DEF Required, SessionIds, MaybeId

\* Such a step may end requests, but none the session waits for unless it failed.
LEMMA QuietInv ==
    ASSUME IInv, TypeOK',
           UNCHANGED <<next_req_id, session, headlines, feed, tws_asked>>,
           tws_live' \subseteq tws_live,
           \A id, op : Required(id, op) /\ Waiting(id, op) =>
              tws_open'[id] > 0 \/ id \in tws_failed'
    PROVE  IInv'
<1> USE DEF IInv
<1>1. CounterInv' /\ OwnedInv' /\ HeadlineInv' /\ ProbingInv'
  BY DEF CounterInv, OwnedInv, SessionIds, HeadlineInv, Queued, ProbingInv
<1>2. NoStreamLeak' /\ HeadlinesOfSession' /\ NoRepeatedHeadline'
  BY DEF NoStreamLeak, HeadlinesOfSession, NoRepeatedHeadline, Queued
<1>3. StageHasRequest'
  <2>1. \A id, op : Required(id, op) => Waiting(id, op)
    BY StageWaits
  <2>2. \A id, op : Required(id, op)' => Waiting(id, op)'
    BY <2>1 DEF Required, Waiting
  <2>3. session.stage = "kBroadtapeDiscover" => session.broadtape_probe_ids # {}
    BY StageWaits
  <2> QED BY <2>2, <2>3 DEF StageHasRequest, Required, Waiting
<1> QED BY <1>1, <1>2, <1>3

\* The types the steps below show one by one.
StatusKinds == {"Historical loaded", "Streaming BroadTape",
    "No contract found", "No news providers", "No BroadTape", "ERR"}
LinkTyped ==
    /\ {have_codes, want_providers, providers_requested} \subseteq BOOLEAN
    /\ {connected, tws_providers} \subseteq BOOLEAN /\ tws_hello \in {"due", "sent"}
AskedTyped == tws_asked \in [ReqIds -> [op : Operations, subject : Subjects]]

LEMMA TypeParts ==
    TypeOK <=> /\ next_req_id \in Nat /\ status_queue \subseteq StatusKinds
               /\ session \in Session
               /\ headlines \in Seq(Headline) /\ feed \subseteq Headline
               /\ LinkTyped /\ AskedTyped /\ tws_open \in [ReqIds -> Nat]
               /\ tws_failed \subseteq ReqIds /\ tws_live \subseteq ReqIds
BY DEF TypeOK, StatusKinds, LinkTyped, AskedTyped

\* The same of the next state.
LEMMA TypePartsNext ==
    ASSUME next_req_id' \in Nat, status_queue' \subseteq StatusKinds,
           session' \in Session,
           headlines' \in Seq(Headline), feed' \subseteq Headline,
           LinkTyped', AskedTyped', tws_open' \in [ReqIds -> Nat],
           tws_failed' \subseteq ReqIds, tws_live' \subseteq ReqIds
    PROVE  TypeOK'
BY DEF TypeOK, StatusKinds, LinkTyped, AskedTyped

LEMMA LinkKept ==
    ASSUME TypeOK, UNCHANGED <<providerVars, linkVars>>
    PROVE  LinkTyped'
BY TypeParts DEF LinkTyped, providerVars, linkVars

LEMMA NewSessionTyped ==
    ASSUME NEW stage \in Stages, NEW subject \in Subjects
    PROVE  /\ NewSession(stage, subject) \in Session
           /\ NewSession(stage, subject).stage = stage
           /\ NewSession(stage, subject).symbol = subject
           /\ NewSession(stage, subject).con_id = ""
           /\ NewSession(stage, subject).seen_article_ids = {}
<1>1. NoReqId \in MaybeId /\ "" \in Subjects
  BY DEF MaybeId, Subjects
<1> QED BY <1>1 DEF NewSession, Session

\* With nothing queued and nothing on display there is nothing to show of them.
LEMMA NothingShown ==
    /\ <<>> \in Seq(Headline)
    /\ headlines' = <<>> /\ feed' = {} =>
         HeadlineInv' /\ HeadlinesOfSession' /\ NoRepeatedHeadline'
<1>1. <<>> \in Seq(Headline)
  OBVIOUS
<1>2. ASSUME headlines' = <<>>, feed' = {}
      PROVE  HeadlineInv' /\ HeadlinesOfSession' /\ NoRepeatedHeadline'
  <2>1. DOMAIN headlines' = {}
    BY <1>2
  <2>2. Queued' = {}
    BY <2>1 DEF Queued
  <2> QED BY <1>2, <2>1, <2>2 DEF HeadlineInv, HeadlinesOfSession, NoRepeatedHeadline
<1> QED BY <1>1, <1>2

\* CancelActive() leaves nothing streaming.
LEMMA StreamsCancelled == ASSUME IInv PROVE CancelStreams = {}
BY DEF IInv, NoStreamLeak, CancelStreams

-----------------------------------------------------------------------------
(* Steps that begin a session. *)

LEMMA StartTickerInv ==
    ASSUME IInv, NEW s \in Subjects, NEW open \in [ReqIds -> Nat],
           StartTickerSession(s, open), feed' = {},
           status_queue' \subseteq StatusKinds, UNCHANGED <<providerVars, linkVars>>
    PROVE  IInv'
<1> DEFINE id == NextReqId
<1> USE DEF IInv
<1>1. /\ id \in ReqIds /\ id > next_req_id /\ id <= next_req_id'
      /\ next_req_id' \in Nat /\ CounterInv' /\ id # NoReqId
  BY TypeParts, NextIds DEF StartTickerSession, ReqIds, InitialReqId, NoReqId
<1> HIDE DEF id
<1>2. /\ session' = [NewSession("kResolving", s) EXCEPT !.details_req_id = id]
      /\ headlines' = <<>> /\ feed' = {} /\ tws_live' = {} /\ tws_failed' = {}
      /\ Send({id}, "details", s, open)
  BY StreamsCancelled DEF StartTickerSession, NoHeadlines, id
<1>3. /\ AskedTyped' /\ tws_open' \in [ReqIds -> Nat]
      /\ tws_asked'[id].op = "details" /\ tws_asked'[id].subject = s
      /\ tws_open'[id] > 0
  <2> DEFINE ids == {id}
  <2>1. /\ "details" \in Operations /\ ids \in SUBSET ReqIds /\ id \in ids
        /\ Send(ids, "details", s, open) /\ AskedTyped
    BY <1>1, <1>2, TypeParts DEF Operations
  <2> HIDE DEF ids
  <2> QED BY <2>1, SendAsks DEF AskedTyped
<1>4. /\ session' \in Session /\ session'.stage = "kResolving"
      /\ session'.symbol = s /\ session'.con_id = "" /\ session'.details_req_id = id
      /\ session'.hist_req_id = NoReqId /\ session'.ticker_stream_req_id = NoReqId
      /\ session'.broadtape_probe_ids = {} /\ session'.broadtape_stream_req_ids = {}
  <2>1. /\ NoReqId \in MaybeId /\ id \in MaybeId /\ "" \in Subjects
    BY <1>1 DEF MaybeId, Subjects
  <2> QED BY <1>2, <2>1 DEF NewSession, Session, Stages
<1>5. TypeOK'
  BY <1>1, <1>2, <1>3, <1>4, LinkKept, NothingShown, TypePartsNext
<1>6. OwnedInv'
  <2>1. SessionIds' = {id}
    BY <1>1, <1>4 DEF SessionIds
  <2> QED BY <1>1, <1>3, <1>4, <2>1 DEF OwnedInv
<1>7. HeadlineInv' /\ HeadlinesOfSession' /\ NoRepeatedHeadline'
  BY <1>2, NothingShown
<1>8. ProbingInv'
  BY <1>2, <1>4 DEF ProbingInv
<1>9. NoStreamLeak' /\ StageHasRequest'
  BY <1>1, <1>2, <1>3, <1>4 DEF NoStreamLeak, StageHasRequest
<1> QED BY <1>1, <1>5, <1>6, <1>7, <1>8, <1>9

LEMMA SubscribeNewsInv == ASSUME IInv, NEW s \in Tickers, SubscribeNews(s) PROVE IInv'
<1>1. s \in Subjects /\ tws_open \in [ReqIds -> Nat] /\ status_queue \subseteq StatusKinds
  BY TypeParts DEF IInv, Subjects
<1> QED BY <1>1, StartTickerInv DEF SubscribeNews

LEMMA SubscribeGeneralNewsInv == ASSUME IInv, SubscribeGeneralNews PROVE IInv'
<1> DEFINE probes == NextReqIds(NumSources)
<1> USE DEF IInv
<1>1. /\ probes \subseteq ReqIds /\ probes # {}
      /\ \A id \in probes : id > next_req_id /\ id <= next_req_id' /\ id # NoReqId
      /\ next_req_id' \in Nat /\ CounterInv'
  <2>1. /\ probes \subseteq ReqIds
        /\ \A id \in probes : id > next_req_id /\ id <= next_req_id'
        /\ next_req_id' \in Nat /\ CounterInv'
    BY TypeParts, NextIds DEF SubscribeGeneralNews
  <2>2. next_req_id + 1 \in probes
    BY TypeParts DEF NextReqIds
  <2>3. NoReqId \notin ReqIds
    BY DEF ReqIds, NoReqId, InitialReqId
  <2> QED BY <2>1, <2>2, <2>3
<1> HIDE DEF probes
<1>2. /\ session' = [NewSession("kBroadtapeDiscover", "MARKET")
                        EXCEPT !.broadtape_probe_ids = probes]
      /\ headlines' = <<>> /\ feed' = {} /\ tws_live' = {} /\ tws_failed' = {}
      /\ Send(probes, "probe", "MARKET", tws_open)
      /\ UNCHANGED <<status_queue, providerVars, linkVars>>
  BY StreamsCancelled DEF SubscribeGeneralNews, NoHeadlines, probes
<1>3. /\ AskedTyped' /\ tws_open' \in [ReqIds -> Nat]
      /\ \A id \in probes : /\ tws_asked'[id].op = "probe"
                            /\ tws_asked'[id].subject = "MARKET"
                            /\ tws_open'[id] > 0
  <2>1. "MARKET" \in Subjects /\ "probe" \in Operations
    BY DEF Subjects, Operations
  <2> QED BY <1>1, <1>2, <2>1, SendAsks, TypeParts DEF AskedTyped
<1>4. /\ session' \in Session /\ session'.stage = "kBroadtapeDiscover"
      /\ session'.symbol = "MARKET" /\ session'.con_id = ""
      /\ session'.details_req_id = NoReqId
      /\ session'.hist_req_id = NoReqId /\ session'.ticker_stream_req_id = NoReqId
      /\ session'.broadtape_probe_ids = probes /\ session'.broadtape_stream_req_ids = {}
  <2>1. /\ NoReqId \in MaybeId /\ "" \in Subjects /\ "MARKET" \in Subjects
    BY DEF MaybeId, Subjects
  <2> QED BY <1>1, <1>2, <2>1 DEF NewSession, Session, Stages
<1>5. TypeOK'
  BY <1>1, <1>2, <1>3, <1>4, LinkKept, NothingShown, TypeParts, TypePartsNext
<1>6. OwnedInv'
  <2>1. SessionIds' = probes
    BY <1>4 DEF SessionIds
  <2> QED BY <1>1, <1>3, <1>4, <2>1 DEF OwnedInv
<1>7. HeadlineInv' /\ HeadlinesOfSession' /\ NoRepeatedHeadline'
  BY <1>2, NothingShown
<1>8. ProbingInv'
  BY <1>2, <1>4 DEF ProbingInv
<1>9. NoStreamLeak' /\ StageHasRequest'
  BY <1>1, <1>2, <1>3, <1>4 DEF NoStreamLeak, StageHasRequest
<1> QED BY <1>1, <1>5, <1>6, <1>7, <1>8, <1>9

-----------------------------------------------------------------------------
(* Steps that lead a session on. *)

\* The requests of the next stage go out under new ids when the one before ends.
LEMMA AdvanceInv ==
    ASSUME IInv, session.stage # "kIdle", NEW end \in ReqIds, tws_open[end] > 0,
           NEW ids \in SUBSET ReqIds, NEW op \in Operations,
           \A id \in ids : id > next_req_id /\ id <= next_req_id' /\ id # NoReqId,
           next_req_id' \in Nat, next_req_id <= next_req_id',
           Send(ids, op, session.symbol, Finished(end)),
           session' \in Session, session'.symbol = session.symbol,
           session'.con_id = session.con_id,
           session'.seen_article_ids = session.seen_article_ids,
           session'.stage \notin {"kIdle", "kBroadtapeDiscover"},
           SessionIds' \subseteq SessionIds \union ids,
           \A id, o : Required(id, o)' => id \in ids /\ o = op,
           status_queue' \subseteq StatusKinds, tws_live' \subseteq ReqIds,
           UNCHANGED <<headlines, feed, providerVars, linkVars, tws_failed>>,
           NoStreamLeak'
    PROVE  IInv'
<1> USE DEF IInv
<1>1. /\ AskedTyped' /\ tws_open' \in [ReqIds -> Nat]
      /\ \A id \in ids : /\ tws_asked'[id].op = op
                         /\ tws_asked'[id].subject = session.symbol
                         /\ tws_open'[id] > 0
      /\ \A id \in ReqIds \ ids : tws_asked'[id] = tws_asked[id]
  <2> DEFINE subject == session.symbol
             open == Finished(end)
  <2>1. /\ subject \in Subjects /\ open \in [ReqIds -> Nat] /\ AskedTyped
        /\ Send(ids, op, subject, open)
    BY Typed, TypeParts, FinishedTyped
  <2> HIDE DEF subject, open
  <2>2. /\ AskedTyped' /\ tws_open' \in [ReqIds -> Nat]
        /\ \A id \in ids : /\ tws_asked'[id].op = op
                           /\ tws_asked'[id].subject = subject
                           /\ tws_open'[id] > 0
        /\ \A id \in ReqIds \ ids : tws_asked'[id] = tws_asked[id]
    BY <2>1, SendAsks DEF AskedTyped
  <2> QED BY <2>2 DEF subject
<1>2. TypeOK' /\ CounterInv'
  <2>1. CounterInv'
    BY TypeParts DEF CounterInv, InitialReqId
  <2> QED BY <1>1, <2>1, LinkKept, TypeParts, TypePartsNext
<1>3. \A id \in ReqIds : id <= next_req_id => id \notin ids /\ id <= next_req_id'
  BY TypeParts DEF ReqIds, InitialReqId
<1>4. OwnedInv'
  <2>1. ASSUME NEW id \in SessionIds'
        PROVE  id <= next_req_id' /\ tws_asked'[id].subject = session.symbol
    <3>1. CASE id \in ids
      BY <1>1, <3>1
    <3>2. CASE id \in SessionIds
      BY <1>1, <1>3, <3>2, Typed DEF OwnedInv
    <3> QED BY <2>1, <3>1, <3>2
  <2> QED BY <2>1 DEF OwnedInv
<1>5. Queued' = Queued /\ feed' = feed
  BY DEF Queued
<1>6. HeadlineInv' /\ HeadlinesOfSession'
  <2>1. ASSUME NEW h \in Queued \union feed
        PROVE  /\ h.req <= next_req_id'
               /\ h.article = NoArticle \/ h.article \in session.seen_article_ids
               /\ tws_asked'[h.req].subject = session.symbol
    <3>1. h.req \in ReqIds /\ h.req <= next_req_id
      BY Typed DEF HeadlineInv
    <3> QED BY <1>1, <1>3, <3>1 DEF HeadlineInv, HeadlinesOfSession
  <2> QED BY <1>5, <2>1 DEF HeadlineInv, HeadlinesOfSession
<1>7. ProbingInv' /\ NoRepeatedHeadline'
  BY <1>5 DEF ProbingInv, NoRepeatedHeadline
<1>8. StageHasRequest'
  <2>1. \A id, o : Required(id, o)' => Waiting(id, o)'
    BY <1>1 DEF Waiting
  <2> QED BY <2>1 DEF StageHasRequest, Required, Waiting
<1> QED BY <1>2, <1>4, <1>6, <1>7, <1>8

\* contractDetailsEnd of a ticker.
LEMMA ResolvedInv ==
    ASSUME IInv, NEW id \in ReqIds, tws_open[id] > 0, IsResolving(id), Resolved(id),
           UNCHANGED <<feed, providerVars, linkVars>>
    PROVE  IInv'
<1> USE DEF IInv
<1>1. /\ session.stage = "kResolving" /\ session.con_id \in {"", session.symbol}
      /\ session \in Session
  BY TypeParts DEF IsResolving, OwnedInv
<1>2. CASE session.con_id # "" /\ have_codes
  <2> DEFINE ids == NextReqIds(1)
  <2>1. /\ Allocate(1)
        /\ session' = [session EXCEPT !.hist_req_id = NextReqId,
                                      !.stage = "kFetchingHist"]
        /\ Send({NextReqId}, "history", session.con_id, Finished(id))
        /\ UNCHANGED <<status_queue, headlines, tws_failed, tws_live>>
    BY <1>2 DEF Resolved
  <2>2. /\ ids \subseteq ReqIds /\ NextReqId \in ids /\ ids = {NextReqId}
        /\ \A x \in ids : x > next_req_id /\ x <= next_req_id' /\ x # NoReqId
        /\ next_req_id' \in Nat /\ next_req_id <= next_req_id'
    <3>1. NoReqId \notin ReqIds
      BY DEF ReqIds, NoReqId, InitialReqId
    <3> QED BY <2>1, <3>1, NextIds, TypeParts
  <2>3. Send(ids, "history", session.symbol, Finished(id)) /\ "history" \in Operations
    BY <1>1, <1>2, <2>1, <2>2 DEF Operations
  <2>4. /\ session' \in Session /\ session'.stage = "kFetchingHist"
        /\ session'.hist_req_id = NextReqId
        /\ session'.symbol = session.symbol /\ session'.con_id = session.con_id
        /\ session'.seen_article_ids = session.seen_article_ids
        /\ session'.details_req_id = session.details_req_id
        /\ session'.ticker_stream_req_id = session.ticker_stream_req_id
        /\ session'.broadtape_probe_ids = session.broadtape_probe_ids
        /\ session'.broadtape_stream_req_ids = session.broadtape_stream_req_ids
    BY <1>1, <2>1, <2>2 DEF Session, Stages, MaybeId
  <2>5. SessionIds' \subseteq SessionIds \union ids
    BY <2>2, <2>4 DEF SessionIds
  <2>6. \A x, o : Required(x, o)' => x \in ids /\ o = "history"
    BY <2>2, <2>4 DEF Required
  <2>7. NoStreamLeak'
    BY <1>1, <2>1, <2>4 DEF NoStreamLeak
  <2> HIDE DEF ids, IInv
  <2>8. status_queue' \subseteq StatusKinds /\ tws_live' \subseteq ReqIds
    BY <2>1, TypeParts DEF IInv
  <2>9. /\ UNCHANGED <<headlines, feed, providerVars, linkVars, tws_failed>>
        /\ session'.stage \notin {"kIdle", "kBroadtapeDiscover"}
        /\ ids \in SUBSET ReqIds /\ session.stage # "kIdle" /\ tws_open[id] > 0
    BY <1>1, <2>1, <2>2, <2>4
  <2> QED BY <2>2, <2>3, <2>4, <2>5, <2>6, <2>7, <2>8, <2>9, AdvanceInv
<1>3. CASE ~(session.con_id # "" /\ have_codes)
  <2>1. /\ session' = [session EXCEPT !.stage = "kIdle"]
        /\ tws_open' = Finished(id)
        /\ UNCHANGED <<next_req_id, tws_asked, headlines, tws_failed, tws_live>>
        /\ status_queue' \subseteq StatusKinds
    BY <1>3, TypeParts DEF Resolved, EmitStatus, StatusKinds
  <2>2. /\ session' \in Session /\ session'.stage = "kIdle"
        /\ session'.symbol = session.symbol
        /\ session'.seen_article_ids = session.seen_article_ids
        /\ session'.ticker_stream_req_id = session.ticker_stream_req_id
        /\ session'.broadtape_stream_req_ids = session.broadtape_stream_req_ids
    BY <1>1, <2>1 DEF Session, Stages
  <2>3. TypeOK'
    BY <2>1, <2>2, FinishedTyped, LinkKept, TypeParts, TypePartsNext DEF AskedTyped
  <2>4. Queued' = Queued /\ feed' = feed
    BY <2>1 DEF Queued
  <2>5. CounterInv' /\ OwnedInv' /\ ProbingInv' /\ HeadlinesOfSession' /\ StageHasRequest'
    BY <2>1, <2>2 DEF CounterInv, OwnedInv, ProbingInv, HeadlinesOfSession, StageHasRequest
  <2>6. HeadlineInv' /\ NoRepeatedHeadline'
    BY <1>1, <2>1, <2>2, <2>4 DEF HeadlineInv, NoRepeatedHeadline
  <2>7. NoStreamLeak'
    BY <1>1, <2>1, <2>2 DEF NoStreamLeak
  <2> QED BY <2>3, <2>5, <2>6, <2>7
<1> QED BY <1>2, <1>3

\* HandleBroadtapeProbeFinished(): more probes to come, the fallback, or streams.
LEMMA BroadtapeFinishedInv ==
    ASSUME IInv, NEW id \in ReqIds, tws_open[id] > 0, IsProbing(id),
           BroadtapeFinished(id), UNCHANGED <<feed, providerVars, linkVars>>
    PROVE  IInv'
<1> DEFINE found == Cardinality(session.broadtape_contracts)
           streams == NextReqIds(found)
<1> USE DEF IInv
<1>1. /\ session.stage = "kBroadtapeDiscover" /\ id \in session.broadtape_probe_ids
      /\ headlines = <<>> /\ feed = {} /\ session.symbol = "MARKET"
      /\ session.broadtape_stream_req_ids = {}
      /\ tws_live = {}
      /\ session \in Session /\ found \in Nat
  BY Typed, TypeParts, IdsAreFinite DEF IsProbing, ProbingInv, NoStreamLeak
<1>2. Finished(id) \in [ReqIds -> Nat]
  BY FinishedTyped
<1>3. CASE ProbesLeft(id) # {}
  <2>1. /\ session' = [session EXCEPT !.broadtape_probe_ids = ProbesLeft(id)]
        /\ tws_open' = Finished(id)
        /\ UNCHANGED <<next_req_id, status_queue, headlines, tws_asked,
                       tws_failed, tws_live>>
    BY <1>3 DEF BroadtapeFinished, contextVars
  <2>2. /\ session' \in Session /\ session'.stage = "kBroadtapeDiscover"
        /\ session'.symbol = "MARKET" /\ session'.con_id = session.con_id
        /\ session'.details_req_id = session.details_req_id
        /\ session'.hist_req_id = session.hist_req_id
        /\ session'.ticker_stream_req_id = session.ticker_stream_req_id
        /\ session'.broadtape_stream_req_ids = {}
        /\ session'.broadtape_probe_ids = session.broadtape_probe_ids \ {id}
    BY <1>1, <2>1 DEF Session, ProbesLeft
  <2>3. TypeOK' /\ CounterInv'
    BY <1>2, <2>1, <2>2, LinkKept, TypeParts, TypePartsNext DEF AskedTyped, CounterInv
  <2>4. SessionIds' \subseteq SessionIds
    BY <1>1, <2>2 DEF SessionIds
  <2>5. OwnedInv'
    BY <1>1, <2>1, <2>2, <2>4 DEF OwnedInv
  <2>6. headlines' = <<>> /\ feed' = {}
    BY <1>1, <2>1
  <2>7. HeadlineInv' /\ HeadlinesOfSession' /\ NoRepeatedHeadline'
    BY <2>6, NothingShown
  <2>8. ProbingInv' /\ NoStreamLeak'
    BY <1>1, <2>1, <2>2, <2>6 DEF ProbingInv, NoStreamLeak
  <2>9. StageHasRequest'
    <3>1. ASSUME NEW x \in session'.broadtape_probe_ids
          PROVE  /\ x # NoReqId /\ tws_asked'[x].op = "probe"
                 /\ tws_open'[x] > 0 \/ x \in tws_failed'
      <4>1. x \in session.broadtape_probe_ids /\ x # id /\ x \in ReqIds
        BY <2>2, <3>1, Typed
      <4>2. Required(x, "probe")
        BY <1>1, <4>1 DEF Required
      <4>3. Waiting(x, "probe")
        BY <4>2, StageWaits
      <4> QED BY <2>1, <4>1, <4>3, FinishedTyped DEF Waiting
    <3>2. session'.broadtape_probe_ids # {}
      BY <1>3, <2>2 DEF ProbesLeft
    <3> QED BY <2>2, <3>1, <3>2 DEF StageHasRequest
  <2> QED BY <2>3, <2>5, <2>7, <2>8, <2>9
<1>4. CASE ProbesLeft(id) = {} /\ found = 0
  <2>1. /\ StartTickerSession("SPY", Finished(id)) /\ feed' = {}
        /\ status_queue' \subseteq StatusKinds
    BY <1>1, <1>4, TypeParts DEF BroadtapeFinished, EmitStatus, StatusKinds
  <2>2. "SPY" \in Subjects
    BY DEF Subjects
  <2> QED BY <1>2, <2>1, <2>2, StartTickerInv
<1>5. CASE ProbesLeft(id) = {} /\ found # 0
  <2>1. /\ Allocate(found)
        /\ session' = [session EXCEPT
                !.stage = "kBroadtapeStream", !.broadtape_probe_ids = {},
                !.broadtape_stream_req_ids = @ \union streams]
        /\ EmitStatus({"Streaming BroadTape"})
        /\ Send(streams, "stream", "MARKET", Finished(id))
        /\ tws_live' = tws_live \union streams
        /\ UNCHANGED <<headlines, tws_failed>>
    BY <1>5 DEF BroadtapeFinished
  <2>2. /\ streams \subseteq ReqIds
        /\ \A x \in streams : x > next_req_id /\ x <= next_req_id' /\ x # NoReqId
        /\ next_req_id' \in Nat /\ next_req_id <= next_req_id'
    <3>1. NoReqId \notin ReqIds
      BY DEF ReqIds, NoReqId, InitialReqId
    <3> QED BY <1>1, <2>1, <3>1, NextIds, TypeParts
  <2> HIDE DEF streams, found
  <2>3. /\ session' \in Session /\ session'.stage = "kBroadtapeStream"
        /\ session'.symbol = session.symbol /\ session'.con_id = session.con_id
        /\ session'.seen_article_ids = session.seen_article_ids
        /\ session'.details_req_id = session.details_req_id
        /\ session'.hist_req_id = session.hist_req_id
        /\ session'.ticker_stream_req_id = session.ticker_stream_req_id
        /\ session'.broadtape_probe_ids = {}
        /\ session'.broadtape_stream_req_ids = streams
    BY <1>1, <2>1, <2>2 DEF Session, Stages
  <2>4. SessionIds' \subseteq SessionIds \union streams
    BY <2>3 DEF SessionIds
  <2>5. \A x, o : Required(x, o)' => x \in streams /\ o = "stream"
    BY <2>3 DEF Required
  <2>6. NoStreamLeak' /\ tws_live' \subseteq ReqIds
    BY <1>1, <2>1, <2>2, <2>3 DEF NoStreamLeak
  <2>7. /\ status_queue' \subseteq StatusKinds /\ "stream" \in Operations
        /\ Send(streams, "stream", session.symbol, Finished(id))
    BY <1>1, <2>1, TypeParts DEF EmitStatus, StatusKinds, Operations
  <2> HIDE DEF IInv
  <2> QED BY <1>1, <2>1, <2>2, <2>3, <2>4, <2>5, <2>6, <2>7, AdvanceInv
<1> QED BY <1>3, <1>4, <1>5

\* An end the session does not wait for.
LEMMA EndedInv ==
    ASSUME IInv, NEW id \in ReqIds, tws_open[id] > 0, ~Required(id, tws_asked[id].op),
           tws_open' = Finished(id),
           UNCHANGED <<next_req_id, status_queue, session, headlines, feed, tws_asked,
                       tws_failed, tws_live, providerVars, linkVars>>
    PROVE  IInv'
<1>1. TypeOK'
  BY FinishedTyped, LinkKept, TypeParts, TypePartsNext DEF IInv, AskedTyped
<1>2. ASSUME NEW x, NEW o, Required(x, o), Waiting(x, o)
      PROVE  tws_open'[x] > 0 \/ x \in tws_failed'
  <2>1. x # id /\ x \in ReqIds
    BY <1>2, RequiredIsOwned DEF Waiting, IInv
  <2> QED BY <1>2, <2>1, FinishedTyped DEF Waiting, IInv
<1> QED BY <1>1, <1>2, QuietInv

LEMMA OnContractDetailsEndInv ==
    ASSUME IInv, NEW id \in ReqIds, OnContractDetailsEnd(id) PROVE IInv'
<1>1. /\ tws_open[id] > 0 /\ tws_asked[id].op \in {"details", "probe"}
      /\ UNCHANGED <<feed, providerVars, linkVars>>
  BY DEF OnContractDetailsEnd, Answering
<1>2. CASE IsResolving(id)
  <2>1. ~IsProbing(id)
    BY <1>2 DEF IsProbing, IsResolving
  <2>2. Resolved(id)
    BY <1>2, <2>1 DEF OnContractDetailsEnd
  <2> QED BY <1>1, <1>2, <2>2, ResolvedInv
<1>3. CASE IsProbing(id)
  <2>1. ~IsResolving(id)
    BY <1>3 DEF IsProbing, IsResolving
  <2> QED BY <1>1, <1>3, <2>1, BroadtapeFinishedInv DEF OnContractDetailsEnd
<1>4. CASE ~IsResolving(id) /\ ~IsProbing(id)
  <2>1. ~Required(id, tws_asked[id].op)
    BY <1>1, <1>4 DEF Required, IsResolving, IsProbing
  <2>2. /\ tws_open' = Finished(id)
        /\ UNCHANGED <<next_req_id, status_queue, session, headlines, tws_asked,
                       tws_failed, tws_live>>
    BY <1>4 DEF OnContractDetailsEnd, contextVars
  <2> QED BY <1>1, <2>1, <2>2, EndedInv
<1> QED BY <1>2, <1>3, <1>4

LEMMA OnHistoricalNewsEndInv ==
    ASSUME IInv, NEW id \in ReqIds, OnHistoricalNewsEnd(id) PROVE IInv'
<1>1. /\ tws_open[id] > 0 /\ tws_asked[id].op = "history"
      /\ UNCHANGED <<headlines, feed, providerVars, linkVars, tws_failed>>
  BY DEF OnHistoricalNewsEnd, Answering
<1>2. CASE IsFetching(id)
  <2> DEFINE ids == NextReqIds(1)
  <2> USE DEF IInv
  <2>1. /\ Allocate(1)
        /\ session' = [session EXCEPT !.ticker_stream_req_id = NextReqId,
                                      !.stage = "kStreamingTicker"]
        /\ EmitStatus({"Historical loaded"})
        /\ Send({NextReqId}, "stream", session.symbol, Finished(id))
        /\ tws_live' = tws_live \union {NextReqId}
    BY <1>2 DEF OnHistoricalNewsEnd
  <2>2. /\ ids \subseteq ReqIds /\ NextReqId \in ids /\ ids = {NextReqId}
        /\ \A x \in ids : x > next_req_id /\ x <= next_req_id' /\ x # NoReqId
        /\ next_req_id' \in Nat /\ next_req_id <= next_req_id'
    <3>1. NoReqId \notin ReqIds
      BY DEF ReqIds, NoReqId, InitialReqId
    <3> QED BY <2>1, <3>1, NextIds, TypeParts
  <2>3. session.stage = "kFetchingHist" /\ session \in Session /\ tws_live = {}
    BY <1>2, TypeParts DEF IsFetching, NoStreamLeak
  <2>4. /\ session' \in Session /\ session'.stage = "kStreamingTicker"
        /\ session'.ticker_stream_req_id = NextReqId
        /\ session'.symbol = session.symbol /\ session'.con_id = session.con_id
        /\ session'.seen_article_ids = session.seen_article_ids
        /\ session'.details_req_id = session.details_req_id
        /\ session'.hist_req_id = session.hist_req_id
        /\ session'.broadtape_probe_ids = session.broadtape_probe_ids
        /\ session'.broadtape_stream_req_ids = session.broadtape_stream_req_ids
    BY <2>1, <2>2, <2>3 DEF Session, Stages, MaybeId
  <2>5. SessionIds' \subseteq SessionIds \union ids
    BY <2>2, <2>4 DEF SessionIds
  <2>6. \A x, o : Required(x, o)' => x \in ids /\ o = "stream"
    BY <2>2, <2>4 DEF Required
  <2>7. NoStreamLeak' /\ tws_live' \subseteq ReqIds
    BY <2>1, <2>2, <2>3, <2>4 DEF NoStreamLeak
  <2>8. /\ status_queue' \subseteq StatusKinds /\ "stream" \in Operations
        /\ Send(ids, "stream", session.symbol, Finished(id))
    BY <2>1, <2>2, TypeParts DEF EmitStatus, StatusKinds, Operations
  <2>9. /\ ids \in SUBSET ReqIds /\ session.stage # "kIdle"
        /\ \A x \in ids : x > next_req_id /\ x <= next_req_id' /\ x # NoReqId
        /\ next_req_id' \in Nat /\ next_req_id <= next_req_id'
    BY <2>2, <2>3
  <2> HIDE DEF ids, IInv
  <2> QED BY <1>1, <2>4, <2>5, <2>6, <2>7, <2>8, <2>9, AdvanceInv
<1>3. CASE ~IsFetching(id)
  <2>1. ~Required(id, tws_asked[id].op)
    BY <1>1, <1>3 DEF Required, IsFetching
  <2>2. /\ tws_open' = Finished(id)
        /\ UNCHANGED <<next_req_id, status_queue, session, tws_asked, tws_live>>
    BY <1>3 DEF OnHistoricalNewsEnd, contextVars
  <2> QED BY <1>1, <2>1, <2>2, EndedInv
<1> QED BY <1>2, <1>3

-----------------------------------------------------------------------------
(* Headlines. *)

\* A headline of the session's own id that the session has not seen yet.
LEMMA QueueInv ==
    ASSUME IInv, NEW id \in ReqIds, NEW a \in Articles \union {NoArticle},
           IsFetching(id) \/ IsStreaming(id), Queue(id, a)
    PROVE  IInv'
<1> DEFINE new == [req |-> id, article |-> a]
<1> USE DEF IInv
<1>1. /\ UNCHANGED <<next_req_id, status_queue, feed, providerVars, linkVars,
                     tws_asked, tws_open, tws_failed, tws_live>>
      /\ session' = [session EXCEPT !.seen_article_ids = @ \union ({a} \ {NoArticle})]
      /\ headlines' = IF IsNew(a) THEN Append(headlines, new) ELSE headlines
  BY DEF Queue, contextVars, requestVars
<1>2. /\ session.stage \notin {"kIdle", "kBroadtapeDiscover"}
      /\ id <= next_req_id /\ tws_asked[id].subject = session.symbol
  <2>1. session.stage \notin {"kIdle", "kBroadtapeDiscover"} /\ id \in SessionIds
    <3>1. NoReqId \notin ReqIds
      BY DEF ReqIds, NoReqId, InitialReqId
    <3> QED BY <3>1 DEF IsFetching, IsStreaming, SessionIds
  <2> QED BY <2>1 DEF OwnedInv
<1>3. new \in Headline /\ new.req = id /\ new.article = a
  BY DEF Headline
<1> HIDE DEF new
<1>4. /\ session' \in Session /\ session'.stage = session.stage
      /\ session'.symbol = session.symbol /\ session'.con_id = session.con_id
      /\ session'.details_req_id = session.details_req_id
      /\ session'.hist_req_id = session.hist_req_id
      /\ session'.ticker_stream_req_id = session.ticker_stream_req_id
      /\ session'.broadtape_probe_ids = session.broadtape_probe_ids
      /\ session'.broadtape_stream_req_ids = session.broadtape_stream_req_ids
      /\ session'.seen_article_ids = session.seen_article_ids \union ({a} \ {NoArticle})
  <2>1. session \in Session
    BY TypeParts
  <2> QED BY <1>1, <2>1 DEF Session
<1>5. headlines \in Seq(Headline)
  BY TypeParts
<1>6. TypeOK'
  <2>1. headlines' \in Seq(Headline)
    BY <1>1, <1>3, <1>5
  <2> QED BY <1>1, <1>4, <2>1, LinkKept, TypeParts, TypePartsNext DEF AskedTyped
<1>7. CounterInv' /\ OwnedInv' /\ ProbingInv' /\ NoStreamLeak'
  BY <1>1, <1>2, <1>4 DEF CounterInv, OwnedInv, SessionIds, ProbingInv, NoStreamLeak
<1>8. StageHasRequest'
  BY <1>1, <1>4 DEF StageHasRequest
<1>9. \A h \in Queued \union feed :
        h.article = NoArticle \/ h.article \in session.seen_article_ids
  BY <1>2 DEF HeadlineInv
<1>10. CASE ~IsNew(a)
  <2>1. headlines' = headlines /\ Queued' = Queued /\ feed' = feed
    BY <1>1, <1>10 DEF Queued
  <2>2. HeadlineInv' /\ HeadlinesOfSession' /\ NoRepeatedHeadline'
    BY <1>1, <1>4, <1>9, <2>1 DEF HeadlineInv, HeadlinesOfSession, NoRepeatedHeadline
  <2> QED BY <1>6, <1>7, <1>8, <2>2
<1>11. CASE IsNew(a)
  <2>1. /\ Len(headlines) \in Nat
        /\ DOMAIN headlines = 1..Len(headlines)
        /\ DOMAIN headlines' = 1..(Len(headlines) + 1)
        /\ \A i \in DOMAIN headlines : headlines'[i] = headlines[i]
        /\ headlines'[Len(headlines) + 1] = new
    BY <1>1, <1>3, <1>5, <1>11
  <2>2. \A i \in DOMAIN headlines' :
          i \in DOMAIN headlines \/ (i = Len(headlines) + 1 /\ headlines'[i] = new)
    BY <2>1
  <2>3. Queued' \subseteq Queued \union {new} /\ feed' = feed
    BY <1>1, <2>1, <2>2 DEF Queued
  <2>4. \A h \in Queued \union feed : ~SameArticle(h, new) /\ ~SameArticle(new, h)
    BY <1>3, <1>9, <1>11 DEF SameArticle, IsNew
  <2>5. HeadlineInv' /\ HeadlinesOfSession'
    BY <1>1, <1>2, <1>3, <1>4, <1>9, <2>3 DEF HeadlineInv, HeadlinesOfSession
  <2>6. NoRepeatedHeadline'
    <3>1. ASSUME NEW i \in DOMAIN headlines', NEW j \in DOMAIN headlines', i # j
          PROVE  ~SameArticle(headlines'[i], headlines'[j])
      <4>1. CASE i \in DOMAIN headlines /\ j \in DOMAIN headlines
        BY <2>1, <3>1, <4>1 DEF NoRepeatedHeadline
      <4>2. CASE i \notin DOMAIN headlines
        <5>1. headlines'[i] = new /\ j \in DOMAIN headlines
          BY <2>2, <3>1, <4>2
        <5>2. headlines'[j] \in Queued
          BY <2>1, <5>1 DEF Queued
        <5> QED BY <2>4, <5>1, <5>2
      <4>3. CASE j \notin DOMAIN headlines
        <5>1. headlines'[j] = new /\ i \in DOMAIN headlines
          BY <2>2, <3>1, <4>3
        <5>2. headlines'[i] \in Queued
          BY <2>1, <5>1 DEF Queued
        <5> QED BY <2>4, <5>1, <5>2
      <4> QED BY <4>1, <4>2, <4>3
    <3>2. \A g \in Queued', h \in feed' : ~SameArticle(g, h)
      BY <2>3, <2>4 DEF NoRepeatedHeadline
    <3> QED BY <3>1, <3>2 DEF NoRepeatedHeadline, SameArticle
  <2> QED BY <1>6, <1>7, <1>8, <2>5, <2>6
<1> QED BY <1>10, <1>11

LEMMA DrainHeadlinesInv == ASSUME IInv, DrainHeadlines PROVE IInv'
<1> USE DEF IInv
<1>1. /\ feed' = feed \union Queued /\ headlines' = <<>>
      /\ UNCHANGED <<next_req_id, status_queue, session, providerVars, linkVars,
                     tws_asked, tws_open, tws_failed, tws_live>>
  BY DEF DrainHeadlines, contextVars, requestVars, Queued
<1>2. Queued' = {} /\ DOMAIN headlines' = {}
  <2>1. DOMAIN headlines' = {}
    BY <1>1
  <2> QED BY <2>1 DEF Queued
<1>3. TypeOK'
  <2>1. feed' \subseteq Headline
    <3>1. headlines \in Seq(Headline) /\ feed \subseteq Headline
      BY TypeParts
    <3>2. Queued \subseteq Headline
      BY <3>1 DEF Queued
    <3> QED BY <1>1, <3>1, <3>2
  <2> QED BY <1>1, <2>1, NothingShown, LinkKept, TypeParts, TypePartsNext DEF AskedTyped
<1>4. CounterInv' /\ OwnedInv' /\ NoStreamLeak' /\ StageHasRequest'
  BY <1>1 DEF CounterInv, OwnedInv, SessionIds, NoStreamLeak, StageHasRequest
<1>5. ProbingInv'
  BY <1>1 DEF ProbingInv, DrainHeadlines
<1>6. HeadlineInv' /\ HeadlinesOfSession' /\ NoRepeatedHeadline'
  BY <1>1, <1>2 DEF HeadlineInv, HeadlinesOfSession, NoRepeatedHeadline
<1> QED BY <1>3, <1>4, <1>5, <1>6

-----------------------------------------------------------------------------
(* The other steps. *)

\* CancelNews() and Disconnect() leave no session, and nothing to ask for one.
LEMMA EndSessionInv == ASSUME IInv, CancelNews \/ Disconnect PROVE IInv'
<1> USE DEF IInv
<1>1. /\ session' = NoSession /\ tws_live' = {} /\ tws_failed' = {}
      /\ UNCHANGED <<next_req_id, status_queue>>
      /\ \/ headlines' = headlines /\ feed' = {}
         \/ headlines' = <<>> /\ feed' = feed
  BY StreamsCancelled DEF CancelNews, Disconnect, contextVars
<1>2. /\ session' \in Session /\ session'.stage = "kIdle" /\ session'.symbol = ""
      /\ session'.ticker_stream_req_id = NoReqId
  <2>1. "kIdle" \in Stages /\ "" \in Subjects
    BY DEF Stages, Subjects
  <2>2. NoSession.ticker_stream_req_id = NoReqId
    BY DEF NoSession, NewSession
  <2> QED BY <1>1, <2>1, <2>2, NewSessionTyped DEF NoSession
<1>3. AskedTyped' /\ tws_open' \in [ReqIds -> Nat] /\ LinkTyped'
  <2>1. CASE CancelNews
    BY <2>1, LinkKept, TypeParts DEF CancelNews, AskedTyped
  <2>2. CASE Disconnect
    <3>1. NothingAsked \in [ReqIds -> [op : Operations, subject : Subjects]]
      BY DEF NothingAsked, Operations, Subjects
    <3>2. NothingOpen \in [ReqIds -> Nat]
      BY DEF NothingOpen
    <3> QED BY <2>2, <3>1, <3>2 DEF Disconnect, AskedTyped, LinkTyped
  <2> QED BY <2>1, <2>2
<1>4. TypeOK'
  BY <1>1, <1>2, <1>3, NothingShown, TypeParts, TypePartsNext
<1>5. Queued' \union feed' \subseteq Queued \union feed
  <2>1. CASE headlines' = headlines /\ feed' = {}
    BY <2>1 DEF Queued
  <2>2. CASE headlines' = <<>> /\ feed' = feed
    <3>1. DOMAIN headlines' = {}
      BY <2>2
    <3> QED BY <2>2, <3>1 DEF Queued
  <2> QED BY <1>1, <2>1, <2>2
<1>6. CounterInv' /\ OwnedInv' /\ ProbingInv' /\ HeadlinesOfSession' /\ NoStreamLeak'
      /\ StageHasRequest'
  BY <1>1, <1>2 DEF CounterInv, OwnedInv, ProbingInv, HeadlinesOfSession,
     NoStreamLeak, StageHasRequest
<1>7. HeadlineInv'
  BY <1>1, <1>2, <1>5 DEF HeadlineInv
<1>8. NoRepeatedHeadline'
  <2>1. CASE headlines' = headlines /\ feed' = {}
    BY <2>1 DEF NoRepeatedHeadline, Queued
  <2>2. CASE headlines' = <<>> /\ feed' = feed
    <3>1. DOMAIN headlines' = {}
      BY <2>2
    <3>2. Queued' = {}
      BY <3>1 DEF Queued
    <3> QED BY <3>1, <3>2 DEF NoRepeatedHeadline
  <2> QED BY <1>1, <2>1, <2>2
<1> QED BY <1>4, <1>6, <1>7, <1>8

\* The connection, the providers and the status queue do not touch the session;
\* nextValidId asks once more for the contract it waits for.
LEMMA LinkInv ==
    ASSUME IInv,
           \/ Connect \/ DrainStatus \/ OnReady
           \/ \E any \in BOOLEAN : OnNewsProviders(any)
           \/ UNCHANGED vars
    PROVE  IInv'
<1>1. /\ UNCHANGED <<next_req_id, session, headlines, feed, tws_asked, tws_failed,
                     tws_live>>
      /\ status_queue' \subseteq StatusKinds /\ LinkTyped'
      /\ tws_open' \in [ReqIds -> Nat]
      /\ \A id \in ReqIds : tws_open[id] > 0 => tws_open'[id] > 0
  <2>0. /\ tws_open \in [ReqIds -> Nat] /\ status_queue \subseteq StatusKinds
        /\ LinkTyped
    BY TypeParts DEF IInv
  <2>1. CASE Connect
    BY <2>0, <2>1 DEF Connect, contextVars, requestVars, LinkTyped
  <2>2. CASE DrainStatus
    BY <2>0, <2>2 DEF DrainStatus, DrainQueue, requestVars, providerVars, linkVars,
       LinkTyped
  <2>3. CASE OnReady
    <3>1. UNCHANGED <<next_req_id, status_queue, session, headlines, feed, tws_asked,
                      tws_failed, tws_live>>
      BY <2>3 DEF OnReady, contextVars
    <3>2. LinkTyped'
      BY <2>0, <2>3 DEF OnReady, LinkTyped
    <3>3. \/ tws_open' = tws_open
          \/ tws_open' = [tws_open EXCEPT ![session.details_req_id] = @ + 1]
      BY <2>3 DEF OnReady
    <3> QED BY <2>0, <3>1, <3>2, <3>3
  <2>4. CASE \E any \in BOOLEAN : OnNewsProviders(any)
    BY <2>0, <2>4 DEF OnNewsProviders, contextVars, requestVars, LinkTyped
  <2>5. CASE UNCHANGED vars
    BY <2>0, <2>5 DEF vars, contextVars, requestVars, providerVars, linkVars, LinkTyped
  <2> QED BY <2>1, <2>2, <2>3, <2>4, <2>5
<1>2. TypeOK'
  BY <1>1, TypeParts, TypePartsNext DEF IInv, AskedTyped
<1>3. ASSUME NEW x, NEW o, Required(x, o), Waiting(x, o)
      PROVE  tws_open'[x] > 0 \/ x \in tws_failed'
  <2>1. x \in ReqIds
    BY <1>3, RequiredIsOwned DEF Waiting, IInv
  <2> QED BY <1>1, <1>3, <2>1 DEF Waiting
<1> QED BY <1>1, <1>2, <1>3, QuietInv

\* A contract of the session's own request is that of its symbol.
LEMMA OnContractDetailsInv ==
    ASSUME IInv, NEW id \in ReqIds, OnContractDetails(id) PROVE IInv'
<1> USE DEF IInv
<1>1. UNCHANGED <<next_req_id, status_queue, headlines, feed, providerVars, linkVars,
                  tws_asked, tws_open, tws_failed, tws_live>>
  BY DEF OnContractDetails, contextVars, requestVars
<1>2. PICK con, found :
        /\ session' = [session EXCEPT !.con_id = con, !.broadtape_contracts = found]
        /\ con \in Subjects /\ found \in SUBSET ReqIds
        /\ con = session.con_id \/ con = session.symbol
  <2> DEFINE con == IF IsResolving(id) /\ session.con_id = ""
                    THEN tws_asked[id].subject ELSE session.con_id
             found == IF IsProbing(id) THEN session.broadtape_contracts \union {id}
                      ELSE session.broadtape_contracts
  <2>1. session' = [session EXCEPT !.con_id = con, !.broadtape_contracts = found]
    BY DEF OnContractDetails
  <2>2. found \in SUBSET ReqIds
    BY Typed
  <2>3. con = session.con_id \/ con = session.symbol
    <3>1. CASE IsResolving(id) /\ session.con_id = ""
      <4>1. NoReqId \notin ReqIds
        BY DEF ReqIds, NoReqId, InitialReqId
      <4>2. id \in SessionIds /\ session.stage # "kIdle"
        BY <3>1, <4>1 DEF IsResolving, SessionIds
      <4> QED BY <3>1, <4>2 DEF OwnedInv
    <3>2. CASE ~(IsResolving(id) /\ session.con_id = "")
      BY <3>2
    <3> QED BY <3>1, <3>2
  <2>4. con \in Subjects
    <3>1. session.con_id \in Subjects /\ session.symbol \in Subjects
      BY Typed
    <3> HIDE DEF con
    <3> QED BY <2>3, <3>1
  <2> HIDE DEF con, found
  <2> QED BY <2>1, <2>2, <2>3, <2>4
<1>3. /\ session' \in Session /\ session'.stage = session.stage
      /\ session'.symbol = session.symbol /\ session'.con_id = con
      /\ session'.details_req_id = session.details_req_id
      /\ session'.hist_req_id = session.hist_req_id
      /\ session'.ticker_stream_req_id = session.ticker_stream_req_id
      /\ session'.broadtape_probe_ids = session.broadtape_probe_ids
      /\ session'.broadtape_stream_req_ids = session.broadtape_stream_req_ids
      /\ session'.seen_article_ids = session.seen_article_ids
  <2>1. session \in Session
    BY TypeParts
  <2> QED BY <1>2, <2>1 DEF Session
<1>4. TypeOK'
  BY <1>1, <1>3, LinkKept, TypeParts, TypePartsNext DEF AskedTyped
<1>5. Queued' = Queued /\ feed' = feed
  BY <1>1 DEF Queued
<1>6. CounterInv' /\ OwnedInv'
  BY <1>1, <1>2, <1>3 DEF CounterInv, OwnedInv, SessionIds
<1>7. HeadlineInv' /\ ProbingInv' /\ HeadlinesOfSession' /\ NoRepeatedHeadline'
  BY <1>1, <1>3, <1>5 DEF HeadlineInv, ProbingInv, HeadlinesOfSession, NoRepeatedHeadline
<1>8. NoStreamLeak' /\ StageHasRequest'
  BY <1>1, <1>3 DEF NoStreamLeak, StageHasRequest
<1> QED BY <1>4, <1>6, <1>7, <1>8

LEMMA OnErrorInv == ASSUME IInv, NEW id \in ReqIds, NEW code \in Codes, OnError(id, code)
                    PROVE  IInv'
<1>1. tws_open[id] > 0 /\ UNCHANGED <<feed, providerVars, linkVars>>
  BY DEF OnError
<1>2. CASE code = 200 /\ IsProbing(id)
  BY <1>1, <1>2, BroadtapeFinishedInv DEF OnError
<1>3. CASE ~(code = 200 /\ IsProbing(id))
  <2>1. /\ EmitStatus({"ERR"}) /\ tws_open' = Finished(id)
        /\ tws_failed' = tws_failed \union ({id} \intersect SessionIds)
        /\ tws_live' = tws_live \ {id}
        /\ UNCHANGED <<next_req_id, session, headlines, tws_asked>>
    BY <1>3 DEF OnError
  <2>2. status_queue' \subseteq StatusKinds
    BY <2>1, TypeParts DEF EmitStatus, StatusKinds, IInv
  <2>3. TypeOK'
    BY <1>1, <2>1, <2>2, FinishedTyped, LinkKept, TypeParts, TypePartsNext
       DEF IInv, AskedTyped
  <2>4. ASSUME NEW x, NEW o, Required(x, o), Waiting(x, o)
        PROVE  tws_open'[x] > 0 \/ x \in tws_failed'
    <3>1. x \in SessionIds /\ x \in ReqIds
      BY <2>4, RequiredIsOwned DEF Waiting, IInv
    <3>2. CASE x = id
      BY <2>1, <3>1, <3>2
    <3>3. CASE x # id
      BY <2>1, <2>4, <3>1, <3>3, <1>1, FinishedTyped DEF Waiting, IInv
    <3> QED BY <3>2, <3>3
  <2> QED BY <1>1, <2>1, <2>3, <2>4, QuietInv
<1> QED BY <1>2, <1>3

LEMMA InitInv == Init => IInv
<1> SUFFICES ASSUME Init PROVE IInv
  OBVIOUS
<1>1. /\ session \in Session /\ session.stage = "kIdle"
      /\ session.ticker_stream_req_id = NoReqId
  <2>1. "kIdle" \in Stages /\ "" \in Subjects
    BY DEF Stages, Subjects
  <2>2. NoSession.ticker_stream_req_id = NoReqId
    BY DEF NoSession, NewSession
  <2> QED BY <2>1, <2>2, NewSessionTyped DEF Init, NoSession
<1>2. TypeOK
  <2>1. NothingAsked \in [ReqIds -> [op : Operations, subject : Subjects]]
    BY DEF NothingAsked, Operations, Subjects
  <2>2. NothingOpen \in [ReqIds -> Nat]
    BY DEF NothingOpen
  <2>3. next_req_id \in Nat /\ status_queue \subseteq StatusKinds
    BY DEF Init, ContextInit, InitialReqId
  <2>4. LinkTyped
    BY DEF Init, LinkTyped
  <2> QED BY <1>1, <2>1, <2>2, <2>3, <2>4, NothingShown, TypeParts DEF Init, AskedTyped
<1>3. DOMAIN headlines = {}
  BY DEF Init
<1>4. Queued = {} /\ feed = {} /\ tws_live = {}
  BY <1>3 DEF Queued, Init
<1>5. CounterInv
  BY DEF Init, ContextInit, CounterInv, InitialReqId
<1> QED BY <1>1, <1>2, <1>3, <1>4, <1>5 DEF IInv, OwnedInv, HeadlineInv, ProbingInv,
           NoStreamLeak, HeadlinesOfSession, NoRepeatedHeadline, StageHasRequest

LEMMA StepInv == IInv /\ [Next]_vars => IInv'
<1> SUFFICES ASSUME IInv, Next \/ UNCHANGED vars PROVE IInv'
  OBVIOUS
<1>1. ASSUME NEW id \in ReqIds, Callback(id) PROVE IInv'
  <2>1. CASE \E a \in Articles \union {NoArticle} : OnHistoricalNews(id, a)
    BY <2>1, QueueInv DEF OnHistoricalNews
  <2>2. CASE \E a \in Articles \union {NoArticle} : OnTickNews(id, a)
    BY <2>2, QueueInv DEF OnTickNews
  <2> QED BY <1>1, <2>1, <2>2, OnContractDetailsInv, OnContractDetailsEndInv,
             OnHistoricalNewsEndInv, OnErrorInv DEF Callback
<1> QED BY <1>1, LinkInv, EndSessionInv, SubscribeNewsInv, SubscribeGeneralNewsInv,
           DrainHeadlinesInv DEF Next

LEMMA InvHolds == Spec => []IInv
<1> QED BY InitInv, StepInv, PTL DEF Spec

-----------------------------------------------------------------------------
(* What holds of the service. *)

\* Every variable has its type; the ids handed out, up to as many again as there
\* are BroadTape sources, are ids of the instance.
THEOREM TypeCorrect == Spec => []TypeOK
<1>1. IInv => TypeOK
  BY DEF IInv
<1> QED BY <1>1, InvHolds, PTL

\* TWS streams nothing that the next CancelActive() would not cancel, and nothing
\* to a session that has not come to its streaming stage.
THEOREM StreamsAreOwned == Spec => []NoStreamLeak
<1>1. IInv => NoStreamLeak
  BY DEF IInv
<1> QED BY <1>1, InvHolds, PTL

\* Every headline queued or on display was requested for the session's symbol,
\* however late an answer to an abandoned session comes.
THEOREM HeadlinesAreOwned == Spec => []HeadlinesOfSession
<1>1. IInv => HeadlinesOfSession
  BY DEF IInv
<1> QED BY <1>1, InvHolds, PTL

\* No article is given to the screen twice, whichever source repeats it.
THEOREM ArticlesOnce == Spec => []NoRepeatedHeadline
<1>1. IInv => NoRepeatedHeadline
  BY DEF IInv
<1> QED BY <1>1, InvHolds, PTL

\* A session is never left waiting for nothing: TWS is working on what its stage
\* waits for, or has refused it.
THEOREM StagesWaitForTws == Spec => []StageHasRequest
<1>1. IInv => StageHasRequest
  BY DEF IInv
<1> QED BY <1>1, InvHolds, PTL

================================================================================
