----------------------------- MODULE NewsReader -------------------------------
(***************************************************************************)
(* Reading one article: RequestArticle() and OnNewsArticle() of            *)
(* services/news_service.cc, whose article_ is a single slot, and the      *)
(* reader mode of news_screen.cc, which asks for an article on a click and *)
(* polls the slot every frame while it is open.  SharedContext adds what   *)
(* concerns all services at once: Disconnect() and DrainStatus().          *)
(***************************************************************************)
EXTENDS ServiceContext

CONSTANTS
    Articles,   \* the articles of the feed
    NoArticle   \* none, or a body that is not there yet

ASSUME ReaderAssumption == NoArticle \notin Articles

VARIABLES
    is_connected,   \* IbkrClient::IsConnected()
    reading,        \* reading_: the reader is open
    reader_req_id,  \* reader_req_id_
    received,       \* reader_received_
    title,          \* the article reader_title_ is the headline of
    body,           \* the article in reader_body_text_
    article,        \* article_: the request it answers, or NoReqId
    tws_articles,   \* the article each request id was used for
    tws_open,       \* ids TWS has yet to answer
    tws_in_order,   \* TWS has answered in the order of the requests so far
    tws_failed      \* ids refused by TWS, or gone with their connection

readerVars == <<reading, reader_req_id, received, title, body>>
articleVars == <<next_req_id, status_queue, is_connected, readerVars, article,
                 tws_articles, tws_open, tws_in_order, tws_failed>>

MaybeArticle == Articles \union {NoArticle}
MaybeId == ReqIds \union {NoReqId}

ReaderTypeOK ==
    /\ {is_connected, reading, received, tws_in_order} \subseteq BOOLEAN
    /\ reader_req_id \in MaybeId /\ article \in MaybeId
    /\ title \in MaybeArticle /\ body \in MaybeArticle
    /\ tws_articles \in [ReqIds -> MaybeArticle]
    /\ tws_open \subseteq ReqIds /\ tws_failed \subseteq ReqIds

ReaderInit ==
    /\ ContextInit
    /\ is_connected = TRUE /\ reading = FALSE /\ reader_req_id = NoReqId
    /\ received = FALSE /\ title = NoArticle /\ body = NoArticle
    /\ article = NoReqId
    /\ tws_articles = [id \in ReqIds |-> NoArticle]
    /\ tws_open = {} /\ tws_failed = {} /\ tws_in_order = TRUE

-----------------------------------------------------------------------------
(* The screen. *)

\* A click on a headline (OnFeedEvent(); not while the reader is open), with
\* the RequestArticle() it makes.  While disconnected it only sets a status.
OpenArticle(a) ==
    /\ is_connected /\ ~reading
    /\ Allocate(1)
    /\ reading' = TRUE /\ reader_req_id' = NextReqId /\ received' = FALSE
    /\ title' = a /\ body' = NoArticle
    /\ tws_articles' = [tws_articles EXCEPT ![NextReqId] = a]
    /\ tws_open' = tws_open \union {NextReqId}
    /\ UNCHANGED <<status_queue, is_connected, article, tws_failed, tws_in_order>>

\* Escape (OnReaderEvent()): the request is not cancelled, its id is kept.
Escape ==
    /\ reading
    /\ reading' = FALSE /\ body' = NoArticle
    /\ UNCHANGED <<next_req_id, status_queue, is_connected, reader_req_id, received,
                   title, article, tws_articles, tws_open, tws_failed, tws_in_order>>

\* Another screen, and a new NewsScreen later: the slot survives CancelNews().
NewScreen ==
    /\ reader_req_id # NoReqId
    /\ reading' = FALSE /\ reader_req_id' = NoReqId /\ received' = FALSE
    /\ title' = NoArticle /\ body' = NoArticle
    /\ UNCHANGED <<next_req_id, status_queue, is_connected, article, tws_articles,
                   tws_open, tws_failed, tws_in_order>>

\* Does the drained article answer the request of the open reader?
AnyArticleVariant(req) == TRUE
IsWanted(req) == req = reader_req_id

\* OnFrame() in reader mode: DrainArticle() empties the slot in any case.
OnFrame ==
    /\ is_connected /\ reading /\ article # NoReqId
    /\ article' = NoReqId
    /\ IF IsWanted(article)
       THEN received' = TRUE /\ body' = tws_articles[article]
       ELSE UNCHANGED <<received, body>>
    /\ UNCHANGED <<next_req_id, status_queue, is_connected, reading, reader_req_id,
                   title, tws_articles, tws_open, tws_failed, tws_in_order>>

-----------------------------------------------------------------------------
(* The service and the connection. *)

KeepsFirstVariant(id) == IF article = NoReqId THEN id ELSE article
Overwrite(id) == id

\* newsArticle: stored whoever asked for it; an answer not drained yet is lost.
OnNewsArticle(id) ==
    /\ id \in tws_open
    /\ tws_in_order' = (tws_in_order /\ \A other \in tws_open : id <= other)
    /\ article' = Overwrite(id)
    /\ tws_open' = tws_open \ {id}
    /\ UNCHANGED <<next_req_id, status_queue, is_connected, readerVars, tws_articles,
                   tws_failed>>

OnArticleError(id) ==
    /\ id \in tws_open
    /\ tws_open' = tws_open \ {id}
    /\ tws_failed' = tws_failed \union {id}
    /\ EmitStatus({"ERR"})
    /\ UNCHANGED <<next_req_id, is_connected, readerVars, article, tws_articles,
                   tws_in_order>>

\* IbkrClient::Disconnect() with OnReset(); the screen is not told.
DisconnectReader ==
    /\ is_connected
    /\ is_connected' = FALSE
    /\ article' = NoReqId /\ tws_open' = {}
    /\ tws_failed' = tws_failed \union tws_open \union ({article} \ {NoReqId})
    /\ UNCHANGED <<next_req_id, status_queue, readerVars, tws_articles, tws_in_order>>

ConnectReader ==
    /\ ~is_connected
    /\ is_connected' = TRUE
    /\ UNCHANGED <<next_req_id, status_queue, readerVars, article, tws_articles,
                   tws_open, tws_failed, tws_in_order>>

ReaderNext ==
    \/ \E a \in Articles : OpenArticle(a)
    \/ Escape
    \/ NewScreen
    \/ OnFrame
    \/ \E id \in ReqIds : OnNewsArticle(id) \/ OnArticleError(id)
    \/ ConnectReader

\* TWS answers every request, one way or the other.
Answered(id) == OnNewsArticle(id) \/ OnArticleError(id)

-----------------------------------------------------------------------------
(* Properties. *)

\* The body under a title is that of the same article, whatever was opened and
\* left before and in whatever order the answers come.
BodyUnderItsTitle == body # NoArticle => reading /\ body = title

\* As long as TWS answers in order, an open reader shows its article in the end,
\* unless TWS refuses it or the connection goes: a newer answer may overwrite
\* one not drained yet, but no older answer does.
ReaderFills ==
    reading ~> \/ received \/ ~reading
               \/ reader_req_id \in tws_failed \/ ~tws_in_order

=============================================================================
