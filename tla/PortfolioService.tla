--------------------------- MODULE PortfolioService ---------------------------
(***************************************************************************)
(* services/portfolio_service.cc: three subscriptions for every managed    *)
(* account, and one more for every position that arrives.  As in the other *)
(* services each operation is one step under the Dispatcher's mutex.       *)
(*                                                                         *)
(* OnReady() has no action: it starts a pending subscription when accounts *)
(* are known, but OnManagedAccounts() has started it by then, which        *)
(* ActiveIsServed states (pending_subscribe is TRUE only without accounts).*)
(* What a row or a total amounts to is left out, the sums of Snapshot()    *)
(* with it; that there is one, and whose, is kept.                         *)
(***************************************************************************)
EXTENDS ServiceContext

CONSTANTS
    Accounts,   \* the accounts, numbered in the order std::sort gives their names
    ConIds,     \* contract ids of positions
    NoConId     \* the requests that are not about one position

ASSUME PortfolioAssumption ==
    Accounts \subseteq Nat /\ IsFiniteSet(Accounts) /\ NoConId \notin ConIds

VARIABLES
    connected,  \* IbkrClient is connected
    portfolio,  \* the fields of the service, named as in the class
    tws         \* what TWS knows of this connection

contextVars == <<next_req_id, status_queue>>
vars == <<contextVars, connected, portfolio, tws>>

\* acct_update_ids_, pos_multi_ids_, pnl_ids_ (in the order Start() asks), and
\* pnl_single_ids_.
StartKinds == <<"account", "positions", "pnl">>
Kinds == {"account", "positions", "pnl", "pnl_single"}
RequestRecord ==
    [id : ReqIds, kind : Kinds, account : Accounts, con : ConIds \union {NoConId}]
Keys == [account : Accounts, con : ConIds]

Portfolio == [
    managed_accounts : SUBSET Accounts,
    active : BOOLEAN, pending_subscribe : BOOLEAN,
    owned : SUBSET RequestRecord,   \* the four maps from request id to account
    positions : [Keys -> {"none", "held", "valued"}],   \* rows; with a P&L or not
    account_totals : SUBSET Accounts,       \* the accounts that have values
    account_updates_done : SUBSET Accounts, positions_done : SUBSET Accounts]
Tws == [
    named : BOOLEAN,                \* managedAccounts has been sent
    asked : SUBSET RequestRecord,   \* the requests made
    live : SUBSET ReqIds,           \* the subscriptions TWS is serving
    ended : SUBSET ReqIds,          \* those whose initial download is complete
    failed : SUBSET ReqIds]         \* those answered with an error

TypeOK ==
    /\ next_req_id \in Nat /\ status_queue \subseteq {"ERR"}
    /\ connected \in BOOLEAN /\ portfolio \in Portfolio /\ tws \in Tws

NoPositions == [k \in Keys |-> "none"]
NoPortfolio == [
    managed_accounts |-> {}, active |-> FALSE, pending_subscribe |-> FALSE,
    owned |-> {}, positions |-> NoPositions, account_totals |-> {},
    account_updates_done |-> {}, positions_done |-> {}]
NewConnection ==
    [named |-> FALSE, asked |-> {}, live |-> {}, ended |-> {}, failed |-> {}]

Init ==
    /\ ContextInit /\ connected = FALSE
    /\ portfolio = NoPortfolio /\ tws = NewConnection

Ids(requests) == {r.id : r \in requests}
Key(r) == [account |-> r.account, con |-> r.con]

-----------------------------------------------------------------------------
(* Parts of the operations; ...Variant is a faulty version. *)

\* TWS receives these requests and starts serving them.
Sent(requests) == [tws EXCEPT !.asked = @ \union requests,
                              !.live = @ \union Ids(requests)]

\* Start(): account by account, three requests under consecutive ids.
Rank(a, list) == Cardinality({b \in list : b < a})
FirstAccountVariant(list) ==
    {[id |-> next_req_id + k, kind |-> StartKinds[k],
      account |-> a, con |-> NoConId] : a \in {b \in list : Rank(b, list) = 0}, k \in 1..3}
PostIncrementVariant(list) ==
    {[id |-> next_req_id + 3 * Rank(a, list) + k - 1, kind |-> StartKinds[k],
      account |-> a, con |-> NoConId] : a \in list, k \in 1..3}
StartRequests(list) ==
    {[id |-> next_req_id + 3 * Rank(a, list) + k, kind |-> StartKinds[k],
      account |-> a, con |-> NoConId] : a \in list, k \in 1..3}
Start(list) ==
    /\ Allocate(3 * Cardinality(list))
    /\ portfolio' = [portfolio EXCEPT
            !.managed_accounts = list, !.active = TRUE,
            !.pending_subscribe = FALSE, !.owned = @ \union StartRequests(list)]

\* The account the end of a download counts for, if its request stands.
AccountsOf(r) == {o.account : o \in portfolio.owned \intersect {r}}

\* The requests Unsubscribe() cancels: those in its four maps.
OnlyAccountsCancelledVariant == {r \in portfolio.owned : r.kind # "pnl_single"}
Cancelled == portfolio.owned

\* What Unsubscribe() leaves in the service.
KeepsDoneVariant == [NoPortfolio EXCEPT
    !.managed_accounts = portfolio.managed_accounts,
    !.account_updates_done = portfolio.account_updates_done,
    !.positions_done = portfolio.positions_done]
Forgotten == [NoPortfolio EXCEPT !.managed_accounts = portfolio.managed_accounts]

-----------------------------------------------------------------------------
(* The connection and the calls from PortfolioScreen. *)

Connect ==
    /\ ~connected
    /\ connected' = TRUE
    /\ UNCHANGED <<contextVars, portfolio, tws>>

\* IbkrClient::Disconnect(): Unsubscribe(), eDisconnect(), OnReset(), whose
\* own Unsubscribe() finds the service inactive.
Disconnect ==
    /\ connected
    /\ connected' = FALSE
    /\ portfolio' = [(IF portfolio.active THEN Forgotten ELSE portfolio)
                        EXCEPT !.managed_accounts = {}]
    /\ tws' = NewConnection
    /\ UNCHANGED contextVars

\* Subscribe(): starts at once, or waits for the account list.
\* Bound: a subscription is made only while the ids it will need are left.
IdsNeeded ==
    LET list == portfolio.managed_accounts
    IN  3 * Cardinality(IF list = {} THEN Accounts ELSE list)
Open ==
    /\ CanAllocate(IdsNeeded)
    /\ IF portfolio.managed_accounts = {}
       THEN /\ portfolio' = [portfolio EXCEPT !.active = TRUE,
                                              !.pending_subscribe = TRUE]
            /\ UNCHANGED <<next_req_id, tws>>
       ELSE /\ Start(portfolio.managed_accounts)
            /\ tws' = Sent(StartRequests(portfolio.managed_accounts))
    /\ UNCHANGED <<status_queue, connected>>
SubscribeTwiceVariant == connected /\ Open
Subscribe == connected /\ ~portfolio.active /\ Open

Unsubscribe ==
    /\ connected /\ portfolio.active
    /\ portfolio' = Forgotten
    /\ tws' = [tws EXCEPT !.live = @ \ Ids(Cancelled)]
    /\ UNCHANGED <<contextVars, connected>>

DrainStatus == DrainQueue /\ UNCHANGED <<next_req_id, connected, portfolio, tws>>

-----------------------------------------------------------------------------
(* Callbacks.  TWS may deliver, after a cancel, what it sent before. *)

\* managedAccounts comes once on a connection and names at least one account.
ListStored(list) ==
    /\ portfolio' = [portfolio EXCEPT !.managed_accounts = list]
    /\ tws' = [tws EXCEPT !.named = TRUE]
    /\ UNCHANGED next_req_id
NeverStartsVariant(list) == ListStored(list)
StartIfPending(list) ==
    IF portfolio.active /\ portfolio.pending_subscribe
    THEN Start(list) /\ tws' = [Sent(StartRequests(list)) EXCEPT !.named = TRUE]
    ELSE ListStored(list)
OnManagedAccounts(list) ==
    /\ connected /\ ~tws.named /\ list # {}
    /\ StartIfPending(list)
    /\ UNCHANGED <<status_queue, connected>>

\* Takes the account from the message and does not look at the request id.
OnAccountUpdateMulti(r) ==
    /\ r.kind = "account"
    /\ portfolio' = [portfolio EXCEPT !.account_totals = @ \union {r.account}]
    /\ UNCHANGED <<contextVars, connected, tws>>

\* The end of a download, which TWS sends once.
Ending(r) ==
    /\ r.id \notin tws.ended \union tws.failed
    /\ tws' = [tws EXCEPT !.ended = @ \union {r.id}]
    /\ UNCHANGED <<contextVars, connected>>

OnAccountUpdateMultiEnd(r) ==
    /\ r.kind = "account" /\ Ending(r)
    /\ portfolio' = [portfolio EXCEPT
            !.account_updates_done = @ \union AccountsOf(r)]

\* A position of size zero drops its row; a new row asks for its P&L.  This
\* callback does not look at the request id either.
OnPositionMulti(r, con, zero) ==
    LET key == [account |-> r.account, con |-> con]
        sub == [id |-> NextReqId, kind |-> "pnl_single", account |-> r.account,
                con |-> con]
    IN
    /\ r.kind = "positions"
    /\ IF zero
       THEN /\ portfolio' = [portfolio EXCEPT !.positions[key] = "none"]
            /\ UNCHANGED <<next_req_id, tws>>
       ELSE /\ portfolio.positions[key] = "none"    \* else the row stays as it is
            /\ Allocate(1)
            /\ portfolio' = [portfolio EXCEPT !.positions[key] = "held",
                                              !.owned = @ \union {sub}]
            /\ tws' = Sent({sub})
    /\ UNCHANGED <<status_queue, connected>>

OnPositionMultiEnd(r) ==
    /\ r.kind = "positions" /\ Ending(r)
    /\ portfolio' = [portfolio EXCEPT !.positions_done = @ \union AccountsOf(r)]

OnPnL(r) ==
    /\ r.kind = "pnl" /\ r \in portfolio.owned
    /\ portfolio' = [portfolio EXCEPT !.account_totals = @ \union {r.account}]
    /\ UNCHANGED <<contextVars, connected, tws>>

OnPnLSingle(r) ==
    /\ r.kind = "pnl_single" /\ r \in portfolio.owned
    /\ portfolio.positions[Key(r)] # "none"
    /\ portfolio' = [portfolio EXCEPT !.positions[Key(r)] = "valued"]
    /\ UNCHANGED <<contextVars, connected, tws>>

\* Dispatcher::error(): a status message; this service is not told.
OnError(r) ==
    /\ r.id \in tws.live
    /\ tws' = [tws EXCEPT !.live = @ \ {r.id}, !.failed = @ \union {r.id}]
    /\ EmitStatus({"ERR"})
    /\ UNCHANGED <<next_req_id, connected, portfolio>>

-----------------------------------------------------------------------------

Callback(r) ==
    \/ OnAccountUpdateMulti(r)
    \/ OnAccountUpdateMultiEnd(r)
    \/ \E con \in ConIds, zero \in BOOLEAN : OnPositionMulti(r, con, zero)
    \/ OnPositionMultiEnd(r)
    \/ OnPnL(r)
    \/ OnPnLSingle(r)
    \/ OnError(r)

Next ==
    \/ Connect
    \/ Disconnect
    \/ Subscribe
    \/ Unsubscribe
    \/ DrainStatus
    \/ \E list \in SUBSET Accounts : OnManagedAccounts(list)
    \/ \E r \in tws.asked : Callback(r)

Spec == Init /\ [][Next]_vars

\* Fairness: TWS names the accounts after a connect and completes or refuses
\* the downloads it was asked for; nothing is assumed of the user.
Named == \E list \in SUBSET Accounts : OnManagedAccounts(list)
Downloaded(id) ==
    \E r \in tws.asked :
        r.id = id /\ (OnAccountUpdateMultiEnd(r) \/ OnPositionMultiEnd(r))
FairSpec ==
    Spec /\ WF_vars(Named) /\ \A id \in ReqIds : WF_vars(Downloaded(id))

-----------------------------------------------------------------------------
(* Properties. *)

\* Snapshot().ready.
Ready ==
    /\ portfolio.managed_accounts # {}
    /\ portfolio.managed_accounts \subseteq
            portfolio.account_updates_done \intersect portfolio.positions_done

\* Whatever arrives late, every subscription TWS is serving stands in one of
\* the maps, so that a later Unsubscribe() will cancel it.
NoOrphanSubscription == tws.live \subseteq Ids(portfolio.owned)

\* A snapshot is "ready" only when, for the subscription that stands now, both
\* downloads of each account are complete; ends of an earlier one do not count.
ReadyMeansLoaded ==
    Ready =>
        \A a \in portfolio.managed_accounts, kind \in {"account", "positions"} :
            \E r \in portfolio.owned :
                r.kind = kind /\ r.account = a /\ r.id \in tws.ended

\* No account is ever subscribed twice at the same time.
OneSetPerAccount ==
    \A q, r \in portfolio.owned :
        /\ q.kind = r.kind /\ q.account = r.account /\ q.kind # "pnl_single"
        => q = r

\* An open portfolio is never forgotten, nor subscribed twice: it waits for the
\* account list only while there is none, and otherwise has its three requests
\* for each account, once; a closed one has none of them.
ActiveIsServed ==
    /\ OneSetPerAccount
    /\ ~portfolio.active => \A r \in portfolio.owned : r.kind = "pnl_single"
    /\ portfolio.active =>
        IF portfolio.managed_accounts = {} THEN portfolio.pending_subscribe
        ELSE /\ ~portfolio.pending_subscribe
             /\ \A a \in portfolio.managed_accounts, k \in 1..3 :
                  \E r \in portfolio.owned :
                     /\ r.kind = StartKinds[k] /\ r.account = a
                     /\ r.id \in tws.live \union tws.failed

\* An open portfolio is loaded in the end, unless TWS refuses a download.
PortfolioLoads ==
    portfolio.active ~> (~portfolio.active \/ Ready \/ tws.failed # {})

\* services.md, "Common pitfalls": after a Cancel "subsequent callbacks for
\* stale IDs are ignored", so a closed portfolio holds and asks for nothing.
ClosedIsQuiet ==
    ~portfolio.active => portfolio.positions = NoPositions /\ tws.live = {}

=============================================================================
