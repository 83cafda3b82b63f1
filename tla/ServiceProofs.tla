------------------------------ MODULE ServiceProofs ------------------------------
(***************************************************************************)
(* Proofs about PortfolioService, and about SharedContext with the quote   *)
(* and the reader in it, for all accounts, contracts, instruments,         *)
(* articles and bounds.  The two specifications are independent of each    *)
(* other and are taken one after the other.                                *)
(*                                                                         *)
(* PortfolioService: the properties of its runs are nearly inductive       *)
(* together.  What has to be added: a subscription starts only when no     *)
(* earlier one has left its requests in the maps, the end of a download    *)
(* counts only for a request that stands, and an account list is there     *)
(* only once TWS has named it on this connection.                          *)
(***************************************************************************)
EXTENDS PortfolioService, SharedContext, FiniteSetTheorems, Integers, TLAPS

USE BoundsAssumption

-----------------------------------------------------------------------------
(* PortfolioService. *)

CounterInv == next_req_id >= InitialReqId

\* No request of a subscription is left: only P&L of rows that were late.
OnlyRows == \A r \in portfolio.owned : r.kind = "pnl_single"
WaitingInv == ~portfolio.active \/ portfolio.pending_subscribe => OnlyRows

\* What is done is the download of a request that stands.
DoneInv ==
    /\ \A a \in portfolio.account_updates_done : \E r \in portfolio.owned :
          r.kind = "account" /\ r.account = a /\ r.id \in tws.ended
    /\ \A a \in portfolio.positions_done : \E r \in portfolio.owned :
          r.kind = "positions" /\ r.account = a /\ r.id \in tws.ended

NamedInv == portfolio.managed_accounts # {} => tws.named

IInv ==
    /\ TypeOK /\ CounterInv /\ WaitingInv /\ DoneInv /\ NamedInv
    /\ NoOrphanSubscription /\ ActiveIsServed

USE PortfolioAssumption

-----------------------------------------------------------------------------
(* The requests of a subscription. *)

\* Their ids are those that Start() allocates.
LEMMA RankInList ==
    ASSUME NEW list \in SUBSET Accounts, NEW a \in list
    PROVE  /\ Rank(a, list) \in Nat /\ Cardinality(list) \in Nat
           /\ Rank(a, list) + 1 <= Cardinality(list)
<1> DEFINE below == {b \in list : b < a}
<1>1. IsFiniteSet(list) /\ Cardinality(list) \in Nat
  BY FS_Subset, FS_CardinalityType
<1>2. IsFiniteSet(below) /\ Cardinality(below) \in Nat
  BY <1>1, FS_Subset, FS_CardinalityType
<1>3. a \notin below /\ IsFiniteSet(below \union {a})
  <2>1. a \in Nat /\ ~(a < a)
    OBVIOUS
  <2>2. a \notin below
    BY <2>1
  <2>3. IsFiniteSet(below \union {a})
    <3> HIDE DEF below
    <3> QED BY <1>2, FS_AddElement
  <2> QED BY <2>2, <2>3
<1>4. Cardinality(below \union {a}) = Cardinality(below) + 1
  BY <1>2, <1>3, FS_AddElement
<1>5. Cardinality(below \union {a}) <= Cardinality(list)
  BY <1>1, <1>3, FS_Subset
<1> QED BY <1>1, <1>2, <1>4, <1>5 DEF Rank

LEMMA StartRequestsTyped ==
    ASSUME NEW list \in SUBSET Accounts, next_req_id \in Nat, CounterInv,
           Allocate(3 * Cardinality(list))
    PROVE  /\ StartRequests(list) \subseteq RequestRecord
           /\ next_req_id' \in Nat /\ CounterInv'
<1>1. Cardinality(list) \in Nat
  BY FS_Subset, FS_CardinalityType
<1>2. next_req_id' = next_req_id + 3 * Cardinality(list)
      /\ next_req_id + 3 * Cardinality(list) <= MaxReqId
  BY DEF Allocate, CanAllocate
<1> DEFINE Req(a, k) == [id |-> next_req_id + 3 * Rank(a, list) + k,
                         kind |-> StartKinds[k], account |-> a, con |-> NoConId]
<1>3. ASSUME NEW a \in list, NEW k \in 1..3
      PROVE  Req(a, k) \in RequestRecord
  <2>1. next_req_id + 3 * Rank(a, list) + k \in ReqIds
    BY <1>1, <1>2, RankInList DEF ReqIds, CounterInv, InitialReqId
  <2>2. StartKinds[k] \in Kinds
    BY DEF StartKinds, Kinds
  <2> QED BY <2>1, <2>2 DEF RequestRecord
<1>4. StartRequests(list) \subseteq RequestRecord
  <2>1. StartRequests(list) = {Req(a, k) : a \in list, k \in 1..3}
    BY DEF StartRequests
  <2> HIDE DEF Req
  <2> QED BY <1>3, <2>1
<1> QED BY <1>1, <1>2, <1>4 DEF CounterInv, InitialReqId

\* One for each account and kind, none of a row.
LEMMA StartRequestsOnce ==
    ASSUME NEW list
    PROVE  /\ \A r \in StartRequests(list) : r.kind # "pnl_single"
           /\ \A q, r \in StartRequests(list) :
                q.kind = r.kind /\ q.account = r.account => q = r
           /\ \A a \in list, k \in 1..3 : \E r \in StartRequests(list) :
                r.kind = StartKinds[k] /\ r.account = a
<1> DEFINE Req(a, k) == [id |-> next_req_id + 3 * Rank(a, list) + k,
                         kind |-> StartKinds[k], account |-> a, con |-> NoConId]
<1>1. StartRequests(list) = {Req(a, k) : a \in list, k \in 1..3}
  BY DEF StartRequests
<1>2. \A k, j \in 1..3 : /\ StartKinds[k] # "pnl_single"
                         /\ StartKinds[k] = StartKinds[j] => k = j
  BY DEF StartKinds
<1>3. \A a, k : Req(a, k).kind = StartKinds[k] /\ Req(a, k).account = a
  OBVIOUS
<1> HIDE DEF Req
<1>4. \A r \in StartRequests(list) : r.kind # "pnl_single"
  BY <1>1, <1>2, <1>3
<1>5. \A q, r \in StartRequests(list) :
        q.kind = r.kind /\ q.account = r.account => q = r
  <2> SUFFICES ASSUME NEW a \in list, NEW k \in 1..3, NEW b \in list, NEW j \in 1..3,
                      Req(a, k).kind = Req(b, j).kind,
                      Req(a, k).account = Req(b, j).account
               PROVE  Req(a, k) = Req(b, j)
    BY <1>1
  <2>1. a = b /\ StartKinds[k] = StartKinds[j]
    BY <1>3
  <2> QED BY <1>2, <2>1
<1>6. \A a \in list, k \in 1..3 : \E r \in StartRequests(list) :
        r.kind = StartKinds[k] /\ r.account = a
  <2> TAKE a \in list, k \in 1..3
  <2>1. Req(a, k) \in StartRequests(list)
    BY <1>1
  <2> WITNESS Req(a, k) \in StartRequests(list)
  <2> QED BY <1>3
<1> QED BY <1>4, <1>5, <1>6

-----------------------------------------------------------------------------
(* The fields of the two records. *)

LEMMA Typed ==
    ASSUME TypeOK
    PROVE  /\ portfolio.managed_accounts \in SUBSET Accounts
           /\ portfolio.active \in BOOLEAN /\ portfolio.pending_subscribe \in BOOLEAN
           /\ portfolio.owned \in SUBSET RequestRecord
           /\ portfolio.positions \in [Keys -> {"none", "held", "valued"}]
           /\ portfolio.account_totals \in SUBSET Accounts
           /\ portfolio.account_updates_done \in SUBSET Accounts
           /\ portfolio.positions_done \in SUBSET Accounts
           /\ tws.named \in BOOLEAN
           /\ tws.asked \in SUBSET RequestRecord
           /\ tws.live \in SUBSET ReqIds /\ tws.ended \in SUBSET ReqIds
           /\ tws.failed \in SUBSET ReqIds
BY DEF TypeOK, Portfolio, Tws

LEMMA IdsOf ==
    ASSUME NEW R \in SUBSET RequestRecord
    PROVE  /\ Ids(R) \in SUBSET ReqIds
           /\ \A r \in R : r.id \in Ids(R)
           /\ \A S : Ids(R) \subseteq Ids(R \union S)
           /\ \A S : Ids(R \union S) = Ids(R) \union Ids(S)
BY DEF Ids, RequestRecord

\* What an open portfolio waits for or has.
Served ==
    IF portfolio.managed_accounts = {} THEN portfolio.pending_subscribe
    ELSE /\ ~portfolio.pending_subscribe
         /\ \A a \in portfolio.managed_accounts, k \in 1..3 :
              \E r \in portfolio.owned :
                 /\ r.kind = StartKinds[k] /\ r.account = a
                 /\ r.id \in tws.live \union tws.failed

LEMMA ServedParts ==
    ActiveIsServed <=>
        /\ OneSetPerAccount
        /\ ~portfolio.active => OnlyRows
        /\ portfolio.active => Served
BY DEF ActiveIsServed, Served, OnlyRows

\* A step that leaves the maps and the list alone, and tells TWS nothing but that
\* a download ended or failed.
LEMMA RestInv ==
    ASSUME IInv, TypeOK', next_req_id' = next_req_id,
           portfolio'.managed_accounts = portfolio.managed_accounts,
           portfolio'.active = portfolio.active,
           portfolio'.pending_subscribe = portfolio.pending_subscribe,
           portfolio'.owned = portfolio.owned,
           tws'.named = tws.named, tws'.live \subseteq tws.live,
           tws.live \union tws.failed \subseteq tws'.live \union tws'.failed,
           DoneInv'
    PROVE  IInv'
<1> USE DEF IInv
<1>1. CounterInv' /\ WaitingInv' /\ NamedInv' /\ NoOrphanSubscription'
  BY DEF CounterInv, WaitingInv, OnlyRows, NamedInv, NoOrphanSubscription
<1>2. OneSetPerAccount' /\ (~portfolio'.active => OnlyRows')
  BY ServedParts DEF OneSetPerAccount, OnlyRows
<1>3. portfolio'.active => Served'
  BY ServedParts DEF Served
<1>4. ActiveIsServed'
  BY <1>2, <1>3 DEF ActiveIsServed, Served, OnlyRows
<1> QED BY <1>1, <1>4

-----------------------------------------------------------------------------
(* The steps. *)

LEMMA InitInv == Init => IInv
<1> SUFFICES ASSUME Init PROVE IInv
  OBVIOUS
<1>1. TypeOK
  <2>1. NoPortfolio \in Portfolio
    BY DEF NoPortfolio, NoPositions, Portfolio
  <2>2. NewConnection \in Tws
    BY DEF NewConnection, Tws
  <2>3. next_req_id \in Nat /\ status_queue \subseteq {"ERR"}
    BY DEF Init, ContextInit, InitialReqId
  <2> QED BY <2>1, <2>2, <2>3 DEF Init, TypeOK
<1>2. /\ portfolio.managed_accounts = {} /\ portfolio.owned = {} /\ tws.live = {}
      /\ portfolio.active = FALSE /\ portfolio.account_updates_done = {}
      /\ portfolio.positions_done = {}
  BY DEF Init, NoPortfolio, NewConnection
<1>3. CounterInv
  BY DEF Init, ContextInit, CounterInv, InitialReqId
<1> QED BY <1>1, <1>2, <1>3 DEF IInv, WaitingInv, OnlyRows, DoneInv, NamedInv,
           NoOrphanSubscription, ActiveIsServed, OneSetPerAccount

\* Start(), with the connection as TWS then knows it.
LEMMA StartInv ==
    ASSUME IInv, OnlyRows, NEW list \in SUBSET Accounts, list # {}, Start(list),
           tws' = [Sent(StartRequests(list)) EXCEPT !.named = TRUE],
           status_queue' = status_queue, connected' = connected
    PROVE  IInv'
<1> DEFINE new == StartRequests(list)
<1> USE Typed DEF IInv
<1>1. /\ new \subseteq RequestRecord /\ next_req_id' \in Nat /\ CounterInv'
  BY StartRequestsTyped DEF Start, TypeOK
<1>2. /\ \A r \in new : r.kind # "pnl_single"
      /\ \A q, r \in new : q.kind = r.kind /\ q.account = r.account => q = r
      /\ \A a \in list, k \in 1..3 : \E r \in new :
           r.kind = StartKinds[k] /\ r.account = a
  BY StartRequestsOnce
<1> HIDE DEF new
<1>3. /\ portfolio' = [portfolio EXCEPT
            !.managed_accounts = list, !.active = TRUE,
            !.pending_subscribe = FALSE, !.owned = @ \union new]
  BY DEF Start, new
<1>4. tws' = [tws EXCEPT !.asked = @ \union new, !.live = @ \union Ids(new),
                         !.named = TRUE]
  BY DEF Sent, new, TypeOK, Tws
<1>5. /\ portfolio'.managed_accounts = list /\ portfolio'.active = TRUE
      /\ portfolio'.pending_subscribe = FALSE
      /\ portfolio'.owned = portfolio.owned \union new
      /\ portfolio'.account_updates_done = portfolio.account_updates_done
      /\ portfolio'.positions_done = portfolio.positions_done
  BY <1>3 DEF TypeOK, Portfolio
<1>6. /\ tws'.live = tws.live \union Ids(new) /\ tws'.ended = tws.ended
      /\ tws'.named = TRUE /\ tws'.failed = tws.failed
  BY <1>4 DEF TypeOK, Tws
<1>7. TypeOK'
  <2>1. Ids(new) \in SUBSET ReqIds
    BY <1>1, IdsOf
  <2>2. portfolio' \in Portfolio
    BY <1>1, <1>3 DEF TypeOK, Portfolio
  <2>3. tws' \in Tws
    BY <1>1, <1>4, <2>1 DEF TypeOK, Tws
  <2> QED BY <1>1, <2>2, <2>3 DEF TypeOK
<1>8. WaitingInv' /\ NamedInv' /\ DoneInv'
  BY <1>5, <1>6 DEF WaitingInv, NamedInv, DoneInv
<1>9. NoOrphanSubscription'
  BY <1>1, <1>5, <1>6, IdsOf DEF NoOrphanSubscription
<1>10. ActiveIsServed'
  <2>1. OneSetPerAccount'
    BY <1>2, <1>5 DEF OneSetPerAccount, OnlyRows
  <2>2. \A r \in new : r.id \in tws'.live
    BY <1>1, <1>6, IdsOf
  <2>3. Served'
    BY <1>2, <1>5, <2>2 DEF Served
  <2> QED BY <1>5, <2>1, <2>3 DEF ActiveIsServed, Served
<1> QED BY <1>1, <1>7, <1>8, <1>9, <1>10

\* Subscribe() starts, or waits for the list; nothing of an earlier subscription
\* is left in the maps.
LEMMA SubscribeInv == ASSUME IInv, Subscribe PROVE IInv'
<1> USE Typed DEF IInv, Subscribe, Open
<1>1. OnlyRows
  BY DEF WaitingInv
<1>2. CASE portfolio.managed_accounts = {}
  <2>1. /\ portfolio' = [portfolio EXCEPT !.active = TRUE, !.pending_subscribe = TRUE]
        /\ UNCHANGED <<next_req_id, status_queue, connected, tws>>
    BY <1>2
  <2>2. /\ portfolio'.managed_accounts = {} /\ portfolio'.pending_subscribe = TRUE
        /\ portfolio'.owned = portfolio.owned
        /\ portfolio'.account_updates_done = portfolio.account_updates_done
        /\ portfolio'.positions_done = portfolio.positions_done
    BY <1>2, <2>1 DEF TypeOK, Portfolio
  <2>3. TypeOK'
    BY <2>1 DEF TypeOK, Portfolio
  <2>4. CounterInv' /\ WaitingInv' /\ DoneInv' /\ NamedInv' /\ NoOrphanSubscription'
    BY <1>1, <2>1, <2>2 DEF CounterInv, WaitingInv, OnlyRows, DoneInv, NamedInv,
       NoOrphanSubscription
  <2>5. ActiveIsServed'
    BY <1>1, <2>2 DEF ActiveIsServed, OneSetPerAccount, OnlyRows
  <2> QED BY <2>3, <2>4, <2>5
<1>3. CASE portfolio.managed_accounts # {}
  <2> DEFINE list == portfolio.managed_accounts
  <2>1. /\ Start(list) /\ tws' = Sent(StartRequests(list))
        /\ UNCHANGED <<status_queue, connected>>
    BY <1>3
  <2>2. tws.named = TRUE
    BY <1>3 DEF NamedInv
  <2>3. Sent(StartRequests(list)) = [Sent(StartRequests(list)) EXCEPT !.named = TRUE]
    BY <2>2 DEF Sent, TypeOK, Tws
  <2>4. list \in SUBSET Accounts /\ list # {}
    BY <1>3
  <2> HIDE DEF list
  <2> QED BY <1>1, <2>1, <2>3, <2>4, StartInv
<1> QED BY <1>2, <1>3

LEMMA OnManagedAccountsInv ==
    ASSUME IInv, NEW list \in SUBSET Accounts, OnManagedAccounts(list) PROVE IInv'
<1> USE Typed DEF IInv, OnManagedAccounts
<1>1. portfolio.managed_accounts = {} /\ list # {}
  BY DEF NamedInv
<1>2. CASE portfolio.active /\ portfolio.pending_subscribe
  <2>1. OnlyRows
    BY <1>2 DEF WaitingInv
  <2>2. /\ Start(list)
        /\ tws' = [Sent(StartRequests(list)) EXCEPT !.named = TRUE]
    BY <1>2 DEF StartIfPending
  <2> QED BY <1>1, <2>1, <2>2, StartInv
<1>3. CASE ~(portfolio.active /\ portfolio.pending_subscribe)
  <2>1. portfolio.active = FALSE
    BY <1>1, <1>3 DEF ActiveIsServed
  <2>2. /\ portfolio' = [portfolio EXCEPT !.managed_accounts = list]
        /\ tws' = [tws EXCEPT !.named = TRUE]
        /\ UNCHANGED <<next_req_id, status_queue, connected>>
    BY <1>3 DEF StartIfPending, ListStored
  <2>3. /\ portfolio'.active = FALSE
        /\ portfolio'.owned = portfolio.owned
        /\ portfolio'.account_updates_done = portfolio.account_updates_done
        /\ portfolio'.positions_done = portfolio.positions_done
        /\ tws'.named = TRUE /\ tws'.live = tws.live /\ tws'.ended = tws.ended
    BY <2>1, <2>2 DEF TypeOK, Portfolio, Tws
  <2>4. TypeOK'
    BY <2>2 DEF TypeOK, Portfolio, Tws
  <2>5. CounterInv' /\ WaitingInv' /\ DoneInv' /\ NamedInv' /\ NoOrphanSubscription'
    BY <2>1, <2>2, <2>3 DEF CounterInv, WaitingInv, OnlyRows, DoneInv, NamedInv,
       NoOrphanSubscription
  <2>6. ActiveIsServed'
    BY <2>1, <2>3 DEF ActiveIsServed, OneSetPerAccount
  <2> QED BY <2>4, <2>5, <2>6
<1> QED BY <1>2, <1>3

\* Unsubscribe() empties the maps and with them what TWS serves; a disconnect
\* does it for TWS in any case.
LEMMA UnsubscribeInv == ASSUME IInv, Unsubscribe PROVE IInv'
<1> USE Typed DEF IInv, Unsubscribe, contextVars
<1>1. /\ portfolio'.managed_accounts = portfolio.managed_accounts
      /\ portfolio'.active = FALSE /\ portfolio'.owned = {}
      /\ portfolio'.account_updates_done = {} /\ portfolio'.positions_done = {}
      /\ portfolio' \in Portfolio
  BY DEF Forgotten, NoPortfolio, NoPositions, Portfolio
<1>2. /\ tws'.named = tws.named /\ tws'.live = {} /\ tws' \in Tws
  BY DEF Cancelled, NoOrphanSubscription, TypeOK, Tws
<1>3. TypeOK' /\ CounterInv'
  BY <1>1, <1>2 DEF TypeOK, CounterInv
<1> QED BY <1>1, <1>2, <1>3 DEF WaitingInv, OnlyRows, DoneInv, NamedInv,
           NoOrphanSubscription, ActiveIsServed, OneSetPerAccount

LEMMA DisconnectInv == ASSUME IInv, Disconnect PROVE IInv'
<1> USE Typed DEF IInv, Disconnect, contextVars
<1>1. /\ tws'.live = {} /\ tws' \in Tws
  BY DEF NewConnection, Tws
<1>2. /\ portfolio'.managed_accounts = {} /\ portfolio'.active = FALSE
      /\ \A r \in portfolio'.owned : r.kind = "pnl_single"
      /\ portfolio'.account_updates_done = {} /\ portfolio'.positions_done = {}
      /\ portfolio' \in Portfolio
  <2>1. CASE portfolio.active
    <3>1. portfolio' = [Forgotten EXCEPT !.managed_accounts = {}]
      BY <2>1
    <3>2. /\ Forgotten \in Portfolio /\ Forgotten.active = FALSE
          /\ Forgotten.owned = {}
          /\ Forgotten.account_updates_done = {} /\ Forgotten.positions_done = {}
      BY DEF Forgotten, NoPortfolio, NoPositions, Portfolio
    <3> HIDE DEF IInv, Disconnect
    <3> QED BY <3>1, <3>2 DEF Portfolio
  <2>2. CASE ~portfolio.active
    <3>1. portfolio' = [portfolio EXCEPT !.managed_accounts = {}]
      BY <2>2
    <3>2. OnlyRows
      BY <2>2 DEF WaitingInv
    <3>3. portfolio.account_updates_done = {} /\ portfolio.positions_done = {}
      BY <3>2 DEF DoneInv, OnlyRows
    <3> QED BY <2>2, <3>1, <3>2, <3>3 DEF OnlyRows, TypeOK, Portfolio
  <2> QED BY <2>1, <2>2
<1>3. TypeOK' /\ CounterInv'
  BY <1>1, <1>2 DEF TypeOK, CounterInv
<1> QED BY <1>1, <1>2, <1>3 DEF WaitingInv, OnlyRows, DoneInv, NamedInv,
           NoOrphanSubscription, ActiveIsServed, OneSetPerAccount

\* A row asks for its P&L, under an id of its own.
LEMMA OnPositionMultiInv ==
    ASSUME IInv, NEW r \in tws.asked, NEW con \in ConIds, NEW zero \in BOOLEAN,
           OnPositionMulti(r, con, zero)
    PROVE  IInv'
<1> DEFINE key == [account |-> r.account, con |-> con]
           sub == [id |-> NextReqId, kind |-> "pnl_single", account |-> r.account,
                   con |-> con]
<1> USE Typed DEF IInv
<1>1. r \in RequestRecord /\ r.account \in Accounts /\ key \in Keys
  BY DEF RequestRecord, Keys
<1>2. CASE zero
  <2>1. /\ portfolio' = [portfolio EXCEPT !.positions[key] = "none"]
        /\ UNCHANGED <<next_req_id, status_queue, connected, tws>>
    BY <1>2 DEF OnPositionMulti
  <2> HIDE DEF key
  <2>2. TypeOK'
    BY <1>1, <2>1 DEF TypeOK, Portfolio
  <2>3. /\ portfolio'.managed_accounts = portfolio.managed_accounts
        /\ portfolio'.active = portfolio.active
        /\ portfolio'.pending_subscribe = portfolio.pending_subscribe
        /\ portfolio'.owned = portfolio.owned
        /\ portfolio'.account_updates_done = portfolio.account_updates_done
        /\ portfolio'.positions_done = portfolio.positions_done
    BY <2>1 DEF TypeOK, Portfolio
  <2>4. DoneInv'
    BY <2>1, <2>3 DEF DoneInv
  <2> QED BY <2>1, <2>2, <2>3, <2>4, RestInv
<1>3. CASE ~zero
  <2>1. /\ Allocate(1)
        /\ portfolio' = [portfolio EXCEPT !.positions[key] = "held",
                                          !.owned = @ \union {sub}]
        /\ tws' = Sent({sub})
        /\ UNCHANGED <<status_queue, connected>>
    BY <1>3 DEF OnPositionMulti
  <2>2. /\ sub \in RequestRecord /\ sub.kind = "pnl_single"
        /\ next_req_id' \in Nat /\ CounterInv'
    <3>1. NextReqId \in ReqIds /\ next_req_id' \in Nat /\ CounterInv'
      BY <2>1 DEF Allocate, CanAllocate, NextReqId, ReqIds, CounterInv,
         InitialReqId, TypeOK
    <3> QED BY <1>1, <3>1 DEF RequestRecord, Kinds
  <2> HIDE DEF key, sub
  <2>3. /\ portfolio'.managed_accounts = portfolio.managed_accounts
        /\ portfolio'.active = portfolio.active
        /\ portfolio'.pending_subscribe = portfolio.pending_subscribe
        /\ portfolio'.owned = portfolio.owned \union {sub}
        /\ portfolio'.account_updates_done = portfolio.account_updates_done
        /\ portfolio'.positions_done = portfolio.positions_done
        /\ portfolio' \in Portfolio
    BY <1>1, <2>1, <2>2 DEF TypeOK, Portfolio
  <2>4. Ids({sub}) \in SUBSET ReqIds
    BY <2>2, IdsOf
  <2>5. /\ tws'.live = tws.live \union Ids({sub}) /\ tws'.ended = tws.ended
        /\ tws'.named = tws.named /\ tws'.failed = tws.failed /\ tws' \in Tws
    BY <2>1, <2>2, <2>4 DEF Sent, TypeOK, Tws
  <2>6. TypeOK'
    BY <2>1, <2>2, <2>3, <2>5 DEF TypeOK
  <2>7. WaitingInv' /\ DoneInv' /\ NamedInv'
    BY <2>2, <2>3, <2>5 DEF WaitingInv, OnlyRows, DoneInv, NamedInv
  <2>8. NoOrphanSubscription'
    <3>1. Ids(portfolio.owned \union {sub}) = Ids(portfolio.owned) \union Ids({sub})
      BY IdsOf
    <3> QED BY <2>3, <2>5, <3>1 DEF NoOrphanSubscription
  <2>9. ActiveIsServed'
    <3>1. OneSetPerAccount'
      BY <2>2, <2>3, ServedParts DEF OneSetPerAccount
    <3>2. ~portfolio'.active => OnlyRows'
      BY <2>2, <2>3, ServedParts DEF OnlyRows
    <3>3. portfolio'.active => Served'
      BY <2>3, <2>5, ServedParts DEF Served
    <3> QED BY <3>1, <3>2, <3>3 DEF ActiveIsServed, Served, OnlyRows
  <2> QED BY <2>2, <2>6, <2>7, <2>8, <2>9
<1> QED BY <1>2, <1>3

\* The other callbacks give an account its values, end a download, or fail.
LEMMA CallbackInv == ASSUME IInv, NEW r \in tws.asked, Callback(r) PROVE IInv'
<1> USE Typed DEF IInv
<1>1. /\ r \in RequestRecord /\ r.account \in Accounts /\ r.id \in ReqIds
      /\ \A x : AccountsOf(x) \subseteq Accounts
  BY DEF RequestRecord, AccountsOf
<1>2. CASE OnAccountUpdateMulti(r) \/ OnPnL(r)
  <2>1. /\ portfolio' = [portfolio EXCEPT !.account_totals = @ \union {r.account}]
        /\ UNCHANGED <<next_req_id, status_queue, connected, tws>>
    BY <1>2 DEF OnAccountUpdateMulti, OnPnL, contextVars
  <2>2. TypeOK'
    BY <1>1, <2>1 DEF TypeOK, Portfolio
  <2>3. /\ portfolio'.managed_accounts = portfolio.managed_accounts
        /\ portfolio'.active = portfolio.active
        /\ portfolio'.pending_subscribe = portfolio.pending_subscribe
        /\ portfolio'.owned = portfolio.owned
        /\ portfolio'.account_updates_done = portfolio.account_updates_done
        /\ portfolio'.positions_done = portfolio.positions_done
    BY <2>1 DEF TypeOK, Portfolio
  <2>4. DoneInv'
    BY <2>1, <2>3 DEF DoneInv
  <2> QED BY <2>1, <2>2, <2>3, <2>4, RestInv
<1>3. CASE OnPnLSingle(r)
  <2>1. /\ portfolio' = [portfolio EXCEPT !.positions[Key(r)] = "valued"]
        /\ UNCHANGED <<next_req_id, status_queue, connected, tws>>
    BY <1>3 DEF OnPnLSingle, contextVars
  <2>2. TypeOK'
    BY <2>1 DEF TypeOK, Portfolio
  <2>3. /\ portfolio'.managed_accounts = portfolio.managed_accounts
        /\ portfolio'.active = portfolio.active
        /\ portfolio'.pending_subscribe = portfolio.pending_subscribe
        /\ portfolio'.owned = portfolio.owned
        /\ portfolio'.account_updates_done = portfolio.account_updates_done
        /\ portfolio'.positions_done = portfolio.positions_done
    BY <2>1 DEF TypeOK, Portfolio
  <2>4. DoneInv'
    BY <2>1, <2>3 DEF DoneInv
  <2> QED BY <2>1, <2>2, <2>3, <2>4, RestInv
<1>4. CASE OnAccountUpdateMultiEnd(r)
  <2>1. /\ portfolio' = [portfolio EXCEPT !.account_updates_done = @ \union AccountsOf(r)]
        /\ tws' = [tws EXCEPT !.ended = @ \union {r.id}]
        /\ UNCHANGED <<next_req_id, status_queue, connected>>
        /\ r.kind = "account"
    BY <1>4 DEF OnAccountUpdateMultiEnd, Ending, contextVars
  <2>2. TypeOK'
    BY <1>1, <2>1 DEF TypeOK, Portfolio, Tws
  <2>3. /\ portfolio'.managed_accounts = portfolio.managed_accounts
        /\ portfolio'.active = portfolio.active
        /\ portfolio'.pending_subscribe = portfolio.pending_subscribe
        /\ portfolio'.owned = portfolio.owned
        /\ portfolio'.account_updates_done =
             portfolio.account_updates_done \union AccountsOf(r)
        /\ portfolio'.positions_done = portfolio.positions_done
        /\ tws'.named = tws.named /\ tws'.live = tws.live /\ tws'.failed = tws.failed
        /\ tws'.ended = tws.ended \union {r.id}
    BY <2>1 DEF TypeOK, Portfolio, Tws
  <2>4. DoneInv'
    BY <2>1, <2>3 DEF DoneInv, AccountsOf
  <2> QED BY <2>1, <2>2, <2>3, <2>4, RestInv
<1>5. CASE OnPositionMultiEnd(r)
  <2>1. /\ portfolio' = [portfolio EXCEPT !.positions_done = @ \union AccountsOf(r)]
        /\ tws' = [tws EXCEPT !.ended = @ \union {r.id}]
        /\ UNCHANGED <<next_req_id, status_queue, connected>>
        /\ r.kind = "positions"
    BY <1>5 DEF OnPositionMultiEnd, Ending, contextVars
  <2>2. TypeOK'
    BY <1>1, <2>1 DEF TypeOK, Portfolio, Tws
  <2>3. /\ portfolio'.managed_accounts = portfolio.managed_accounts
        /\ portfolio'.active = portfolio.active
        /\ portfolio'.pending_subscribe = portfolio.pending_subscribe
        /\ portfolio'.owned = portfolio.owned
        /\ portfolio'.account_updates_done = portfolio.account_updates_done
        /\ portfolio'.positions_done = portfolio.positions_done \union AccountsOf(r)
        /\ tws'.named = tws.named /\ tws'.live = tws.live /\ tws'.failed = tws.failed
        /\ tws'.ended = tws.ended \union {r.id}
    BY <2>1 DEF TypeOK, Portfolio, Tws
  <2>4. DoneInv'
    BY <2>1, <2>3 DEF DoneInv, AccountsOf
  <2> QED BY <2>1, <2>2, <2>3, <2>4, RestInv
<1>6. CASE OnError(r)
  <2>1. /\ tws' = [tws EXCEPT !.live = @ \ {r.id}, !.failed = @ \union {r.id}]
        /\ status_queue' = status_queue \union {"ERR"}
        /\ UNCHANGED <<next_req_id, connected, portfolio>>
    BY <1>6 DEF OnError, EmitStatus
  <2>2. TypeOK'
    BY <1>1, <2>1 DEF TypeOK, Tws
  <2>3. /\ tws'.named = tws.named /\ tws'.ended = tws.ended
        /\ tws'.live = tws.live \ {r.id} /\ tws'.failed = tws.failed \union {r.id}
    BY <2>1 DEF TypeOK, Tws
  <2>4. DoneInv'
    BY <2>1, <2>3 DEF DoneInv
  <2> QED BY <2>1, <2>2, <2>3, <2>4, RestInv
<1> QED BY <1>2, <1>3, <1>4, <1>5, <1>6, OnPositionMultiInv DEF Callback

LEMMA ConnectInv == ASSUME IInv, Connect \/ DrainStatus \/ UNCHANGED vars PROVE IInv'
<1> USE DEF IInv, contextVars
<1>1. TypeOK' /\ UNCHANGED <<next_req_id, portfolio, tws>>
  BY DEF Connect, DrainStatus, DrainQueue, vars, TypeOK
<1>2. DoneInv'
  BY <1>1 DEF DoneInv
<1> QED BY <1>1, <1>2, RestInv

LEMMA StepInv == IInv /\ [Next]_vars => IInv'
BY ConnectInv, DisconnectInv, SubscribeInv, UnsubscribeInv, OnManagedAccountsInv,
   CallbackInv DEF Next

LEMMA InvHolds == Spec => []IInv
<1> QED BY InitInv, StepInv, PTL DEF Spec

-----------------------------------------------------------------------------
(* What holds of the service. *)

\* Every variable has its type; the ids handed out are ids of the instance, three
\* for each account and one for each row.
THEOREM TypeCorrect == Spec => []TypeOK
<1>1. IInv => TypeOK
  BY DEF IInv
<1> QED BY <1>1, InvHolds, PTL

\* Whatever arrives late, every subscription TWS is serving stands in one of the
\* four maps, and a later Unsubscribe() cancels it.
THEOREM NothingOrphaned == Spec => []NoOrphanSubscription
<1>1. IInv => NoOrphanSubscription
  BY DEF IInv
<1> QED BY <1>1, InvHolds, PTL

\* Snapshot() is "ready" only when both downloads of each account, of the
\* subscription that stands now, are complete.
THEOREM ReadyIsLoaded == Spec => []ReadyMeansLoaded
<1>1. IInv => ReadyMeansLoaded
  BY DEF IInv, DoneInv, ReadyMeansLoaded, Ready
<1> QED BY <1>1, InvHolds, PTL

\* An open portfolio waits for the account list only while there is none, and
\* otherwise has its three requests for each account, once.
THEOREM OpenIsServed == Spec => []ActiveIsServed
<1>1. IInv => ActiveIsServed
  BY DEF IInv
<1> QED BY <1>1, InvHolds, PTL

-----------------------------------------------------------------------------
(* The quote, in SharedContext.  The inductive invariant is that of          *)
(* ChartServiceProofs, with ticks in the place of bars: what the current id  *)
(* was asked for, if TWS knows it, is the instrument on display.             *)

\* Ids above the counter were never used; the current one is not above it.
QuoteCounterInv ==
    /\ next_req_id >= InitialReqId
    /\ req_id <= next_req_id
    /\ \A id \in ReqIds : id > next_req_id => tws_asked[id] = NoInstrument

\* If TWS knows the current request, it was asked for what is on display;
\* without an instrument there is no request and no tick.
InstrumentInv ==
    /\ req_id # NoReqId => tws_asked[req_id] \in {instrument, NoInstrument}
    /\ instrument = NoInstrument => req_id = NoReqId /\ fields = EmptySnapshot

QuoteInv ==
    /\ QuoteTypeOK
    /\ QuoteCounterInv
    /\ InstrumentInv
    /\ OneSubscription
    /\ TicksBelongToInstrument
    /\ ReadyWithLastPrice

USE InstrumentAssumption

LEMMA NoIdIsNoReqId == NoReqId \notin ReqIds /\ ReqIds \subseteq Int /\ NoReqId \in Int
BY DEF NoReqId, ReqIds, InitialReqId

\* An empty snapshot is well typed and holds no tick.
LEMMA EmptyIsEmpty ==
    /\ EmptySnapshot \in [Fields -> ReqIds \union {NoReqId}]
    /\ \A f \in Fields : EmptySnapshot[f] = NoReqId
    /\ "last" \in Fields
BY DEF EmptySnapshot, Fields

LEMMA QuoteInitInv == QuoteInit => QuoteInv
<1> SUFFICES ASSUME QuoteInit PROVE QuoteInv
  OBVIOUS
<1>1. QuoteTypeOK
  <2>1. next_req_id \in Nat /\ status_queue = {}
    BY DEF QuoteInit, ContextInit, InitialReqId
  <2>2. tws_asked \in [ReqIds -> Instruments \union {NoInstrument}]
    BY DEF QuoteInit
  <2>3. unset \in SUBSET Fields /\ tws_live \in SUBSET ReqIds /\ ready \in BOOLEAN
    BY DEF QuoteInit
  <2>4. fields \in [Fields -> ReqIds \union {NoReqId}]
    BY EmptyIsEmpty DEF QuoteInit
  <2> QED BY <2>1, <2>2, <2>3, <2>4 DEF QuoteInit, QuoteTypeOK
<1>2. QuoteCounterInv /\ InstrumentInv /\ OneSubscription
  BY DEF QuoteInit, ContextInit, QuoteCounterInv, InstrumentInv, OneSubscription,
     InitialReqId, NoReqId
<1>3. TicksBelongToInstrument /\ ReadyWithLastPrice
  BY EmptyIsEmpty DEF QuoteInit, TicksBelongToInstrument, ReadyWithLastPrice
<1> QED BY <1>1, <1>2, <1>3 DEF QuoteInv

\* NextReqId() hands out an id of the instance, never used before.
LEMMA FreshId ==
    ASSUME QuoteInv, CanAllocate(1)
    PROVE  /\ NextReqId \in ReqIds /\ NextReqId = next_req_id + 1
           /\ NextReqId # req_id
           /\ tws_asked[NextReqId] = NoInstrument
<1>1. /\ next_req_id \in Nat /\ next_req_id >= 1000 /\ req_id <= next_req_id
      /\ \A id \in ReqIds : id > next_req_id => tws_asked[id] = NoInstrument
  BY DEF QuoteInv, QuoteTypeOK, QuoteCounterInv, InitialReqId
<1>2. NextReqId = next_req_id + 1 /\ next_req_id + 1 <= MaxReqId
  BY DEF CanAllocate, NextReqId
<1>3. NextReqId \in ReqIds /\ NextReqId > next_req_id
  BY <1>1, <1>2 DEF ReqIds, InitialReqId
<1>4. req_id \in Int
  BY NoIdIsNoReqId DEF QuoteInv, QuoteTypeOK
<1> QED BY <1>1, <1>2, <1>3, <1>4

\* What becomes of the TWS side when a fresh id is handed out for `c'.
LEMMA OnReadyEffect ==
    ASSUME QuoteInv, NEW c \in Instruments, CanAllocate(1), OnReady(NextReqId, c)
    PROVE  /\ status_queue' \subseteq {"Unknown futures", "ERR"}
           /\ tws_asked' \in [ReqIds -> Instruments \union {NoInstrument}]
           /\ tws_asked'[NextReqId] \in {c, NoInstrument}
           /\ \A id \in ReqIds : id # NextReqId => tws_asked'[id] = tws_asked[id]
           /\ tws_live' = {} \/ tws_live' = {NextReqId}
<1>1. tws_live \ {req_id} = {}
  BY DEF QuoteInv, OneSubscription
<1>2. NextReqId \in ReqIds /\ tws_asked[NextReqId] = NoInstrument
  BY FreshId
<1> QED BY <1>1, <1>2 DEF OnReady, EmitStatus, CancelMktData, QuoteInv, QuoteTypeOK

LEMMA QuoteRequestStep ==
    ASSUME QuoteInv, NEW c \in Instruments, Request(c)
    PROVE  QuoteInv' /\ Feed!Ask(c)
<1>1. /\ CanAllocate(1) /\ next_req_id' = next_req_id + 1 /\ req_id' = NextReqId
      /\ instrument' = c /\ ready' = FALSE /\ fields' = EmptySnapshot /\ unset' = {}
      /\ OnReady(NextReqId, c)
  BY DEF Request, Allocate
<1>2. /\ NextReqId \in ReqIds /\ NextReqId = next_req_id + 1
      /\ next_req_id \in Nat /\ next_req_id >= InitialReqId
  BY <1>1, FreshId DEF QuoteInv, QuoteTypeOK, QuoteCounterInv
<1>3. /\ status_queue' \subseteq {"Unknown futures", "ERR"}
      /\ tws_asked' \in [ReqIds -> Instruments \union {NoInstrument}]
      /\ tws_asked'[NextReqId] \in {c, NoInstrument}
      /\ \A id \in ReqIds : id # NextReqId => tws_asked'[id] = tws_asked[id]
      /\ tws_live' = {} \/ tws_live' = {NextReqId}
  BY <1>1, OnReadyEffect
<1>4. QuoteTypeOK'
  <2>1. next_req_id' \in Nat /\ req_id' \in ReqIds \union {NoReqId}
    BY <1>1, <1>2
  <2>2. tws_live' \in SUBSET ReqIds /\ unset' \in SUBSET Fields
    BY <1>1, <1>2, <1>3
  <2>3. fields' \in [Fields -> ReqIds \union {NoReqId}]
    BY <1>1, EmptyIsEmpty
  <2> QED BY <1>1, <1>3, <2>1, <2>2, <2>3 DEF QuoteTypeOK
<1>5. QuoteCounterInv'
  <2>1. /\ next_req_id' >= InitialReqId /\ req_id' <= next_req_id'
        /\ \A id \in ReqIds : id > next_req_id' => id > next_req_id /\ id # NextReqId
    BY <1>1, <1>2, NoIdIsNoReqId DEF InitialReqId
  <2> QED BY <1>3, <2>1 DEF QuoteInv, QuoteCounterInv
<1>6. InstrumentInv' /\ OneSubscription'
  BY <1>1, <1>3 DEF InstrumentInv, OneSubscription
<1>7. TicksBelongToInstrument' /\ ReadyWithLastPrice'
  BY <1>1, EmptyIsEmpty DEF TicksBelongToInstrument, ReadyWithLastPrice
<1>8. Feed!Replace
  <2>1. NextReqId \in ReqIds \ tws_live
    BY <1>1, <1>2, FreshId DEF QuoteInv, OneSubscription
  <2> QED BY <1>3, <2>1 DEF Feed!Replace
<1> QED
  BY <1>1, <1>4, <1>5, <1>6, <1>7, <1>8, EmptyIsEmpty DEF QuoteInv, Feed!Ask

LEMMA QuoteClearedStep ==
    ASSUME QuoteInv, Cancel \/ DisconnectQuote
    PROVE  QuoteInv' /\ Feed!Drop
<1>1. /\ next_req_id' = next_req_id /\ status_queue' = status_queue
      /\ req_id' = NoReqId /\ instrument' = NoInstrument /\ ready' = FALSE
      /\ fields' = EmptySnapshot /\ unset' = {}
  BY DEF Cancel, DisconnectQuote, Cleared
<1>2. tws_live' = {}
  BY DEF Cancel, DisconnectQuote, CancelMktData, QuoteInv, OneSubscription
<1>3. /\ tws_asked' \in [ReqIds -> Instruments \union {NoInstrument}]
      /\ \A id \in ReqIds : tws_asked[id] = NoInstrument => tws_asked'[id] = NoInstrument
  BY DEF Cancel, DisconnectQuote, QuoteInv, QuoteTypeOK
<1>4. QuoteTypeOK'
  BY <1>1, <1>2, <1>3, EmptyIsEmpty DEF QuoteInv, QuoteTypeOK
<1>5. QuoteCounterInv' /\ InstrumentInv'
  <2>1. next_req_id \in Nat
    BY DEF QuoteInv, QuoteTypeOK
  <2>2. NoReqId <= next_req_id
    BY <2>1 DEF NoReqId
  <2> QED BY <1>1, <1>3, <2>2 DEF QuoteInv, QuoteCounterInv, InstrumentInv
<1>6. OneSubscription' /\ TicksBelongToInstrument' /\ ReadyWithLastPrice'
  BY <1>1, <1>2, EmptyIsEmpty DEF OneSubscription, TicksBelongToInstrument,
     ReadyWithLastPrice
<1> QED BY <1>1, <1>2, <1>4, <1>5, <1>6, EmptyIsEmpty DEF QuoteInv, Feed!Drop

\* A tick is taken only under the current id, known to TWS.
LEMMA TickStep ==
    ASSUME QuoteInv, NEW id \in ReqIds, NEW f \in Fields, NEW v \in TickValues(f),
           OnTick(id, f, v)
    PROVE  QuoteInv' /\ Feed!Deliver
<1>1. /\ id = req_id /\ tws_asked[id] = instrument /\ instrument # NoInstrument
      /\ fields' = [fields EXCEPT ![f] = id]
      /\ ready' = (ready \/ f = "last") /\ unset' \subseteq unset \union {f}
      /\ UNCHANGED <<next_req_id, status_queue, req_id, instrument, tws_asked,
                     tws_live>>
  BY NoIdIsNoReqId DEF OnTick, IsCurrent, MakesReady, QuoteInv, InstrumentInv
<1>2. /\ fields \in [Fields -> ReqIds \union {NoReqId}] /\ ready \in BOOLEAN
      /\ unset \in SUBSET Fields
  BY DEF QuoteInv, QuoteTypeOK
<1>3. /\ fields' \in [Fields -> ReqIds \union {NoReqId}] /\ ready' \in BOOLEAN
      /\ unset' \in SUBSET Fields
      /\ \A g \in Fields : fields'[g] = IF g = f THEN id ELSE fields[g]
  BY <1>1, <1>2
<1>4. QuoteTypeOK' /\ QuoteCounterInv' /\ InstrumentInv' /\ OneSubscription'
  BY <1>1, <1>3 DEF QuoteInv, QuoteTypeOK, QuoteCounterInv, InstrumentInv, OneSubscription
<1>5. TicksBelongToInstrument'
  BY <1>1, <1>3 DEF QuoteInv, TicksBelongToInstrument
<1>6. ReadyWithLastPrice'
  BY <1>1, <1>3, EmptyIsEmpty, NoIdIsNoReqId DEF QuoteInv, ReadyWithLastPrice
<1>7. Feed!Deliver
  BY <1>1, <1>5 DEF Feed!Deliver, TicksBelongToInstrument
<1> QED BY <1>4, <1>5, <1>6, <1>7 DEF QuoteInv

\* Refused, drained, nothing done, or a step of the reader, who may take an id
\* or queue a status: what is held and asked for stays the same.
QuoteQuiet ==
    \/ \E id \in ReqIds : OnQuoteError(id)
    \/ DrainShared
    \/ ReaderStep
    \/ UNCHANGED sharedVars

LEMMA QuietContext ==
    ASSUME next_req_id \in Nat, QuoteQuiet
    PROVE  /\ next_req_id' \in Nat /\ next_req_id' >= next_req_id
           /\ status_queue' \subseteq status_queue \union {"ERR"}
           /\ UNCHANGED <<req_id, instrument, ready, fields, unset, tws_asked>>
           /\ tws_live' \subseteq tws_live
<1>1. CASE \E id \in ReqIds : OnQuoteError(id)
  BY <1>1 DEF OnQuoteError, EmitStatus, serviceVars
<1>2. CASE DrainShared \/ UNCHANGED sharedVars
  BY <1>2 DEF DrainShared, DrainQueue, quoteOnly, sharedVars, serviceVars
<1>3. CASE ReaderStep
  <2>1. UNCHANGED <<req_id, instrument, ready, fields, unset, tws_asked, tws_live>>
    BY <1>3 DEF ReaderStep, quoteOnly, serviceVars
  <2>2. CASE \E a \in Articles : OpenArticle(a)
    BY <2>1, <2>2 DEF OpenArticle, Allocate, CanAllocate
  <2>3. CASE \E id \in ReqIds : OnArticleError(id)
    BY <2>1, <2>3 DEF OnArticleError, EmitStatus
  <2>4. CASE \/ Escape \/ NewScreen \/ OnFrame \/ ConnectReader
             \/ \E id \in ReqIds : OnNewsArticle(id)
    BY <2>1, <2>4 DEF Escape, NewScreen, OnFrame, ConnectReader, OnNewsArticle
  <2> QED BY <1>3, <2>2, <2>3, <2>4 DEF ReaderStep, ReaderNext
<1> QED BY <1>1, <1>2, <1>3 DEF QuoteQuiet

LEMMA QuoteQuietStep ==
    ASSUME QuoteInv, QuoteQuiet
    PROVE  /\ QuoteInv'
           /\ UNCHANGED <<instrument, fields, tws_asked>>
           /\ tws_live' \subseteq tws_live
<1>1. next_req_id \in Nat /\ req_id \in Int /\ req_id <= next_req_id
  BY NoIdIsNoReqId DEF QuoteInv, QuoteTypeOK, QuoteCounterInv
<1>2. /\ next_req_id' \in Nat /\ next_req_id' >= next_req_id
      /\ status_queue' \subseteq status_queue \union {"ERR"}
      /\ UNCHANGED <<req_id, instrument, ready, fields, unset, tws_asked>>
      /\ tws_live' \subseteq tws_live
  BY <1>1, QuietContext
<1>3. QuoteTypeOK'
  BY <1>2 DEF QuoteInv, QuoteTypeOK
<1>4. QuoteCounterInv'
  <2>1. \A id \in ReqIds : id > next_req_id' => id > next_req_id
    BY <1>1, <1>2, NoIdIsNoReqId
  <2> QED BY <1>1, <1>2, <2>1 DEF QuoteInv, QuoteCounterInv, InitialReqId
<1> QED
  BY <1>2, <1>3, <1>4 DEF QuoteInv, InstrumentInv, OneSubscription,
     TicksBelongToInstrument, ReadyWithLastPrice

\* What a step of the program is to the quote.
LEMMA QuoteSteps ==
    [SharedNext]_sharedVars =>
        \/ \E c \in Instruments : Request(c)
        \/ Cancel \/ DisconnectQuote
        \/ \E id \in ReqIds, f \in Fields : \E v \in TickValues(f) : OnTick(id, f, v)
        \/ QuoteQuiet
BY DEF SharedNext, QuoteStep, QuoteNext, DisconnectAll, QuoteQuiet

LEMMA QuoteStepInv == QuoteInv /\ [SharedNext]_sharedVars => QuoteInv'
BY QuoteSteps, QuoteRequestStep, QuoteClearedStep, TickStep, QuoteQuietStep

\* The invariant holds in every behaviour of the program.
LEMMA QuoteInvHolds == SharedSpec => []QuoteInv
<1>1. SharedInit => QuoteInit
  BY DEF SharedInit
<1> QED BY <1>1, QuoteInitInv, QuoteStepInv, PTL DEF SharedSpec

-----------------------------------------------------------------------------
(* The theorems. *)

\* TWS never streams a quote that the next Cancel() would not cancel.
THEOREM QuoteAtMostOneSubscription == SharedSpec => []OneSubscription
<1>1. QuoteInv => OneSubscription
  BY DEF QuoteInv
<1> QED BY <1>1, QuoteInvHolds, PTL

\* No price, size or time of another instrument is ever displayed.
THEOREM NoForeignTicks == SharedSpec => []TicksBelongToInstrument
<1>1. QuoteInv => TicksBelongToInstrument
  BY DEF QuoteInv
<1> QED BY <1>1, QuoteInvHolds, PTL

\* The snapshot is ready exactly when a last price was taken for it.
THEOREM ReadyIffLastPrice == SharedSpec => []ReadyWithLastPrice
<1>1. QuoteInv => ReadyWithLastPrice
  BY DEF QuoteInv
<1> QED BY <1>1, QuoteInvHolds, PTL

-----------------------------------------------------------------------------
(* The refinement of LiveFeed. *)

\* Every step of the program is a step of LiveFeed, or unseen by it.
LEMMA StepSimulation == QuoteInv /\ [SharedNext]_sharedVars => [Feed!Next]_(Feed!vars)
<1> SUFFICES ASSUME QuoteInv, [SharedNext]_sharedVars
             PROVE  Feed!Next \/ UNCHANGED Feed!vars
  OBVIOUS
<1>1. ASSUME NEW c \in Instruments, Request(c) PROVE Feed!Next
  BY <1>1, QuoteRequestStep DEF Feed!Next
<1>2. CASE Cancel \/ DisconnectQuote
  BY <1>2, QuoteClearedStep DEF Feed!Next
<1>3. ASSUME NEW id \in ReqIds, NEW f \in Fields, NEW v \in TickValues(f),
             OnTick(id, f, v)
      PROVE  Feed!Next
  BY <1>3, TickStep DEF Feed!Next
<1>4. CASE QuoteQuiet
  <2>1. /\ UNCHANGED <<instrument, fields, tws_asked>>
        /\ tws_live' \subseteq tws_live
    BY <1>4, QuoteQuietStep
  <2>2. CASE instrument = NoInstrument
    <3>1. tws_live = {}
      BY <2>2, NoIdIsNoReqId DEF QuoteInv, QuoteTypeOK, InstrumentInv, OneSubscription
    <3> QED BY <2>1, <3>1 DEF Feed!vars
  <2>3. CASE instrument # NoInstrument
    <3>1. Feed!Deliver
      BY <2>1, <2>3 DEF Feed!Deliver, QuoteInv, TicksBelongToInstrument
    <3> QED BY <3>1 DEF Feed!Next
  <2> QED BY <2>2, <2>3
<1> QED BY <1>1, <1>2, <1>3, <1>4, QuoteSteps

\* quote_service.cc keeps the promise of LiveFeed, whatever the reader does.
THEOREM QuoteImplementsFeed == SharedSpec => ImplementsLiveFeed
<1>1. SharedInit => Feed!Init
  BY EmptyIsEmpty DEF SharedInit, QuoteInit, Feed!Init
<1> QED
  BY <1>1, StepSimulation, QuoteInvHolds, PTL DEF SharedSpec, ImplementsLiveFeed, Feed!Spec

-----------------------------------------------------------------------------
(* The reader of one article.  The slot for the answer is shared by all      *)
(* requests and outlives the screen that made them; the reader is safe       *)
(* because it keeps the id of its own request for as long as it is open, and *)
(* that request was for the article whose title it shows.                    *)

USE ReaderAssumption

\* The open reader waits for the article it shows the title of.
WantedInv ==
    reading => reader_req_id \in ReqIds /\ tws_articles[reader_req_id] = title

\* Ids above the counter were used for no article.
ReaderCounterInv ==
    /\ next_req_id \in Nat /\ next_req_id >= InitialReqId
    /\ \A id \in ReqIds : id > next_req_id => tws_articles[id] = NoArticle

ReaderInv == ReaderTypeOK /\ ReaderCounterInv /\ WantedInv /\ BodyUnderItsTitle

\* An id handed out is one of the instance, and above all that were used.
LEMMA ReaderNewId ==
    ASSUME ReaderCounterInv, Allocate(1)
    PROVE  /\ NextReqId \in ReqIds /\ next_req_id' = next_req_id + 1
           /\ next_req_id' \in Nat /\ next_req_id' >= InitialReqId
           /\ \A id \in ReqIds : id > next_req_id' => id > next_req_id /\ id # NextReqId
BY DEF ReaderCounterInv, Allocate, CanAllocate, NextReqId, ReqIds, InitialReqId

LEMMA ReaderInitInv == ReaderInit => ReaderInv
<1> SUFFICES ASSUME ReaderInit PROVE ReaderInv
  OBVIOUS
<1>1. ReaderTypeOK
  <2>1. tws_articles \in [ReqIds -> MaybeArticle]
    BY DEF ReaderInit, MaybeArticle
  <2>2. {is_connected, reading, received, tws_in_order} \subseteq BOOLEAN
    BY DEF ReaderInit
  <2>3. /\ reader_req_id \in MaybeId /\ article \in MaybeId
        /\ title \in MaybeArticle /\ body \in MaybeArticle
        /\ tws_open \subseteq ReqIds /\ tws_failed \subseteq ReqIds
    BY DEF ReaderInit, MaybeId, MaybeArticle
  <2> QED BY <2>1, <2>2, <2>3 DEF ReaderTypeOK
<1>2. ReaderCounterInv
  BY DEF ReaderInit, ContextInit, ReaderCounterInv, InitialReqId
<1>3. WantedInv /\ BodyUnderItsTitle
  BY DEF ReaderInit, WantedInv, BodyUnderItsTitle
<1> QED BY <1>1, <1>2, <1>3 DEF ReaderInv

-----------------------------------------------------------------------------
(* The reader's steps. *)

LEMMA OpenArticleInv ==
    ASSUME ReaderInv, NEW a \in Articles, OpenArticle(a)
    PROVE  ReaderInv'
<1> USE DEF ReaderInv, OpenArticle, MaybeId, MaybeArticle
<1>1. /\ NextReqId \in ReqIds /\ next_req_id' = next_req_id + 1
      /\ next_req_id' \in Nat /\ next_req_id' >= InitialReqId
      /\ \A id \in ReqIds : id > next_req_id' => id > next_req_id /\ id # NextReqId
  BY ReaderNewId
<1>2. ReaderTypeOK'
  BY <1>1 DEF ReaderTypeOK
<1>3. ReaderCounterInv'
  BY <1>1 DEF ReaderTypeOK, ReaderCounterInv
<1>4. WantedInv'
  BY <1>1 DEF ReaderTypeOK, WantedInv
<1> QED BY <1>2, <1>3, <1>4 DEF BodyUnderItsTitle

\* What is drained is shown only if it answers the reader's own request.
LEMMA OnFrameInv == ASSUME ReaderInv, OnFrame PROVE ReaderInv'
<1> USE DEF ReaderInv, OnFrame, MaybeId, MaybeArticle
<1>1. article \in ReqIds
  BY DEF ReaderTypeOK
<1>2. ReaderTypeOK'
  BY <1>1 DEF ReaderTypeOK
<1>3. WantedInv' /\ ReaderCounterInv'
  BY DEF WantedInv, ReaderCounterInv
<1>4. BodyUnderItsTitle'
  BY DEF WantedInv, BodyUnderItsTitle, IsWanted
<1> QED BY <1>2, <1>3, <1>4

\* Answers, the connection, the drain and the quote do not touch the reader; the
\* quote may take an id.
ReaderQuiet ==
    \/ \E id \in ReqIds : OnNewsArticle(id) \/ OnArticleError(id)
    \/ DisconnectReader \/ ConnectReader
    \/ DrainShared \/ QuoteStep
    \/ UNCHANGED sharedVars

LEMMA ReaderQuietInv ==
    ASSUME ReaderInv, ReaderQuiet
    PROVE  ReaderInv' /\ UNCHANGED tws_articles
<1> USE DEF ReaderInv, readerVars, MaybeId
<1>1. next_req_id' \in Nat /\ next_req_id' >= next_req_id
  <2> USE DEF ReaderCounterInv
  <2>1. CASE \E id \in ReqIds : OnNewsArticle(id) \/ OnArticleError(id)
    BY <2>1 DEF OnNewsArticle, OnArticleError
  <2>2. CASE DisconnectReader \/ ConnectReader \/ DrainShared \/ UNCHANGED sharedVars
    BY <2>2 DEF DisconnectReader, ConnectReader, DrainShared, sharedVars
  <2>3. CASE QuoteStep
    <3>1. CASE \E c \in Instruments : Request(c)
      BY <3>1 DEF Request, Allocate, CanAllocate
    <3>2. CASE ~ \E c \in Instruments : Request(c)
      BY <2>3, <3>2 DEF QuoteStep, QuoteNext, Cancel, OnTick, OnQuoteError
    <3> QED BY <3>1, <3>2
  <2> QED BY <2>1, <2>2, <2>3 DEF ReaderQuiet
<1>2. ReaderTypeOK' /\ UNCHANGED <<readerVars, tws_articles>>
  <2>1. CASE \E id \in ReqIds : OnNewsArticle(id)
    BY <2>1 DEF ReaderTypeOK, OnNewsArticle, Overwrite
  <2>2. CASE \E id \in ReqIds : OnArticleError(id)
    BY <2>2 DEF ReaderTypeOK, OnArticleError
  <2>3. CASE DisconnectReader
    BY <2>3 DEF ReaderTypeOK, DisconnectReader
  <2>4. CASE ConnectReader
    BY <2>4 DEF ReaderTypeOK, ConnectReader
  <2>5. CASE DrainShared \/ QuoteStep \/ UNCHANGED sharedVars
    <3>1. UNCHANGED readerOnly
      BY <2>5 DEF DrainShared, QuoteStep, sharedVars
    <3> QED BY <3>1 DEF readerOnly, ReaderTypeOK
  <2> QED BY <2>1, <2>2, <2>3, <2>4, <2>5 DEF ReaderQuiet
<1>3. ReaderCounterInv'
  <2>1. \A id \in ReqIds : id > next_req_id' => id > next_req_id
    BY <1>1, NoIdIsNoReqId DEF ReaderCounterInv
  <2> QED BY <1>1, <1>2, <2>1 DEF ReaderCounterInv, InitialReqId
<1> QED BY <1>2, <1>3 DEF WantedInv, BodyUnderItsTitle

LEMMA ReaderClosedInv ==
    ASSUME ReaderInv, Escape \/ NewScreen
    PROVE  ReaderInv'
<1> USE DEF ReaderInv, MaybeId, MaybeArticle
<1>1. ReaderTypeOK'
  BY DEF ReaderTypeOK, Escape, NewScreen
<1> QED BY <1>1 DEF Escape, NewScreen, WantedInv, ReaderCounterInv,
                    BodyUnderItsTitle

\* What a step of the program is to the reader.
LEMMA ReaderSteps ==
    [SharedNext]_sharedVars =>
        \/ \E a \in Articles : OpenArticle(a) /\ UNCHANGED tws_asked
        \/ (Escape \/ NewScreen \/ OnFrame) /\ UNCHANGED <<tws_asked, tws_articles>>
        \/ ReaderQuiet
BY DEF SharedNext, ReaderStep, ReaderNext, DisconnectAll, ReaderQuiet, quoteOnly,
       Escape, NewScreen, OnFrame

LEMMA ReaderStepInv == ReaderInv /\ [SharedNext]_sharedVars => ReaderInv'
BY ReaderSteps, OpenArticleInv, OnFrameInv, ReaderQuietInv, ReaderClosedInv

LEMMA ReaderInvHolds == SharedSpec => []ReaderInv
<1>1. SharedInit => ReaderInit
  BY DEF SharedInit
<1> QED BY <1>1, ReaderInitInv, ReaderStepInv, PTL DEF SharedSpec

\* The body under a title is that of the same article, whatever was opened and
\* left before and in whatever order the answers come.
THEOREM BodyIsOfTitle == SharedSpec => []BodyUnderItsTitle
<1>1. ReaderInv => BodyUnderItsTitle
  BY DEF ReaderInv
<1> QED BY <1>1, ReaderInvHolds, PTL

-----------------------------------------------------------------------------
(* The two together. *)

\* Every variable keeps to its type.
THEOREM SharedTypeCorrect == SharedSpec => []SharedTypeOK
<1>1. QuoteInv /\ ReaderInv => SharedTypeOK
  BY DEF QuoteInv, ReaderInv, SharedTypeOK
<1> QED BY <1>1, QuoteInvHolds, ReaderInvHolds, PTL

\* An id that one of them takes is above the counter, and so was used by neither.
LEMMA StepOwner ==
    ASSUME QuoteInv, ReaderInv, OneOwner, [SharedNext]_sharedVars
    PROVE  OneOwner'
<1>1. ASSUME NEW a \in Articles, OpenArticle(a), UNCHANGED tws_asked PROVE OneOwner'
  <2>1. CanAllocate(1) /\ tws_articles' = [tws_articles EXCEPT ![NextReqId] = a]
    BY <1>1 DEF OpenArticle, Allocate
  <2>2. tws_asked[NextReqId] = NoInstrument
    BY <2>1, FreshId
  <2>3. \A id \in ReqIds : id # NextReqId => tws_articles'[id] = tws_articles[id]
    BY <2>1 DEF ReaderInv, ReaderTypeOK
  <2> QED BY <1>1, <2>2, <2>3 DEF OneOwner
<1>2. CASE UNCHANGED <<tws_asked, tws_articles>>
  BY <1>2 DEF OneOwner
<1>3. CASE ReaderQuiet
  <2>1. UNCHANGED tws_articles
    BY <1>3, ReaderQuietInv
  <2>2. ASSUME NEW c \in Instruments, Request(c) PROVE OneOwner'
    <3>1. CanAllocate(1) /\ OnReady(NextReqId, c) /\ Allocate(1)
      BY <2>2 DEF Request, Allocate
    <3>2. \A id \in ReqIds : id # NextReqId => tws_asked'[id] = tws_asked[id]
      BY <3>1, OnReadyEffect
    <3>3. /\ NextReqId \in ReqIds /\ NextReqId = next_req_id + 1 /\ next_req_id \in Nat
          /\ \A id \in ReqIds : id > next_req_id => tws_articles[id] = NoArticle
      BY <3>1, FreshId DEF ReaderInv, ReaderCounterInv
    <3>4. tws_articles[NextReqId] = NoArticle
      BY <3>3
    <3> QED BY <2>1, <3>2, <3>4 DEF OneOwner
  <2>3. CASE \A id \in ReqIds : tws_asked'[id] \in {tws_asked[id], NoInstrument}
    BY <2>1, <2>3 DEF OneOwner
  <2>4. CASE \/ Cancel \/ DisconnectQuote \/ QuoteQuiet
             \/ \E id \in ReqIds, f \in Fields :
                  \E v \in TickValues(f) : OnTick(id, f, v)
    <3>1. CASE QuoteQuiet
      BY <2>3, <3>1, QuoteQuietStep
    <3>2. CASE ~QuoteQuiet
      BY <2>3, <2>4, <3>2 DEF Cancel, DisconnectQuote, OnTick
    <3> QED BY <3>1, <3>2
  <2> QED BY <2>2, <2>4, QuoteSteps
<1> QED BY <1>1, <1>2, <1>3, ReaderSteps

\* No id is ever used by both, so that a callback finds its service by its id.
THEOREM EveryIdHasOneOwner == SharedSpec => []OneOwner
<1>1. SharedInit => OneOwner
  BY DEF SharedInit, QuoteInit, OneOwner
<1> QED BY <1>1, StepOwner, QuoteInvHolds, ReaderInvHolds, PTL DEF SharedSpec

================================================================================
