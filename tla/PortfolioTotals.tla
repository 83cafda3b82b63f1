--------------------------- MODULE PortfolioTotals ---------------------------
(* The rows of portfolio_service.cc and their consolidation in Snapshot(): a *)
(* row per account and contract becomes one per symbol, type and currency.   *)
(* Of the sums, the market value stands for the three of profit and loss.    *)
EXTENDS Naturals, Integers, SequencesExt

CONSTANTS
    Keys,               \* pairs of an account and a contract
    GroupOf,            \* symbol, sec_type and currency of a contract
    Positions,          \* sizes TWS reports, 0 among them
    Costs, Values,      \* average costs, and market values of a row
    Largest             \* 1e15: what is beyond means "not computed yet"

\* What is assumed of the constants.
TotalsAssumption ==
    /\ IsFiniteSet(Keys) /\ \A k \in Keys : k[2] \in DOMAIN GroupOf
    /\ 0 \in Positions /\ Positions \subseteq Int
    /\ Costs \subseteq Nat /\ Values \subseteq Int /\ Largest \in Nat

VARIABLE book   \* positions_, and the size of each position as last reported

Closed == <<>>
Row == [position : Positions, avg_cost : Costs, market_value : Values \union {0}]

TypeOK == book \in [rows : [Keys -> Row \union {Closed}], reported : [Keys -> Positions]]

NoRows == [rows |-> [k \in Keys |-> Closed], reported |-> [k \in Keys |-> 0]]
Init == book = NoRows

Abs(x) == IF x < 0 THEN -x ELSE x
SafeNumeric(v) == IF Abs(v) > Largest THEN 0 ELSE v

\* A position of size zero drops the row; a new row has no value yet.
OnPositionMulti(k, position, avg_cost) ==
    LET row == IF position = 0 THEN Closed
               ELSE [position |-> position, avg_cost |-> avg_cost,
                     market_value |-> IF book.rows[k] = Closed THEN 0
                                      ELSE book.rows[k].market_value]
    IN  book' = [rows |-> [book.rows EXCEPT ![k] = row],
                 reported |-> [book.reported EXCEPT ![k] = position]]

\* Brings the size too, and keeps a row of size zero.
OnPnLSingle(k, position, value) ==
    /\ book.rows[k] # Closed
    /\ book' = [rows |-> [book.rows EXCEPT ![k].position = position,
                                           ![k].market_value = SafeNumeric(value)],
                reported |-> [book.reported EXCEPT ![k] = position]]

Unsubscribe == book' = NoRows

Next ==
    \/ \E k \in Keys, position \in Positions :
        \/ \E cost \in Costs : OnPositionMulti(k, position, cost)
        \/ \E value \in Values : OnPnLSingle(k, position, value)
    \/ Unsubscribe

-----------------------------------------------------------------------------
(* Snapshot(). *)

RowsOf(group) == {k \in Keys : book.rows[k] # Closed /\ GroupOf[k[2]] = group}
Total(f) == MapThenSumSet(LAMBDA k : f[k], DOMAIN f)

\* A group whose sizes cancel out has no row; weighted_cost / position is kept
\* as the pair.
Consolidated(group) ==
    LET keys == RowsOf(group)
    IN  [group |-> group,
         position |-> Total([k \in keys |-> book.rows[k].position]),
         weighted_cost |->
            Total([k \in keys |-> book.rows[k].position * book.rows[k].avg_cost]),
         market_value |-> Total([k \in keys |-> book.rows[k].market_value]),
         accounts |-> {k[1] : k \in keys}]
FlatShownVariant(p) == RowsOf(p.group) # {}
IsShown(p) == p.position # 0
Snapshot ==
    CHOOSE rows \in SetToSeqs({p \in {Consolidated(g) : g \in Range(GroupOf)} : IsShown(p)}) :
        \A i, j \in DOMAIN rows :
            i < j => Abs(rows[i].market_value) >= Abs(rows[j].market_value)

-----------------------------------------------------------------------------
(* Properties. *)

\* What counts of x in a sum of the positive terms only.
Positive(x) == IF x > 0 THEN x ELSE 0

\* Whatever order sizes and values arrive in, the portfolio shows every group
\* of which something is held on balance exactly once, with the balance last
\* reported by TWS and with every account that holds of it; its cost is one
\* that the long rows can have paid and the short rows received at the prices
\* of the rows; the largest come first, and no sum is spoilt by a value that is
\* not computed yet.
HeldIsShown ==
    LET Net(g) == Total([k \in {j \in Keys : GroupOf[j[2]] = g} |-> book.reported[k]])
        Holders(g) == {k[1] : k \in {j \in Keys : GroupOf[j[2]] = g /\ book.reported[j] # 0}}
    IN  /\ \A g \in Range(GroupOf) :
             Cardinality({i \in DOMAIN Snapshot : Snapshot[i].group = g})
                = IF Net(g) = 0 THEN 0 ELSE 1
        /\ \A i \in DOMAIN Snapshot :
             LET p == Snapshot[i]
                 Long == Total([k \in RowsOf(p.group) |-> Positive(book.rows[k].position)])
                 Short == Total([k \in RowsOf(p.group) |-> Positive(-book.rows[k].position)])
                 costs == {book.rows[k].avg_cost : k \in RowsOf(p.group)}
             IN  /\ p.position = Net(p.group)
                 /\ Holders(p.group) \subseteq p.accounts
                 /\ p.weighted_cost \in (Min(costs) * Long - Max(costs) * Short)
                                          ..(Max(costs) * Long - Min(costs) * Short)
                 /\ Abs(p.market_value) <= Largest * Cardinality(RowsOf(p.group))
                 /\ \A j \in 1..(i - 1) :
                      Abs(Snapshot[j].market_value) >= Abs(p.market_value)

=============================================================================
