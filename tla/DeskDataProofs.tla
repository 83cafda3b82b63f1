---------------------------- MODULE DeskDataProofs ----------------------------
(***************************************************************************)
(* More proofs about the components of Desk, for all values of their       *)
(* constants: those that say what is computed from the data, the totals of *)
(* the portfolio, the reading of a command and the texts.                  *)
(***************************************************************************)
EXTENDS Desk, DeskLemmas

-----------------------------------------------------------------------------
(***************************************************************************)
(* PortfolioTotals: every set of accounts and contracts, all sizes, costs  *)
(* and values.  What makes the totals those TWS reported is that a row     *)
(* says the size reported last, that a position without a row was reported *)
(* as 0, and that no row keeps a value that is not computed yet.           *)
(***************************************************************************)

BookInv ==
    /\ Totals!TypeOK
    /\ \A k \in Keys :
         IF state.rows[k] = Totals!Closed THEN state.reported[k] = 0
         ELSE /\ state.reported[k] = state.rows[k].position
              /\ Totals!Abs(state.rows[k].market_value) <= Largest

LEMMA BookConstants ==
    /\ IsFiniteSet(Keys) /\ \A k \in Keys : k[2] \in DOMAIN GroupOf
    /\ 0 \in Positions /\ Positions \subseteq Int
    /\ Costs \subseteq Nat /\ Values \subseteq Int /\ Largest \in Nat
BY DeskAssumption DEF Totals!TotalsAssumption, Totals!IsFiniteSet, IsFiniteSet

LEMMA RowIsOpen == \A row \in Totals!Row : row # Totals!Closed
<1> SUFFICES ASSUME NEW row \in Totals!Row, row = Totals!Closed PROVE FALSE
  OBVIOUS
<1>1. DOMAIN row = {"position", "avg_cost", "market_value"}
  BY DEF Totals!Row
<1>2. DOMAIN row = {}
  BY DEF Totals!Closed
<1> QED BY <1>1, <1>2

LEMMA SafeIsSafe ==
    ASSUME NEW v \in Values
    PROVE  /\ Totals!SafeNumeric(v) \in Values \union {0}
           /\ Totals!Abs(Totals!SafeNumeric(v)) <= Largest
BY BookConstants DEF Totals!SafeNumeric, Totals!Abs

-----------------------------------------------------------------------------
(* The steps: one position changes, or all of them go. *)

LEMMA OneRow ==
    ASSUME BookInv, NEW k \in Keys, NEW row \in Totals!Row \union {Totals!Closed},
           NEW position \in Positions,
           state' = [rows |-> [state.rows EXCEPT ![k] = row],
                     reported |-> [state.reported EXCEPT ![k] = position]],
           IF row = Totals!Closed THEN position = 0
           ELSE position = row.position /\ Totals!Abs(row.market_value) <= Largest
    PROVE  BookInv'
<1>1. /\ state.rows \in [Keys -> Totals!Row \union {Totals!Closed}]
      /\ state.reported \in [Keys -> Positions]
  BY DEF BookInv, Totals!TypeOK
<1>2. /\ state'.rows \in [Keys -> Totals!Row \union {Totals!Closed}]
      /\ state'.reported \in [Keys -> Positions]
      /\ state' = [rows |-> state'.rows, reported |-> state'.reported]
  BY <1>1
<1>3. Totals!TypeOK'
  BY <1>2 DEF Totals!TypeOK, Totals!Row, Totals!Closed
<1>4. ASSUME NEW j \in Keys
      PROVE  IF state'.rows[j] = Totals!Closed THEN state'.reported[j] = 0
             ELSE /\ state'.reported[j] = state'.rows[j].position
                  /\ Totals!Abs(state'.rows[j].market_value) <= Largest
  <2>1. CASE j = k
    <3>1. state'.rows[j] = row /\ state'.reported[j] = position
      BY <1>1, <2>1
    <3> QED BY <3>1
  <2>2. CASE j # k
    <3>1. state'.rows[j] = state.rows[j] /\ state'.reported[j] = state.reported[j]
      BY <1>1, <2>2
    <3> QED BY <3>1 DEF BookInv
  <2> QED BY <2>1, <2>2
<1> QED BY <1>3, <1>4 DEF BookInv, Totals!Closed, Totals!Abs

LEMMA NoRowsInv == ASSUME state = Totals!NoRows PROVE BookInv
<1>1. /\ state.rows = [k \in Keys |-> Totals!Closed]
      /\ state.reported = [k \in Keys |-> 0]
      /\ state = [rows |-> state.rows, reported |-> state.reported]
  BY DEF Totals!NoRows
<1>2. Totals!TypeOK
  BY <1>1, BookConstants DEF Totals!TypeOK
<1> QED BY <1>1, <1>2 DEF BookInv

LEMMA OnPositionMultiInv ==
    ASSUME BookInv, NEW k \in Keys, NEW position \in Positions, NEW cost \in Costs,
           Totals!OnPositionMulti(k, position, cost)
    PROVE  BookInv'
<1>1. state.rows \in [Keys -> Totals!Row \union {Totals!Closed}]
  BY DEF BookInv, Totals!TypeOK
<1> DEFINE value == IF state.rows[k] = Totals!Closed THEN 0 ELSE state.rows[k].market_value
           new == [position |-> position, avg_cost |-> cost, market_value |-> value]
           row == IF position = 0 THEN Totals!Closed ELSE new
<1>2. value \in Values \union {0} /\ Totals!Abs(value) <= Largest
  <2>1. CASE state.rows[k] = Totals!Closed
    BY <2>1, BookConstants DEF Totals!Abs
  <2>2. CASE state.rows[k] # Totals!Closed
    <3>1. state.rows[k] \in Totals!Row
      BY <1>1, <2>2
    <3> QED BY <2>2, <3>1 DEF BookInv, Totals!Row
  <2> QED BY <2>1, <2>2
<1>3. /\ new \in Totals!Row /\ new.position = position /\ new.market_value = value
  BY <1>2 DEF Totals!Row
<1>4. new # Totals!Closed
  BY <1>3, RowIsOpen
<1>5. state' = [rows |-> [state.rows EXCEPT ![k] = row],
                reported |-> [state.reported EXCEPT ![k] = position]]
  BY DEF Totals!OnPositionMulti
<1> HIDE DEF new, value
<1>6. row \in Totals!Row \union {Totals!Closed}
  BY <1>3
<1>7. IF row = Totals!Closed THEN position = 0
      ELSE position = row.position /\ Totals!Abs(row.market_value) <= Largest
  BY <1>2, <1>3, <1>4
<1> HIDE DEF row
<1> QED BY <1>5, <1>6, <1>7, OneRow

LEMMA OnPnLSingleInv ==
    ASSUME BookInv, NEW k \in Keys, NEW position \in Positions, NEW value \in Values,
           Totals!OnPnLSingle(k, position, value)
    PROVE  BookInv'
<1> DEFINE old == state.rows[k]
           safe == Totals!SafeNumeric(value)
           row == [position |-> position, avg_cost |-> old.avg_cost, market_value |-> safe]
<1>1. state.rows \in [Keys -> Totals!Row \union {Totals!Closed}] /\ old \in Totals!Row
  BY DEF BookInv, Totals!TypeOK, Totals!OnPnLSingle
<1>2. safe \in Values \union {0} /\ Totals!Abs(safe) <= Largest
  BY SafeIsSafe
<1> HIDE DEF safe
<1>3. row \in Totals!Row /\ row.position = position /\ row.market_value = safe
  BY <1>1, <1>2 DEF Totals!Row
<1>4. row # Totals!Closed
  BY <1>3, RowIsOpen
<1>5. state' = [rows |-> [state.rows EXCEPT ![k].position = position,
                                            ![k].market_value = safe],
                reported |-> [state.reported EXCEPT ![k] = position]]
  BY DEF Totals!OnPnLSingle, safe
<1>6. [state.rows EXCEPT ![k].position = position, ![k].market_value = safe]
         = [state.rows EXCEPT ![k] = row]
  BY <1>1 DEF Totals!Row
<1>7. state' = [rows |-> [state.rows EXCEPT ![k] = row],
                reported |-> [state.reported EXCEPT ![k] = position]]
  BY <1>5, <1>6
<1> HIDE DEF row
<1> QED BY <1>2, <1>3, <1>4, <1>7, OneRow

LEMMA BookHolds == Spec => [](subject = "book" => BookInv)
<1>1. Init => (subject = "book" => BookInv)
  BY NoRowsInv DEF Init, Totals!Init
<1>2. (subject = "book" => BookInv) /\ [Next]_vars => (subject = "book" => BookInv)'
  <2> SUFFICES ASSUME subject = "book" => BookInv, [Next]_vars, subject' = "book"
               PROVE  BookInv'
    OBVIOUS
  <2>1. subject = "book" /\ BookInv /\ (Totals!Next \/ UNCHANGED state)
    BY DEF Next, vars
  <2>2. CASE UNCHANGED state
    BY <2>1, <2>2 DEF BookInv, Totals!TypeOK, Totals!Row, Totals!Closed, Totals!Abs
  <2>3. CASE Totals!Unsubscribe
    <3>1. state' = Totals!NoRows
      BY <2>3 DEF Totals!Unsubscribe
    <3>2. /\ state'.rows = [k \in Keys |-> Totals!Closed]
          /\ state'.reported = [k \in Keys |-> 0]
          /\ state' = [rows |-> state'.rows, reported |-> state'.reported]
      BY <3>1 DEF Totals!NoRows
    <3>3. Totals!TypeOK'
      BY <3>2, BookConstants DEF Totals!TypeOK, Totals!Row, Totals!Closed
    <3> QED BY <3>2, <3>3 DEF BookInv, Totals!Closed, Totals!Abs
  <2> QED BY <2>1, <2>2, <2>3, OnPositionMultiInv, OnPnLSingleInv DEF Totals!Next
<1> QED BY <1>1, <1>2, PTL DEF Spec

-----------------------------------------------------------------------------
(* The totals of a group. *)

KeysOf(g) == {k \in Keys : GroupOf[k[2]] = g}
Sizes(g) == [k \in Totals!RowsOf(g) |-> state.rows[k].position]
Weights(g) == [k \in Totals!RowsOf(g) |-> state.rows[k].position * state.rows[k].avg_cost]
MarketValues(g) == [k \in Totals!RowsOf(g) |-> state.rows[k].market_value]
Reported(g) == [k \in KeysOf(g) |-> state.reported[k]]
Net(g) == SumOf(Reported(g), KeysOf(g))
Bought(g) == [k \in Totals!RowsOf(g) |-> Totals!Positive(state.rows[k].position)]
Sold(g) == [k \in Totals!RowsOf(g) |-> Totals!Positive(-state.rows[k].position)]

LEMMA TotalIsSum == \A S, f : DOMAIN f = S => Totals!Total(f) = SumOf(f, S)
BY DEF Totals!Total, SumOf, Totals!MapThenSumSet, MapThenSumSet,
       Totals!MapThenFoldSet, MapThenFoldSet

LEMMA ConsolidatedIs ==
    ASSUME NEW g
    PROVE  LET p == Totals!Consolidated(g)
               rows == Totals!RowsOf(g)
           IN  /\ p.group = g
               /\ p.position = SumOf(Sizes(g), rows)
               /\ p.weighted_cost = SumOf(Weights(g), rows)
               /\ p.market_value = SumOf(MarketValues(g), rows)
               /\ p.accounts = {k[1] : k \in rows}
<1>1. /\ Totals!Total(Sizes(g)) = SumOf(Sizes(g), Totals!RowsOf(g))
      /\ Totals!Total(Weights(g)) = SumOf(Weights(g), Totals!RowsOf(g))
      /\ Totals!Total(MarketValues(g)) = SumOf(MarketValues(g), Totals!RowsOf(g))
  <2>1. /\ DOMAIN Sizes(g) = Totals!RowsOf(g) /\ DOMAIN Weights(g) = Totals!RowsOf(g)
        /\ DOMAIN MarketValues(g) = Totals!RowsOf(g)
    BY DEF Sizes, Weights, MarketValues
  <2> QED BY <2>1, TotalIsSum
<1>2. Totals!Consolidated(g) =
        [group |-> g, position |-> Totals!Total(Sizes(g)),
         weighted_cost |-> Totals!Total(Weights(g)),
         market_value |-> Totals!Total(MarketValues(g)),
         accounts |-> {k[1] : k \in Totals!RowsOf(g)}]
  BY DEF Totals!Consolidated, Sizes, Weights, MarketValues
<1> QED BY <1>1, <1>2

\* The rows of a group.
LEMMA RowsTyped ==
    ASSUME BookInv, NEW g
    PROVE  /\ Totals!RowsOf(g) \in SUBSET KeysOf(g)
           /\ IsFiniteSet(KeysOf(g)) /\ IsFiniteSet(Totals!RowsOf(g))
           /\ \A k \in KeysOf(g) : Reported(g)[k] \in Int
           /\ \A k \in KeysOf(g) \ Totals!RowsOf(g) : Reported(g)[k] = 0
           /\ \A k \in Totals!RowsOf(g) :
                /\ Sizes(g)[k] = Reported(g)[k] /\ Sizes(g)[k] \in Int
                /\ Sizes(g)[k] = state.rows[k].position
                /\ state.rows[k].avg_cost \in Nat
                /\ Weights(g)[k] = Sizes(g)[k] * state.rows[k].avg_cost
                /\ MarketValues(g)[k] \in Int
                /\ -Largest <= MarketValues(g)[k] /\ MarketValues(g)[k] <= Largest
<1>1. Totals!RowsOf(g) \in SUBSET KeysOf(g)
  BY DEF Totals!RowsOf, KeysOf
<1>2. IsFiniteSet(KeysOf(g)) /\ IsFiniteSet(Totals!RowsOf(g))
  <2>1. KeysOf(g) \in SUBSET Keys /\ Totals!RowsOf(g) \in SUBSET Keys
    BY DEF Totals!RowsOf, KeysOf
  <2> QED BY <2>1, BookConstants, FS_Subset
<1>3. ASSUME NEW k \in KeysOf(g)
      PROVE  Reported(g)[k] = state.reported[k] /\ Reported(g)[k] \in Int
  <2>1. k \in Keys /\ state.reported \in [Keys -> Positions]
    BY DEF KeysOf, BookInv, Totals!TypeOK
  <2> QED BY <2>1, BookConstants DEF Reported
<1>4. ASSUME NEW k \in KeysOf(g) \ Totals!RowsOf(g) PROVE Reported(g)[k] = 0
  <2>1. k \in Keys /\ state.rows[k] = Totals!Closed
    BY DEF KeysOf, Totals!RowsOf
  <2> QED BY <1>3, <2>1 DEF BookInv
<1>5. ASSUME NEW k \in Totals!RowsOf(g)
      PROVE  /\ Sizes(g)[k] = Reported(g)[k] /\ Sizes(g)[k] \in Int
             /\ Sizes(g)[k] = state.rows[k].position
             /\ state.rows[k].avg_cost \in Nat
             /\ Weights(g)[k] = Sizes(g)[k] * state.rows[k].avg_cost
             /\ MarketValues(g)[k] \in Int
             /\ -Largest <= MarketValues(g)[k] /\ MarketValues(g)[k] <= Largest
  <2>1. k \in Keys /\ state.rows[k] # Totals!Closed /\ k \in KeysOf(g)
    BY <1>1 DEF Totals!RowsOf
  <2>2. state.rows[k] \in Totals!Row
    BY <2>1 DEF BookInv, Totals!TypeOK
  <2>3. /\ state.rows[k].position \in Int /\ state.rows[k].avg_cost \in Nat
        /\ state.rows[k].market_value \in Int
    BY <2>2, BookConstants DEF Totals!Row
  <2>4. /\ state.reported[k] = state.rows[k].position
        /\ Totals!Abs(state.rows[k].market_value) <= Largest
    BY <2>1 DEF BookInv
  <2>5. /\ -Largest <= state.rows[k].market_value
        /\ state.rows[k].market_value <= Largest
    BY <2>3, <2>4, BookConstants DEF Totals!Abs
  <2>6. /\ Sizes(g)[k] = state.rows[k].position
        /\ Weights(g)[k] = state.rows[k].position * state.rows[k].avg_cost
        /\ MarketValues(g)[k] = state.rows[k].market_value
    BY DEF Sizes, Weights, MarketValues
  <2> QED BY <1>3, <2>1, <2>3, <2>4, <2>5, <2>6
<1> QED BY <1>1, <1>2, <1>3, <1>4, <1>5

\* The balance is the one TWS reported, and its holders are there.
LEMMA BalanceIsNet ==
    ASSUME BookInv, NEW g
    PROVE  /\ Totals!Consolidated(g).position = Net(g) /\ Net(g) \in Int
           /\ {k[1] : k \in {j \in KeysOf(g) : state.reported[j] # 0}}
                 \subseteq Totals!Consolidated(g).accounts
           /\ Net(g) # 0 => Totals!RowsOf(g) # {}
<1>1. SumOf(Sizes(g), Totals!RowsOf(g)) = SumOf(Reported(g), KeysOf(g))
  BY RowsTyped, SumOfPart
<1>2. SumOf(Reported(g), KeysOf(g)) \in Int
  BY RowsTyped, SumWithout
<1>3. ASSUME NEW j \in KeysOf(g), state.reported[j] # 0 PROVE j \in Totals!RowsOf(g)
  <2>1. Reported(g)[j] # 0
    BY <1>3 DEF Reported
  <2> QED BY <2>1, RowsTyped
<1>4. Totals!RowsOf(g) = {} => SumOf(Sizes(g), Totals!RowsOf(g)) = 0
  BY SumOfNone
<1> QED BY <1>1, <1>2, <1>3, <1>4, ConsolidatedIs DEF Net

\* No more than the largest value for each row, in either direction.
LEMMA ValueIsBounded ==
    ASSUME BookInv, NEW g
    PROVE  /\ Totals!Consolidated(g).market_value \in Int
           /\ Totals!Abs(Totals!Consolidated(g).market_value)
                 <= Largest * Cardinality(Totals!RowsOf(g))
<1> DEFINE rows == Totals!RowsOf(g)
           values == MarketValues(g)
           ones == [k \in rows |-> 1]
           negs == [k \in rows |-> -values[k]]
           n == Cardinality(rows)
           sum == SumOf(values, rows)
<1>1. IsFiniteSet(rows) /\ n \in Nat
  BY RowsTyped, FS_CardinalityType
<1>2. \A k \in rows : /\ values[k] \in Int
                      /\ -Largest <= values[k] /\ values[k] <= Largest
  BY RowsTyped
<1>3. \A k \in rows : ones[k] = 1 /\ negs[k] = -values[k]
  OBVIOUS
<1>4. SumOf(negs, rows) = -sum /\ sum \in Int
  <2> HIDE DEF rows, values
  <2> QED BY <1>1, <1>2, SumNegated
<1> HIDE DEF rows, values, ones, negs
<1>5. SumOf(ones, rows) = n
  BY <1>1, <1>3, SumOfOnes
<1>6. Largest \in Nat /\ -Largest \in Int
  BY BookConstants
<1>7. (-Largest) * n <= sum
  <2>1. \A k \in rows : /\ ones[k] \in Int /\ values[k] \in Int
                        /\ (-Largest) * ones[k] <= values[k]
    BY <1>2, <1>3, <1>6
  <2>2. (-Largest) * SumOf(ones, rows) <= SumOf(values, rows)
    BY <1>1, <1>6, <2>1, SumScaled
  <2> QED BY <1>5, <2>2
<1>8. (-Largest) * n <= -sum
  <2>1. \A k \in rows : /\ ones[k] \in Int /\ negs[k] \in Int
                        /\ (-Largest) * ones[k] <= negs[k]
    BY <1>2, <1>3, <1>6
  <2>2. (-Largest) * SumOf(ones, rows) <= SumOf(negs, rows)
    BY <1>1, <1>6, <2>1, SumScaled
  <2> QED BY <1>4, <1>5, <2>2
<1>9. Totals!Consolidated(g).market_value = sum
  BY ConsolidatedIs DEF values, rows
<1> HIDE DEF sum, n
<1>10. (-Largest) * n = -(Largest * n) /\ Largest * n \in Int
  BY <1>1, <1>6
<1>11. Totals!Abs(sum) <= Largest * n
  BY <1>4, <1>7, <1>8, <1>10 DEF Totals!Abs
<1> QED BY <1>4, <1>9, <1>11 DEF n, rows

\* A row costs what lies between the prices, bought or sold.
LEMMA RowCost ==
    ASSUME NEW n \in Int, NEW c \in Int, NEW lo \in Int, NEW hi \in Int,
           lo <= c, c <= hi
    PROVE  LET b == Totals!Positive(n)
               s == Totals!Positive(-n)
           IN  /\ b \in Int /\ s \in Int /\ n * c \in Int
               /\ lo * b - hi * s <= n * c
               /\ lo * s - hi * b <= -(n * c)
<1>1. CASE n >= 0
  <2>1. Totals!Positive(n) = n /\ Totals!Positive(-n) = 0 /\ n \in Nat
    BY <1>1 DEF Totals!Positive
  <2>2. lo * n <= c * n /\ c * n <= hi * n
    BY <2>1, TimesLeq
  <2>3. n * c = c * n /\ lo * 0 = 0 /\ hi * 0 = 0
    OBVIOUS
  <2>4. lo * n \in Int /\ hi * n \in Int /\ c * n \in Int
    OBVIOUS
  <2> QED BY <2>1, <2>2, <2>3, <2>4
<1>2. CASE n < 0
  <2> DEFINE m == -n
  <2>1. Totals!Positive(n) = 0 /\ Totals!Positive(-n) = m /\ m \in Nat
    BY <1>2 DEF Totals!Positive
  <2>2. n * c = -(c * m)
    OBVIOUS
  <2> HIDE DEF m
  <2>3. lo * m <= c * m /\ c * m <= hi * m
    BY <2>1, TimesLeq
  <2>4. lo * 0 = 0 /\ hi * 0 = 0
    OBVIOUS
  <2>5. lo * m \in Int /\ hi * m \in Int /\ c * m \in Int
    BY <2>1
  <2> QED BY <2>1, <2>2, <2>3, <2>4, <2>5
<1> QED BY <1>1, <1>2

\* The cost is one the long rows can have paid and the short rows received.
LEMMA CostIsBetween ==
    ASSUME BookInv, NEW g, Totals!RowsOf(g) # {}
    PROVE  LET costs == {state.rows[k].avg_cost : k \in Totals!RowsOf(g)}
               Long == Totals!Total(Bought(g))
               Short == Totals!Total(Sold(g))
           IN  Totals!Consolidated(g).weighted_cost \in
                  (Totals!Min(costs) * Long - Totals!Max(costs) * Short)
                     ..(Totals!Max(costs) * Long - Totals!Min(costs) * Short)
<1> DEFINE rows == Totals!RowsOf(g)
           cost == [k \in rows |-> state.rows[k].avg_cost]
           costs == {state.rows[k].avg_cost : k \in rows}
           sizes == Sizes(g)
           weights == Weights(g)
           bought == Bought(g)
           sold == Sold(g)
           negs == [k \in rows |-> -weights[k]]
           long == SumOf(bought, rows)
           short == SumOf(sold, rows)
           sum == SumOf(weights, rows)
<1>1. /\ IsFiniteSet(rows) /\ rows # {}
      /\ \A k \in rows : /\ sizes[k] \in Int /\ cost[k] \in Nat
                         /\ sizes[k] = state.rows[k].position
                         /\ weights[k] = sizes[k] * cost[k]
  BY RowsTyped
<1>2. costs = {cost[k] : k \in rows}
  OBVIOUS
<1>3. \A k \in rows : /\ negs[k] = -weights[k]
                       /\ bought[k] = Totals!Positive(sizes[k])
                       /\ sold[k] = Totals!Positive(-sizes[k])
  BY <1>1 DEF Bought, Sold
<1>4. /\ Totals!Total(Bought(g)) = long /\ Totals!Total(Sold(g)) = short
      /\ Totals!Consolidated(g).weighted_cost = sum
  <2>1. DOMAIN Bought(g) = rows /\ DOMAIN Sold(g) = rows
    BY DEF Bought, Sold
  <2> QED BY <2>1, TotalIsSum, ConsolidatedIs
<1> HIDE DEF rows, sizes, weights, bought, sold, cost, costs
<1>5. IsFiniteSet(costs) /\ costs \subseteq Int /\ costs # {}
  BY <1>1, <1>2, FiniteImage
<1>6. PICK lo \in costs, hi \in costs : \A c \in costs : lo <= c /\ c <= hi
  BY <1>5, FiniteBounds
<1>7. Totals!Min(costs) = lo /\ Totals!Max(costs) = hi /\ lo \in Int /\ hi \in Int
  <2>1. \A x \in costs : (\A y \in costs : x <= y) <=> x = lo
    BY <1>5, <1>6
  <2>2. \A x \in costs : (\A y \in costs : x >= y) <=> x = hi
    BY <1>5, <1>6
  <2> QED BY <1>5, <2>1, <2>2 DEF Totals!Min, Totals!Max
<1>8. SumOf(negs, rows) = -sum
  BY <1>1, SumNegated
<1> HIDE DEF negs
<1>9. \A k \in rows : /\ bought[k] \in Int /\ sold[k] \in Int
                       /\ weights[k] \in Int /\ negs[k] \in Int
                       /\ lo * bought[k] - hi * sold[k] <= weights[k]
                       /\ lo * sold[k] - hi * bought[k] <= negs[k]
  <2> SUFFICES ASSUME NEW k \in rows
               PROVE  /\ bought[k] \in Int /\ sold[k] \in Int
                      /\ weights[k] \in Int /\ negs[k] \in Int
                      /\ lo * bought[k] - hi * sold[k] <= weights[k]
                      /\ lo * sold[k] - hi * bought[k] <= negs[k]
    OBVIOUS
  <2> DEFINE n == sizes[k]
             c == cost[k]
  <2>1. n \in Int /\ c \in Int /\ lo <= c /\ c <= hi
    BY <1>1, <1>2, <1>6
  <2>2. /\ bought[k] = Totals!Positive(n) /\ sold[k] = Totals!Positive(-n)
        /\ weights[k] = n * c /\ negs[k] = -(n * c)
    BY <1>1, <1>3
  <2> HIDE DEF n, c
  <2> QED BY <1>7, <2>1, <2>2, RowCost
<1>10. /\ long \in Int /\ short \in Int /\ sum \in Int
       /\ lo * long - hi * short <= sum
  BY <1>1, <1>7, <1>9, SumMixed
<1>11. lo * short - hi * long <= -sum
  BY <1>1, <1>7, <1>8, <1>9, SumMixed
<1> HIDE DEF long, short, sum
<1>12. sum \in (lo * long - hi * short)..(hi * long - lo * short)
  <2>1. /\ lo * long \in Int /\ hi * short \in Int
        /\ lo * short \in Int /\ hi * long \in Int
    BY <1>7, <1>10
  <2> QED BY <1>10, <1>11, <2>1
<1> QED BY <1>4, <1>7, <1>12 DEF costs, rows

-----------------------------------------------------------------------------
(* What is shown. *)

Shown ==
    {p \in {Totals!Consolidated(g) : g \in Totals!Range(GroupOf)} : Totals!IsShown(p)}
ValueOf == [p \in Shown |-> Totals!Abs(p.market_value)]

\* A group that is shown has a row, so it is one of finitely many.
LEMMA ShownIsFinite == BookInv => IsFiniteSet(Shown)
<1> SUFFICES ASSUME BookInv PROVE IsFiniteSet(Shown)
  OBVIOUS
<1> DEFINE total == [k \in Keys |-> Totals!Consolidated(GroupOf[k[2]])]
           all == {total[k] : k \in Keys}
<1>1. IsFiniteSet(all)
  <2> HIDE DEF total
  <2> QED BY BookConstants, FiniteImage
<1>2. ASSUME NEW p \in Shown PROVE p \in all
  <2>1. PICK g : p = Totals!Consolidated(g) /\ p.position # 0
    BY DEF Shown, Totals!IsShown
  <2>2. PICK k : k \in Totals!RowsOf(g)
    BY <2>1, BalanceIsNet
  <2>3. k \in Keys /\ total[k] = p
    BY <2>1, <2>2 DEF Totals!RowsOf
  <2> QED BY <2>3
<1>3. Shown \in SUBSET all
  BY <1>2
<1> HIDE DEF all
<1> QED BY <1>1, <1>3, FS_Subset

LEMMA SnapshotIs ==
    ASSUME BookInv
    PROVE  Totals!Snapshot \in Lists(Shown) /\ Descending(Totals!Snapshot, ValueOf)
<1> DEFINE Sorted(s) == \A i, j \in DOMAIN s : i < j =>
                           Totals!Abs(s[i].market_value) >= Totals!Abs(s[j].market_value)
<1>1. Totals!SetToSeqs(Shown) = Lists(Shown)
  BY DEF Totals!SetToSeqs, Lists, Totals!Cardinality, Cardinality
<1>2. \A p \in Shown : ValueOf[p] \in Nat /\ ValueOf[p] = Totals!Abs(p.market_value)
  <2> SUFFICES ASSUME NEW p \in Shown PROVE Totals!Abs(p.market_value) \in Nat
    BY DEF ValueOf
  <2>1. PICK g : p = Totals!Consolidated(g)
    BY DEF Shown
  <2>2. p.market_value \in Int
    BY <2>1, ValueIsBounded
  <2> QED BY <2>2 DEF Totals!Abs
<1>3. ASSUME NEW s \in Lists(Shown) PROVE Sorted(s) <=> Descending(s, ValueOf)
  <2>1. \A i \in DOMAIN s : s[i] \in Shown
    BY DEF Lists
  <2>2. \A i \in DOMAIN s : ValueOf[s[i]] = Totals!Abs(s[i].market_value)
    BY <1>2, <2>1
  <2> QED BY <2>2 DEF Descending
<1>4. PICK s \in Lists(Shown) : Descending(s, ValueOf)
  BY <1>2, ShownIsFinite, SortedExists
<1>5. \E t \in Lists(Shown) : Sorted(t)
  BY <1>3, <1>4
<1>6. Totals!Snapshot = CHOOSE t \in Lists(Shown) : Sorted(t)
  BY <1>1 DEF Totals!Snapshot, Shown
<1>7. Totals!Snapshot \in Lists(Shown) /\ Sorted(Totals!Snapshot)
  <2> HIDE DEF Sorted
  <2> QED BY <1>5, <1>6
<1> QED BY <1>3, <1>7

LEMMA GroupOnce ==
    ASSUME BookInv, NEW g \in Totals!Range(GroupOf)
    PROVE  Cardinality({i \in DOMAIN Totals!Snapshot : Totals!Snapshot[i].group = g})
              = IF Net(g) = 0 THEN 0 ELSE 1
<1> DEFINE s == Totals!Snapshot
           n == Cardinality(Shown)
           P == Totals!Consolidated(g)
<1>1. IsFiniteSet(Shown) /\ s \in Lists(Shown)
  BY ShownIsFinite, SnapshotIs
<1> HIDE DEF s
<1>2. /\ s \in [1..n -> Shown] /\ DOMAIN s = 1..n
      /\ \A i, j \in 1..n : i # j => s[i] # s[j]
  BY <1>1 DEF Lists
<1>3. P.group = g /\ P.position = Net(g)
  BY ConsolidatedIs, BalanceIsNet
<1>4. ASSUME NEW p \in Shown, p.group = g PROVE p = P /\ Net(g) # 0
  <2>1. PICK h : p = Totals!Consolidated(h) /\ p.position # 0
    BY DEF Shown, Totals!IsShown
  <2>2. h = g
    BY <1>4, <2>1, ConsolidatedIs
  <2> QED BY <1>3, <2>1, <2>2
<1> DEFINE I == {i \in 1..n : s[i].group = g}
<1>5. CASE Net(g) = 0
  <2>1. I = {}
    <3> SUFFICES ASSUME NEW i \in I PROVE FALSE
      OBVIOUS
    <3>1. s[i] \in Shown /\ s[i].group = g
      BY <1>2
    <3> QED BY <1>4, <1>5, <3>1
  <2> HIDE DEF I
  <2>2. Cardinality(I) = 0
    BY <2>1, FS_EmptySet
  <2> QED BY <1>2, <1>5, <2>2 DEF I, s
<1>6. CASE Net(g) # 0
  <2>1. P \in Shown
    BY <1>3, <1>6 DEF Shown, Totals!IsShown
  <2> HIDE DEF P
  <2>2. PICK i \in 1..n : s[i] = P
    BY <1>1, <2>1, ListsAll
  <2>3. I = {i}
    <3>1. i \in I
      BY <1>3, <2>2
    <3>2. ASSUME NEW j \in I PROVE j = i
      <4>1. s[j] \in Shown /\ s[j].group = g /\ j \in 1..n
        BY <1>2
      <4>2. s[j] = P
        BY <1>4, <4>1
      <4> QED BY <1>2, <2>2, <4>1, <4>2
    <3> QED BY <3>1, <3>2
  <2> HIDE DEF I
  <2>4. Cardinality(I) = 1
    BY <2>3, FS_Singleton
  <2> QED BY <1>2, <1>6, <2>4 DEF I, s
<1> QED BY <1>5, <1>6

LEMMA HeldIs == BookInv => Totals!HeldIsShown
<1> SUFFICES ASSUME BookInv PROVE Totals!HeldIsShown
  OBVIOUS
<1> DEFINE s == Totals!Snapshot
<1>1. \A g : Totals!Total([k \in {j \in Keys : GroupOf[j[2]] = g} |-> state.reported[k]])
               = Net(g)
  <2> SUFFICES ASSUME NEW g PROVE Totals!Total(Reported(g)) = Net(g)
    BY DEF Reported, KeysOf
  <2>1. DOMAIN Reported(g) = KeysOf(g)
    BY DEF Reported
  <2> QED BY <2>1, TotalIsSum DEF Net
<1>2. \A S : Totals!Cardinality(S) = Cardinality(S)
  BY DEF Totals!Cardinality, Cardinality
<1>3. \A g \in Totals!Range(GroupOf) :
        Totals!Cardinality({i \in DOMAIN s : s[i].group = g}) = IF Net(g) = 0 THEN 0 ELSE 1
  BY <1>2, GroupOnce
<1>4. ASSUME NEW i \in DOMAIN s
      PROVE  LET p == s[i]
                 Long == Totals!Total(Bought(p.group))
                 Short == Totals!Total(Sold(p.group))
                 costs == {state.rows[k].avg_cost : k \in Totals!RowsOf(p.group)}
             IN  /\ p.position = Net(p.group)
                 /\ {k[1] : k \in {j \in Keys : GroupOf[j[2]] = p.group
                                                 /\ state.reported[j] # 0}}
                       \subseteq p.accounts
                 /\ p.weighted_cost \in
                       (Totals!Min(costs) * Long - Totals!Max(costs) * Short)
                          ..(Totals!Max(costs) * Long - Totals!Min(costs) * Short)
                 /\ Totals!Abs(p.market_value)
                       <= Largest * Totals!Cardinality(Totals!RowsOf(p.group))
                 /\ \A j \in 1..(i - 1) :
                      Totals!Abs(s[j].market_value) >= Totals!Abs(p.market_value)
  <2>1. s \in Lists(Shown) /\ Descending(s, ValueOf)
    BY SnapshotIs
  <2> DEFINE n == Cardinality(Shown)
  <2> HIDE DEF s
  <2>2. s \in [1..n -> Shown] /\ n \in Nat
    BY <2>1, ShownIsFinite, FS_CardinalityType DEF Lists
  <2> HIDE DEF n
  <2>3. DOMAIN s = 1..n /\ i \in 1..n /\ s[i] \in Shown
    BY <2>2
  <2>4. PICK g : s[i] = Totals!Consolidated(g) /\ s[i].position # 0
    BY <2>3 DEF Shown, Totals!IsShown
  <2>5. s[i].group = g
    BY <2>4, ConsolidatedIs
  <2>6. s[i].position = Net(g) /\ Totals!RowsOf(g) # {}
    BY <2>4, BalanceIsNet
  <2>7. {k[1] : k \in {j \in Keys : GroupOf[j[2]] = g /\ state.reported[j] # 0}}
           \subseteq s[i].accounts
    <3>1. {j \in Keys : GroupOf[j[2]] = g /\ state.reported[j] # 0}
             = {j \in KeysOf(g) : state.reported[j] # 0}
      BY DEF KeysOf
    <3> QED BY <2>4, <3>1, BalanceIsNet
  <2>8. Totals!Abs(s[i].market_value) <= Largest * Totals!Cardinality(Totals!RowsOf(g))
    BY <1>2, <2>4, ValueIsBounded
  <2>9. ASSUME NEW j \in 1..(i - 1)
        PROVE  Totals!Abs(s[j].market_value) >= Totals!Abs(s[i].market_value)
    <3>1. j \in 1..n /\ j < i
      BY <2>2, <2>3
    <3>2. ValueOf[s[j]] >= ValueOf[s[i]]
      BY <2>1, <2>3, <3>1 DEF Descending
    <3>3. s[j] \in Shown
      BY <2>2, <3>1
    <3> QED BY <2>3, <3>2, <3>3 DEF ValueOf
  <2>10. LET costs == {state.rows[k].avg_cost : k \in Totals!RowsOf(g)}
             Long == Totals!Total(Bought(g))
             Short == Totals!Total(Sold(g))
         IN  s[i].weighted_cost \in
                (Totals!Min(costs) * Long - Totals!Max(costs) * Short)
                   ..(Totals!Max(costs) * Long - Totals!Min(costs) * Short)
    BY <2>4, <2>6, CostIsBetween
  <2> QED BY <2>5, <2>6, <2>7, <2>8, <2>9, <2>10
<1> QED BY <1>1, <1>3, <1>4 DEF Totals!HeldIsShown, s, Bought, Sold

\* The portfolio shows every group of which something is held on balance once,
\* with the balance TWS reported last, the accounts that hold of it, a cost that
\* its rows can have at their prices and a bounded value, the largest first: for
\* all accounts and contracts and in whatever order sizes and values arrive.
THEOREM HeldStaysShown == Spec => []HeldIsShown
<1>1. (subject = "book" => BookInv) => HeldIsShown
  BY HeldIs DEF HeldIsShown, BookInv
<1> QED BY <1>1, BookHolds, PTL

-----------------------------------------------------------------------------
(***************************************************************************)
(* Commands: every line of words over any alphabet, however it is spaced.  *)
(* The parser is a loop over the characters of a text that is itself made  *)
(* by a loop over the words: after the blanks behind the n-th word it has  *)
(* read the first n words, and no word is open.                            *)
(***************************************************************************)

Chars == Letters \union Digits \union Others
InWord == Chars \union {"C", "H", "A", "R", "T"}    \* and what spells CHART
InText == InWord \union {Line!Blank}

LineInv ==
    /\ state = [words |-> state.words, blanks |-> state.blanks]
    /\ state.words \in Seq(Words) /\ state.blanks \in 1..MaxBlanks

Spaces == [i \in 1..state.blanks |-> Line!Blank]
Spaced(text, w) == text \o w \o Spaces
ReadTo(tokens, open) == [tokens |-> tokens, open |-> open]

Reading == INSTANCE DeskLemmas WITH Op <- Line!Token
Spacing == INSTANCE DeskLemmas WITH Op <- Spaced

LEMMA CommandConstants ==
    /\ Letters \intersect Digits = {} /\ Line!Blank \notin InWord
    /\ MaxBlanks \in Nat /\ MoreWords \subseteq Words
    /\ Words \subseteq Seq(Chars) \ {<<>>} /\ Words \subseteq Seq(InWord)
<1>1. /\ Letters \intersect Digits = {} /\ Line!Blank \notin Chars
      /\ MaxBlanks \in Nat /\ MoreWords \subseteq Words
      /\ Words \subseteq Seq(Chars) \ {<<>>}
  BY DeskAssumption DEF Line!CommandsAssumption, Chars
<1>2. Seq(Chars) \subseteq Seq(InWord)
  BY SeqMonotonic DEF InWord
<1>3. Line!Blank \notin InWord
  BY <1>1 DEF InWord, Line!Blank
<1> QED BY <1>1, <1>2, <1>3

LEMMA LineHolds == Spec => [](subject = "line" => LineInv)
<1>1. Init => (subject = "line" => LineInv)
  <2> SUFFICES ASSUME Line!Init PROVE LineInv
    BY DEF Init
  <2>1. state = [words |-> state.words, blanks |-> state.blanks]
    BY DEF Line!Init
  <2>2. state.words = <<>> /\ state.blanks \in 1..MaxBlanks
    BY DEF Line!Init
  <2> QED BY <2>1, <2>2 DEF LineInv
<1>2. (subject = "line" => LineInv) /\ [Next]_vars => (subject = "line" => LineInv)'
  <2> SUFFICES ASSUME subject = "line" => LineInv, [Next]_vars, subject' = "line"
               PROVE  LineInv'
    OBVIOUS
  <2>1. LineInv /\ (Line!AddWord \/ UNCHANGED state)
    BY DEF Next, vars, Line!Next
  <2>2. CASE UNCHANGED state
    BY <2>1, <2>2 DEF LineInv
  <2>3. CASE Line!AddWord
    <3>1. PICK w \in Words : state' = [state EXCEPT !.words = Append(state.words, w)]
      BY <2>3, CommandConstants DEF Line!AddWord
    <3>2. /\ state'.words = Append(state.words, w) /\ state'.blanks = state.blanks
          /\ state' = [words |-> state'.words, blanks |-> state'.blanks]
      BY <2>1, <3>1 DEF LineInv
    <3>3. state'.words \in Seq(Words)
      BY <2>1, <3>2, AppendProperties DEF LineInv
    <3> QED BY <2>1, <3>2, <3>3 DEF LineInv
  <2> QED BY <2>1, <2>2, <2>3
<1> QED BY <1>1, <1>2, PTL DEF Spec

-----------------------------------------------------------------------------
(* The words are read as they were typed. *)

LEMMA BlanksAreRead ==
    ASSUME NEW done, NEW open \in BOOLEAN
    PROVE  \A b \in Seq({Line!Blank}) :
              Reading!Fold(ReadTo(done, open), b) = ReadTo(done, open /\ b = <<>>)
<1> DEFINE acc == ReadTo(done, open)
           Q == {b \in Seq({Line!Blank}) :
                    Reading!Fold(acc, b) = ReadTo(done, open /\ b = <<>>)}
<1>1. <<>> \in Q
  <2>1. Reading!Fold(acc, <<>>) = acc
    BY Reading!FoldOfNone
  <2> QED BY <2>1
<1>2. ASSUME NEW b \in Seq({Line!Blank}), b \in Q PROVE Append(b, Line!Blank) \in Q
  <2> DEFINE c == Append(b, Line!Blank)
  <2>1. c \in Seq({Line!Blank}) /\ c # <<>>
    BY AppendProperties
  <2>2. Reading!Fold(acc, c) = Line!Token(Reading!Fold(acc, b), Line!Blank)
    BY Reading!FoldAppended
  <2>3. Reading!Fold(acc, b) = ReadTo(done, open /\ b = <<>>)
    BY <1>2
  <2>4. Line!Token(ReadTo(done, open /\ b = <<>>), Line!Blank) = ReadTo(done, FALSE)
    BY DEF Line!Token, ReadTo
  <2> HIDE DEF c
  <2>5. Reading!Fold(acc, c) = ReadTo(done, open /\ c = <<>>)
    BY <2>1, <2>2, <2>3, <2>4
  <2> QED BY <2>1, <2>5 DEF c
<1>3. \A b \in Seq({Line!Blank}) : b \in Q
  <2> HIDE DEF Q
  <2> QED BY <1>1, <1>2, SeqInduction
<1> QED BY <1>3

\* A character of a word begins a token or continues the open one.
LEMMA CharacterIsRead ==
    ASSUME NEW done \in Seq(Seq(InWord)), NEW c \in InWord
    PROVE  /\ Line!Token(ReadTo(done, FALSE), c) = ReadTo(Append(done, <<c>>), TRUE)
           /\ \A w \in Seq(InWord) :
                Line!Token(ReadTo(Append(done, w), TRUE), c)
                   = ReadTo(Append(done, Append(w, c)), TRUE)
<1>1. c # Line!Blank
  BY CommandConstants
<1>2. Line!Token(ReadTo(done, FALSE), c) = ReadTo(Append(done, <<c>>), TRUE)
  BY <1>1 DEF Line!Token, ReadTo
<1>3. ASSUME NEW w \in Seq(InWord)
      PROVE  Line!Token(ReadTo(Append(done, w), TRUE), c)
                = ReadTo(Append(done, Append(w, c)), TRUE)
  <2> DEFINE t == Append(done, w)
  <2>1. /\ t \in Seq(Seq(InWord)) /\ Len(t) = Len(done) + 1 /\ Len(done) \in Nat
        /\ t[Len(done) + 1] = w
    BY AppendProperties, LenProperties
  <2>2. Line!Last(t) = w
    BY <2>1 DEF Line!Last
  <2>3. Line!Front(t) = done
    <3>1. /\ Line!Front(t) = SubSeq(t, 1, Len(done))
      BY <2>1 DEF Line!Front
    <3>2. t = done \o <<w>>
      BY AppendIsConcat
    <3>3. \A i \in 1..Len(done) : t[i] = done[i]
      BY AppendProperties
    <3>4. /\ SubSeq(t, 1, Len(done)) \in Seq(Seq(InWord))
          /\ Len(SubSeq(t, 1, Len(done))) = Len(done)
          /\ \A i \in 1..Len(done) : SubSeq(t, 1, Len(done))[i] = t[i]
      <4> HIDE DEF t
      <4> QED BY <2>1, Stretch
    <3> HIDE DEF t
    <3>5. SubSeq(t, 1, Len(done)) = done
      <4> DEFINE f == SubSeq(t, 1, Len(done))
      <4>1. f \in Seq(Seq(InWord)) /\ Len(f) = Len(done) /\ \A i \in 1..Len(f) : f[i] = done[i]
        BY <3>3, <3>4
      <4> HIDE DEF f
      <4>2. f = done
        BY <4>1, SeqEqual
      <4> QED BY <4>2 DEF f
    <3> QED BY <3>1, <3>5
  <2> HIDE DEF t
  <2>4. Line!Token(ReadTo(t, TRUE), c)
           = [ReadTo(t, TRUE) EXCEPT !.tokens =
                 Append(Line!Front(t), Append(Line!Last(t), c))]
    BY <1>1 DEF Line!Token, ReadTo
  <2> QED BY <2>2, <2>3, <2>4 DEF t, ReadTo
<1> QED BY <1>2, <1>3

LEMMA WordIsRead ==
    ASSUME NEW done \in Seq(Seq(InWord))
    PROVE  \A w \in Seq(InWord) : w # <<>> =>
              Reading!Fold(ReadTo(done, FALSE), w) = ReadTo(Append(done, w), TRUE)
<1> DEFINE acc == ReadTo(done, FALSE)
           Q == {w \in Seq(InWord) :
                   w # <<>> => Reading!Fold(acc, w) = ReadTo(Append(done, w), TRUE)}
<1>1. <<>> \in Q
  OBVIOUS
<1>2. ASSUME NEW w \in Seq(InWord), w \in Q, NEW c \in InWord PROVE Append(w, c) \in Q
  <2>1. Append(w, c) \in Seq(InWord)
    BY AppendProperties
  <2>2. Reading!Fold(acc, Append(w, c)) = Line!Token(Reading!Fold(acc, w), c)
    BY Reading!FoldAppended
  <2>3. CASE w = <<>>
    <3>1. Reading!Fold(acc, w) = acc
      BY <2>3, Reading!FoldOfNone
    <3>2. Append(w, c) = <<c>>
      BY <2>3
    <3> QED BY <2>1, <2>2, <3>1, <3>2, CharacterIsRead
  <2>4. CASE w # <<>>
    <3>1. Reading!Fold(acc, w) = ReadTo(Append(done, w), TRUE)
      BY <1>2, <2>4
    <3> QED BY <2>1, <2>2, <3>1, CharacterIsRead
  <2> QED BY <2>3, <2>4
<1>3. \A w \in Seq(InWord) : w \in Q
  <2> HIDE DEF Q
  <2> QED BY <1>1, <1>2, SeqInduction
<1> QED BY <1>3

Nothing == ReadTo(<<>>, FALSE)

LEMMA TokenizeIs == \A text : Line!Tokenize(text) = Reading!Fold(Nothing, text).tokens
BY DEF Line!Tokenize, Nothing, ReadTo, Reading!Fold, Line!FoldLeft, Line!MapThenFoldSet,
       Reading!MapThenFoldSet, Reading!Max, Line!Max

LEMMA TextIs == Line!Text = Spacing!Fold(Tail(Spaces), state.words)
BY DEF Line!Text, Spaces, Spaced, Spacing!Fold, Line!FoldLeft, Line!MapThenFoldSet,
       Spacing!MapThenFoldSet, Spacing!Max, Line!Max

LEMMA SpacesAre ==
    ASSUME LineInv
    PROVE  /\ Spaces \in Seq({Line!Blank}) /\ Tail(Spaces) \in Seq({Line!Blank})
           /\ Spaces # <<>>
<1>1. state.blanks \in Nat /\ state.blanks >= 1
  BY CommandConstants DEF LineInv
<1>2. Spaces \in [1..state.blanks -> {Line!Blank}]
  BY DEF Spaces
<1>3. Spaces \in Seq({Line!Blank}) /\ Len(Spaces) = state.blanks
  BY <1>1, <1>2
<1>4. Spaces # <<>>
  BY <1>1, <1>3, EmptySeq
<1> QED BY <1>3, <1>4, HeadTailProperties

\* What has been read of the text of any words.
LEMMA WordsRead ==
    ASSUME LineInv
    PROVE  \A words \in Seq(Words) :
             LET text == Spacing!Fold(Tail(Spaces), words)
             IN  text \in Seq(InText) /\ Reading!Fold(Nothing, text) = ReadTo(words, FALSE)
<1> DEFINE Txt(words) == Spacing!Fold(Tail(Spaces), words)
           Q == {words \in Seq(Words) :
                   /\ Txt(words) \in Seq(InText)
                   /\ Reading!Fold(Nothing, Txt(words)) = ReadTo(words, FALSE)}
<1>0. /\ Seq({Line!Blank}) \subseteq Seq(InText) /\ Seq(InWord) \subseteq Seq(InText)
  BY SeqMonotonic DEF InText
<1>1. <<>> \in Q
  <2>1. Txt(<<>>) = Tail(Spaces)
    BY Spacing!FoldOfNone
  <2>2. Reading!Fold(Nothing, Tail(Spaces)) = Nothing
    <3>1. Tail(Spaces) \in Seq({Line!Blank})
      BY SpacesAre
    <3> DEFINE b == Tail(Spaces)
    <3> HIDE DEF b
    <3>2. Reading!Fold(ReadTo(<<>>, FALSE), b) = ReadTo(<<>>, FALSE /\ b = <<>>)
      BY <3>1, BlanksAreRead DEF b
    <3>3. (FALSE /\ b = <<>>) = FALSE
      OBVIOUS
    <3> QED BY <3>2, <3>3 DEF Nothing, b
  <2>3. Tail(Spaces) \in Seq(InText)
    BY <1>0, SpacesAre
  <2>4. <<>> \in Seq(Words) /\ Nothing = ReadTo(<<>>, FALSE)
    BY EmptySeq DEF Nothing
  <2> HIDE DEF Txt
  <2> QED BY <2>1, <2>2, <2>3, <2>4
<1>2. ASSUME NEW words \in Seq(Words), words \in Q, NEW w \in Words
      PROVE  Append(words, w) \in Q
  <2> DEFINE t == Txt(words)
  <2>1. /\ t \in Seq(InText) /\ Reading!Fold(Nothing, t) = ReadTo(words, FALSE)
    BY <1>2
  <2>2. Txt(Append(words, w)) = t \o w \o Spaces
    <3>1. Txt(Append(words, w)) = Spaced(t, w)
      BY Spacing!FoldAppended
    <3> QED BY <3>1 DEF Spaced
  <2> HIDE DEF t
  <2>3. w \in Seq(InWord) /\ w # <<>> /\ w \in Seq(InText) /\ Spaces \in Seq(InText)
    BY <1>0, CommandConstants, SpacesAre
  <2>4. t \o w \in Seq(InText) /\ (t \o w) \o Spaces \in Seq(InText)
    BY <2>1, <2>3, ConcatProperties
  <2>5. words \in Seq(Seq(InWord)) /\ Append(words, w) \in Seq(Words)
    <3>1. Seq(Words) \subseteq Seq(Seq(InWord))
      BY CommandConstants, SeqMonotonic
    <3> QED BY <3>1, AppendProperties
  <2>6. Reading!Fold(Nothing, t \o w) = ReadTo(Append(words, w), TRUE)
    <3>0. t \in Seq(InText) /\ w \in Seq(InText)
      BY <2>1, <2>3
    <3>1. Reading!Fold(Nothing, t \o w) = Reading!Fold(Reading!Fold(Nothing, t), w)
      BY <3>0, Reading!FoldJoined
    <3> QED BY <2>1, <2>3, <2>5, <3>1, WordIsRead
  <2>7. Reading!Fold(Nothing, (t \o w) \o Spaces) = ReadTo(Append(words, w), FALSE)
    <3> DEFINE u == t \o w
    <3>0. u \in Seq(InText) /\ Spaces \in Seq(InText)
      BY <2>3, <2>4
    <3> HIDE DEF u
    <3>1. Reading!Fold(Nothing, u \o Spaces) = Reading!Fold(Reading!Fold(Nothing, u), Spaces)
      BY <3>0, Reading!FoldJoined
    <3>2. Reading!Fold(ReadTo(Append(words, w), TRUE), Spaces)
             = ReadTo(Append(words, w), FALSE)
      BY SpacesAre, BlanksAreRead
    <3> QED BY <2>6, <3>1, <3>2 DEF u
  <2> HIDE DEF Txt
  <2> QED BY <2>2, <2>4, <2>5, <2>7
<1>3. \A words \in Seq(Words) : words \in Q
  <2> HIDE DEF Q
  <2> QED BY <1>1, <1>2, SeqInduction
<1> QED BY <1>3

\* The line, and the line with CHART behind it.
LEMMA LineIsRead ==
    ASSUME LineInv
    PROVE  /\ Line!Tokenize(Line!Text) = state.words
           /\ Line!Tokenize(Line!Text \o <<Line!Blank>> \o Line!CHART)
                 = Append(state.words, Line!CHART)
<1> DEFINE t == Line!Text
           one == <<Line!Blank>>
           chart == Line!CHART
<1>1. t \in Seq(InText) /\ Reading!Fold(Nothing, t) = ReadTo(state.words, FALSE)
  BY TextIs, WordsRead DEF LineInv
<1>2. one \in Seq({Line!Blank}) /\ one \in Seq(InText)
  BY DEF InText
<1>3. chart \in Seq(InWord) /\ chart # <<>> /\ chart \in Seq(InText)
  BY DEF Line!CHART, InWord, InText
<1>4. state.words \in Seq(Seq(InWord))
  <2>1. Seq(Words) \subseteq Seq(Seq(InWord))
    BY CommandConstants, SeqMonotonic
  <2> QED BY <2>1 DEF LineInv
<1> HIDE DEF t, one, chart
<1>5. t \o one \in Seq(InText)
  BY <1>1, <1>2, ConcatProperties
<1>6. Reading!Fold(Nothing, t \o one) = ReadTo(state.words, FALSE)
  <2>0. t \in Seq(InText) /\ one \in Seq(InText)
    BY <1>1, <1>2
  <2>1. Reading!Fold(Nothing, t \o one) = Reading!Fold(Reading!Fold(Nothing, t), one)
    BY <2>0, Reading!FoldJoined
  <2>2. Reading!Fold(ReadTo(state.words, FALSE), one) = ReadTo(state.words, FALSE)
    BY <1>2, BlanksAreRead
  <2> QED BY <1>1, <2>1, <2>2
<1>7. Reading!Fold(Nothing, (t \o one) \o chart) = ReadTo(Append(state.words, chart), TRUE)
  <2> DEFINE u == t \o one
  <2>0. u \in Seq(InText) /\ chart \in Seq(InText)
    BY <1>3, <1>5
  <2> HIDE DEF u
  <2>1. Reading!Fold(Nothing, u \o chart) = Reading!Fold(Reading!Fold(Nothing, u), chart)
    BY <2>0, Reading!FoldJoined
  <2> QED BY <1>3, <1>4, <1>6, <2>1, WordIsRead DEF u
<1>8. \A tokens, open : ReadTo(tokens, open).tokens = tokens
  BY DEF ReadTo
<1> QED BY <1>1, <1>7, <1>8, TokenizeIs DEF t, one, chart

-----------------------------------------------------------------------------
(* The symbol of a future. *)

\* What FuturesAreFound says of a word.
MonthAt(s) ==
    {k \in 1..Len(s) :
        /\ k > 1 /\ Len(s) - k \in 1..2
        /\ \A j \in 1..k : s[j] \in Letters
        /\ \A j \in (k + 1)..Len(s) : s[j] \in Digits}

LEMMA YearIs ==
    ASSUME NEW s \in Seq(Chars), s # <<>>
    PROVE  /\ Len(s) \in Nat /\ Len(s) >= 1 /\ Line!YearLen(s) \in 0..2
           /\ Line!YearLen(s) = 0 => s[Len(s)] \notin Digits
           /\ Line!YearLen(s) = 1 => /\ s[Len(s)] \in Digits
                                     /\ Len(s) > 1 => s[Len(s) - 1] \notin Digits
           /\ Line!YearLen(s) = 2 => /\ Len(s) > 1 /\ s[Len(s)] \in Digits
                                     /\ s[Len(s) - 1] \in Digits
<1>1. Len(s) \in Nat /\ Len(s) >= 1
  BY EmptySeq, LenProperties
<1>2. CASE s[Len(s)] \notin Digits
  <2>1. Line!YearLen(s) = 0
    BY <1>2 DEF Line!YearLen
  <2> QED BY <1>1, <1>2, <2>1
<1>3. CASE Len(s) > 1 /\ s[Len(s)] \in Digits /\ s[Len(s) - 1] \in Digits
  <2>1. Line!YearLen(s) = 2
    BY <1>3 DEF Line!YearLen
  <2> QED BY <1>1, <1>3, <2>1
<1>4. CASE s[Len(s)] \in Digits /\ ~(Len(s) > 1 /\ s[Len(s) - 1] \in Digits)
  <2>1. Line!YearLen(s) = 1
    BY <1>4 DEF Line!YearLen
  <2> QED BY <1>1, <1>4, <2>1
<1> QED BY <1>2, <1>3, <1>4

LEMMA FutureIsFound ==
    ASSUME NEW s \in Seq(Chars), s # <<>>
    PROVE  /\ Line!IsFuturesLocalSymbol(s) <=> MonthAt(s) # {}
           /\ \A k \in MonthAt(s) :
                Line!RootFromFuturesLocalSymbol(s) = SubSeq(s, 1, k - 1)
<1> DEFINE n == Len(s)
           y == Line!YearLen(s)
<1>1. /\ n \in Nat /\ n >= 1 /\ y \in 0..2
      /\ y = 0 => s[n] \notin Digits
      /\ y = 1 => s[n] \in Digits /\ (n > 1 => s[n - 1] \notin Digits)
      /\ y = 2 => n > 1 /\ s[n] \in Digits /\ s[n - 1] \in Digits
  BY YearIs
<1>2. Line!IsFuturesLocalSymbol(s) <=>
        n >= 3 /\ y > 0 /\ n - y > 1 /\ \A i \in 1..(n - y) : s[i] \in Letters
  BY DEF Line!IsFuturesLocalSymbol
<1>3. Line!IsFuturesLocalSymbol(s) =>
        Line!RootFromFuturesLocalSymbol(s) = SubSeq(s, 1, n - y - 1)
  BY DEF Line!RootFromFuturesLocalSymbol
<1>4. \A k : k \in MonthAt(s) <=>
        /\ k \in 1..n /\ k > 1 /\ n - k \in 1..2
        /\ \A j \in 1..k : s[j] \in Letters
        /\ \A j \in (k + 1)..n : s[j] \in Digits
  BY DEF MonthAt
<1> HIDE DEF n, y
<1>5. ASSUME NEW k \in MonthAt(s) PROVE Line!IsFuturesLocalSymbol(s) /\ n - y = k
  <2>1. /\ k \in 1..n /\ k > 1 /\ n - k \in 1..2
        /\ \A j \in 1..k : s[j] \in Letters
        /\ \A j \in (k + 1)..n : s[j] \in Digits
    BY <1>4
  <2>2. s[k] \notin Digits
    <3>1. s[k] \in Letters
      BY <2>1
    <3> QED BY <3>1, CommandConstants
  <2>3. s[n] \in Digits
    BY <1>1, <2>1
  <2>4. n - y = k
    <3>1. CASE n - k = 1
      <4>1. n > 1 /\ n - 1 = k
        BY <1>1, <2>1, <3>1
      <4>2. s[n - 1] \notin Digits
        BY <2>2, <4>1
      <4>3. y = 1
        BY <1>1, <2>3, <4>1, <4>2
      <4> QED BY <1>1, <2>1, <3>1, <4>3
    <3>2. CASE n - k = 2
      <4>1. s[n - 1] \in Digits /\ n > 1
        <5>1. n - 1 \in (k + 1)..n
          BY <1>1, <2>1, <3>2
        <5> QED BY <1>1, <2>1, <3>2, <5>1
      <4>2. y = 2
        BY <1>1, <2>3, <4>1
      <4> QED BY <1>1, <2>1, <3>2, <4>2
    <3> QED BY <2>1, <3>1, <3>2
  <2>5. n >= 3 /\ y > 0 /\ n - y > 1
    BY <1>1, <2>1, <2>4
  <2> QED BY <1>2, <2>1, <2>4, <2>5
<1>6. ASSUME Line!IsFuturesLocalSymbol(s) PROVE n - y \in MonthAt(s)
  <2> DEFINE k == n - y
  <2>1. /\ n >= 3 /\ y \in 1..2 /\ k > 1 /\ (\A i \in 1..k : s[i] \in Letters)
    BY <1>1, <1>2, <1>6
  <2>2. k \in 1..n /\ n - k = y
    BY <1>1, <2>1
  <2>3. ASSUME NEW j \in (k + 1)..n PROVE s[j] \in Digits
    <3>1. j = n \/ (y = 2 /\ j = n - 1)
      BY <1>1, <2>1
    <3> QED BY <1>1, <2>1, <3>1
  <2> HIDE DEF k
  <2>4. k \in MonthAt(s)
    BY <1>4, <2>1, <2>2, <2>3
  <2> QED BY <2>4 DEF k
<1> QED BY <1>3, <1>5, <1>6

LEMMA FuturesFound == LineInv => Line!FuturesAreFound
<1> SUFFICES ASSUME LineInv, NEW i \in DOMAIN state.words
             PROVE  LET s == state.words[i]
                    IN  /\ Line!IsFuturesLocalSymbol(s) <=> MonthAt(s) # {}
                        /\ \A k \in MonthAt(s) :
                             Line!RootFromFuturesLocalSymbol(s) = SubSeq(s, 1, k - 1)
  BY DEF Line!FuturesAreFound, MonthAt
<1>1. state.words[i] \in Words
  BY LenProperties, ElementOfSeq DEF LineInv
<1>2. state.words[i] \in Seq(Chars) /\ state.words[i] # <<>>
  BY <1>1, CommandConstants
<1> QED BY <1>2, FutureIsFound

-----------------------------------------------------------------------------
(* What a line opens, by the words it consists of. *)

LEMMA Keywords ==
    /\ Line!NEWS # Line!CHART /\ Line!NEWS # Line!FUT /\ Line!CHART # Line!FUT
BY DEF Line!NEWS, Line!CHART, Line!FUT

LEMMA TailOf ==
    ASSUME NEW S, NEW t \in Seq(S), t # <<>>
    PROVE  /\ Tail(t) \in Seq(S) /\ Len(Tail(t)) = Len(t) - 1 /\ Len(t) \in Nat
           /\ \A i \in 1..Len(Tail(t)) : Tail(t)[i] = t[i + 1]
BY HeadTailProperties, LenProperties

LEMMA ShapeOfOne ==
    ASSUME NEW S, NEW t \in Seq(S), t # <<>>, Len(t) = 1
    PROVE  Tail(t) = <<>>
<1>1. Tail(t) \in Seq(S) /\ Len(Tail(t)) = 0
  BY TailOf
<1> QED BY <1>1, EmptySeq

LEMMA ShapeOfTwo ==
    ASSUME NEW S, NEW t \in Seq(S), t # <<>>, Len(t) = 2, NEW a
    PROVE  (Tail(t) = <<a>>) <=> (t[2] = a)
<1> DEFINE r == Tail(t)
<1>1. r \in Seq(S) /\ Len(r) = 1
  BY TailOf
<1>2. r[1] = t[1 + 1]
  <2>1. \A i \in 1..Len(r) : r[i] = t[i + 1]
    BY TailOf
  <2> QED BY <1>1, <2>1
<1> HIDE DEF r
<1>3. r = <<r[1]>>
  BY <1>1
<1>4. (r = <<a>>) <=> (t[2] = a)
  BY <1>2, <1>3
<1> QED BY <1>4 DEF r

LEMMA ShapeOfThree ==
    ASSUME NEW S, NEW t \in Seq(S), t # <<>>, Len(t) = 3, NEW a, NEW b
    PROVE  (Tail(t) = <<a, b>>) <=> (t[2] = a /\ t[3] = b)
<1> DEFINE r == Tail(t)
           p == <<r[1], r[2]>>
<1>1. r \in Seq(S) /\ Len(r) = 2
  BY TailOf
<1>2. r[1] = t[1 + 1] /\ r[2] = t[2 + 1]
  <2>1. \A i \in 1..Len(r) : r[i] = t[i + 1]
    BY TailOf
  <2> HIDE DEF r
  <2>2. \A i \in 1..2 : r[i] = t[i + 1]
    BY <1>1, <2>1
  <2> QED BY <2>2
<1> HIDE DEF r
<1>3. p \in Seq(S) /\ Len(p) = 2 /\ p[1] = r[1] /\ p[2] = r[2]
  BY <1>1
<1>4. \A i \in 1..Len(r) : r[i] = p[i]
  <2> HIDE DEF p
  <2> QED BY <1>1, <1>3
<1>5. r = p
  <2> HIDE DEF p
  <2>1. Len(r) = Len(p)
    BY <1>1, <1>3
  <2> QED BY <1>1, <1>3, <1>4, <2>1, SeqEqual
<1>6. (r = <<a, b>>) <=> (t[2] = a /\ t[3] = b)
  BY <1>2, <1>5
<1> QED BY <1>6 DEF r

\* The shapes of a command.
Alone(t) == Len(t) = 1
With(t, w) == Len(t) = 2 /\ t[2] = w
WithTwo(t, v, w) == Len(t) = 3 /\ t[2] = v /\ t[3] = w

LEMMA Run ==
    ASSUME NEW S, NEW t \in Seq(S), NEW text, Line!Tokenize(text) = t
    PROVE  LET r == Line!RunCommand(text)
               s == t[1]
           IN  /\ t = <<>> => r = Line!Nothing
               /\ Alone(t) /\ Line!IsVerb(s) =>
                    r = Line!Result(Line!KindOfVerb(s), <<>>, "kStock")
               /\ Alone(t) /\ ~Line!IsVerb(s) => r = Line!QuoteSymbol(s)
               /\ With(t, Line!NEWS) =>
                    r = IF Line!IsValidSymbol(s)
                        THEN Line!Result("kStartNews", s, "kStock") ELSE Line!Refused
               /\ With(t, Line!CHART) => r = Line!ChartSymbol(s)
               /\ With(t, Line!FUT) => r = Line!QuoteContinuous(s)
               /\ WithTwo(t, Line!FUT, Line!CHART) =>
                    r = Line!ChartContinuous(s)
               /\ t = <<>> \/ Alone(t) \/ With(t, Line!NEWS) \/ With(t, Line!CHART)
                  \/ With(t, Line!FUT) \/ WithTwo(t, Line!FUT, Line!CHART)
                  \/ r = Line!Refused
<1> DEFINE s == t[1]
           r == Line!RunCommand(text)
           news == IF Line!IsValidSymbol(s)
                   THEN Line!Result("kStartNews", s, "kStock") ELSE Line!Refused
           cut == CASE t = <<>> -> Line!Nothing
                    [] Alone(t) /\ Line!IsVerb(s) ->
                         Line!Result(Line!KindOfVerb(s), <<>>, "kStock")
                    [] Alone(t) /\ ~Line!IsVerb(s) -> Line!QuoteSymbol(s)
                    [] With(t, Line!NEWS) -> news
                    [] With(t, Line!CHART) -> Line!ChartSymbol(s)
                    [] With(t, Line!FUT) -> Line!QuoteContinuous(s)
                    [] WithTwo(t, Line!FUT, Line!CHART) ->
                         Line!ChartContinuous(s)
                    [] OTHER -> Line!Refused
<1>1. CASE t = <<>>
  <2>1. r = Line!Nothing
    BY <1>1 DEF Line!RunCommand
  <2>2. Len(t) = 0
    BY <1>1
  <2> QED BY <1>1, <2>1, <2>2 DEF Alone, With, WithTwo
<1>2. CASE t # <<>>
  <2> DEFINE Is(shape) == Len(t) = Len(shape) + 1 /\ Tail(t) = shape
  <2>1. Len(t) \in Nat /\ Len(t) >= 1
    BY <1>2, EmptySeq, LenProperties
  <2>2. Is(<<>>) <=> Alone(t)
    <3>1. Len(<<>>) = 0
      OBVIOUS
    <3> QED BY <1>2, <2>1, <3>1, ShapeOfOne DEF Alone
  <2>3. \A a : Is(<<a>>) <=> With(t, a)
    <3>1. \A a : Len(<<a>>) = 1
      OBVIOUS
    <3>2. ASSUME NEW a, Len(t) = 2 PROVE (Tail(t) = <<a>>) <=> (t[2] = a)
      BY <1>2, <3>2, ShapeOfTwo
    <3> QED BY <2>1, <3>1, <3>2 DEF With
  <2>4. \A a, b : Is(<<a, b>>) <=> WithTwo(t, a, b)
    <3> SUFFICES ASSUME NEW a, NEW b PROVE Is(<<a, b>>) <=> WithTwo(t, a, b)
      OBVIOUS
    <3>1. Len(<<a, b>>) = 2
      OBVIOUS
    <3>2. Len(t) = 3 => ((Tail(t) = <<a, b>>) <=> (t[2] = a /\ t[3] = b))
      BY <1>2, ShapeOfThree
    <3>3. Is(<<a, b>>) <=> (Len(t) = 3 /\ Tail(t) = <<a, b>>)
      BY <2>1, <3>1
    <3> HIDE DEF Is
    <3> QED BY <3>2, <3>3 DEF WithTwo
  <2> DEFINE run == CASE t = <<>> -> Line!Nothing
                      [] Is(<<>>) /\ Line!IsVerb(s) ->
                           Line!Result(Line!KindOfVerb(s), <<>>, "kStock")
                      [] Is(<<>>) /\ ~Line!IsVerb(s) -> Line!QuoteSymbol(s)
                      [] Is(<<Line!NEWS>>) -> news
                      [] Is(<<Line!CHART>>) -> Line!ChartSymbol(s)
                      [] Is(<<Line!FUT>>) -> Line!QuoteContinuous(s)
                      [] Is(<<Line!FUT, Line!CHART>>) ->
                           Line!ChartContinuous(s)
                      [] OTHER -> Line!Refused
  <2>5. r = run
    BY DEF Line!RunCommand
  <2> HIDE DEF Is, news
  <2>6. /\ Alone(t) => \A a, b : ~With(t, a) /\ ~WithTwo(t, a, b)
        /\ \A a, b, c : With(t, a) => ~Alone(t) /\ ~WithTwo(t, b, c)
        /\ \A a, b : With(t, a) /\ With(t, b) => a = b
        /\ \A a, b : WithTwo(t, a, b) => ~Alone(t) /\ \A c : ~With(t, c)
    BY DEF Alone, With, WithTwo
  <2>7. run = cut
    BY <1>2, <2>2, <2>3, <2>4
  <2> HIDE DEF run, r
  <2>8. /\ Alone(t) /\ Line!IsVerb(s) =>
             cut = Line!Result(Line!KindOfVerb(s), <<>>, "kStock")
        /\ Alone(t) /\ ~Line!IsVerb(s) => cut = Line!QuoteSymbol(s)
        /\ With(t, Line!NEWS) => cut = news
        /\ With(t, Line!CHART) => cut = Line!ChartSymbol(s)
        /\ With(t, Line!FUT) => cut = Line!QuoteContinuous(s)
        /\ WithTwo(t, Line!FUT, Line!CHART) =>
             cut = Line!ChartContinuous(s)
        /\ t = <<>> \/ Alone(t) \/ With(t, Line!NEWS) \/ With(t, Line!CHART)
           \/ With(t, Line!FUT) \/ WithTwo(t, Line!FUT, Line!CHART)
           \/ cut = Line!Refused
    BY <1>2, <2>6, Keywords
  <2> HIDE DEF cut
  <2> QED BY <1>2, <2>5, <2>7, <2>8 DEF r, news
<1> QED BY <1>1, <1>2

-----------------------------------------------------------------------------
(* What every command opens. *)

\* What may come of a symbol.
ForSymbol(kind, s, r) ==
    \/ r = Line!Refused
    \/ r = Line!Result(kind, s, "kStock")
    \/ /\ r = Line!Result(kind, s, "kFutureLocal")
       /\ Line!HasExchange(Line!RootFromFuturesLocalSymbol(s))
ForContinuous(kind, s, r) ==
    \/ r = Line!Refused
    \/ r = Line!Result(kind, s, "kContinuousFuture") /\ Line!HasExchange(s)

LEMMA OpensSymbol ==
    ASSUME NEW s
    PROVE  /\ ForSymbol("kStartQuote", s, Line!QuoteSymbol(s))
           /\ ForSymbol("kStartChart", s, Line!ChartSymbol(s))
BY DEF ForSymbol, Line!QuoteSymbol, Line!ChartSymbol

LEMMA OpensContinuous ==
    ASSUME NEW s
    PROVE  /\ ForContinuous("kStartQuote", s, Line!QuoteContinuous(s))
           /\ ForContinuous("kStartChart", s, Line!ChartContinuous(s))
BY DEF ForContinuous, Line!QuoteContinuous, Line!ChartContinuous

LEMMA ResultIs ==
    /\ \A kind, s, i : LET r == Line!Result(kind, s, i)
                       IN  r.kind = kind /\ r.symbol = s /\ r.instrument = i /\ ~r.status
    /\ Line!Refused.kind = "kNone" /\ Line!Refused.symbol = <<>>
    /\ Line!Refused.instrument = "kStock" /\ Line!Refused.status
    /\ Line!Nothing.kind = "kNone" /\ Line!Nothing.symbol = <<>>
    /\ Line!Nothing.instrument = "kStock" /\ ~Line!Nothing.status
BY DEF Line!Result, Line!Refused, Line!Nothing

LEMMA VerbOpens ==
    ASSUME NEW w, Line!IsVerb(w)
    PROVE  Line!KindOfVerb(w) # "kNone"
<1>1. Line!KindOfVerb(w) \in DOMAIN Line!Verbs
  BY DEF Line!IsVerb, Line!KindOfVerb
<1>2. DOMAIN Line!Verbs = {"kStaticText", "kStartGeneralNews", "kStartPortfolio",
                           "kStartDebug", "kQuit"}
  BY DEF Line!Verbs
<1> QED BY <1>1, <1>2

\* The words of an empty line open nothing; any other line opens something or is
\* refused, and what it opens is of one of these forms.
Opens(r) ==
    \/ r.status
    \/ r.kind # "kNone" /\ r.instrument = "kStock"
    \/ /\ r.kind # "kNone" /\ r.instrument = "kFutureLocal"
       /\ Line!HasExchange(Line!RootFromFuturesLocalSymbol(r.symbol))
    \/ /\ r.kind # "kNone" /\ r.instrument = "kContinuousFuture"
       /\ Line!HasExchange(r.symbol)

LEMMA CommandOpens ==
    ASSUME NEW S, NEW t \in Seq(S), NEW text, Line!Tokenize(text) = t, t # <<>>
    PROVE  /\ Opens(Line!RunCommand(text))
           /\ Line!RunCommand(text).status => Line!RunCommand(text).instrument = "kStock"
<1> DEFINE r == Line!RunCommand(text)
           s == t[1]
           Fine(x) == Opens(x) /\ (x.status => x.instrument = "kStock")
<1>1. Fine(Line!Refused)
  BY ResultIs DEF Opens
<1>2. \A kind, w : kind # "kNone" => Fine(Line!Result(kind, w, "kStock"))
  <2> SUFFICES ASSUME NEW kind, NEW w, kind # "kNone"
               PROVE  Fine(Line!Result(kind, w, "kStock"))
    OBVIOUS
  <2> DEFINE x == Line!Result(kind, w, "kStock")
  <2>1. x.kind = kind /\ x.symbol = w /\ x.instrument = "kStock" /\ ~x.status
    BY ResultIs
  <2> HIDE DEF x
  <2>2. Fine(x)
    BY <2>1 DEF Opens
  <2> QED BY <2>2 DEF x
<1>3. \A w : Fine(Line!QuoteSymbol(w)) /\ Fine(Line!ChartSymbol(w))
  <2>1. ASSUME NEW kind, NEW w, NEW y, kind # "kNone", ForSymbol(kind, w, y)
        PROVE  Fine(y)
    <3> DEFINE x == Line!Result(kind, w, "kFutureLocal")
    <3>1. x.kind = kind /\ x.symbol = w /\ x.instrument = "kFutureLocal" /\ ~x.status
      BY ResultIs
    <3> HIDE DEF x
    <3>2. Line!HasExchange(Line!RootFromFuturesLocalSymbol(w)) => Fine(x)
      BY <2>1, <3>1 DEF Opens
    <3> HIDE DEF Fine
    <3> QED BY <1>1, <1>2, <2>1, <3>2 DEF ForSymbol, x
  <2> HIDE DEF Fine
  <2> QED BY <2>1, OpensSymbol
<1>4. \A w : Fine(Line!QuoteContinuous(w)) /\ Fine(Line!ChartContinuous(w))
  <2>1. ASSUME NEW kind, NEW w, NEW y, kind # "kNone", ForContinuous(kind, w, y)
        PROVE  Fine(y)
    <3> DEFINE x == Line!Result(kind, w, "kContinuousFuture")
    <3>1. x.kind = kind /\ x.symbol = w /\ x.instrument = "kContinuousFuture"
          /\ ~x.status
      BY ResultIs
    <3> HIDE DEF x
    <3>2. Line!HasExchange(w) => Fine(x)
      BY <2>1, <3>1 DEF Opens
    <3> HIDE DEF Fine
    <3> QED BY <1>1, <2>1, <3>2 DEF ForContinuous, x
  <2> HIDE DEF Fine
  <2> QED BY <2>1, OpensContinuous
<1> HIDE DEF Fine
<1>5. Fine(r)
  <2>1. CASE Alone(t) /\ Line!IsVerb(s)
    BY <1>2, <2>1, Run, VerbOpens
  <2>2. CASE Alone(t) /\ ~Line!IsVerb(s)
    BY <1>3, <2>2, Run
  <2>3. CASE With(t, Line!NEWS)
    BY <1>1, <1>2, <2>3, Run
  <2>4. CASE With(t, Line!CHART)
    BY <1>3, <2>4, Run
  <2>5. CASE With(t, Line!FUT)
    BY <1>4, <2>5, Run
  <2>6. CASE WithTwo(t, Line!FUT, Line!CHART)
    BY <1>4, <2>6, Run
  <2>7. CASE r = Line!Refused
    BY <1>1, <2>7
  <2> HIDE DEF r, s
  <2> QED BY <2>1, <2>2, <2>3, <2>4, <2>5, <2>6, <2>7, Run DEF r, s
<1> QED BY <1>5 DEF Fine

\* The quote and the chart of one symbol name the same instrument.
LEMMA KindApart ==
    ASSUME NEW s
    PROVE  /\ LET q == Line!QuoteSymbol(s)
                  c == Line!ChartSymbol(s)
              IN  /\ q.symbol = c.symbol /\ q.instrument = c.instrument
                  /\ q.status = c.status
                  /\ (q.kind = "kStartQuote") <=> (c.kind = "kStartChart")
           /\ LET q == Line!QuoteContinuous(s)
                  c == Line!ChartContinuous(s)
              IN  /\ q.symbol = c.symbol /\ q.instrument = c.instrument
                  /\ q.status = c.status
                  /\ (q.kind = "kStartQuote") <=> (c.kind = "kStartChart")
BY DEF Line!QuoteSymbol, Line!ChartSymbol, Line!QuoteContinuous, Line!ChartContinuous,
       Line!Result, Line!Refused, Line!Nothing

LEMMA QuoteMirrored == LineInv => Line!QuoteMirrorsChart
<1> DEFINE text == Line!Text
           more == Line!Text \o <<Line!Blank>> \o Line!CHART
           q == Line!RunCommand(text)
           c == Line!RunCommand(more)
           Same == /\ q.symbol = c.symbol /\ q.instrument = c.instrument
                   /\ q.status = c.status
                   /\ (q.kind = "kStartQuote") <=> (c.kind = "kStartChart")
<1> SUFFICES ASSUME LineInv,
                    state.words \in {<<w>> : w \in {v \in Words : ~Line!IsVerb(v)}}
                                     \union {<<w, Line!FUT>> : w \in Words}
             PROVE  Same
  BY DEF Line!QuoteMirrorsChart
<1> DEFINE t == state.words
           u == Append(state.words, Line!CHART)
           All == Words \union {Line!CHART, Line!FUT}
<1>1. Line!Tokenize(text) = t /\ Line!Tokenize(more) = u
  BY LineIsRead
<1> HIDE DEF text, more, All
<1>2. CASE state.words \in {<<w>> : w \in {v \in Words : ~Line!IsVerb(v)}}
  <2>1. PICK w \in Words : ~Line!IsVerb(w) /\ state.words = <<w>>
    BY <1>2
  <2>2. /\ t \in Seq(All) /\ u \in Seq(All) /\ Len(t) = 1 /\ Len(u) = 2
        /\ t[1] = w /\ u[1] = w /\ u[2] = Line!CHART
    <3>1. w \in All /\ Line!CHART \in All
      BY DEF All
    <3> QED BY <2>1, <3>1
  <2> HIDE DEF t, u
  <2>3. q = Line!QuoteSymbol(w)
    BY <1>1, <2>1, <2>2, Run DEF Alone
  <2>4. c = Line!ChartSymbol(w)
    BY <1>1, <2>2, Run DEF With
  <2> HIDE DEF q, c
  <2> QED BY <2>3, <2>4, KindApart
<1>3. CASE state.words \in {<<w, Line!FUT>> : w \in Words}
  <2>1. PICK w \in Words : state.words = <<w, Line!FUT>>
    BY <1>3
  <2>2. /\ t \in Seq(All) /\ u \in Seq(All) /\ Len(t) = 2 /\ Len(u) = 3
        /\ t[1] = w /\ t[2] = Line!FUT
        /\ u[1] = w /\ u[2] = Line!FUT /\ u[3] = Line!CHART
    <3>1. w \in All /\ Line!CHART \in All /\ Line!FUT \in All
      BY DEF All
    <3> QED BY <2>1, <3>1
  <2> HIDE DEF t, u
  <2>3. q = Line!QuoteContinuous(w)
    BY <1>1, <2>2, Run DEF With
  <2>4. c = Line!ChartContinuous(w)
    BY <1>1, <2>2, Run DEF WithTwo
  <2> HIDE DEF q, c
  <2> QED BY <2>3, <2>4, KindApart
<1> QED BY <1>2, <1>3

LEMMA CommandsAre == LineInv => Line!CommandsResolve
<1> SUFFICES ASSUME LineInv PROVE Line!CommandsResolve
  OBVIOUS
<1> DEFINE r == Line!RunCommand(Line!Text)
<1>1. Line!Tokenize(Line!Text) = state.words /\ state.words \in Seq(Words)
  BY LineIsRead DEF LineInv
<1>2. Line!WordsAreRead
  BY <1>1 DEF Line!WordsAreRead
<1>3. /\ state.words = <<>> => r = Line!Nothing
      /\ state.words # <<>> => Opens(r) /\ (r.status => r.instrument = "kStock")
  BY <1>1, Run, CommandOpens
<1>4. Line!NeverSilent
  BY <1>3 DEF Line!NeverSilent, Opens
<1>5. Line!FuturesHaveExchange
  <2>1. CASE state.words = <<>>
    <3>1. r.instrument = "kStock"
      BY <1>3, <2>1, ResultIs
    <3> QED BY <3>1 DEF Line!FuturesHaveExchange
  <2>2. CASE state.words # <<>>
    BY <1>3, <2>2 DEF Line!FuturesHaveExchange, Opens
  <2> QED BY <2>1, <2>2
<1> QED BY <1>2, <1>4, <1>5, FuturesFound, QuoteMirrored DEF Line!CommandsResolve

\* What a line of words opens (RunCommand): the parser sees the words typed
\* however they are spaced, finds the symbols of futures and their roots, passes
\* no command over in silence, opens only futures whose exchange is known, and a
\* quote command opens what the same words with CHART open: for every alphabet,
\* every set of words and every spacing.
THEOREM CommandsStayResolved == Spec => []CommandsResolve
<1>1. (subject = "line" => LineInv) => CommandsResolve
  BY CommandsAre DEF CommandsResolve
<1> QED BY <1>1, LineHolds, PTL

-----------------------------------------------------------------------------
(***************************************************************************)
(* HtmlText and LineBreaks: TextProofs proves them readable and laid out   *)
(* on their own.  Here the same definitions, seen from the desk, are shown *)
(* to be the same, and so are the invariants.                              *)
(***************************************************************************)

Texts == INSTANCE TextProofs WITH
    pieces <- state, doc <- state, MaxWords <- MaxTextWords, Op <- Op

\* StripHtml() and CleanHeadline(), either way.
LEMMA SameDecoded == \A html : Texts!Decoded(html) = Article!Decoded(html)
BY DEF Texts!Decoded, Article!Decoded, Texts!FoldLeft, Article!FoldLeft,
       Texts!MapThenFoldSet, Article!MapThenFoldSet, Texts!Max, Article!Max,
       Texts!Min, Article!Min

LEMMA SameCollapsed == \A text : Texts!Collapsed(text) = Article!Collapsed(text)
BY DEF Texts!Collapsed, Article!Collapsed, Texts!FoldLeft, Article!FoldLeft,
       Texts!MapThenFoldSet, Article!MapThenFoldSet, Texts!Max, Article!Max

LEMMA SameShape == \A text : Texts!Shape(text) = Article!Shape(text)
BY DEF Texts!Shape, Article!Shape, Texts!FoldLeft, Article!FoldLeft,
       Texts!MapThenFoldSet, Article!MapThenFoldSet, Texts!Max, Article!Max,
       Texts!Front, Article!Front, Texts!Last, Article!Last

LEMMA SameTitle == \A raw : Texts!CleanHeadline(raw) = Article!CleanHeadline(raw)
BY DEF Texts!CleanHeadline, Article!CleanHeadline, Texts!Min, Article!Min

LEMMA SameArticle ==
    /\ Texts!HtmlAssumption <=> Article!HtmlAssumption
    /\ Texts!Pieces = Article!Pieces
    /\ Texts!Html = Article!Html /\ Texts!Meaning = Article!Meaning
<1>1. Texts!HtmlAssumption <=> Article!HtmlAssumption
  BY DEF Texts!HtmlAssumption, Article!HtmlAssumption
<1>2. Texts!Pieces = Article!Pieces
  BY DEF Texts!Pieces, Article!Pieces, Texts!Piece, Article!Piece
<1>3. Texts!Html = Article!Html /\ Texts!Meaning = Article!Meaning
  BY DEF Texts!Html, Article!Html, Texts!Meaning, Article!Meaning,
         Texts!FlattenSeq, Article!FlattenSeq
<1> QED BY <1>1, <1>2, <1>3

LEMMA ArticleIsRead == Texts!ArticleInv => Article!ArticleIsReadable
<1> SUFFICES ASSUME Texts!ArticleInv PROVE Article!ArticleIsReadable
  OBVIOUS
<1>1. Texts!MeaningIsDecoded /\ Texts!WordsStay /\ Texts!TitleIsKept
  BY Texts!ArticleIs DEF Texts!ArticleIsReadable
<1>2. Article!MeaningIsDecoded
  BY <1>1, SameDecoded, SameArticle DEF Texts!MeaningIsDecoded, Article!MeaningIsDecoded
<1>3. Article!WordsStay
  <2>1. \A html : Texts!StripHtml(html) = Article!StripHtml(html)
    BY SameDecoded, SameCollapsed DEF Texts!StripHtml, Article!StripHtml
  <2> QED BY <1>1, <2>1, SameShape, SameArticle DEF Texts!WordsStay, Article!WordsStay
<1>4. Article!TitleIsKept
  BY <1>1, SameTitle, SameArticle DEF Texts!TitleIsKept, Article!TitleIsKept
<1> QED BY <1>2, <1>3, <1>4 DEF Article!ArticleIsReadable

LEMMA ArticleHolds == Spec => [](subject = "article" => Texts!ArticleInv)
<1>1. Init => (subject = "article" => Texts!ArticleInv)
  <2> SUFFICES ASSUME Article!Init PROVE Texts!ArticleInv
    BY DEF Init
  <2>1. Texts!HtmlAssumption
    BY DeskAssumption, SameArticle
  <2> QED BY <2>1, EmptySeq DEF Article!Init, Texts!ArticleInv
<1>2. (subject = "article" => Texts!ArticleInv) /\ [Next]_vars
        => (subject = "article" => Texts!ArticleInv)'
  <2> SUFFICES ASSUME subject = "article" => Texts!ArticleInv, [Next]_vars,
                      subject' = "article"
               PROVE  Texts!ArticleInv'
    OBVIOUS
  <2>1. Texts!ArticleInv /\ (Article!AddPiece \/ UNCHANGED state)
    BY DEF Next, vars, Article!Next
  <2>2. CASE UNCHANGED state
    BY <2>1, <2>2 DEF Texts!ArticleInv, Texts!HtmlAssumption, Texts!Pieces, Texts!Piece
  <2>3. CASE Article!AddPiece
    <3>1. PICK p \in Texts!Pieces : state' = Append(state, p)
      BY <2>3, SameArticle DEF Article!AddPiece
    <3>2. state' \in Seq(Texts!Pieces)
      BY <2>1, <3>1, AppendProperties DEF Texts!ArticleInv
    <3> QED BY <2>1, <3>2
            DEF Texts!ArticleInv, Texts!HtmlAssumption, Texts!Pieces, Texts!Piece
  <2> QED BY <2>1, <2>2, <2>3
<1> QED BY <1>1, <1>2, PTL DEF Spec

\* LayoutText(), either way: widths and costs first.
LEMMA SameWidth ==
    \A words, i, j : Texts!Lines!Width(words, i, j) = Lines!Width(words, i, j)
BY DEF Texts!Lines!Width, Lines!Width, Texts!Lines!FoldLeft, Lines!FoldLeft,
       Texts!Lines!MapThenFoldSet, Lines!MapThenFoldSet, Texts!Lines!Max, Lines!Max

LEMMA SameCost ==
    /\ \A words, i, j : Texts!Lines!Possible(words, i, j) <=> Lines!Possible(words, i, j)
    /\ \A words, i, j : Texts!Lines!LineCost(words, i, j) = Lines!LineCost(words, i, j)
    /\ \A x : Texts!Lines!Cube(x) = Lines!Cube(x)
<1>1. \A x : Texts!Lines!Cube(x) = Lines!Cube(x)
  BY DEF Texts!Lines!Cube, Lines!Cube
<1>2. \A words, i, j : Texts!Lines!Possible(words, i, j) <=> Lines!Possible(words, i, j)
  BY SameWidth DEF Texts!Lines!Possible, Lines!Possible
<1>3. \A words, i, j : Texts!Lines!LineCost(words, i, j) = Lines!LineCost(words, i, j)
  BY <1>1, SameWidth DEF Texts!Lines!LineCost, Lines!LineCost
<1> QED BY <1>1, <1>2, <1>3

LEMMA SameEnds ==
    /\ \A S : Texts!Lines!Max(S) = Lines!Max(S) /\ Texts!Lines!Min(S) = Lines!Min(S)
    /\ \A f : Texts!Lines!Range(f) = Lines!Range(f)
BY DEF Texts!Lines!Max, Lines!Max, Texts!Lines!Min, Lines!Min, Texts!Lines!Range, Lines!Range

LEMMA SameBreaks ==
    /\ \A words : Texts!Lines!OptimalBreaks(words) = Lines!OptimalBreaks(words)
    /\ \A words : Texts!Lines!LinesOf(words) = Lines!LinesOf(words)
<1>1. \A words, j : Texts!Lines!From(words, j) = Lines!From(words, j)
  BY SameCost DEF Texts!Lines!From, Lines!From
<1>2. \A words : Texts!Lines!Best(words) = Lines!Best(words)
  BY DEF Texts!Lines!Best, Lines!Best, Texts!Lines!Min, Lines!Min, Texts!Lines!Max, Lines!Max,
         Texts!Lines!From, Lines!From, Texts!Lines!Possible, Lines!Possible,
         Texts!Lines!LineCost, Lines!LineCost, Texts!Lines!Cube, Lines!Cube,
         Texts!Lines!Width, Lines!Width, Texts!Lines!FoldLeft, Lines!FoldLeft,
         Texts!Lines!MapThenFoldSet, Lines!MapThenFoldSet
<1>3. \A words, dp, j : Texts!Lines!Parent(words, dp, j) = Lines!Parent(words, dp, j)
  BY <1>1, SameCost, SameEnds DEF Texts!Lines!Parent, Lines!Parent
<1>4. \A words : Texts!Lines!OptimalBreaks(words) = Lines!OptimalBreaks(words)
  BY <1>2, <1>3 DEF Texts!Lines!OptimalBreaks, Lines!OptimalBreaks
<1>5. \A words : Texts!Lines!LinesOf(words) = Lines!LinesOf(words)
  BY <1>4 DEF Texts!Lines!LinesOf, Lines!LinesOf
<1> QED BY <1>4, <1>5

LEMMA SameText ==
    /\ Texts!Lines!Paragraphs = Lines!Paragraphs
    /\ Texts!Lines!LayoutText = Lines!LayoutText
    /\ \A seqs : Texts!Lines!FlattenSeq(seqs) = Lines!FlattenSeq(seqs)
<1>1. Texts!Lines!Paragraphs = Lines!Paragraphs
  BY DEF Texts!Lines!Paragraphs, Lines!Paragraphs, Texts!Lines!FoldLeft, Lines!FoldLeft,
         Texts!Lines!MapThenFoldSet, Lines!MapThenFoldSet, Texts!Lines!Max, Lines!Max,
         Texts!Lines!Front, Lines!Front, Texts!Lines!Last, Lines!Last
<1>2. \A seqs : Texts!Lines!FlattenSeq(seqs) = Lines!FlattenSeq(seqs)
  BY DEF Texts!Lines!FlattenSeq, Lines!FlattenSeq
<1>3. Texts!Lines!LayoutText = Lines!LayoutText
  BY <1>1, <1>2, SameBreaks DEF Texts!Lines!LayoutText, Lines!LayoutText
<1> QED BY <1>1, <1>2, <1>3

LEMMA SameLayouts ==
    /\ \A words : Texts!Lines!Layouts(words) = Lines!Layouts(words)
    /\ \A words, ends : Texts!Lines!LayoutCost(words, ends) = Lines!LayoutCost(words, ends)
<1>1. \A ends, j : Texts!Lines!LastBefore(ends, j) = Lines!LastBefore(ends, j)
  BY SameEnds DEF Texts!Lines!LastBefore, Lines!LastBefore
<1>2. \A words : Texts!Lines!Layouts(words) = Lines!Layouts(words)
  BY <1>1, SameCost DEF Texts!Lines!Layouts, Lines!Layouts
<1>3. \A words, ends : Texts!Lines!LayoutCost(words, ends) = Lines!LayoutCost(words, ends)
  BY DEF Texts!Lines!LayoutCost, Lines!LayoutCost, Texts!Lines!MapThenSumSet,
         Lines!MapThenSumSet, Texts!Lines!MapThenFoldSet, Lines!MapThenFoldSet,
         Texts!Lines!LastBefore, Lines!LastBefore, Texts!Lines!Max, Lines!Max,
         Texts!Lines!Cube, Lines!Cube, Texts!Lines!Width, Lines!Width,
         Texts!Lines!FoldLeft, Lines!FoldLeft
<1> QED BY <1>2, <1>3

LEMMA LinesAreLaidOut == Texts!LineInv => Lines!TextIsLaidOut
<1> SUFFICES ASSUME Texts!LineInv PROVE Lines!TextIsLaidOut
  OBVIOUS
<1>1. Texts!Lines!BreaksAreOptimal /\ Texts!Lines!TextIsKept
  BY Texts!LinesAre DEF Texts!Lines!TextIsLaidOut
<1>2. Lines!BreaksAreOptimal
  BY <1>1, SameBreaks, SameEnds, SameLayouts, SameText
     DEF Texts!Lines!BreaksAreOptimal, Lines!BreaksAreOptimal
<1>3. Lines!TextIsKept
  BY <1>1, SameText, SameWidth DEF Texts!Lines!TextIsKept, Lines!TextIsKept
<1> QED BY <1>2, <1>3 DEF Lines!TextIsLaidOut

LEMMA LinesHold == Spec => [](subject = "lines" => Texts!LineInv)
<1>1. Init => (subject = "lines" => Texts!LineInv)
  <2> SUFFICES ASSUME Lines!Init PROVE Texts!LineInv
    BY DEF Init
  <2>1. Texts!Lines!LineBreaksAssumption
    BY DeskAssumption DEF Texts!Lines!LineBreaksAssumption, Lines!LineBreaksAssumption
  <2>2. Texts!Lines!Init
    BY DEF Texts!Lines!Init, Lines!Init
  <2> QED BY <2>1, <2>2, Texts!LineStarts
<1>2. (subject = "lines" => Texts!LineInv) /\ [Next]_vars
        => (subject = "lines" => Texts!LineInv)'
  <2> SUFFICES ASSUME subject = "lines" => Texts!LineInv, [Next]_vars, subject' = "lines"
               PROVE  Texts!LineInv'
    OBVIOUS
  <2>1. Texts!LineInv /\ (Lines!Next \/ UNCHANGED state)
    BY DEF Next, vars
  <2>2. Lines!Next => Texts!Lines!Next
    BY SameText DEF Texts!Lines!Next, Lines!Next, Texts!Lines!AddWord, Lines!AddWord,
                    Texts!Lines!AddLine, Lines!AddLine
  <2>3. [Texts!Lines!Next]_state
    BY <2>1, <2>2
  <2> QED BY <2>1, <2>3, Texts!LineStays
<1> QED BY <1>1, <1>2, PTL DEF Spec

\* From an article to lines (StripHtml, CleanHeadline, LayoutText): the reader
\* gets the meaning of every article, with each word in its paragraph, and a
\* headline keeps its title; every word of a text is on a line, no line is wider
\* than the grid, and no layout is less ragged: for every article, every text
\* and every width.
THEOREM TextStaysLaidOut == Spec => []TextIsLaidOut
<1>1. (subject = "article" => Texts!ArticleInv) /\ (subject = "lines" => Texts!LineInv)
        => TextIsLaidOut
  BY ArticleIsRead, LinesAreLaidOut DEF TextIsLaidOut
<1> QED BY <1>1, ArticleHolds, LinesHold, PTL

================================================================================
