------------------------------ MODULE DeskProofs ------------------------------
(***************************************************************************)
(* Proofs about the small components of Desk for all values of their       *)
(* constants, one section for each.  DeskLemmas is extended for the lemmas *)
(* that do not depend on its operator, which stays a parameter here, and   *)
(* instantiated for each loop.                                             *)
(***************************************************************************)
EXTENDS Desk, DeskLemmas

-----------------------------------------------------------------------------
(***************************************************************************)
(* ScrollBlock: every height of the window, every length of a text and     *)
(* every turn of the wheel.  A resize does not look at scroll_top_ unless  *)
(* the reader is open: what makes the range of the scroll position         *)
(* inductive is that a closed reader is empty and at its top.              *)
(***************************************************************************)

ClosedInv == state.header = 0 => state.top = 0 /\ state.body = 0

ScrollInv == Block!TypeOK /\ state.top <= Block!MaxScrollTop(state) /\ ClosedInv

Blocks == [rows : Heights, header : {0, Block!ReaderHeader},
           body : Lengths \union {0}, top : Nat]

-----------------------------------------------------------------------------
(* The numbers of rows and lines. *)

\* There is a row for the body at least, and as many as are drawn if there is any.
LEMMA RowsOf ==
    ASSUME NEW b \in Blocks
    PROVE  /\ Block!VisibleRows(b) \in Nat /\ Block!VisibleRows(b) >= 1
           /\ Block!Room(b) \in Nat
           /\ Block!Room(b) > 0 => Block!Room(b) = Block!VisibleRows(b)
           /\ Block!MaxScrollTop(b) \in Nat
           /\ Block!MaxScrollTop(b) > 0 => Block!MaxScrollTop(b) + Block!VisibleRows(b) = b.body
<1>1. b.rows \in Nat /\ b.header \in Nat /\ b.body \in Nat
  <2>1. b.rows \in Heights /\ b.header \in {0, 2} /\ b.body \in Lengths \union {0}
    BY DEF Blocks, Block!ReaderHeader
  <2>2. \A n \in Heights \union Lengths : n \in Nat
    BY DeskAssumption DEF Block!ScrollAssumption
  <2> QED BY <2>1, <2>2
<1>2. /\ Block!VisibleRows(b) \in Nat /\ Block!VisibleRows(b) >= 1
      /\ Block!Room(b) \in Nat /\ (Block!Room(b) > 0 => Block!Room(b) = Block!VisibleRows(b))
  BY <1>1 DEF Block!VisibleRows, Block!Room, Block!kBarReservedRows
<1> QED BY <1>1, <1>2 DEF Block!MaxScrollTop

\* A new scroll position within the range of this state.
LEMMA ScrolledInv ==
    ASSUME ScrollInv, NEW top \in Nat, top <= Block!MaxScrollTop(state),
           Block!ScrollTo(top)
    PROVE  ScrollInv'
<1>1. state \in Blocks
  BY DEF ScrollInv, Block!TypeOK, Blocks
<1>2. state.header > 0 /\ state' = [state EXCEPT !.top = top]
  BY DEF Block!ScrollTo
<1>3. /\ state' \in Blocks /\ state'.top = top
      /\ Block!MaxScrollTop(state') = Block!MaxScrollTop(state)
  BY <1>1, <1>2 DEF Blocks, Block!MaxScrollTop, Block!VisibleRows
<1>4. state'.header # 0
  BY <1>1, <1>2 DEF Blocks
<1> QED BY <1>3, <1>4 DEF ScrollInv, Block!TypeOK, ClosedInv, Blocks

\* Another text, laid out for the window as it is now, and seen from its top.
LEMMA LaidOutInv ==
    ASSUME state' \in Blocks, state'.top = 0,
           state'.header = 0 => state'.body = 0
    PROVE  ScrollInv'
<1>1. Block!MaxScrollTop(state') \in Nat
  BY RowsOf
<1> QED BY <1>1 DEF ScrollInv, Block!TypeOK, ClosedInv, Blocks, Block!MaxScrollTop,
                    Block!VisibleRows

-----------------------------------------------------------------------------
(* The steps. *)

LEMMA ScrollStep == ASSUME ScrollInv, Block!Next PROVE ScrollInv'
<1> DEFINE max == Block!MaxScrollTop(state)
           rows == Block!VisibleRows(state)
<1>1. state \in Blocks
  BY DEF ScrollInv, Block!TypeOK, Blocks
<1>2. /\ state.top \in Nat /\ state.top <= max
      /\ max \in Nat /\ rows \in Nat
  BY <1>1, RowsOf DEF ScrollInv, Blocks
<1> HIDE DEF max, rows
<1>3. CASE \E n \in Lengths : Block!OpenReader(n) \/ Block!SetBody(n)
  <2>1. PICK n \in Lengths : Block!OpenReader(n) \/ Block!SetBody(n)
    BY <1>3
  <2>2. CASE Block!OpenReader(n)
    <3>1. /\ state' \in Blocks /\ state'.top = 0 /\ state'.header = 2
      BY <1>1, <2>2 DEF Block!OpenReader, Blocks, Block!ReaderHeader
    <3> QED BY <3>1, LaidOutInv
  <2>3. CASE Block!SetBody(n)
    <3>1. state.header = 2 /\ state' = [state EXCEPT !.body = n, !.top = 0]
      BY <1>1, <2>3 DEF Block!SetBody, Blocks, Block!ReaderHeader
    <3>2. state' \in Blocks /\ state'.top = 0 /\ state'.header = 2
      BY <1>1, <3>1 DEF Blocks
    <3> QED BY <3>2, LaidOutInv
  <2> QED BY <2>1, <2>2, <2>3
<1>4. CASE Block!CloseReader
  BY <1>1, <1>4, LaidOutInv DEF Block!CloseReader, Blocks
<1>5. CASE \E h \in Heights, n \in Lengths : Block!Resize(h, n)
  <2>1. PICK h \in Heights, n \in Lengths : Block!Resize(h, n)
    BY <1>5
  <2>2. CASE state.header > 0
    <3>1. /\ state.header = 2
          /\ state' = [state EXCEPT !.rows = h, !.body = n, !.top = 0]
      BY <1>1, <2>1, <2>2 DEF Block!Resize, Blocks, Block!ReaderHeader
    <3>2. state' \in Blocks /\ state'.top = 0 /\ state'.header = 2
      BY <1>1, <3>1 DEF Blocks
    <3> QED BY <3>2, LaidOutInv
  <2>3. CASE ~(state.header > 0)
    <3>1. state.header = 0
      BY <1>1, <2>3 DEF Blocks, Block!ReaderHeader
    <3>2. state.top = 0 /\ state.body = 0
      BY <3>1 DEF ScrollInv, ClosedInv
    <3>3. state' \in Blocks /\ state'.top = 0 /\ state'.body = 0
      BY <1>1, <2>1, <2>3, <3>2 DEF Block!Resize, Blocks
    <3> QED BY <3>3, LaidOutInv
  <2> QED BY <2>2, <2>3
<1>6. CASE Block!Up
  BY <1>2, <1>6, ScrolledInv DEF Block!Up, max
<1>7. CASE Block!Down
  BY <1>2, <1>7, ScrolledInv DEF Block!Down, max
<1>8. CASE Block!PageUp
  <2>1. Block!Clamp(state.top - rows, 0, state.top) \in 0..state.top
    BY <1>2 DEF Block!Clamp
  <2> QED BY <1>2, <1>8, <2>1, ScrolledInv DEF Block!PageUp, max, rows
<1>9. CASE Block!PageDown
  BY <1>2, <1>9, ScrolledInv DEF Block!PageDown, max, rows
<1>10. CASE Block!Home
  BY <1>2, <1>10, ScrolledInv DEF Block!Home, max
<1>11. CASE Block!End
  BY <1>2, <1>11, ScrolledInv DEF Block!End, max
<1>12. CASE \E y \in -MaxWheel..MaxWheel : Block!Wheel(y)
  <2>1. PICK y \in -MaxWheel..MaxWheel : Block!Wheel(y)
    BY <1>12
  <2>2. y \in Int
    BY DeskAssumption DEF Block!ScrollAssumption
  <2>3. Block!Clamp(state.top - y, 0, max) \in 0..max
    BY <1>2, <2>2 DEF Block!Clamp
  <2> QED BY <1>2, <2>1, <2>3, ScrolledInv DEF Block!Wheel, max
<1> QED BY <1>3, <1>4, <1>5, <1>6, <1>7, <1>8, <1>9, <1>10, <1>11, <1>12 DEF Block!Next

\* The part of the desk's invariant about the reader.
LEMMA ScrollHolds == Spec => [](subject = "block" => ScrollInv)
<1>1. Init => (subject = "block" => ScrollInv)
  <2> SUFFICES ASSUME Block!Init PROVE ScrollInv
    BY DEF Init
  <2>1. state \in Blocks /\ state.header = 0 /\ state.body = 0 /\ state.top = 0
    BY DEF Block!Init, Blocks
  <2>2. Block!MaxScrollTop(state) \in Nat
    BY <2>1, RowsOf
  <2> QED BY <2>1, <2>2 DEF ScrollInv, Block!TypeOK, ClosedInv, Blocks
<1>2. (subject = "block" => ScrollInv) /\ [Next]_vars => (subject = "block" => ScrollInv)'
  <2>1. ScrollInv /\ UNCHANGED state => ScrollInv'
    BY DEF ScrollInv, Block!TypeOK, ClosedInv, Block!MaxScrollTop, Block!VisibleRows
  <2> QED BY <2>1, ScrollStep DEF Next, vars
<1> QED BY <1>1, <1>2, PTL DEF Spec

LEMMA ScrollIsInRange == ScrollInv => Block!ScrollInRange
<1> SUFFICES ASSUME ScrollInv PROVE Block!ScrollInRange
  OBVIOUS
<1>1. state \in Blocks
  BY DEF ScrollInv, Block!TypeOK, Blocks
<1>2. state.top \in Nat /\ state.top <= Block!MaxScrollTop(state)
  BY <1>1 DEF ScrollInv, Blocks
<1>3. state.top > 0 /\ Block!Room(state) > 0 => state.top + Block!Room(state) <= state.body
  BY <1>1, <1>2, RowsOf
<1> QED BY <1>2, <1>3 DEF Block!ScrollInRange, ScrollInv

LEMMA PagesMeet == ScrollInv => Block!NoLineSkipped
<1> SUFFICES ASSUME ScrollInv, Block!Room(state) > 0
             PROVE  /\ Block!PageDown => state'.top <= state.top + Block!Room(state)
                    /\ Block!PageUp => state.top <= state'.top + Block!Room(state)
  BY DEF Block!NoLineSkipped
<1>1. state \in Blocks
  BY DEF ScrollInv, Block!TypeOK, Blocks
<1>2. /\ state.top \in Nat /\ state.top <= Block!MaxScrollTop(state)
      /\ Block!MaxScrollTop(state) \in Nat
      /\ Block!VisibleRows(state) \in Nat /\ Block!Room(state) = Block!VisibleRows(state)
  BY <1>1, RowsOf DEF ScrollInv, Blocks
<1>3. \A top : Block!ScrollTo(top) => state'.top = top
  BY <1>1 DEF Block!ScrollTo, Blocks
<1>4. CASE Block!PageDown
  BY <1>2, <1>3, <1>4 DEF Block!PageDown, Block!PageUp, Block!Clamp
<1>5. CASE Block!PageUp
  BY <1>2, <1>3, <1>5 DEF Block!PageDown, Block!PageUp, Block!Clamp
<1> QED BY <1>4, <1>5

\* No key, no wheel and no resize scrolls the text past its end, and paging
\* passes over no line, in windows of any height and for bodies of any length
\* (OnScrollEvent(), SetBody() and the reader's layout, widgets.cc and
\* news_screen.cc).
THEOREM ScrollStaysInRange == Spec => ScrollInRange
<1>1. (subject = "block" => ScrollInv) /\ [Next]_vars
      => [subject = "block" => Block!NoLineSkipped]_vars
  BY PagesMeet
<1>2. (subject = "block" => ScrollInv) => (subject = "block" => Block!ScrollInRange)
  BY ScrollIsInRange
<1> QED BY <1>1, <1>2, ScrollHolds, PTL DEF Spec, ScrollInRange

-----------------------------------------------------------------------------
(***************************************************************************)
(* LogRing: every capacity and however often the ring wraps around.  Entry *)
(* i is the i-th taken in; once more than Capacity of them have been, the  *)
(* slots up to head hold the newest and those from head on the oldest      *)
(* still kept: that is what says, slot by slot, which entry is where.      *)
(***************************************************************************)

Taken == Len(state.taken)

\* The entry in slot i of the ring when n have been taken in.
InSlot(i, n, head) ==
    IF n <= Capacity THEN i ELSE IF i <= head THEN n - head + i ELSE n - head - Capacity + i

RingInv ==
    /\ Ring!TypeOK
    /\ Taken <= MaxEntries
    /\ \A i \in 1..Taken : state.taken[i] = i
    /\ state.full <=> Taken > Capacity
    /\ ~state.full => state.head = 0
    /\ Len(state.ring) = IF Taken <= Capacity THEN Taken ELSE Capacity
    /\ \A i \in 1..Len(state.ring) : state.ring[i] = InSlot(i, Taken, state.head)

Logs == [ring : Seq(1..MaxEntries), head : 0..(Capacity - 1), full : BOOLEAN,
         spec : Specs \union {<<>>}, taken : Seq(1..MaxEntries)]

LogInv == state \in Logs /\ RingInv

LEMMA RingConstants ==
    Capacity \in Nat /\ Capacity >= 1 /\ MaxEntries \in Nat /\ MaxTail \in Nat
BY DeskAssumption DEF Ring!LogAssumption

\* The numbers of a log.
LEMMA RingNumbers ==
    ASSUME LogInv
    PROVE  /\ Taken \in Nat /\ Taken <= MaxEntries
           /\ state.head \in Nat /\ state.head < Capacity /\ state.full \in BOOLEAN
           /\ state.ring \in Seq(1..MaxEntries) /\ state.taken \in Seq(1..MaxEntries)
           /\ Len(state.ring) \in Nat
<1>1. state.ring \in Seq(1..MaxEntries) /\ state.taken \in Seq(1..MaxEntries)
  BY DEF LogInv, Logs
<1>2. state.head \in 0..(Capacity - 1) /\ state.full \in BOOLEAN
  BY DEF LogInv, Logs
<1> QED BY <1>1, <1>2, RingConstants DEF LogInv, RingInv, Taken

LEMMA NewLogInv == (state' = Ring!NewLog => LogInv') /\ (state = Ring!NewLog => LogInv)
<1>1. ASSUME NEW l, l = Ring!NewLog
      PROVE  /\ l \in Logs /\ l.ring = <<>> /\ l.taken = <<>> /\ l.head = 0 /\ l.full = FALSE
             /\ l.spec = <<>>
  BY <1>1, RingConstants DEF Ring!NewLog, Logs
<1>2. ASSUME state = Ring!NewLog PROVE LogInv
  <2>1. /\ state \in Logs /\ state.ring = <<>> /\ state.taken = <<>>
        /\ state.head = 0 /\ state.full = FALSE
    BY <1>1, <1>2
  <2>2. Ring!TypeOK
    BY <2>1 DEF Ring!TypeOK, Logs
  <2>3. Taken = 0 /\ Len(state.ring) = 0
    BY <2>1 DEF Taken
  <2> QED BY <2>1, <2>2, <2>3, RingConstants DEF LogInv, RingInv
<1>3. ASSUME state' = Ring!NewLog PROVE LogInv'
  <2>1. /\ state' \in Logs /\ state'.ring = <<>> /\ state'.taken = <<>>
        /\ state'.head = 0 /\ state'.full = FALSE
    BY <1>1, <1>3
  <2>2. Ring!TypeOK'
    BY <2>1 DEF Ring!TypeOK, Logs
  <2>3. Taken' = 0 /\ Len(state'.ring) = 0
    BY <2>1 DEF Taken
  <2> QED BY <2>1, <2>2, <2>3, RingConstants DEF LogInv, RingInv
<1> QED BY <1>2, <1>3

LEMMA EmitKeepsRing ==
    ASSUME LogInv, NEW level \in Nat, NEW category \in Categories, Ring!Emit(level, category)
    PROVE  LogInv'
<1> DEFINE n == Taken
           r == state.ring
           h == state.head
<1>1. /\ n \in Nat /\ n <= MaxEntries /\ n < MaxEntries
      /\ h \in Nat /\ h < Capacity /\ state.full \in BOOLEAN
      /\ r \in Seq(1..MaxEntries) /\ state.taken \in Seq(1..MaxEntries) /\ Len(r) \in Nat
  BY RingNumbers DEF Ring!Emit, Taken
<1>2. n + 1 \in 1..MaxEntries
  BY <1>1, RingConstants
<1>3. /\ state' = [Ring!Pushed(state, n + 1) EXCEPT !.taken = Append(@, n + 1)]
      /\ state \in Logs
  BY DEF Ring!Emit, Taken, LogInv
<1>4. /\ Append(state.taken, n + 1) \in Seq(1..MaxEntries)
      /\ Len(Append(state.taken, n + 1)) = n + 1
      /\ \A i \in 1..(n + 1) : Append(state.taken, n + 1)[i] = i
  <2>1. \A i \in 1..n : state.taken[i] = i
    BY DEF LogInv, RingInv, Taken
  <2> DEFINE t == state.taken
  <2>2. t \in Seq(1..MaxEntries) /\ Len(t) = n /\ \A i \in 1..n : t[i] = i
    BY <1>1, <2>1 DEF Taken
  <2> HIDE DEF t, n
  <2>3. /\ Append(t, n + 1) \in Seq(1..MaxEntries) /\ Len(Append(t, n + 1)) = n + 1
        /\ \A i \in 1..n : Append(t, n + 1)[i] = t[i] /\ Append(t, n + 1)[n + 1] = n + 1
    BY <1>1, <1>2, <2>2, AppendProperties
  <2> QED BY <1>1, <2>2, <2>3 DEF t
<1>5. /\ state.full <=> n > Capacity
      /\ ~state.full => h = 0
      /\ Len(r) = IF n <= Capacity THEN n ELSE Capacity
      /\ \A i \in 1..Len(r) : r[i] = InSlot(i, n, h)
  BY DEF LogInv, RingInv
<1>6. CASE n < Capacity
  <2>1. Len(r) = n /\ Len(r) < Capacity /\ state.full = FALSE /\ h = 0
    BY <1>1, <1>5, <1>6, RingConstants
  <2>2. state' = [state EXCEPT !.ring = Append(r, n + 1), !.taken = Append(@, n + 1)]
    BY <1>3, <2>1 DEF Ring!Pushed
  <2>3. /\ state'.ring = Append(r, n + 1) /\ state'.taken = Append(state.taken, n + 1)
        /\ state'.head = 0 /\ state'.full = FALSE /\ state'.spec = state.spec
        /\ state' \in Logs
    <3>1. Append(r, n + 1) \in Seq(1..MaxEntries)
      BY <1>1, <1>2, AppendProperties
    <3> HIDE DEF n, r
    <3> QED BY <1>3, <1>4, <2>1, <2>2, <3>1 DEF Logs, h
  <2>4. /\ Len(state'.ring) = n + 1
        /\ \A i \in 1..(n + 1) : state'.ring[i] = i
    <3>1. \A i \in 1..n : r[i] = i
      BY <1>1, <1>5, <1>6, <2>1, RingConstants DEF InSlot
    <3> HIDE DEF n, r
    <3>2. /\ Len(Append(r, n + 1)) = n + 1
          /\ \A i \in 1..n : Append(r, n + 1)[i] = r[i] /\ Append(r, n + 1)[n + 1] = n + 1
      BY <1>1, <1>2, <2>1, AppendProperties
    <3> QED BY <1>1, <2>3, <3>1, <3>2
  <2>5. Taken' = n + 1 /\ n + 1 <= Capacity /\ Capacity \in Nat
    BY <1>1, <1>4, <1>6, <2>3, RingConstants DEF Taken
  <2>6. Ring!TypeOK'
    BY <2>3 DEF Ring!TypeOK, Logs
  <2> HIDE DEF n
  <2> QED BY <1>1, <1>2, <1>4, <2>3, <2>4, <2>5, <2>6 DEF LogInv, RingInv, InSlot
<1>7. CASE ~(n < Capacity)
  <2> DEFINE g == (h + 1) % Capacity
  <2>1. Len(r) = Capacity /\ ~(Len(r) < Capacity)
    BY <1>1, <1>5, <1>7, RingConstants
  <2>2. state' = [state EXCEPT !.ring[h + 1] = n + 1, !.head = g, !.full = TRUE,
                               !.taken = Append(@, n + 1)]
    BY <1>3, <2>1 DEF Ring!Pushed
  <2>3. g = IF h + 1 < Capacity THEN h + 1 ELSE 0
    <3> HIDE DEF h, n, r
    <3> QED BY <1>1, RingConstants, NextPlace
  <2>4. g \in 0..(Capacity - 1)
    BY <1>1, <2>3, RingConstants
  <2> HIDE DEF g
  <2>5. /\ state'.ring = [r EXCEPT ![h + 1] = n + 1]
        /\ state'.taken = Append(state.taken, n + 1)
        /\ state'.head = g /\ state'.full = TRUE /\ state'.spec = state.spec
        /\ state' \in Logs
    <3>1. h + 1 \in 1..Len(r)
      BY <1>1, <2>1, RingConstants
    <3>2. [r EXCEPT ![h + 1] = n + 1] \in Seq(1..MaxEntries)
      BY <1>1, <1>2, <3>1, ExceptSeq
    <3> HIDE DEF n
    <3> QED BY <1>3, <1>4, <2>2, <2>4, <3>2 DEF Logs
  <2>6. /\ Len(state'.ring) = Capacity
        /\ \A i \in 1..Capacity : state'.ring[i] = IF i = h + 1 THEN n + 1 ELSE r[i]
    <3>1. h + 1 \in 1..Len(r)
      BY <1>1, <2>1, RingConstants
    <3> HIDE DEF n, r
    <3> QED BY <1>1, <1>2, <2>1, <2>5, <3>1, ExceptSeq
  <2>7. Taken' = n + 1 /\ n + 1 > Capacity /\ Capacity \in Nat
    BY <1>1, <1>4, <1>7, <2>5, RingConstants DEF Taken
  <2>8. ASSUME NEW i \in 1..Capacity PROVE state'.ring[i] = InSlot(i, n + 1, g)
    <3>1. r[i] = InSlot(i, n, h)
      BY <1>5, <2>1
    <3>2. state'.ring[i] = IF i = h + 1 THEN n + 1 ELSE r[i]
      BY <2>6
    <3>3. n <= Capacity => n = Capacity /\ h = 0
      BY <1>1, <1>5, <1>7, RingConstants
    <3>4. i \in Nat /\ 1 <= i /\ i <= Capacity /\ Capacity \in Nat
      BY RingConstants
    <3> HIDE DEF n, r, h
    <3>5. r[i] = IF i <= h THEN n - h + i ELSE n - h - Capacity + i
      BY <1>1, <3>1, <3>3, <3>4 DEF InSlot
    <3>6. InSlot(i, n + 1, g) = IF i <= g THEN n + 1 - g + i ELSE n + 1 - g - Capacity + i
      BY <1>1, <2>4, <2>7, <3>4 DEF InSlot
    <3>7. CASE h + 1 < Capacity
      <4>1. g = h + 1
        BY <2>3, <3>7
      <4> QED BY <1>1, <3>2, <3>4, <3>5, <3>6, <4>1
    <3>8. CASE ~(h + 1 < Capacity)
      <4>1. g = 0 /\ h + 1 = Capacity
        BY <1>1, <2>3, <3>4, <3>8
      <4> QED BY <1>1, <3>2, <3>4, <3>5, <3>6, <4>1
    <3> QED BY <3>7, <3>8
  <2>9. Ring!TypeOK'
    BY <2>5 DEF Ring!TypeOK, Logs
  <2> HIDE DEF n
  <2> QED BY <1>1, <1>2, <1>4, <2>5, <2>6, <2>7, <2>8, <2>9 DEF LogInv, RingInv
<1> HIDE DEF n
<1> QED BY <1>6, <1>7

LEMMA RingStep == ASSUME LogInv, Ring!Next PROVE LogInv'
<1>1. ASSUME NEW level \in {Ring!kTrace, Ring!kInfo, Ring!kError},
             NEW category \in Categories, Ring!Emit(level, category)
      PROVE  LogInv'
  <2>1. level \in Nat
    BY DEF Ring!kTrace, Ring!kInfo, Ring!kError
  <2> QED BY <1>1, <2>1, EmitKeepsRing
<1>2. ASSUME Ring!Shutdown PROVE LogInv'
  BY <1>2, NewLogInv DEF Ring!Shutdown, Ring!Emptied
<1>3. ASSUME NEW spec \in Specs, Ring!SetFilter(spec) PROVE LogInv'
  <2>1. state' = [state EXCEPT !.spec = spec] /\ state \in Logs
    BY <1>3 DEF Ring!SetFilter, LogInv
  <2>2. /\ state'.ring = state.ring /\ state'.taken = state.taken
        /\ state'.head = state.head /\ state'.full = state.full /\ state' \in Logs
    BY <2>1 DEF Logs
  <2>3. Ring!TypeOK'
    BY <2>2 DEF Ring!TypeOK, Logs
  <2> QED BY <2>2, <2>3 DEF LogInv, RingInv, Taken
<1> QED BY <1>1, <1>2, <1>3 DEF Ring!Next

LEMMA RingHolds == Spec => [](subject = "log" => LogInv)
<1>1. Init => (subject = "log" => LogInv)
  <2>1. Init /\ subject = "log" => Ring!Init
    BY DEF Init
  <2> QED BY <2>1, NewLogInv DEF Ring!Init
<1>2. (subject = "log" => LogInv) /\ [Next]_vars => (subject = "log" => LogInv)'
  <2> SUFFICES ASSUME subject = "log" => LogInv, [Next]_vars, (subject = "log")'
               PROVE  LogInv'
    OBVIOUS
  <2>1. CASE Next
    <3>1. subject = "log" /\ Ring!Next
      BY <2>1 DEF Next
    <3> QED BY <3>1, RingStep
  <2>2. CASE UNCHANGED vars
    BY <2>2 DEF vars, LogInv, Logs, RingInv, Taken, Ring!TypeOK
  <2> QED BY <2>1, <2>2
<1> QED BY <1>1, <1>2, PTL DEF Spec

LEMMA RingLesser ==
    ASSUME NEW x \in Int, NEW y \in Int
    PROVE  /\ Ring!Max({x, y}) = (IF x >= y THEN x ELSE y)
           /\ Ring!Min({x, y}) = (IF x <= y THEN x ELSE y)
<1>1. CASE x >= y
  <2>1. \A z \in {x, y} : (\A w \in {x, y} : z >= w) <=> z = x
    BY <1>1
  <2>2. \A z \in {x, y} : (\A w \in {x, y} : z =< w) <=> z = y
    BY <1>1
  <2> QED BY <1>1, <2>1, <2>2 DEF Ring!Max, Ring!Min
<1>2. CASE ~(x >= y)
  <2>1. \A z \in {x, y} : (\A w \in {x, y} : z >= w) <=> z = y
    BY <1>2
  <2>2. \A z \in {x, y} : (\A w \in {x, y} : z =< w) <=> z = x
    BY <1>2
  <2> QED BY <1>2, <2>1, <2>2 DEF Ring!Max, Ring!Min
<1> QED BY <1>1, <1>2

\* How many entries RecentEntries(max) yields.
Shown(max) == IF max <= Taken THEN (IF max <= Capacity THEN max ELSE Capacity)
              ELSE IF Taken <= Capacity THEN Taken ELSE Capacity

\* The slots RecentEntries() reads, around the end of the ring, hold the last
\* entries in their order.
LEMMA RecentAre ==
    ASSUME LogInv, NEW max \in Nat
    PROVE  /\ Ring!RecentEntries(max) = [i \in 1..Shown(max) |-> Taken - Shown(max) + i]
           /\ Shown(max) \in Nat /\ Shown(max) <= Taken /\ Shown(max) <= max
           /\ max >= 1 /\ Taken >= 1 => Shown(max) >= 1
<1> DEFINE n == Taken
           h == state.head
           total == IF state.full THEN Capacity ELSE Len(state.ring)
           take == Shown(max)
           oldest == IF state.full THEN state.head ELSE 0
           at(i) == oldest + total - take + i - 1
<1>1. /\ n \in Nat /\ h \in Nat /\ h < Capacity /\ state.full \in BOOLEAN
      /\ Capacity \in Nat /\ Capacity >= 1
  BY RingNumbers, RingConstants
<1>2. /\ state.full <=> n > Capacity
      /\ ~state.full => h = 0
      /\ Len(state.ring) = IF n <= Capacity THEN n ELSE Capacity
      /\ \A i \in 1..Len(state.ring) : state.ring[i] = InSlot(i, n, h)
  BY DEF LogInv, RingInv
<1>3. total = (IF n <= Capacity THEN n ELSE Capacity) /\ oldest = h
      /\ Len(state.ring) = total /\ (n <= Capacity => h = 0)
  BY <1>1, <1>2
<1>4. take = IF max <= total THEN max ELSE total
  BY <1>1, <1>3 DEF Shown
<1> HIDE DEF n, h, total, oldest, take
<1>5. total \in Nat /\ total <= Capacity /\ total <= n /\ total \in Int /\ max \in Int
  BY <1>1, <1>3
<1>6. take \in Nat /\ take <= total /\ take <= max /\ take <= n
  BY <1>4, <1>5, <1>1
<1>7. Ring!Min({max, total}) = take
  BY <1>4, <1>5, RingLesser
<1>8. ASSUME NEW i \in 1..take
      PROVE  state.ring[(at(i) % Capacity) + 1] = n - take + i
  <2>1. /\ i \in Nat /\ 1 <= i /\ i <= take /\ at(i) = h + total - take + i - 1
        /\ at(i) \in Nat /\ at(i) < 2 * Capacity
    BY <1>1, <1>3, <1>5, <1>6
  <2>2. at(i) % Capacity = IF at(i) < Capacity THEN at(i) ELSE at(i) - Capacity
    <3> DEFINE x == at(i)
    <3>1. x \in Nat /\ x < 2 * Capacity
      BY <2>1
    <3> HIDE DEF x
    <3>2. x % Capacity = IF x < Capacity THEN x ELSE x - Capacity
      BY <1>1, <3>1, Around
    <3> QED BY <3>2 DEF x
  <2> DEFINE x == at(i)
             y == x % Capacity
  <2>3. x = h + total - take + i - 1 /\ x \in Nat /\ x < 2 * Capacity
        /\ y = IF x < Capacity THEN x ELSE x - Capacity
    BY <2>1, <2>2
  <2> HIDE DEF x, y
  <2>4. CASE n <= Capacity
    <3>1. h = 0 /\ total = n /\ y = x /\ y + 1 \in 1..total /\ y + 1 = n - take + i
      BY <1>1, <1>3, <1>6, <2>1, <2>3, <2>4
    <3>2. InSlot(y + 1, n, h) = y + 1
      BY <2>4 DEF InSlot
    <3> QED BY <1>2, <1>3, <3>1, <3>2 DEF y, x
  <2>5. CASE ~(n <= Capacity)
    <3>1. total = Capacity /\ y \in Nat /\ y + 1 \in 1..total
      BY <1>1, <1>3, <1>5, <2>3, <2>5
    <3>2. InSlot(y + 1, n, h) = IF y + 1 <= h THEN n - h + (y + 1)
                                ELSE n - h - Capacity + (y + 1)
      BY <2>5 DEF InSlot
    <3>3. x < Capacity => ~(y + 1 <= h)
      BY <1>1, <1>6, <2>1, <2>3, <3>1
    <3>4. ~(x < Capacity) => y + 1 <= h
      BY <1>1, <1>6, <2>1, <2>3, <3>1
    <3>5. InSlot(y + 1, n, h) = n - take + i
      BY <1>1, <1>6, <2>1, <2>3, <3>1, <3>2, <3>3, <3>4
    <3> QED BY <1>2, <1>3, <3>1, <3>5 DEF y, x
  <2> QED BY <2>4, <2>5
<1>9. Ring!RecentEntries(max) = [i \in 1..take |-> state.ring[(at(i) % Capacity) + 1]]
  BY <1>7 DEF Ring!RecentEntries, total, oldest
<1> HIDE DEF at
<1>10. Ring!RecentEntries(max) = [i \in 1..take |-> n - take + i]
  BY <1>8, <1>9
<1>11. max >= 1 /\ n >= 1 => take >= 1
  BY <1>1, <1>3, <1>4, <1>5
<1> QED BY <1>6, <1>10, <1>11 DEF n, take

LEMMA RecentAreLast == LogInv => Ring!RecentAreNewest
<1> SUFFICES ASSUME LogInv, NEW max \in 0..(Capacity + 1)
             PROVE  Ring!RecentEntries(max) =
                      SubSeq(state.taken,
                             Ring!Max({0, Len(state.taken) - Ring!Min({max, Capacity})}) + 1,
                             Len(state.taken))
  BY DEF Ring!RecentAreNewest
<1> DEFINE n == Taken
           take == Shown(max)
           t == state.taken
<1>1. n \in Nat /\ Capacity \in Nat /\ max \in Nat
  BY RingNumbers, RingConstants
<1>2. /\ Ring!RecentEntries(max) = [i \in 1..take |-> n - take + i]
      /\ take \in Nat /\ take <= n
  BY <1>1, RecentAre
<1>3. t \in Seq(1..MaxEntries) /\ Len(t) = n /\ \A i \in 1..n : t[i] = i
  BY RingNumbers DEF LogInv, RingInv, Taken
<1>4. Ring!Min({max, Capacity}) = IF max <= Capacity THEN max ELSE Capacity
  BY <1>1, RingLesser
<1>5. Ring!Max({0, n - Ring!Min({max, Capacity})}) + 1 = n - take + 1
  <2> DEFINE m == Ring!Min({max, Capacity})
  <2>1. m \in Int /\ take = IF m <= n THEN m ELSE n
    BY <1>1, <1>4 DEF Shown
  <2> HIDE DEF m, n, take
  <2>2. Ring!Max({0, n - m}) = IF 0 >= n - m THEN 0 ELSE n - m
    BY <1>1, <2>1, RingLesser
  <2>3. Ring!Max({0, n - m}) + 1 = n - take + 1
    BY <1>1, <2>1, <2>2
  <2> QED BY <2>3 DEF m
<1> DEFINE s == SubSeq(t, n - take + 1, n)
<1> HIDE DEF n, take, t
<1>6. s \in Seq(1..MaxEntries) /\ Len(s) = take /\ \A i \in 1..take : s[i] = n - take + i
  <2> DEFINE lo == n - take + 1
  <2>1. 1 <= lo /\ lo \in Int /\ n \in Int /\ n <= Len(t)
    BY <1>1, <1>2, <1>3
  <2>2. /\ s \in Seq(1..MaxEntries)
        /\ Len(s) = (IF lo <= n THEN n - lo + 1 ELSE 0)
        /\ \A i \in 1..(n - lo + 1) : s[i] = t[lo + i - 1]
    <3> DEFINE S == 1..MaxEntries
    <3>1. t \in Seq(S) /\ lo \in Int /\ n \in Int /\ 1 <= lo /\ n <= Len(t)
      BY <1>3, <2>1
    <3> HIDE DEF lo, S
    <3>2. /\ SubSeq(t, lo, n) \in Seq(S)
          /\ Len(SubSeq(t, lo, n)) = (IF lo <= n THEN n - lo + 1 ELSE 0)
          /\ \A i \in 1..(n - lo + 1) : SubSeq(t, lo, n)[i] = t[lo + i - 1]
      BY ONLY <3>1, Stretch
    <3> QED BY <3>2 DEF s, lo, S
  <2> HIDE DEF s
  <2>3. Len(s) = take /\ n - lo + 1 = take
    BY <1>1, <1>2, <2>2
  <2>4. ASSUME NEW i \in 1..take PROVE s[i] = n - take + i
    <3>1. lo + i - 1 = n - take + i /\ n - take + i \in 1..n
      BY <1>1, <1>2
    <3> QED BY <1>3, <2>2, <2>3, <3>1
  <2> QED BY <2>2, <2>3, <2>4
<1> HIDE DEF s
<1>7. s = [i \in 1..take |-> n - take + i]
  <2>1. DOMAIN s = 1..take /\ s = [i \in DOMAIN s |-> s[i]]
    BY <1>2, <1>6, LenProperties
  <2> QED BY <1>6, <2>1
<1>8. SubSeq(state.taken, Ring!Max({0, Len(state.taken) - Ring!Min({max, Capacity})}) + 1,
             Len(state.taken)) = s
  BY <1>5 DEF s, n, t, Taken
<1> QED BY <1>2, <1>7, <1>8

\* The debug screen has from one row to one more than it can fill.
LEMMA DebugShows == LogInv => Ring!DebugShowsNewest
<1> SUFFICES ASSUME LogInv,
                    NEW rows \in (2 + Ring!DebugHeader + 1)..(2 + Ring!DebugHeader + Capacity + 1),
                    state.taken # <<>>, MaxTail > 0
             PROVE  Ring!Last(Ring!DebugTail(rows)) = Ring!Last(state.taken)
  BY DEF Ring!DebugShowsNewest
<1>1. rows \in Nat /\ rows >= 10 /\ MaxTail \in Nat
  BY RingConstants DEF Ring!DebugHeader
<1> DEFINE m == Ring!Min({MaxTail, rows - 2 - Ring!DebugHeader})
<1>2. m \in Nat /\ m >= 1
  <2> DEFINE room == rows - 2 - Ring!DebugHeader
  <2>1. room \in Nat /\ room >= 1 /\ room \in Int /\ MaxTail \in Int
    BY <1>1 DEF Ring!DebugHeader
  <2> HIDE DEF room
  <2>2. Ring!Min({MaxTail, room}) = IF MaxTail <= room THEN MaxTail ELSE room
    BY <1>1, <2>1, RingLesser
  <2>3. Ring!Min({MaxTail, room}) \in Nat /\ Ring!Min({MaxTail, room}) >= 1
    BY <1>1, <2>1, <2>2
  <2> QED BY <2>3 DEF room
<1>3. Ring!DebugTail(rows) = Ring!RecentEntries(m)
  <2>1. rows - 2 > Ring!DebugHeader
    BY <1>1 DEF Ring!DebugHeader
  <2> QED BY <2>1 DEF Ring!DebugTail
<1> HIDE DEF m
<1>4. Taken \in Nat /\ Taken >= 1 /\ state.taken \in Seq(1..MaxEntries)
  BY RingNumbers, EmptySeq DEF Taken
<1> DEFINE k == Shown(m)
           e == Ring!RecentEntries(m)
<1>5. e = [i \in 1..k |-> Taken - k + i] /\ k \in Nat /\ k >= 1
  BY <1>2, <1>4, RecentAre
<1> HIDE DEF k, e
<1>6. Len(e) = k /\ e[k] = Taken
  BY <1>4, <1>5
<1>7. Ring!Last(e) = Taken
  BY <1>6 DEF Ring!Last
<1>8. Ring!Last(state.taken) = Taken
  <2>1. state.taken[Taken] = Taken
    BY <1>4 DEF LogInv, RingInv
  <2> QED BY <2>1 DEF Ring!Last, Taken
<1> QED BY <1>3, <1>7, <1>8 DEF e

-----------------------------------------------------------------------------
(***************************************************************************)
(* FrameTimes: every size of the window and however many frames there      *)
(* were.  As in the log's ring, the slots before head hold the newest      *)
(* times; a sum over the slots is a sum over the times, in another order.  *)
(***************************************************************************)

Recorded == Len(state.recorded)

\* Which of n recorded times is in slot i.
TimeAt(i, n, head) == IF i < head THEN n - head + i + 1 ELSE n - head - Window + i + 1

FrameStates == [recent : [0..(Window - 1) -> Nat], head : 0..(Window - 1), count : Nat,
                total : Nat, recorded : Seq(Nat)]

FrameInv ==
    /\ state \in FrameStates
    /\ state.count = IF Recorded <= Window THEN Recorded ELSE Window
    /\ Recorded < Window => state.head = Recorded
    /\ \A i \in 0..(state.count - 1) :
         state.recent[i] = state.recorded[TimeAt(i, Recorded, state.head)]

LEMMA FrameConstants == Window \in Nat /\ Window >= 1 /\ Times \subseteq Nat
BY DeskAssumption DEF Frames!FrameAssumption

LEMMA FramesLesser ==
    ASSUME NEW x \in Int, NEW y \in Int
    PROVE  /\ Frames!Max({x, y}) = (IF x >= y THEN x ELSE y)
           /\ Frames!Min({x, y}) = (IF x <= y THEN x ELSE y)
<1>1. Ring!Max({x, y}) = Frames!Max({x, y}) /\ Ring!Min({x, y}) = Frames!Min({x, y})
  BY DEF Ring!Max, Ring!Min, Frames!Max, Frames!Min
<1> QED BY <1>1, RingLesser

LEMMA NoFramesInv ==
    ASSUME NEW f, f = Frames!NoFrames
    PROVE  /\ f \in FrameStates /\ f.count = 0 /\ f.head = 0 /\ f.recorded = <<>>
           /\ Len(f.recorded) = 0
BY FrameConstants DEF Frames!NoFrames, FrameStates

LEMMA FrameFacts ==
    ASSUME FrameInv
    PROVE  /\ Recorded \in Nat /\ state.head \in Nat /\ state.head < Window
           /\ state.count \in Nat /\ state.recorded \in Seq(Nat)
           /\ state.recent \in [0..(Window - 1) -> Nat]
<1>1. state.head \in 0..(Window - 1) /\ state.recorded \in Seq(Nat) /\ state.count \in Nat
      /\ state.recent \in [0..(Window - 1) -> Nat]
  BY DEF FrameInv, FrameStates
<1> QED BY <1>1, FrameConstants, LenProperties DEF Recorded

LEMMA RecordKeepsFrames ==
    ASSUME FrameInv, NEW ms \in Times, Frames!RecordFrame(ms)
    PROVE  FrameInv'
<1> DEFINE n == Recorded
           h == state.head
           k == state.count
           r == state.recent
           t == state.recorded
           g == (h + 1) % Window
<1>1. /\ n \in Nat /\ h \in Nat /\ h < Window /\ k \in Nat /\ t \in Seq(Nat)
      /\ r \in [0..(Window - 1) -> Nat] /\ Len(t) = n /\ ms \in Nat
      /\ Window \in Nat /\ Window >= 1 /\ state.total \in Nat
  BY FrameFacts, FrameConstants DEF Recorded, FrameInv, FrameStates
<1>2. /\ k = IF n <= Window THEN n ELSE Window
      /\ n < Window => h = n
      /\ \A i \in 0..(k - 1) : r[i] = t[TimeAt(i, n, h)]
  BY DEF FrameInv
<1>3. /\ state'.recent = [r EXCEPT ![h] = ms] /\ state'.head = g
      /\ state'.count = Frames!Min({k + 1, Window})
      /\ state'.recorded = Append(t, ms)
      /\ state' = [recent |-> state'.recent, head |-> state'.head, count |-> state'.count,
                   total |-> state.total + 1, recorded |-> state'.recorded]
  BY DEF Frames!RecordFrame
<1> HIDE DEF n, h, k, r, t, g
<1>4. g = IF h + 1 < Window THEN h + 1 ELSE 0
  BY <1>1, NextPlace DEF g
<1>5. g \in 0..(Window - 1) /\ g \in Nat
  BY <1>1, <1>4
<1>6. state'.count = IF n + 1 <= Window THEN n + 1 ELSE Window
  <2>1. k + 1 \in Int /\ Window \in Int
    BY <1>1
  <2>2. Frames!Min({k + 1, Window}) = IF k + 1 <= Window THEN k + 1 ELSE Window
    BY <2>1, FramesLesser
  <2> QED BY <1>1, <1>2, <1>3, <2>2
<1>7. /\ Append(t, ms) \in Seq(Nat) /\ Len(Append(t, ms)) = n + 1
      /\ \A j \in 1..n : Append(t, ms)[j] = t[j]
      /\ Append(t, ms)[n + 1] = ms
  BY <1>1, AppendProperties
<1>8. state' \in FrameStates
  <2>1. [r EXCEPT ![h] = ms] \in [0..(Window - 1) -> Nat]
    BY <1>1
  <2>2. state'.count \in Nat
    BY <1>1, <1>6
  <2>3. /\ state'.recent \in [0..(Window - 1) -> Nat] /\ state'.head \in 0..(Window - 1)
        /\ state'.recorded \in Seq(Nat) /\ state.total + 1 \in Nat
    <3>1. state'.recent = [r EXCEPT ![h] = ms] /\ state'.head = g
          /\ state'.recorded = Append(t, ms) /\ state.total \in Nat
      BY <1>1, <1>3
    <3> QED BY <1>5, <1>7, <2>1, <3>1
  <2>4. state' = [recent |-> state'.recent, head |-> state'.head, count |-> state'.count,
                  total |-> state.total + 1, recorded |-> state'.recorded]
    BY <1>3
  <2> QED BY <2>2, <2>3, <2>4 DEF FrameStates
<1>9. Recorded' = n + 1
  BY <1>3, <1>7 DEF Recorded
<1>10. n + 1 < Window => g = n + 1
  BY <1>1, <1>2, <1>4
<1>11. ASSUME NEW i \in 0..(state'.count - 1)
       PROVE  state'.recent[i] = state'.recorded[TimeAt(i, n + 1, g)]
  <2>1. i \in Nat /\ i < state'.count /\ i < Window
    BY <1>1, <1>6
  <2>2. state'.recent[i] = IF i = h THEN ms ELSE r[i]
    BY <1>1, <1>3, <2>1
  <2>3. CASE i = h
    <3>1. TimeAt(i, n + 1, g) = n + 1
      BY <1>1, <1>4, <2>1, <2>3 DEF TimeAt
    <3> QED BY <1>3, <1>7, <2>2, <2>3, <3>1
  <2>4. CASE i # h
    <3>1. i \in 0..(k - 1)
      BY <1>1, <1>2, <1>6, <2>1, <2>4
    <3>2. TimeAt(i, n + 1, g) = TimeAt(i, n, h)
      <4>1. CASE h + 1 < Window
        BY <1>1, <1>4, <2>1, <2>4, <4>1 DEF TimeAt
      <4>2. CASE ~(h + 1 < Window)
        BY <1>1, <1>4, <2>1, <2>4, <4>2 DEF TimeAt
      <4> QED BY <4>1, <4>2
    <3>3. TimeAt(i, n, h) \in 1..n
      <4>1. CASE n < Window
        BY <1>1, <1>2, <2>1, <3>1, <4>1 DEF TimeAt
      <4>2. CASE ~(n < Window)
        BY <1>1, <1>2, <2>1, <2>4, <4>2 DEF TimeAt
      <4> QED BY <4>1, <4>2
    <3> QED BY <1>2, <1>3, <1>7, <2>2, <2>4, <3>1, <3>2, <3>3
  <2> QED BY <2>3, <2>4
<1> QED BY <1>3, <1>6, <1>8, <1>9, <1>10, <1>11 DEF FrameInv

LEMMA FramesHold == Spec => [](subject = "frames" => FrameInv)
<1>1. Init => (subject = "frames" => FrameInv)
  <2> SUFFICES ASSUME Frames!Init PROVE FrameInv
    BY DEF Init
  <2>1. state = Frames!NoFrames
    BY DEF Frames!Init
  <2>2. /\ state \in FrameStates /\ state.count = 0 /\ state.head = 0 /\ Recorded = 0
    BY <2>1, NoFramesInv DEF Recorded
  <2> QED BY <2>2, FrameConstants DEF FrameInv
<1>2. (subject = "frames" => FrameInv) /\ [Next]_vars => (subject = "frames" => FrameInv)'
  <2>1. ASSUME FrameInv, Frames!Next PROVE FrameInv'
    <3>1. CASE Frames!ResetForTesting
      <4>1. state' = Frames!NoFrames
        BY <3>1 DEF Frames!ResetForTesting
      <4>2. /\ state' \in FrameStates /\ state'.count = 0 /\ state'.head = 0
            /\ Recorded' = 0
        BY <4>1, NoFramesInv DEF Recorded
      <4> QED BY <4>2, FrameConstants DEF FrameInv
    <3> QED BY <2>1, <3>1, RecordKeepsFrames DEF Frames!Next
  <2>2. FrameInv /\ UNCHANGED state => FrameInv'
    BY DEF FrameInv, Recorded
  <2> QED BY <2>1, <2>2 DEF Next, vars
<1> QED BY <1>1, <1>2, PTL DEF Spec

-----------------------------------------------------------------------------
(* The average: its sum. *)

\* The sum over the places of a sequence, as FrameTimes has it.
SumOfPlaces(s) == Frames!MapThenSumSet(LAMBDA i : s[i], DOMAIN s)

\* Slot i holds place[i] of the newest times: all of them, each once.
LEMMA TimesRecent == FrameInv => Frames!TimesAreRecent
<1> DEFINE n == Recorded
           h == state.head
           k == state.count
           r == state.recent
           t == state.recorded
           lo == n - k + 1
           s == SubSeq(t, lo, n)
<1> SUFFICES ASSUME FrameInv, state.recorded # <<>>
             PROVE  LET newest == SubSeq(t, Frames!Max({0, Len(t) - Window}) + 1, Len(t))
                    IN  /\ Frames!FrameLast = newest[Len(newest)]
                        /\ state.count = Len(newest)
                        /\ Frames!FrameSum = SumOfPlaces(newest)
  BY DEF Frames!TimesAreRecent, SumOfPlaces
<1>1. /\ n \in Nat /\ h \in Nat /\ h < Window /\ k \in Nat /\ t \in Seq(Nat)
      /\ r \in [0..(Window - 1) -> Nat] /\ Len(t) = n
      /\ Window \in Nat /\ Window >= 1
  BY FrameFacts, FrameConstants DEF Recorded
<1>2. /\ k = IF n <= Window THEN n ELSE Window
      /\ n < Window => h = n
      /\ \A i \in 0..(k - 1) : r[i] = t[TimeAt(i, n, h)]
  BY DEF FrameInv
<1>3. n >= 1
  <2>1. t # <<>>
    OBVIOUS
  <2> HIDE DEF t, n
  <2> QED BY <1>1, <2>1, EmptySeq
<1> HIDE DEF n, h, k, r, t
<1>4. Frames!Max({0, n - Window}) + 1 = lo
  <2>1. Frames!Max({0, n - Window}) = IF 0 >= n - Window THEN 0 ELSE n - Window
    <3>1. 0 \in Int /\ n - Window \in Int
      BY <1>1
    <3> QED BY <3>1, FramesLesser
  <2> QED BY <1>1, <1>2, <2>1
<1>5. /\ k >= 1 /\ k <= n /\ k <= Window /\ lo \in Nat /\ lo >= 1 /\ lo <= n
      /\ n - lo + 1 = k
  <2>1. k >= 1 /\ k <= n /\ k <= Window
    BY <1>1, <1>2, <1>3
  <2> QED BY <1>1, <2>1
<1> HIDE DEF lo
<1>6. s \in Seq(Nat) /\ Len(s) = k /\ \A j \in 1..k : s[j] = t[lo + j - 1]
  <2>1. lo \in Int /\ n \in Int /\ 1 <= lo /\ n <= Len(t)
    BY <1>1, <1>5
  <2>2. /\ SubSeq(t, lo, n) \in Seq(Nat)
        /\ Len(SubSeq(t, lo, n)) = (IF lo <= n THEN n - lo + 1 ELSE 0)
        /\ \A i \in 1..(n - lo + 1) : SubSeq(t, lo, n)[i] = t[lo + i - 1]
    BY <1>1, <2>1, Stretch
  <2> QED BY <1>5, <2>2
<1> HIDE DEF s
<1>7. Frames!FrameLast = s[Len(s)]
  <2> DEFINE x == h + Window - 1
             last == IF h = 0 THEN Window - 1 ELSE h - 1
  <2>1. x \in Nat /\ x < 2 * Window /\ (x < Window <=> h = 0)
        /\ (h = 0 => x = last) /\ (h # 0 => x - Window = last)
    BY <1>1
  <2> HIDE DEF x
  <2>2. x % Window = last
    <3>1. x % Window = IF x < Window THEN x ELSE x - Window
      BY <1>1, <2>1, Around
    <3> QED BY <2>1, <3>1
  <2>3. Frames!FrameLast = r[last]
    <3>1. Frames!FrameLast = r[x % Window]
      BY <1>1 DEF Frames!FrameLast, r, h, x
    <3> QED BY <2>2, <3>1
  <2>4. last \in 0..(k - 1) /\ TimeAt(last, n, h) = n
    <3>1. CASE h = 0
      BY <1>1, <1>2, <1>3, <3>1 DEF TimeAt
    <3>2. CASE h # 0
      BY <1>1, <1>2, <1>3, <3>2 DEF TimeAt
    <3> QED BY <3>1, <3>2
  <2>5. s[Len(s)] = t[n]
    <3>1. k \in 1..k /\ lo + k - 1 = n
      BY <1>1, <1>5
    <3>2. s[k] = t[lo + k - 1]
      BY <1>6, <3>1
    <3> QED BY <1>6, <3>1, <3>2
  <2> QED BY <1>2, <2>3, <2>4, <2>5
<1>8. Frames!FrameSum = SumOfPlaces(s)
  <2> DEFINE D == 0..(k - 1)
             place == [i \in D |-> TimeAt(i, n, h) - (n - k)]
  <2>1. ASSUME NEW i \in D
        PROVE  place[i] \in 1..k /\ s[place[i]] = r[i] /\ r[i] \in Int
    <3>1. i \in Nat /\ i < k
      BY <1>1
    <3>2. TimeAt(i, n, h) - (n - k) \in 1..k
      <4>1. CASE n < Window
        BY <1>1, <1>2, <1>5, <3>1, <4>1 DEF TimeAt
      <4>2. CASE ~(n < Window)
        BY <1>1, <1>2, <1>5, <3>1, <4>2 DEF TimeAt
      <4> QED BY <4>1, <4>2
    <3>3. lo + (TimeAt(i, n, h) - (n - k)) - 1 = TimeAt(i, n, h)
      <4> DEFINE x == TimeAt(i, n, h)
      <4>1. x \in Int
        BY <1>1, <3>1 DEF TimeAt
      <4>2. lo = n - k + 1
        BY DEF lo
      <4> HIDE DEF x
      <4>3. lo + (x - (n - k)) - 1 = x
        BY <1>1, <4>1, <4>2
      <4> QED BY <4>3 DEF x
    <3>4. r[i] \in Int
      BY <1>1, <1>5
    <3> HIDE DEF D
    <3>5. place[i] = TimeAt(i, n, h) - (n - k)
      OBVIOUS
    <3>6. r[i] = t[TimeAt(i, n, h)]
      BY <1>2 DEF D
    <3> QED BY <1>6, <3>2, <3>3, <3>4, <3>5, <3>6
  <2>2. ASSUME NEW i \in D, NEW j \in D, place[i] = place[j] PROVE i = j
    <3>1. i \in Nat /\ i < k /\ j \in Nat /\ j < k
      BY <1>1
    <3>2. TimeAt(i, n, h) = TimeAt(j, n, h)
      <4> DEFINE x == TimeAt(i, n, h)
                 y == TimeAt(j, n, h)
      <4>1. x \in Int /\ y \in Int
        BY <1>1, <3>1 DEF TimeAt
      <4>2. x - (n - k) = y - (n - k)
        BY <2>2
      <4> HIDE DEF x, y
      <4>3. x = y
        BY <1>1, <4>1, <4>2
      <4> QED BY <4>3 DEF x, y
    <3>3. CASE n < Window
      <4>1. i < h /\ j < h
        BY <1>1, <1>2, <3>1, <3>3
      <4>2. n - h + i + 1 = n - h + j + 1
        BY <3>2, <4>1 DEF TimeAt
      <4> QED BY <1>1, <3>1, <4>2
    <3>4. CASE ~(n < Window)
      BY <1>1, <1>2, <3>1, <3>2, <3>4 DEF TimeAt
    <3> QED BY <3>3, <3>4
  <2>3. ASSUME NEW j \in 1..k PROVE \E i \in D : place[i] = j
    <3> DEFINE i == IF n < Window THEN j - 1
                    ELSE IF j - 1 < Window - h THEN h + j - 1 ELSE h + j - 1 - Window
    <3>1. i \in D
      <4>1. CASE n < Window
        BY <1>1, <1>2, <4>1
      <4>2. CASE ~(n < Window)
        <5>1. k = Window
          BY <1>1, <1>2, <4>2
        <5>2. i \in Int /\ 0 <= i /\ i < Window
          BY <1>1, <4>2, <5>1
        <5> HIDE DEF i
        <5> QED BY <1>1, <5>1, <5>2
      <4> QED BY <4>1, <4>2
    <3>2. TimeAt(i, n, h) - (n - k) = j
      <4>1. CASE n < Window
        BY <1>1, <1>2, <4>1 DEF TimeAt
      <4>2. CASE ~(n < Window)
        <5>1. k = Window
          BY <1>1, <1>2, <4>2
        <5>2. CASE j - 1 < Window - h
          BY <1>1, <4>2, <5>1, <5>2 DEF TimeAt
        <5>3. CASE ~(j - 1 < Window - h)
          BY <1>1, <4>2, <5>1, <5>3 DEF TimeAt
        <5> QED BY <5>2, <5>3
      <4> QED BY <4>1, <4>2
    <3> QED BY <3>1, <3>2
  <2>4. IsFiniteSet(D) /\ Cardinality(D) \in Nat
    <3>1. 0 \in Int /\ k - 1 \in Int
      BY <1>1
    <3>2. IsFiniteSet(0..(k - 1))
      BY <3>1, FS_Interval
    <3> QED BY <3>2, FS_CardinalityType
  <2> HIDE DEF D, place
  <2>5. {place[i] : i \in D} = 1..k
    BY <2>1, <2>3
  <2>6. SumOf(s, {place[i] : i \in D}) = SumOf(r, D)
    <3>1. Renames(place, r, s, D)
      BY <2>1, <2>2 DEF Renames
    <3>2. \A c \in Nat : \A S \in SUBSET D :
            IsFiniteSet(S) /\ Cardinality(S) = c
              => SumOf(s, Renamed(place, S)) = SumOf(r, S)
      BY <3>1, SumRenamed
    <3>3. Renamed(place, D) = {place[i] : i \in D}
      BY DEF Renamed
    <3> QED BY <2>4, <3>2, <3>3
  <2>7. Frames!FrameSum = SumOf(r, D)
    BY DEF Frames!FrameSum, SumOf, Frames!MapThenSumSet, MapThenSumSet,
           Frames!MapThenFoldSet, MapThenFoldSet, r, D, k
  <2>8. SumOfPlaces(s) = SumOf(s, 1..k)
    <3>1. DOMAIN s = 1..k
      BY <1>6, LenProperties
    <3> QED BY <3>1 DEF SumOfPlaces, SumOf, Frames!MapThenSumSet, MapThenSumSet,
                        Frames!MapThenFoldSet, MapThenFoldSet
  <2> QED BY <2>5, <2>6, <2>7, <2>8
<1>9. SubSeq(t, Frames!Max({0, Len(t) - Window}) + 1, Len(t)) = s
  BY <1>1, <1>4 DEF s
<1>10. k = Len(s)
  BY <1>6
<1> QED BY <1>7, <1>8, <1>9, <1>10 DEF k, t

-----------------------------------------------------------------------------
(***************************************************************************)
(* FunctionBar: any text typed in one event, in a bar of any width.  Each  *)
(* byte is a turn of the loop of HandleTextInput().                        *)
(***************************************************************************)

Bars == [input : Seq(Printable), cursor : Nat, status : BOOLEAN, cols : Widths]

\* The text fits into the bar, and the caret stands in it or just behind it.
Fits(b) ==
    /\ b \in Bars
    /\ b.cursor <= Len(b.input)
    /\ Len(b.input) <= Bar!BarMaxInputCols(b.cols)

Before(b) == SubSeq(b.input, 1, b.cursor)
Behind(b) == SubSeq(b.input, b.cursor + 1, Len(b.input))

Typing == INSTANCE DeskLemmas WITH Op <- Bar!TypeByte

LEMMA MaxOfTwo ==
    ASSUME NEW x \in Int, NEW y \in Int
    PROVE  /\ Bar!Max({x, y}) = (IF x >= y THEN x ELSE y)
           /\ Bar!Min({x, y}) = (IF x <= y THEN x ELSE y)
<1>1. CASE x >= y
  <2>1. \A z \in {x, y} : (\A w \in {x, y} : z >= w) <=> z = x
    BY <1>1
  <2>2. \A z \in {x, y} : (\A w \in {x, y} : z =< w) <=> z = y
    BY <1>1
  <2> QED BY <1>1, <2>1, <2>2 DEF Bar!Max, Bar!Min
<1>2. CASE ~(x >= y)
  <2>1. \A z \in {x, y} : (\A w \in {x, y} : z >= w) <=> z = y
    BY <1>2
  <2>2. \A z \in {x, y} : (\A w \in {x, y} : z =< w) <=> z = x
    BY <1>2
  <2> QED BY <1>2, <2>1, <2>2 DEF Bar!Max, Bar!Min
<1> QED BY <1>1, <1>2

\* The columns left for the text.
LEMMA Columns ==
    ASSUME NEW cols \in Widths
    PROVE  /\ cols \in Nat
           /\ Bar!BarMaxInputCols(cols) = IF cols >= 3 THEN cols - 3 ELSE 0
<1>1. cols \in Nat
  BY DeskAssumption DEF Bar!BarAssumption
<1>2. Bar!BarMaxInputCols(cols) = IF 0 >= cols - 2 - 1 THEN 0 ELSE cols - 2 - 1
  BY <1>1, MaxOfTwo DEF Bar!BarMaxInputCols
<1> QED BY <1>1, <1>2

LEMMA FitsFacts ==
    ASSUME NEW b, Fits(b)
    PROVE  /\ b.input \in Seq(Printable) /\ Len(b.input) \in Nat
           /\ b.cursor \in Nat /\ b.cursor <= Len(b.input)
           /\ b.status \in BOOLEAN /\ b.cols \in Widths
           /\ Bar!BarMaxInputCols(b.cols) \in Nat
           /\ Len(b.input) <= Bar!BarMaxInputCols(b.cols)
<1>1. b.input \in Seq(Printable) /\ b.cols \in Widths
  BY DEF Fits, Bars
<1>2. Len(b.input) \in Nat
  BY <1>1, LenProperties
<1>3. Bar!BarMaxInputCols(b.cols) \in Nat
  BY <1>1, Columns
<1> QED BY <1>1, <1>2, <1>3 DEF Fits, Bars

\* A byte goes in at the caret, which moves on; what is behind stays behind.
LEMMA ByteFits ==
    ASSUME NEW b, Fits(b), NEW c
    PROVE  Fits(Bar!TypeByte(b, c)) /\ Behind(Bar!TypeByte(b, c)) = Behind(b)
<1>1. CASE Bar!TypeByte(b, c) = b
  BY <1>1
<1>2. CASE c \in Printable /\ Len(b.input) < Bar!BarMaxInputCols(b.cols)
  <2> DEFINE s == b.input
             k == b.cursor
             e == Upper[c]
             t == Inserted(s, k, e)
             b2 == [b EXCEPT !.input = t, !.cursor = k + 1]
  <2>1. /\ s \in Seq(Printable) /\ k \in 0..Len(s) /\ Len(s) \in Nat
        /\ Bar!BarMaxInputCols(b.cols) \in Nat
    BY FitsFacts
  <2>2. e \in Printable
    BY <1>2, DeskAssumption DEF Bar!BarAssumption
  <2>3. Bar!TypeByte(b, c) = b2
    <3>1. (k + 1) - 1 = k
      BY <2>1
    <3> QED BY <1>2, <3>1 DEF Bar!TypeByte, Bar!InsertAt, Inserted
  <2> HIDE DEF s, k, e
  <2>4. /\ t \in Seq(Printable) /\ Len(t) = Len(s) + 1
        /\ \A i \in 1..(Len(s) + 1) : t[i] =
             IF i <= k THEN s[i] ELSE IF i = k + 1 THEN e ELSE s[i - 1]
    <3>1. t \in Seq(Printable) /\ Longer(t, s, k, e)
      BY <2>1, <2>2, InsertedProperties
    <3> HIDE DEF t
    <3> QED BY <3>1 DEF Longer
  <2> HIDE DEF t
  <2>5. b2 \in Bars /\ b2.input = t /\ b2.cursor = k + 1 /\ b2.cols = b.cols
    <3>1. b \in Bars /\ k + 1 \in Nat
      BY <2>1 DEF Fits
    <3> QED BY <2>4, <3>1 DEF Bars
  <2> HIDE DEF b2
  <2>6. SubSeq(t, k + 2, Len(t)) = SubSeq(s, k + 1, Len(s))
    <3>1. \A n \in 1..(Len(t) - (k + 2) + 1) : t[(k + 2) + n - 1] = s[(k + 1) + n - 1]
      BY <2>1, <2>4
    <3> DEFINE u == k + 2
               v == k + 1
    <3>2. u \in Int /\ v \in Int /\ Len(t) \in Int /\ Len(s) \in Int
      BY <2>1, <2>4
    <3>3. Agree(t, u, Len(t), s, v, Len(s))
      BY <2>1, <2>4, <3>1 DEF Agree
    <3>4. s \in Seq(Printable) /\ t \in Seq(Printable)
      BY <2>1, <2>4
    <3> HIDE DEF u, v
    <3>5. SubSeq(t, u, Len(t)) = SubSeq(s, v, Len(s))
      BY <3>2, <3>3, <3>4, SameStretch
    <3> QED BY <3>5 DEF u, v
  <2>7. Fits(b2)
    BY <1>2, <2>1, <2>4, <2>5 DEF Fits, s
  <2>8. Behind(b2) = Behind(b)
    <3>1. b2.cursor + 1 = k + 2
      BY <2>1, <2>5
    <3> QED BY <2>5, <2>6, <3>1 DEF Behind, s, k
  <2> QED BY <2>3, <2>7, <2>8
<1> QED BY <1>1, <1>2 DEF Bar!TypeByte

\* HandleTextInput(): the loop over the bytes, begun with the status taken away.
LEMMA TypingFits ==
    ASSUME Fits(state), Bar!HandleTextInput
    PROVE  Fits(state') /\ Behind(state') = Behind(state)
<1> DEFINE b0 == [state EXCEPT !.status = FALSE]
           Good == {b \in Bars : Fits(b) /\ Behind(b) = Behind(state)}
<1>1. PICK text \in Bar!BoundedSeq(Printable \union Dropped, MaxTyped) :
        state' = Bar!FoldLeft(Bar!TypeByte, b0, text)
  BY DEF Bar!HandleTextInput
<1>2. PICK n \in Nat : DOMAIN text = 1..n
  <2>1. PICK m \in 0..MaxTyped : text \in [1..m -> Printable \union Dropped]
    BY DEF Bar!BoundedSeq, Bar!SeqOf
  <2>2. DOMAIN text = 1..m /\ m \in Nat
    BY <2>1
  <2> QED BY <2>2
<1>3. b0 \in Good
  BY DEF Fits, Bars, Behind
<1>4. \A b \in Good : \A c : Bar!TypeByte(b, c) \in Good
  <2> SUFFICES ASSUME NEW b \in Good, NEW c PROVE Bar!TypeByte(b, c) \in Good
    OBVIOUS
  <2>1. Fits(Bar!TypeByte(b, c)) /\ Behind(Bar!TypeByte(b, c)) = Behind(state)
    BY ByteFits
  <2> QED BY <2>1 DEF Fits
<1>5. Typing!Fold(b0, text) \in Good
  <2> DEFINE I == [k \in 0..n |-> Good]
  <2> HIDE DEF Good, b0
  <2>1. b0 \in I[0]
    BY <1>3
  <2>2. \A k \in 1..n : \A b \in I[k - 1] : Bar!TypeByte(b, text[k]) \in I[k]
    BY <1>4
  <2> HIDE DEF I
  <2>3. Typing!Fold(b0, text) \in I[n]
    BY <1>2, <2>1, <2>2, Typing!FoldInvariant
  <2> QED BY <2>3 DEF I
<1>6. Typing!Fold(b0, text) = Bar!FoldLeft(Bar!TypeByte, b0, text)
  BY DEF Typing!Fold, Bar!FoldLeft, Typing!MapThenFoldSet, Bar!MapThenFoldSet,
         Typing!Max, Bar!Max
<1> QED BY <1>1, <1>5, <1>6

LEMMA EraseFits ==
    ASSUME Fits(state)
    PROVE  /\ Bar!HandleBackspace => Fits(state') /\ Behind(state') = Behind(state)
           /\ Bar!HandleDelete => Fits(state') /\ Before(state') = Before(state)
<1> DEFINE s == state.input
           k == state.cursor
<1>1. /\ s \in Seq(Printable) /\ k \in Nat /\ k <= Len(s) /\ Len(s) \in Nat
      /\ Bar!BarMaxInputCols(state.cols) \in Nat
      /\ Len(s) <= Bar!BarMaxInputCols(state.cols)
  BY FitsFacts
<1>2. ASSUME state' = [state EXCEPT !.status = FALSE]
      PROVE  Fits(state') /\ Behind(state') = Behind(state) /\ Before(state') = Before(state)
  BY <1>2 DEF Fits, Bars, Behind, Before
<1>3. ASSUME Bar!HandleBackspace, k > 0
      PROVE  Fits(state') /\ Behind(state') = Behind(state)
  <2> DEFINE t == Removed(s, k)
  <2>1. state' = [state EXCEPT !.input = t, !.cursor = k - 1, !.status = FALSE]
    BY <1>3 DEF Bar!HandleBackspace, Bar!RemoveAt, Removed
  <2> HIDE DEF s, k
  <2>2. /\ t \in Seq(Printable) /\ Len(t) = Len(s) - 1
        /\ \A i \in 1..(Len(s) - 1) : t[i] = IF i < k THEN s[i] ELSE s[i + 1]
    <3>1. t \in Seq(Printable) /\ Shorter(t, s, k)
      BY <1>1, <1>3, RemovedProperties
    <3> HIDE DEF t
    <3> QED BY <3>1 DEF Shorter
  <2> HIDE DEF t
  <2>3. /\ state' \in Bars /\ state'.input = t /\ state'.cursor = k - 1
        /\ state'.cols = state.cols
    <3>1. state \in Bars /\ k - 1 \in Nat
      BY <1>1, <1>3 DEF Fits
    <3> QED BY <2>1, <2>2, <3>1 DEF Bars
  <2>4. SubSeq(t, k, Len(t)) = SubSeq(s, k + 1, Len(s))
    <3>1. \A n \in 1..(Len(t) - k + 1) : t[k + n - 1] = s[(k + 1) + n - 1]
      BY <1>1, <1>3, <2>2
    <3>2. k + 1 \in Int /\ k \in Int /\ Len(t) \in Int /\ Len(s) \in Int
      BY <1>1, <2>2
    <3>3. Agree(t, k, Len(t), s, k + 1, Len(s))
      BY <1>1, <1>3, <2>2, <3>1 DEF Agree
    <3>4. s \in Seq(Printable) /\ t \in Seq(Printable)
      BY <1>1, <2>2
    <3> QED BY <3>2, <3>3, <3>4, SameStretch
  <2>5. Fits(state')
    BY <1>1, <2>2, <2>3 DEF Fits
  <2>6. Behind(state') = Behind(state)
    <3>1. (k - 1) + 1 = k
      BY <1>1
    <3> QED BY <2>3, <2>4, <3>1 DEF Behind, s, k
  <2> QED BY <2>5, <2>6
<1>4. ASSUME Bar!HandleDelete, k < Len(s)
      PROVE  Fits(state') /\ Before(state') = Before(state)
  <2> DEFINE t == Removed(s, k + 1)
  <2>1. state' = [state EXCEPT !.input = t, !.status = FALSE]
    BY <1>4 DEF Bar!HandleDelete, Bar!RemoveAt, Removed
  <2>2. /\ t \in Seq(Printable) /\ Len(t) = Len(s) - 1
        /\ \A i \in 1..(Len(s) - 1) : t[i] = IF i < k + 1 THEN s[i] ELSE s[i + 1]
    <3>1. k + 1 \in 1..Len(s)
      BY <1>1, <1>4
    <3>2. t \in Seq(Printable) /\ Shorter(t, s, k + 1)
      BY <1>1, <3>1, RemovedProperties
    <3> HIDE DEF t
    <3> QED BY <3>2 DEF Shorter
  <2> HIDE DEF t
  <2>3. /\ state' \in Bars /\ state'.input = t /\ state'.cursor = k
        /\ state'.cols = state.cols
    BY <1>1, <2>1, <2>2 DEF Fits, Bars
  <2>4. SubSeq(t, 1, k) = SubSeq(s, 1, k)
    <3>1. \A n \in 1..(k - 1 + 1) : t[1 + n - 1] = s[1 + n - 1]
      BY <1>1, <1>4, <2>2
    <3>2. Agree(t, 1, k, s, 1, k)
      BY <1>1, <1>4, <2>2, <3>1 DEF Agree
    <3>3. s \in Seq(Printable) /\ t \in Seq(Printable) /\ 1 \in Int /\ k \in Int
      BY <1>1, <2>2
    <3> QED BY <3>2, <3>3, SameStretch
  <2>5. Fits(state')
    BY <1>1, <1>4, <2>2, <2>3 DEF Fits
  <2> QED BY <2>3, <2>4, <2>5 DEF Before
<1>5. ASSUME Bar!HandleBackspace PROVE Fits(state') /\ Behind(state') = Behind(state)
  <2>1. CASE k > 0
    BY <1>3, <1>5, <2>1
  <2>2. CASE ~(k > 0)
    BY <1>2, <1>5, <2>2 DEF Bar!HandleBackspace
  <2> QED BY <2>1, <2>2
<1>6. ASSUME Bar!HandleDelete PROVE Fits(state') /\ Before(state') = Before(state)
  <2>1. CASE k < Len(s)
    BY <1>4, <1>6, <2>1
  <2>2. CASE ~(k < Len(s))
    BY <1>2, <1>6, <2>2 DEF Bar!HandleDelete
  <2> QED BY <2>1, <2>2
<1> QED BY <1>5, <1>6

\* A resize cuts the text first, and then moves the caret into what is left.
LEMMA ResizeFits == ASSUME Fits(state), NEW cols \in Widths, Bar!Resize(cols) PROVE Fits(state')
<1> DEFINE s == state.input
           max == Bar!BarMaxInputCols(cols)
           len == IF Len(s) <= max THEN Len(s) ELSE max
           t == SubSeq(s, 1, len)
           k == state.cursor
<1>1. /\ s \in Seq(Printable) /\ Len(s) \in Nat /\ max \in Nat
      /\ k \in Nat /\ state \in Bars
  BY FitsFacts, Columns DEF Fits
<1> HIDE DEF max, s, k
<1>2. Bar!Min({Len(s), max}) = len
  <2>1. Len(s) \in Int /\ max \in Int
    BY <1>1
  <2> QED BY <2>1, MaxOfTwo
<1>3. len \in Nat /\ len <= Len(s) /\ len <= max
  BY <1>1
<1> HIDE DEF len
<1>4. t \in Seq(Printable) /\ Len(t) = len
  BY <1>1, <1>3, Stretch
<1>5. state' = [state EXCEPT !.cols = cols, !.input = t, !.cursor = Bar!Min({k, Len(t)})]
  BY <1>2 DEF Bar!Resize, max, s, k
<1> HIDE DEF t
<1>6. Bar!Min({k, Len(t)}) \in Nat /\ Bar!Min({k, Len(t)}) <= Len(t)
  <2>1. k \in Int /\ Len(t) \in Int
    BY <1>1, <1>3, <1>4
  <2>2. Bar!Min({k, Len(t)}) = (IF k <= Len(t) THEN k ELSE Len(t))
    BY <2>1, MaxOfTwo
  <2> QED BY <1>1, <1>3, <1>4, <2>2
<1>7. /\ state' \in Bars /\ state'.input = t /\ state'.cols = cols
      /\ state'.cursor <= Len(t)
  BY <1>1, <1>4, <1>5, <1>6 DEF Bars
<1> QED BY <1>3, <1>4, <1>7 DEF Fits, max

LEMMA BarStep == ASSUME Fits(state), Bar!Next PROVE Fits(state')
<1>1. /\ state \in Bars /\ state.cursor \in Nat /\ state.cursor <= Len(state.input)
      /\ state.input \in Seq(Printable) /\ Len(state.input) \in Nat
      /\ Bar!BarMaxInputCols(state.cols) \in Nat
  BY FitsFacts DEF Fits
<1>2. CASE Bar!HandleTextInput
  BY <1>2, TypingFits
<1>3. CASE Bar!HandleBackspace \/ Bar!HandleDelete
  BY <1>3, EraseFits
<1>4. CASE Bar!HandleEscape
  <2>1. /\ state' \in Bars /\ state'.input = <<>> /\ state'.cursor = 0
        /\ state'.cols = state.cols
    BY <1>1, <1>4, EmptySeq DEF Bar!HandleEscape, Bars
  <2> QED BY <1>1, <2>1 DEF Fits
<1>5. CASE Bar!SetStatus
  BY <1>5 DEF Bar!SetStatus, Fits, Bars
<1>6. ASSUME NEW k \in Nat, k <= Len(state.input), state' = [state EXCEPT !.cursor = k]
      PROVE  Fits(state')
  BY <1>6 DEF Fits, Bars
<1>7. CASE Bar!HandleCursorLeft
  <2>1. /\ state.cursor > 0 => state.cursor - 1 \in Nat
        /\ state.cursor - 1 <= Len(state.input)
    BY <1>1
  <2> QED BY <1>6, <1>7, <2>1 DEF Bar!HandleCursorLeft
<1>8. CASE Bar!HandleCursorRight
  <2>1. /\ state.cursor + 1 \in Nat
        /\ state.cursor < Len(state.input) => state.cursor + 1 <= Len(state.input)
    BY <1>1
  <2> QED BY <1>6, <1>8, <2>1 DEF Bar!HandleCursorRight
<1>9. CASE Bar!HandleCursorHome \/ Bar!HandleCursorEnd
  BY <1>1, <1>6, <1>9 DEF Bar!HandleCursorHome, Bar!HandleCursorEnd
<1>10. CASE \E cols \in Widths : Bar!Resize(cols)
  BY <1>10, ResizeFits
<1> QED BY <1>2, <1>3, <1>4, <1>5, <1>7, <1>8, <1>9, <1>10 DEF Bar!Next

LEMMA BarHolds == Spec => [](subject = "bar" => Fits(state))
<1>1. Init => (subject = "bar" => Fits(state))
  <2> SUFFICES ASSUME Bar!Init PROVE Fits(state)
    BY DEF Init
  <2>1. state \in Bars /\ state.input = <<>> /\ state.cursor = 0
    <3>1. <<>> \in Seq(Printable)
      BY EmptySeq
    <3>2. PICK cols \in Widths :
            state = [input |-> <<>>, cursor |-> 0, status |-> FALSE, cols |-> cols]
      BY DEF Bar!Init
    <3> QED BY <3>1, <3>2 DEF Bars
  <2> QED BY <2>1, Columns DEF Fits, Bars
<1>2. (subject = "bar" => Fits(state)) /\ [Next]_vars => (subject = "bar" => Fits(state))'
  BY BarStep DEF Next, vars
<1> QED BY <1>1, <1>2, PTL DEF Spec

\* Whatever is typed, erased and resized, the caret stands in the text, so that
\* insert() and erase() are never called behind its end, and in the grid; and
\* an edit leaves the other side of the caret alone (function_bar.cc, and the
\* resize of main.cc).
THEOREM CaretStaysInText == Spec => CaretInText
<1>1. Fits(state) => Bar!CaretInText
  <2> SUFFICES ASSUME Fits(state) PROVE Bar!CaretInText
    OBVIOUS
  <2>1. state.cols \in Widths
    BY FitsFacts
  <2>2. state.cols >= 3 => 2 + state.cursor < state.cols
    BY <2>1, FitsFacts, Columns
  <2> QED BY <2>2 DEF Fits, Bars, Bar!CaretInText, Bar!TypeOK
<1>2. Fits(state) => Bar!EditsAtCaret
  BY TypingFits, EraseFits DEF Bar!EditsAtCaret, Behind, Before
<1>3. (subject = "bar" => Fits(state)) => (subject = "bar" => Bar!CaretInText)
  BY <1>1
<1>4. (subject = "bar" => Fits(state)) /\ [Next]_vars
      => [subject = "bar" => Bar!EditsAtCaret]_vars
  BY <1>2
<1> QED BY <1>3, <1>4, BarHolds, PTL DEF Spec, CaretInText

-----------------------------------------------------------------------------
(***************************************************************************)
(* NewsFeed: any number of headlines, of rows kept and of batches.  The    *)
(* list is always the newest of what was received; while a batch is sorted *)
(* in it may be longer than what is kept, and what was cut off before is   *)
(* still older than the part that will be kept.                            *)
(***************************************************************************)

Headlines == [no : 1..MaxReceived, ts : Timestamps, article : BOOLEAN, live : BOOLEAN]

Sorting == INSTANCE DeskLemmas WITH Op <- Feed!InsertSorted

\* The list holds, in order, headlines from the first n of `all', and what it
\* lacks of them stands behind as many as are kept.
NewestOf(list, all, n) ==
    /\ list \in Seq(Headlines)
    /\ \A i, j \in 1..Len(list) : i < j => Feed!StandsBefore(list[i], list[j])
    /\ \A i \in 1..Len(list) : \E j \in 1..n : list[i] = all[j]
    /\ \A j \in 1..n :
         \/ \E i \in 1..Len(list) : list[i] = all[j]
         \/ /\ Len(list) >= kMaxHeadlines
            /\ \A i \in 1..kMaxHeadlines : Feed!StandsBefore(list[i], all[j])

Numbered(all) == \A j \in 1..Len(all) : all[j].no = j

LEMMA FeedConstants ==
    /\ kMaxHeadlines \in Nat /\ kMaxHeadlines >= 1
    /\ CellHeight \in Nat /\ CellHeight >= 1
    /\ Timestamps \subseteq Nat /\ Clicks \subseteq Int /\ MaxReceived \in Nat
BY DeskAssumption DEF Feed!FeedAssumption

LEMMA Before3 ==
    ASSUME NEW f \in Headlines, NEW g \in Headlines, NEW h \in Headlines
    PROVE  /\ Feed!StandsBefore(f, g) /\ Feed!StandsBefore(g, h) => Feed!StandsBefore(f, h)
           /\ ~(Feed!StandsBefore(f, g) /\ Feed!StandsBefore(g, f))
           /\ ~Feed!StandsBefore(f, f)
<1>1. \A x \in Headlines : x.ts \in Timestamps /\ x.no \in 1..MaxReceived
  BY DEF Headlines
<1>2. /\ f.ts \in Nat /\ g.ts \in Nat /\ h.ts \in Nat
      /\ f.no \in Nat /\ g.no \in Nat /\ h.no \in Nat
  <2>1. \A x \in Headlines : x.ts \in Nat
    BY <1>1, FeedConstants
  <2>2. \A x \in Headlines : x.no \in Nat
    BY <1>1, FeedConstants
  <2> QED BY <2>1, <2>2
<1> QED BY <1>2 DEF Feed!StandsBefore

\* Where InsertSorted() puts a headline.
LEMMA PlaceToInsert ==
    ASSUME NEW list \in Seq(Headlines), NEW h \in Headlines
    PROVE  \E p \in 1..(Len(list) + 1) :
             /\ Feed!InsertSorted(list, h) = Inserted(list, p - 1, h)
             /\ \A i \in 1..Len(list) : i < p => ~(list[i].ts < h.ts)
             /\ p <= Len(list) => list[p].ts < h.ts
<1> DEFINE D == {i \in DOMAIN list : Feed!GoesBefore(h, list[i])} \union {Len(list) + 1}
<1>1. DOMAIN list = 1..Len(list) /\ Len(list) \in Nat
  BY LenProperties
<1>2. D \subseteq Nat /\ D # {}
  BY <1>1
<1>3. PICK p \in D : \A i \in D : ~(i < p)
  BY <1>2, LeastNat
<1>4. Feed!Min(D) = p
  <2>1. \A x \in D : (\A y \in D : x =< y) <=> x = p
    BY <1>2, <1>3
  <2> HIDE DEF D
  <2> QED BY <2>1 DEF Feed!Min
<1>5. Feed!InsertSorted(list, h) = Inserted(list, p - 1, h)
  <2>1. Feed!InsertSorted(list, h) = Feed!InsertAt(list, p, h)
    BY <1>4 DEF Feed!InsertSorted
  <2>2. (p - 1) + 1 = p
    BY <1>2
  <2> QED BY <2>1, <2>2 DEF Feed!InsertAt, Inserted
<1>6. p \in 1..(Len(list) + 1)
  BY <1>1
<1>7. \A i \in 1..Len(list) : i < p => ~(list[i].ts < h.ts)
  BY <1>1, <1>3 DEF Feed!GoesBefore
<1>8. p <= Len(list) => list[p].ts < h.ts
  BY <1>1 DEF Feed!GoesBefore
<1> QED BY <1>5, <1>6, <1>7, <1>8

\* One turn of the loop: the next headline finds its place.
LEMMA InsertKeeps ==
    ASSUME NEW all \in Seq(Headlines), Numbered(all), NEW n \in Nat, n + 1 <= Len(all),
           NEW list, NewestOf(list, all, n)
    PROVE  /\ NewestOf(Feed!InsertSorted(list, all[n + 1]), all, n + 1)
           /\ Len(Feed!InsertSorted(list, all[n + 1])) = Len(list) + 1
<1> DEFINE h == all[n + 1]
           len == Len(list)
<1>1. /\ list \in Seq(Headlines) /\ len \in Nat
      /\ \A i \in 1..len : list[i] \in Headlines
  BY LenProperties, ElementOfSeq DEF NewestOf
<1>2. /\ \A j \in 1..(n + 1) : all[j] \in Headlines /\ all[j].no = j
      /\ h \in Headlines /\ h.no = n + 1
  <2>1. \A j \in 1..(n + 1) : j \in 1..Len(all)
    BY LenProperties
  <2> QED BY <2>1, ElementOfSeq DEF Numbered
<1> HIDE DEF h, len
<1>3. PICK p \in 1..(len + 1) :
        /\ Feed!InsertSorted(list, h) = Inserted(list, p - 1, h)
        /\ \A i \in 1..len : i < p => ~(list[i].ts < h.ts)
        /\ p <= len => list[p].ts < h.ts
  BY <1>1, <1>2, PlaceToInsert DEF len
<1> DEFINE l2 == Inserted(list, p - 1, h)
<1>4. /\ l2 \in Seq(Headlines) /\ Len(l2) = len + 1
      /\ \A i \in 1..(len + 1) : l2[i] = IF i < p THEN list[i]
                                         ELSE IF i = p THEN h ELSE list[i - 1]
  <2> DEFINE k == p - 1
  <2>1. k \in 0..Len(list) /\ Len(list) = len
    BY <1>1 DEF len
  <2> HIDE DEF k
  <2>2. l2 = Inserted(list, k, h) /\ k + 1 = p /\ k \in Int
    BY <1>1 DEF k
  <2> HIDE DEF l2
  <2>3. l2 \in Seq(Headlines) /\ Longer(l2, list, k, h)
    <3>1. Inserted(list, k, h) \in Seq(Headlines) /\ Longer(Inserted(list, k, h), list, k, h)
      BY <1>1, <1>2, <2>1, InsertedProperties
    <3> QED BY <2>2, <3>1
  <2>4. \A i \in 1..(len + 1) : i < p <=> i <= k
    BY <1>1, <2>2
  <2> QED BY <1>1, <2>1, <2>2, <2>3, <2>4 DEF Longer
<1> HIDE DEF l2
<1>5. ASSUME NEW i \in 1..len, i < p PROVE Feed!StandsBefore(list[i], h)
  <2>1. PICK j \in 1..n : list[i] = all[j]
    BY <1>5 DEF NewestOf, len
  <2>2. list[i].no = j /\ list[i].no < h.no
    BY <1>2, <2>1
  <2>3. list[i].ts \in Nat /\ h.ts \in Nat /\ ~(list[i].ts < h.ts)
    BY <1>1, <1>2, <1>3, <1>5, FeedConstants DEF Headlines
  <2> QED BY <2>2, <2>3 DEF Feed!StandsBefore
<1>6. ASSUME NEW i \in 1..len, p <= i PROVE Feed!StandsBefore(h, list[i])
  <2>1. p \in 1..len /\ list[p].ts < h.ts
    BY <1>1, <1>3, <1>6
  <2>2. i = p \/ Feed!StandsBefore(list[p], list[i])
    BY <1>6, <2>1 DEF NewestOf, len
  <2>3. list[i].ts \in Nat /\ list[p].ts \in Nat /\ h.ts \in Nat
    BY <1>1, <1>2, <2>1, FeedConstants DEF Headlines
  <2>4. list[i].ts <= list[p].ts
    BY <2>2, <2>3 DEF Feed!StandsBefore
  <2> QED BY <2>1, <2>3, <2>4 DEF Feed!StandsBefore
<1>7. \A i, j \in 1..(len + 1) : i < j => Feed!StandsBefore(l2[i], l2[j])
  <2> SUFFICES ASSUME NEW i \in 1..(len + 1), NEW j \in 1..(len + 1), i < j
               PROVE  Feed!StandsBefore(l2[i], l2[j])
    OBVIOUS
  <2>1. \A x, y \in 1..len : x < y => Feed!StandsBefore(list[x], list[y])
    BY DEF NewestOf, len
  <2>2. CASE i < p /\ j < p
    BY <1>1, <1>4, <2>1, <2>2
  <2>3. CASE i < p /\ j = p
    BY <1>1, <1>4, <1>5, <2>3
  <2>4. CASE i < p /\ j > p
    <3>1. l2[i] = list[i] /\ l2[j] = list[j - 1] /\ i \in 1..len /\ j - 1 \in 1..len /\ i < j - 1
      BY <1>1, <1>4, <2>4
    <3> QED BY <2>1, <3>1
  <2>5. CASE i = p
    <3>1. l2[i] = h /\ l2[j] = list[j - 1] /\ j - 1 \in 1..len /\ p <= j - 1
      BY <1>1, <1>4, <2>5
    <3> QED BY <1>6, <3>1
  <2>6. CASE i > p
    <3>1. /\ l2[i] = list[i - 1] /\ l2[j] = list[j - 1]
          /\ i - 1 \in 1..len /\ j - 1 \in 1..len /\ i - 1 < j - 1
      BY <1>1, <1>4, <2>6
    <3> QED BY <2>1, <3>1
  <2> QED BY <2>2, <2>3, <2>4, <2>5, <2>6
<1>8. \A i \in 1..(len + 1) : \E j \in 1..(n + 1) : l2[i] = all[j]
  <2> SUFFICES ASSUME NEW i \in 1..(len + 1) PROVE \E j \in 1..(n + 1) : l2[i] = all[j]
    OBVIOUS
  <2>1. \A x \in 1..len : \E j \in 1..(n + 1) : list[x] = all[j]
    BY DEF NewestOf, len
  <2>2. CASE i = p
    BY <1>4, <2>2 DEF h
  <2>3. CASE i # p
    <3>1. \E x \in 1..len : l2[i] = list[x]
      BY <1>1, <1>4, <2>3
    <3> QED BY <2>1, <3>1
  <2> QED BY <2>2, <2>3
<1>9. \A x \in 1..len : \E i \in 1..(len + 1) : l2[i] = list[x]
  <2> SUFFICES ASSUME NEW x \in 1..len PROVE \E i \in 1..(len + 1) : l2[i] = list[x]
    OBVIOUS
  <2>1. CASE x < p
    BY <1>1, <1>4, <2>1
  <2>2. CASE x >= p
    <3>1. x + 1 \in 1..(len + 1) /\ l2[x + 1] = list[x]
      BY <1>1, <1>4, <2>2
    <3> QED BY <3>1
  <2> QED BY <2>1, <2>2
<1>10. ASSUME NEW j \in 1..n, len >= kMaxHeadlines,
              \A i \in 1..kMaxHeadlines : Feed!StandsBefore(list[i], all[j])
       PROVE  \A i \in 1..kMaxHeadlines : Feed!StandsBefore(l2[i], all[j])
  <2> SUFFICES ASSUME NEW i \in 1..kMaxHeadlines PROVE Feed!StandsBefore(l2[i], all[j])
    OBVIOUS
  <2>1. i \in 1..len /\ all[j] \in Headlines /\ kMaxHeadlines \in Nat
    BY <1>1, <1>2, <1>10, FeedConstants
  <2>2. CASE i < p
    BY <1>4, <1>10, <2>1, <2>2
  <2>3. CASE i = p
    <3>1. l2[i] = h /\ Feed!StandsBefore(h, list[i]) /\ Feed!StandsBefore(list[i], all[j])
      BY <1>4, <1>6, <1>10, <2>1, <2>3
    <3> QED BY <1>1, <1>2, <2>1, <3>1, Before3
  <2>4. CASE i > p
    <3>1. i - 1 \in 1..kMaxHeadlines /\ l2[i] = list[i - 1]
      BY <1>1, <1>4, <2>1, <2>4
    <3> QED BY <1>10, <3>1
  <2> QED BY <2>2, <2>3, <2>4
<1>11. \A j \in 1..(n + 1) :
         \/ \E i \in 1..(len + 1) : l2[i] = all[j]
         \/ /\ len + 1 >= kMaxHeadlines
            /\ \A i \in 1..kMaxHeadlines : Feed!StandsBefore(l2[i], all[j])
  <2> SUFFICES ASSUME NEW j \in 1..(n + 1)
               PROVE  \/ \E i \in 1..(len + 1) : l2[i] = all[j]
                      \/ /\ len + 1 >= kMaxHeadlines
                         /\ \A i \in 1..kMaxHeadlines : Feed!StandsBefore(l2[i], all[j])
    OBVIOUS
  <2>1. CASE j = n + 1
    BY <1>4, <2>1 DEF h
  <2>2. CASE j # n + 1
    <3>1. j \in 1..n
      BY <2>2
    <3>2. CASE \E i \in 1..len : list[i] = all[j]
      BY <1>9, <3>2
    <3>3. CASE /\ len >= kMaxHeadlines
               /\ \A i \in 1..kMaxHeadlines : Feed!StandsBefore(list[i], all[j])
      BY <1>1, <1>10, <3>1, <3>3, FeedConstants
    <3> QED BY <3>1, <3>2, <3>3 DEF NewestOf, len
  <2> QED BY <2>1, <2>2
<1>12. NewestOf(l2, all, n + 1)
  BY <1>4, <1>7, <1>8, <1>11 DEF NewestOf
<1> QED BY <1>3, <1>4, <1>12 DEF l2, h, len


\* A batch of f headlines that follow m others, together `all', and a list of
\* the newest of those m.
Batch(all, m, f, fresh, list) ==
    /\ Numbered(all) /\ m + f = Len(all)
    /\ DOMAIN fresh = 1..f /\ \A k \in 1..f : fresh[k] = all[m + k]
    /\ NewestOf(list, all, m)

\* The loop of OnFrame() over a batch, into a list that holds the newest of what
\* came before it.
LEMMA BatchKeeps ==
    ASSUME NEW all \in Seq(Headlines), NEW m \in Nat, NEW f \in Nat,
           NEW fresh, NEW list, Batch(all, m, f, fresh, list)
    PROVE  /\ NewestOf(Feed!FoldLeft(Feed!InsertSorted, list, fresh), all, m + f)
           /\ Len(Feed!FoldLeft(Feed!InsertSorted, list, fresh)) = Len(list) + f
<1> DEFINE Good(k) == {l \in Seq(Headlines) : NewestOf(l, all, m + k) /\ Len(l) = Len(list) + k}
           I == [k \in 0..f |-> Good(k)]
<1>0. /\ Numbered(all) /\ m + f = Len(all) /\ NewestOf(list, all, m)
      /\ DOMAIN fresh = 1..f /\ \A k \in 1..f : fresh[k] = all[m + k]
  BY DEF Batch
<1>1. Len(list) \in Nat /\ list \in Seq(Headlines)
  BY <1>0, LenProperties DEF NewestOf
<1>2. list \in I[0]
  BY <1>0, <1>1
<1>3. ASSUME NEW k \in 1..f, NEW l \in I[k - 1] PROVE Feed!InsertSorted(l, fresh[k]) \in I[k]
  <2> DEFINE n == m + (k - 1)
  <2>1. n \in Nat /\ n + 1 = m + k /\ n + 1 <= Len(all) /\ k - 1 \in 0..f
    BY <1>0
  <2>2. NewestOf(l, all, n) /\ Len(l) = Len(list) + (k - 1)
    BY <1>3, <2>1
  <2>3. fresh[k] = all[n + 1]
    BY <1>0, <2>1
  <2> DEFINE l2 == Feed!InsertSorted(l, all[n + 1])
  <2> HIDE DEF n
  <2>4. NewestOf(l2, all, n + 1) /\ Len(l2) = Len(l) + 1
    BY <1>0, <2>1, <2>2, InsertKeeps
  <2> HIDE DEF l2
  <2>5. l2 \in Good(k)
    <3>1. l2 \in Seq(Headlines)
      BY <2>4, Zenon DEF NewestOf
    <3>2. NewestOf(l2, all, m + k)
      BY <2>1, <2>4, Zenon
    <3>3. Len(l2) = Len(list) + k
      BY <1>1, <2>2, <2>4
    <3> QED BY <3>1, <3>2, <3>3
  <2>6. l2 \in I[k]
    BY <2>5
  <2> QED BY <2>3, <2>6 DEF l2
<1> HIDE DEF I
<1>4. Sorting!Fold(list, fresh) \in I[f]
  BY <1>0, <1>2, <1>3, Sorting!FoldInvariant
<1>5. Sorting!Fold(list, fresh) = Feed!FoldLeft(Feed!InsertSorted, list, fresh)
  BY DEF Sorting!Fold, Feed!FoldLeft, Sorting!MapThenFoldSet, Feed!MapThenFoldSet,
         Sorting!Max, Feed!Max
<1>6. Feed!FoldLeft(Feed!InsertSorted, list, fresh) \in Good(f)
  BY <1>4, <1>5 DEF I
<1> QED BY <1>6

\* Cutting the list to what is kept: what goes stands behind all that stays.
LEMMA CutKeeps ==
    ASSUME NEW all \in Seq(Headlines), NEW n \in Nat,
           NEW sorted, NewestOf(sorted, all, n),
           NEW cut \in Nat,
           cut = IF Len(sorted) <= kMaxHeadlines THEN Len(sorted) ELSE kMaxHeadlines
    PROVE  /\ NewestOf(SubSeq(sorted, 1, cut), all, n)
           /\ Len(SubSeq(sorted, 1, cut)) = cut
<1> DEFINE list == SubSeq(sorted, 1, cut)
           len == Len(sorted)
<1>1. sorted \in Seq(Headlines) /\ len \in Nat /\ cut <= len /\ kMaxHeadlines \in Nat
      /\ cut <= kMaxHeadlines
  BY LenProperties, FeedConstants DEF NewestOf
<1>2. /\ list \in Seq(Headlines) /\ Len(list) = cut
      /\ \A i \in 1..cut : list[i] = sorted[i]
  BY <1>1, Stretch
<1> HIDE DEF list
<1>3. \A i \in 1..cut : i \in 1..len
  BY <1>1
<1>4. \A i, j \in 1..cut : i < j => Feed!StandsBefore(list[i], list[j])
  BY <1>2, <1>3 DEF NewestOf
<1>5. \A i \in 1..cut : \E j \in 1..n : list[i] = all[j]
  BY <1>2, <1>3 DEF NewestOf
<1>6. ASSUME NEW j \in 1..n
      PROVE  \/ \E i \in 1..cut : list[i] = all[j]
             \/ /\ cut >= kMaxHeadlines
                /\ \A i \in 1..kMaxHeadlines : Feed!StandsBefore(list[i], all[j])
  <2>1. CASE \E i \in 1..len : sorted[i] = all[j]
    <3>1. PICK i \in 1..len : sorted[i] = all[j]
      BY <2>1
    <3>2. CASE i <= cut
      <4>1. i \in 1..cut
        BY <3>2
      <4> QED BY <1>2, <3>1, <4>1
    <3>3. CASE i > cut
      <4>1. cut = kMaxHeadlines
        BY <1>1, <3>3
      <4>2. \A x \in 1..cut : x \in 1..len /\ x < i
        BY <1>1, <3>3
      <4>3. \A x \in 1..cut : Feed!StandsBefore(sorted[x], sorted[i])
        BY <4>2 DEF NewestOf
      <4> QED BY <1>1, <1>2, <3>1, <4>1, <4>3
    <3> QED BY <1>1, <3>2, <3>3
  <2>2. CASE /\ len >= kMaxHeadlines
             /\ \A i \in 1..kMaxHeadlines : Feed!StandsBefore(sorted[i], all[j])
    <3>1. cut = kMaxHeadlines
      BY <1>1, <2>2
    <3> QED BY <1>1, <1>2, <2>2, <3>1
  <2> QED BY <2>1, <2>2 DEF NewestOf
<1>7. NewestOf(list, all, n)
  BY <1>2, <1>4, <1>5, <1>6 DEF NewestOf
<1> QED BY <1>2, <1>7 DEF list

\* The first elements of a sequence without repetitions, counted.
LEMMA CountedPrefix ==
    ASSUME NEW list, NEW k \in Nat,
           \A i, j \in 1..k : i # j => list[i] # list[j]
    PROVE  /\ IsFiniteSet({list[i] : i \in 1..k})
           /\ Cardinality({list[i] : i \in 1..k}) = k
<1> DEFINE S == {list[i] : i \in 1..k}
           g == [i \in 1..k |-> list[i]]
<1>1. g \in [1..k -> S] /\ \A i, j \in 1..k : g[i] = g[j] => i = j
  OBVIOUS
<1>2. \A t \in S : \E i \in 1..k : g[i] = t
  OBVIOUS
<1> HIDE DEF g, S
<1>3. DOMAIN g = 1..k
  BY <1>1
<1>4. g \in Bijection(1..k, S)
  BY <1>1, <1>2, <1>3 DEF Bijection, Injection, Surjection, IsInjective
<1>5. IsFiniteSet(1..k) /\ Cardinality(1..k) = k
  BY FS_Interval
<1>6. ExistsBijection(1..k, S)
  BY <1>4 DEF ExistsBijection
<1> QED BY <1>5, <1>6, FS_Bijection DEF S

\* C++'s division of a pixel by the height of a row.
LEMMA RowOfPixel ==
    ASSUME NEW y \in Int, NEW row \in Nat, Feed!RowUnder(y) = row
    PROVE  y \in ((row + 4) * CellHeight)..((row + 5) * CellHeight - 1)
<1> DEFINE c == CellHeight
           q == Feed!Quotient(y, c)
<1>1. c \in Nat /\ c >= 1
  BY FeedConstants
<1>2. q - 2 - 2 = row
  BY DEF Feed!RowUnder, Feed!MouseYToBodyRow, Feed!kBarReservedRows, Feed!kFeedHeaderRows
<1>3. CASE y >= 0
  <2>1. q = y \div c
    BY <1>3 DEF Feed!Quotient
  <2> DEFINE d == y \div c
  <2>2. d \in Int /\ c * d <= y /\ y < c * (d + 1)
    BY <1>1, <1>3
  <2> HIDE DEF d, c
  <2>3. d = row + 4
    BY <1>2, <2>1, <2>2 DEF d
  <2> QED BY <1>1, <2>2, <2>3 DEF c
<1>4. CASE ~(y >= 0)
  <2>1. q = -((-y) \div c)
    BY <1>4 DEF Feed!Quotient
  <2>2. (-y) \div c \in Nat
    BY <1>1, <1>4
  <2> QED BY <1>2, <2>1, <2>2
<1> QED BY <1>3, <1>4

LEMMA SameCount == \A S : Feed!Cardinality(S) = Cardinality(S)
BY DEF Feed!Cardinality, Cardinality

LEMMA LesserOfTwo ==
    ASSUME NEW a \in Int, NEW b \in Int
    PROVE  Feed!Min({a, b}) = IF a <= b THEN a ELSE b
BY DEF Feed!Min

-----------------------------------------------------------------------------
(* The invariant. *)

Feeds == [received : Seq(Headlines), headlines : Seq(Headlines), loaded : BOOLEAN,
          flashing : SUBSET (1..MaxReceived), hovered : -1..(MaxReceived - 1),
          rows : Seq(1..MaxReceived), bold : SUBSET (1..MaxReceived),
          opened : 0..MaxReceived, loaded_at : 0..MaxReceived]

\* The list is the newest of what was received, and full if it can be.
ListInv(f) ==
    /\ Numbered(f.received) /\ Len(f.received) <= MaxReceived
    /\ NewestOf(f.headlines, f.received, Len(f.received))
    /\ Len(f.headlines) = IF Len(f.received) <= kMaxHeadlines
                          THEN Len(f.received) ELSE kMaxHeadlines

\* The rows are those of the list as it is.
RowsInv(f) ==
    /\ f.rows = [i \in 1..Len(f.headlines) |-> f.headlines[i].no]
    /\ \A i \in f.bold : /\ i \in 1..Len(f.headlines)
                         /\ f.headlines[i].no \in f.flashing

\* Whatever still flashes was received after the historical batch.
FlashInv(f) ==
    /\ f.loaded_at <= Len(f.received)
    /\ \A n \in f.flashing :
         /\ f.loaded /\ f.loaded_at < n /\ n <= Len(f.received)
         /\ f.received[n].article /\ f.received[n].live

FeedInv == state \in Feeds /\ ListInv(state) /\ RowsInv(state) /\ FlashInv(state)

\* What the batch that OnFrame() drains adds to all that was received.
LEMMA Received ==
    ASSUME NEW r \in Seq(Headlines), Numbered(r), NEW fresh \in Seq(Headlines),
           \A i \in 1..Len(fresh) : fresh[i].no = Len(r) + i
    PROVE  /\ r \o fresh \in Seq(Headlines) /\ Numbered(r \o fresh)
           /\ Len(r \o fresh) = Len(r) + Len(fresh)
           /\ \A j \in 1..Len(r) : (r \o fresh)[j] = r[j]
           /\ \A i \in 1..Len(fresh) : (r \o fresh)[Len(r) + i] = fresh[i]
<1> DEFINE all == r \o fresh
<1>1. Len(r) \in Nat /\ Len(fresh) \in Nat
  BY LenProperties
<1>2. /\ all \in Seq(Headlines) /\ Len(all) = Len(r) + Len(fresh)
      /\ \A j \in 1..(Len(r) + Len(fresh)) :
           all[j] = IF j <= Len(r) THEN r[j] ELSE fresh[j - Len(r)]
  BY <1>1, ConcatProperties
<1> HIDE DEF all
<1>3. \A j \in 1..Len(r) : all[j] = r[j]
  BY <1>1, <1>2
<1>4. ASSUME NEW i \in 1..Len(fresh) PROVE all[Len(r) + i] = fresh[i]
  <2>1. /\ Len(r) + i \in 1..(Len(r) + Len(fresh)) /\ ~(Len(r) + i <= Len(r))
        /\ (Len(r) + i) - Len(r) = i
    BY <1>1
  <2> QED BY <1>2, <2>1
<1>5. ASSUME NEW j \in 1..(Len(r) + Len(fresh)) PROVE all[j].no = j
  <2>1. CASE j <= Len(r)
    BY <1>1, <1>3, <2>1 DEF Numbered
  <2>2. CASE ~(j <= Len(r))
    <3>1. j - Len(r) \in 1..Len(fresh) /\ Len(r) + (j - Len(r)) = j
      BY <1>1, <2>2
    <3> QED BY <1>4, <3>1
  <2> QED BY <2>1, <2>2
<1> QED BY <1>2, <1>3, <1>4, <1>5 DEF all, Numbered

\* What OnFrame() makes of the list.
Drained(all, m, f, fresh, list, kept) ==
    /\ Batch(all, m, f, fresh, list)
    /\ Len(list) = IF m <= kMaxHeadlines THEN m ELSE kMaxHeadlines
    /\ kept = LET sorted == Feed!FoldLeft(Feed!InsertSorted, list, fresh)
              IN  SubSeq(sorted, 1, Feed!Min({Len(sorted), kMaxHeadlines}))

\* OnFrame() on the list: the newest m of what was received before become the
\* newest of all m + f that are received now.
LEMMA FrameKeepsList ==
    ASSUME NEW all \in Seq(Headlines), NEW m \in Nat, NEW f \in Nat,
           NEW fresh, NEW list, NEW kept, Drained(all, m, f, fresh, list, kept)
    PROVE  /\ NewestOf(kept, all, Len(all))
           /\ Len(kept) = IF Len(all) <= kMaxHeadlines THEN Len(all) ELSE kMaxHeadlines
<1> DEFINE sorted == Feed!FoldLeft(Feed!InsertSorted, list, fresh)
           cut == Feed!Min({Len(sorted), kMaxHeadlines})
<1>0. Len(list) = IF m <= kMaxHeadlines THEN m ELSE kMaxHeadlines
  BY DEF Drained
<1>1. NewestOf(sorted, all, m + f) /\ Len(sorted) = Len(list) + f
  BY BatchKeeps DEF Drained
<1>2. kept = SubSeq(sorted, 1, cut)
  BY DEF Drained
<1> HIDE DEF sorted
<1>3. /\ Len(list) \in Nat /\ Len(all) = m + f /\ Len(sorted) \in Nat
      /\ kMaxHeadlines \in Nat /\ m + f \in Nat
  BY <1>0, <1>1, FeedConstants DEF Batch, Drained
<1>4. cut = (IF Len(sorted) <= kMaxHeadlines THEN Len(sorted) ELSE kMaxHeadlines) /\ cut \in Nat
  <2>1. Len(sorted) \in Int /\ kMaxHeadlines \in Int
    BY <1>3
  <2> QED BY <1>3, <2>1, LesserOfTwo
<1> HIDE DEF cut
<1>5. NewestOf(SubSeq(sorted, 1, cut), all, m + f) /\ Len(SubSeq(sorted, 1, cut)) = cut
  BY <1>0, <1>1, <1>3, <1>4, CutKeeps
<1>6. cut = IF m + f <= kMaxHeadlines THEN m + f ELSE kMaxHeadlines
  BY <1>0, <1>1, <1>3, <1>4
<1> QED BY <1>2, <1>3, <1>5, <1>6

\* The rows and the bold ones among them, for any list that is kept.
LEMMA RowsRebuilt ==
    ASSUME NEW f, f.headlines \in Seq(Headlines), Len(f.headlines) <= MaxReceived,
           NEW rows, rows = [i \in DOMAIN f.headlines |-> f.headlines[i].no],
           NEW bold, bold = {i \in DOMAIN f.headlines :
                               f.headlines[i].article /\ f.headlines[i].no \in f.flashing}
    PROVE  /\ rows \in Seq(1..MaxReceived) /\ bold \in SUBSET (1..MaxReceived)
           /\ rows = [i \in 1..Len(f.headlines) |-> f.headlines[i].no]
           /\ \A i \in bold : /\ i \in 1..Len(f.headlines)
                              /\ f.headlines[i].no \in f.flashing
<1> DEFINE list == f.headlines
<1>1. /\ DOMAIN list = 1..Len(list) /\ Len(list) \in Nat
      /\ \A i \in 1..Len(list) : list[i].no \in 1..MaxReceived
  <2>1. DOMAIN list = 1..Len(list) /\ Len(list) \in Nat
    BY LenProperties
  <2>2. \A i \in 1..Len(list) : list[i] \in Headlines
    BY ElementOfSeq
  <2> QED BY <2>1, <2>2 DEF Headlines
<1>2. rows = [i \in 1..Len(list) |-> list[i].no]
  BY <1>1
<1>3. rows \in Seq(1..MaxReceived)
  <2>1. rows \in [1..Len(list) -> 1..MaxReceived]
    BY <1>1, <1>2
  <2> QED BY <1>1, <2>1, SeqDef
<1>4. bold \subseteq 1..Len(list) /\ bold \in SUBSET (1..MaxReceived)
  BY <1>1, FeedConstants
<1> QED BY <1>1, <1>2, <1>3, <1>4

\* What OnFrame() changes of the flashes, `flash' being the new ones.
Flashes(f2, m, f, fresh, all, says, flash, over) ==
    /\ m \in Nat /\ f \in Nat /\ m + f <= MaxReceived
    /\ m = Len(state.received) /\ Len(all) = m + f
    /\ DOMAIN fresh = 1..f /\ \A i \in 1..f : fresh[i].no = m + i
    /\ \A j \in 1..m : all[j] = state.received[j]
    /\ \A i \in 1..f : all[m + i] = fresh[i]
    /\ flash = {h.no : h \in {g \in Feed!Range(fresh) : state.loaded /\ g.article /\ g.live}}
    /\ f2.received = all
    /\ f2.flashing = (state.flashing \union flash) \ over
    /\ says \in BOOLEAN /\ f2.loaded = (state.loaded \/ says)
    /\ f2.loaded_at = IF ~state.loaded /\ says THEN m + f ELSE state.loaded_at

LEMMA FrameKeepsFlashes ==
    ASSUME state \in Feeds, FlashInv(state),
           NEW f2, NEW m, NEW f, NEW fresh, NEW all, NEW says, NEW flash, NEW over,
           Flashes(f2, m, f, fresh, all, says, flash, over)
    PROVE  /\ FlashInv(f2) /\ f2.flashing \in SUBSET (1..MaxReceived)
           /\ f2.loaded \in BOOLEAN /\ f2.loaded_at \in 0..MaxReceived
<1>0. Flashes(f2, m, f, fresh, all, says, flash, over)
  OBVIOUS
<1> USE DEF Flashes
<1>1. /\ state.loaded \in BOOLEAN /\ state.loaded_at \in Nat /\ state.loaded_at <= m
      /\ state.loaded_at \in 0..MaxReceived
      /\ state.flashing \in SUBSET (1..MaxReceived)
  BY DEF FlashInv, Feeds
<1>2. f2.loaded_at \in 0..MaxReceived /\ f2.loaded_at <= m + f
  BY <1>1, FeedConstants
<1>3. ASSUME NEW n \in f2.flashing
      PROVE  /\ f2.loaded /\ f2.loaded_at < n /\ n <= m + f /\ n \in 1..MaxReceived
             /\ all[n].article /\ all[n].live
  <2>1. CASE n \in state.flashing
    <3>1. /\ state.loaded /\ state.loaded_at < n /\ n <= m
          /\ state.received[n].article /\ state.received[n].live /\ n \in 1..MaxReceived
      BY <1>1, <2>1 DEF FlashInv
    <3>2. n \in 1..m
      BY <3>1
    <3>3. all[n] = state.received[n]
      BY <3>2
    <3>4. f2.loaded /\ f2.loaded_at = state.loaded_at
      BY <3>1, Zenon
    <3> QED BY <1>1, <3>1, <3>2, <3>3, <3>4
  <2>2. CASE n \notin state.flashing
    <3>1. PICK g \in Feed!Range(fresh) : state.loaded /\ g.article /\ g.live /\ n = g.no
      BY <2>2
    <3>2. PICK i \in 1..f : fresh[i] = g
      BY <3>1 DEF Feed!Range
    <3>3. n = m + i /\ all[n] = g
      BY <3>1, <3>2
    <3>4. f2.loaded /\ f2.loaded_at = state.loaded_at
      BY <3>1, Zenon
    <3>5. n \in 1..MaxReceived /\ n <= m + f /\ state.loaded_at < n
      BY <1>1, <3>3, FeedConstants
    <3> QED BY <3>1, <3>3, <3>4, <3>5
  <2> QED BY <2>1, <2>2
<1> QED BY <1>1, <1>2, <1>3 DEF FlashInv

LEMMA FrameStep ==
    ASSUME FeedInv, NEW fresh \in Feed!Fresh, NEW says \in BOOLEAN, NEW over,
           Feed!OnFrame(fresh, says, over)
    PROVE  FeedInv'
<1> DEFINE r == state.received
           m == Len(r)
           f == Len(fresh)
           all == r \o fresh
           list == LET sorted == Feed!FoldLeft(Feed!InsertSorted, state.headlines, fresh)
                   IN  SubSeq(sorted, 1, Feed!Min({Len(sorted), kMaxHeadlines}))
           flash == {h.no : h \in {g \in Feed!Range(fresh) :
                                     state.loaded /\ g.article /\ g.live}}
           f1 == [state EXCEPT
                    !.received = @ \o fresh,
                    !.headlines = list,
                    !.hovered = IF fresh # <<>> /\ @ >= Len(list) THEN -1 ELSE @,
                    !.flashing = (@ \union flash) \ over,
                    !.loaded = @ \/ says,
                    !.loaded_at = IF ~state.loaded /\ says THEN m + f ELSE @]
           rows == [i \in DOMAIN f1.headlines |-> f1.headlines[i].no]
           bold == {i \in DOMAIN f1.headlines :
                      f1.headlines[i].article /\ f1.headlines[i].no \in f1.flashing}
<1>1. /\ state \in Feeds /\ r \in Seq(Headlines) /\ Numbered(r) /\ m \in Nat
      /\ FlashInv(state)
  BY LenProperties DEF FeedInv, Feeds, ListInv
<1>2. /\ fresh \in Seq(Headlines) /\ f \in Nat /\ DOMAIN fresh = 1..f
      /\ m + f <= MaxReceived /\ \A i \in 1..f : fresh[i].no = m + i
  <2>1. PICK k \in 0..MaxBatch : fresh \in [1..k -> Headlines]
    BY DEF Feed!Fresh, Feed!BoundedSeq, Feed!SeqOf, Feed!Headline, Headlines
  <2>2. k \in Nat
    BY <2>1
  <2>3. fresh \in Seq(Headlines)
    BY <2>1, <2>2, SeqDef
  <2>4. f \in Nat /\ DOMAIN fresh = 1..f
    BY <2>3, LenProperties
  <2> QED BY <2>3, <2>4 DEF Feed!Fresh
<1>3. /\ all \in Seq(Headlines) /\ Numbered(all) /\ Len(all) = m + f
      /\ \A j \in 1..m : all[j] = r[j]
      /\ \A i \in 1..f : all[m + i] = fresh[i]
  BY <1>1, <1>2, Received
<1>4. state' = [f1 EXCEPT !.rows = rows, !.bold = bold]
  BY DEF Feed!OnFrame, Feed!Rebuilt
<1>5. /\ NewestOf(list, all, Len(all))
      /\ Len(list) = IF Len(all) <= kMaxHeadlines THEN Len(all) ELSE kMaxHeadlines
  <2>1. /\ NewestOf(state.headlines, r, m)
        /\ Len(state.headlines) = IF m <= kMaxHeadlines THEN m ELSE kMaxHeadlines
    BY DEF FeedInv, ListInv
  <2> HIDE DEF all, r, m, f
  <2>2. NewestOf(state.headlines, all, m)
    BY <1>3, <2>1, Zenon DEF NewestOf
  <2>3. m + f = Len(all) /\ \A i \in 1..f : fresh[i] = all[m + i]
    BY <1>3
  <2>4. list = LET sorted == Feed!FoldLeft(Feed!InsertSorted, state.headlines, fresh)
               IN  SubSeq(sorted, 1, Feed!Min({Len(sorted), kMaxHeadlines}))
    OBVIOUS
  <2> HIDE DEF list
  <2>5. all \in Seq(Headlines) /\ Numbered(all) /\ m \in Nat /\ f \in Nat /\ DOMAIN fresh = 1..f
    BY <1>1, <1>2, <1>3
  <2>6. Len(state.headlines) = IF m <= kMaxHeadlines THEN m ELSE kMaxHeadlines
    BY <2>1
  <2>7. Drained(all, m, f, fresh, state.headlines, list)
    BY <2>2, <2>3, <2>4, <2>5, <2>6, Zenon DEF Batch, Drained
  <2> QED BY <2>5, <2>7, FrameKeepsList
<1> HIDE DEF list
<1>6. state' \in [received : {all}, headlines : {list}, loaded : {state.loaded \/ says},
                  flashing : {(state.flashing \union flash) \ over},
                  hovered : {IF fresh # <<>> /\ state.hovered >= Len(list) THEN -1
                             ELSE state.hovered},
                  rows : {rows}, bold : {bold}, opened : {state.opened},
                  loaded_at : {IF ~state.loaded /\ says THEN m + f ELSE state.loaded_at}]
  BY <1>1, <1>4 DEF Feeds
<1>7. /\ state'.received = all /\ state'.headlines = list
      /\ state'.loaded = (state.loaded \/ says)
      /\ state'.flashing = (state.flashing \union flash) \ over
      /\ state'.rows = rows /\ state'.bold = bold
      /\ state'.loaded_at = IF ~state.loaded /\ says THEN m + f ELSE state.loaded_at
  BY <1>6
<1>8. ListInv(state') /\ Len(list) <= MaxReceived /\ list \in Seq(Headlines)
  <2> HIDE DEF all, m, f
  <2>1. Len(all) <= MaxReceived /\ Numbered(all)
    BY <1>2, <1>3
  <2>2. ListInv(state')
    BY <1>5, <1>7, <2>1, Zenon DEF ListInv
  <2>3. list \in Seq(Headlines)
    BY <1>5, Zenon DEF NewestOf
  <2>4. Len(list) <= MaxReceived
    BY <1>1, <1>2, <1>3, <1>5, <2>1, FeedConstants
  <2> QED BY <2>2, <2>3, <2>4
<1>9. /\ FlashInv(state') /\ state'.flashing \in SUBSET (1..MaxReceived)
      /\ state'.loaded \in BOOLEAN /\ state'.loaded_at \in 0..MaxReceived
  <2> HIDE DEF rows, bold, all, r, m, f
  <2>1. m = Len(state.received) /\ \A j \in 1..m : all[j] = state.received[j]
    BY <1>3 DEF r, m
  <2>2. Flashes(state', m, f, fresh, all, says, flash, over)
    BY <1>1, <1>2, <1>3, <1>7, <2>1, Zenon DEF Flashes
  <2> QED BY <1>1, <2>2, FrameKeepsFlashes
<1>10. /\ rows \in Seq(1..MaxReceived) /\ bold \in SUBSET (1..MaxReceived)
       /\ RowsInv(state')
  <2> DEFINE f2 == [headlines |-> list, flashing |-> (state.flashing \union flash) \ over]
  <2>1. /\ f1.headlines = list /\ f1.flashing = (state.flashing \union flash) \ over
        /\ f2.headlines = list /\ f2.flashing = (state.flashing \union flash) \ over
    BY <1>1 DEF Feeds
  <2>2. /\ rows = [i \in DOMAIN f2.headlines |-> f2.headlines[i].no]
        /\ bold = {i \in DOMAIN f2.headlines :
                     f2.headlines[i].article /\ f2.headlines[i].no \in f2.flashing}
    <3> HIDE DEF f1, f2, list
    <3> QED BY <2>1
  <2>3. f2.headlines \in Seq(Headlines) /\ Len(f2.headlines) <= MaxReceived
    BY <1>8, <2>1, Zenon
  <2> HIDE DEF f1, f2, rows, bold, flash
  <2>4. /\ rows \in Seq(1..MaxReceived) /\ bold \in SUBSET (1..MaxReceived)
        /\ rows = [i \in 1..Len(f2.headlines) |-> f2.headlines[i].no]
        /\ \A i \in bold : /\ i \in 1..Len(f2.headlines)
                           /\ f2.headlines[i].no \in f2.flashing
    BY <2>2, <2>3, RowsRebuilt
  <2>5. /\ state'.headlines = f2.headlines /\ state'.flashing = f2.flashing
        /\ state'.rows = rows /\ state'.bold = bold
    BY <1>7, <2>1
  <2> QED BY <2>4, <2>5, Zenon DEF RowsInv
<1>11. state' \in Feeds
  <2> DEFINE hovered == IF fresh # <<>> /\ state.hovered >= Len(list) THEN -1 ELSE state.hovered
  <2>1. hovered \in -1..(MaxReceived - 1) /\ state.opened \in 0..MaxReceived
    BY <1>1, FeedConstants DEF Feeds
  <2> HIDE DEF hovered
  <2>2. /\ all \in Seq(Headlines) /\ list \in Seq(Headlines)
        /\ (state.flashing \union flash) \ over \in SUBSET (1..MaxReceived)
        /\ (state.loaded \/ says) \in BOOLEAN
        /\ (IF ~state.loaded /\ says THEN m + f ELSE state.loaded_at) \in 0..MaxReceived
    BY <1>3, <1>7, <1>8, <1>9
  <2> HIDE DEF all, list, m, f, flash, rows, bold, f1
  <2>3. state' \in [received : {all}, headlines : {list}, loaded : {state.loaded \/ says},
                    flashing : {(state.flashing \union flash) \ over},
                    hovered : {hovered}, rows : {rows}, bold : {bold}, opened : {state.opened},
                    loaded_at : {IF ~state.loaded /\ says THEN m + f ELSE state.loaded_at}]
    BY <1>6 DEF hovered
  <2> QED BY <1>10, <2>1, <2>2, <2>3 DEF Feeds
<1> QED BY <1>8, <1>9, <1>10, <1>11 DEF FeedInv
\* The mouse moves, or clicks on a row of the list.
LEMMA MouseStep ==
    ASSUME FeedInv, NEW y \in Clicks, Feed!OnMotion(y) \/ Feed!OnClick(y)
    PROVE  FeedInv'
<1> DEFINE row == Feed!RowUnder(y)
           list == state.headlines
<1>1. /\ state \in Feeds /\ list \in Seq(Headlines) /\ Len(list) \in Nat
      /\ Len(list) <= MaxReceived
  <2>1. /\ state \in Feeds /\ Len(state.received) <= MaxReceived
        /\ Len(list) = IF Len(state.received) <= kMaxHeadlines
                       THEN Len(state.received) ELSE kMaxHeadlines
    BY DEF FeedInv, ListInv
  <2>2. list \in Seq(Headlines) /\ state.received \in Seq(Headlines)
    BY <2>1 DEF Feeds
  <2>3. Len(list) \in Nat /\ Len(state.received) \in Nat
    BY <2>2, LenProperties
  <2> QED BY <2>1, <2>2, <2>3, FeedConstants
<1> HIDE DEF row
<1>2. PICK hovered \in -1..(MaxReceived - 1), opened \in 0..MaxReceived :
        state' = [state EXCEPT !.hovered = hovered, !.opened = opened]
  <2>1. row \in 0..(Len(list) - 1) => row \in -1..(MaxReceived - 1)
    BY <1>1, FeedConstants
  <2>2. -1 \in -1..(MaxReceived - 1)
    BY FeedConstants
  <2>3. CASE Feed!OnMotion(y)
    <3> DEFINE h == IF row \in 0..(Len(list) - 1) THEN row ELSE -1
    <3>1. state' = [state EXCEPT !.hovered = h]
      BY <2>3 DEF Feed!OnMotion, row
    <3>2. h \in -1..(MaxReceived - 1) /\ state.opened \in 0..MaxReceived
      BY <1>1, <2>1, <2>2 DEF Feeds
    <3> HIDE DEF h
    <3>3. state' = [state EXCEPT !.hovered = h, !.opened = state.opened]
      BY <1>1, <3>1 DEF Feeds
    <3> QED BY <3>2, <3>3
  <2>4. CASE Feed!OnClick(y)
    <3> DEFINE o == list[row + 1].no
    <3>1. row \in 0..(Len(list) - 1) /\ state' = [state EXCEPT !.opened = o, !.hovered = -1]
      BY <2>4 DEF Feed!OnClick, row
    <3>2. row + 1 \in 1..Len(list)
      BY <1>1, <3>1
    <3>3. list[row + 1] \in Headlines
      BY <1>1, <3>2, ElementOfSeq
    <3>4. o \in 0..MaxReceived
      BY <3>3, FeedConstants DEF Headlines
    <3> HIDE DEF o
    <3>5. state' = [state EXCEPT !.hovered = -1, !.opened = o]
      BY <1>1, <3>1 DEF Feeds
    <3> QED BY <2>2, <3>4, <3>5
  <2> QED BY <2>3, <2>4
<1>3. /\ state' \in Feeds
      /\ state'.received = state.received /\ state'.headlines = state.headlines
      /\ state'.rows = state.rows /\ state'.bold = state.bold
      /\ state'.flashing = state.flashing /\ state'.loaded = state.loaded
      /\ state'.loaded_at = state.loaded_at
  BY <1>1, <1>2 DEF Feeds
<1>4. ListInv(state') /\ RowsInv(state') /\ FlashInv(state')
  BY <1>3, Zenon DEF FeedInv, ListInv, RowsInv, FlashInv
<1> QED BY <1>3, <1>4 DEF FeedInv

LEMMA FeedHolds == Spec => [](subject = "feed" => FeedInv)
<1>1. Init => (subject = "feed" => FeedInv)
  <2> SUFFICES ASSUME Feed!Init PROVE FeedInv
    BY DEF Init
  <2>1. /\ state.received = <<>> /\ state.headlines = <<>> /\ state.rows = <<>>
        /\ state.bold = {} /\ state.flashing = {} /\ state.loaded_at = 0
    BY DEF Feed!Init
  <2>2. state \in Feeds
    <3>1. <<>> \in Seq(Headlines) /\ <<>> \in Seq(1..MaxReceived)
      BY EmptySeq
    <3> QED BY <3>1, FeedConstants DEF Feed!Init, Feeds
  <2>3. Len(<<>>) = 0 /\ <<>> \in Seq(Headlines)
    BY EmptySeq
  <2>4. ListInv(state)
    BY <2>1, <2>3, FeedConstants DEF ListInv, Numbered, NewestOf
  <2>5. RowsInv(state)
    BY <2>1, <2>3 DEF RowsInv
  <2>6. FlashInv(state)
    BY <2>1, <2>3 DEF FlashInv
  <2> QED BY <2>2, <2>4, <2>5, <2>6 DEF FeedInv
<1>2. (subject = "feed" => FeedInv) /\ [Next]_vars => (subject = "feed" => FeedInv)'
  <2>1. ASSUME FeedInv, UNCHANGED state PROVE FeedInv'
    BY <2>1, Zenon DEF FeedInv, ListInv, RowsInv, FlashInv
  <2>2. ASSUME FeedInv, Feed!Next PROVE FeedInv'
    BY <2>2, FrameStep, MouseStep DEF Feed!Next
  <2> QED BY <2>1, <2>2 DEF Next, vars
<1> QED BY <1>1, <1>2, PTL DEF Spec

-----------------------------------------------------------------------------
(* What the invariant says of the feed. *)

\* As many headlines stand before one in the list as there are in front of it.
LEMMA BeforeListed ==
    ASSUME NEW r \in Seq(Headlines), NEW list, NewestOf(list, r, Len(r)),
           Len(list) <= kMaxHeadlines, NEW i \in 1..Len(list)
    PROVE  Cardinality({g \in Feed!Range(r) : Feed!StandsBefore(g, list[i])}) = i - 1
<1> DEFINE S == {g \in Feed!Range(r) : Feed!StandsBefore(g, list[i])}
           T == {list[x] : x \in 1..(i - 1)}
<1>1. /\ list \in Seq(Headlines) /\ Len(list) \in Nat /\ Len(r) \in Nat
      /\ \A x \in 1..Len(list) : list[x] \in Headlines
      /\ \A j \in 1..Len(r) : r[j] \in Headlines
      /\ DOMAIN r = 1..Len(r) /\ kMaxHeadlines \in Nat
  BY LenProperties, ElementOfSeq, FeedConstants DEF NewestOf
<1>2. /\ \A x, y \in 1..Len(list) : x < y => Feed!StandsBefore(list[x], list[y])
      /\ \A x \in 1..Len(list) : \E j \in 1..Len(r) : list[x] = r[j]
      /\ \A j \in 1..Len(r) :
           \/ \E x \in 1..Len(list) : list[x] = r[j]
           \/ /\ Len(list) >= kMaxHeadlines
              /\ \A x \in 1..kMaxHeadlines : Feed!StandsBefore(list[x], r[j])
  BY Zenon DEF NewestOf
<1>3. Feed!Range(r) = {r[j] : j \in 1..Len(r)}
  BY <1>1 DEF Feed!Range
<1>4. \A x \in 1..(i - 1) : x \in 1..Len(list) /\ x < i
  BY <1>1
<1>5. T \subseteq S
  BY <1>2, <1>3, <1>4
<1>6. ASSUME NEW j \in 1..Len(r), Feed!StandsBefore(r[j], list[i]) PROVE r[j] \in T
  <2>1. CASE \E x \in 1..Len(list) : list[x] = r[j]
    <3>1. PICK x \in 1..Len(list) : list[x] = r[j]
      BY <2>1
    <3>2. CASE x < i
      <4>1. x \in 1..(i - 1)
        BY <1>1, <3>2
      <4> QED BY <3>1, <4>1
    <3>3. CASE x = i
      BY <1>1, <1>6, <3>1, <3>3, Before3
    <3>4. CASE i < x
      <4>1. Feed!StandsBefore(list[i], r[j])
        BY <1>2, <3>1, <3>4
      <4> QED BY <1>1, <1>6, <4>1, Before3
    <3> QED BY <1>1, <3>2, <3>3, <3>4
  <2>2. CASE /\ Len(list) >= kMaxHeadlines
             /\ \A x \in 1..kMaxHeadlines : Feed!StandsBefore(list[x], r[j])
    <3>1. i \in 1..kMaxHeadlines
      BY <1>1
    <3>2. Feed!StandsBefore(list[i], r[j])
      BY <2>2, <3>1
    <3> QED BY <1>1, <1>6, <3>2, Before3
  <2> QED BY <1>2, <2>1, <2>2
<1>7. S = T
  BY <1>3, <1>5, <1>6
<1>8. \A x, y \in 1..(i - 1) : x # y => list[x] # list[y]
  <2> SUFFICES ASSUME NEW x \in 1..(i - 1), NEW y \in 1..(i - 1), x < y
               PROVE  list[x] # list[y]
    BY <1>1
  <2>1. Feed!StandsBefore(list[x], list[y])
    BY <1>2, <1>4
  <2> QED BY <1>1, <1>4, <2>1, Before3
<1>9. i - 1 \in Nat
  BY <1>1
<1> HIDE DEF S
<1>10. Cardinality(T) = i - 1
  BY <1>8, <1>9, CountedPrefix
<1> QED BY <1>7, <1>10 DEF S

\* And before one that is not in the list stand all that are kept.
LEMMA BeforeCut ==
    ASSUME NEW r \in Seq(Headlines), NEW list, NewestOf(list, r, Len(r)),
           NEW j \in 1..Len(r), \A i \in 1..Len(list) : list[i] # r[j]
    PROVE  /\ Cardinality({g \in Feed!Range(r) : Feed!StandsBefore(g, r[j])}) \in Nat
           /\ Cardinality({g \in Feed!Range(r) : Feed!StandsBefore(g, r[j])}) >= kMaxHeadlines
<1> DEFINE S == {g \in Feed!Range(r) : Feed!StandsBefore(g, r[j])}
           T == {list[x] : x \in 1..kMaxHeadlines}
<1>1. /\ list \in Seq(Headlines) /\ Len(list) \in Nat /\ Len(r) \in Nat
      /\ \A x \in 1..Len(list) : list[x] \in Headlines
      /\ DOMAIN r = 1..Len(r) /\ kMaxHeadlines \in Nat
  BY LenProperties, ElementOfSeq, FeedConstants DEF NewestOf
<1>2. /\ \A x, y \in 1..Len(list) : x < y => Feed!StandsBefore(list[x], list[y])
      /\ \A x \in 1..Len(list) : \E k \in 1..Len(r) : list[x] = r[k]
      /\ Len(list) >= kMaxHeadlines
      /\ \A x \in 1..kMaxHeadlines : Feed!StandsBefore(list[x], r[j])
  BY Zenon DEF NewestOf
<1>3. Feed!Range(r) = {r[k] : k \in 1..Len(r)}
  BY <1>1 DEF Feed!Range
<1>4. \A x \in 1..kMaxHeadlines : x \in 1..Len(list)
  BY <1>1, <1>2
<1>5. T \subseteq S
  BY <1>2, <1>3, <1>4
<1>6. \A x, y \in 1..kMaxHeadlines : x # y => list[x] # list[y]
  <2> SUFFICES ASSUME NEW x \in 1..kMaxHeadlines, NEW y \in 1..kMaxHeadlines, x < y
               PROVE  list[x] # list[y]
    BY <1>1
  <2>1. Feed!StandsBefore(list[x], list[y])
    BY <1>2, <1>4
  <2> QED BY <1>1, <1>4, <2>1, Before3
<1>7. IsFiniteSet(T) /\ Cardinality(T) = kMaxHeadlines
  BY <1>1, <1>6, CountedPrefix
<1>8. IsFiniteSet(Feed!Range(r))
  <2>1. IsFiniteSet(1..Len(r))
    BY <1>1, FS_Interval
  <2>2. r \in Surjection(1..Len(r), Feed!Range(r))
    <3>1. r \in [1..Len(r) -> Feed!Range(r)]
      BY <1>1, <1>3, SeqDef
    <3> QED BY <1>3, <3>1 DEF Surjection
  <2> QED BY <2>1, <2>2, FS_Surjection
<1>9. IsFiniteSet(S)
  BY <1>8, FS_Subset
<1> HIDE DEF S, T
<1>10. Cardinality(S) \in Nat /\ Cardinality(T) <= Cardinality(S)
  BY <1>5, <1>9, FS_Subset, FS_CardinalityType
<1> QED BY <1>7, <1>10 DEF S
LEMMA NewestFirst == FeedInv => Feed!FeedIsNewest
<1> SUFFICES ASSUME FeedInv PROVE Feed!FeedIsNewest
  OBVIOUS
<1> DEFINE r == state.received
           list == state.headlines
           Prior(h) == {g \in Feed!Range(r) : Feed!StandsBefore(g, h)}
           N == Feed!Min({Len(r), kMaxHeadlines})
<1>1. /\ r \in Seq(Headlines) /\ NewestOf(list, r, Len(r)) /\ list \in Seq(Headlines)
      /\ Len(list) = IF Len(r) <= kMaxHeadlines THEN Len(r) ELSE kMaxHeadlines
  BY DEF FeedInv, ListInv, Feeds
<1>2. Len(r) \in Nat /\ kMaxHeadlines \in Nat /\ DOMAIN r = 1..Len(r) /\ Len(list) \in Nat
  BY <1>1, LenProperties, FeedConstants
<1>3. N = Len(list)
  BY <1>1, <1>2, LesserOfTwo
<1>4. ASSUME NEW h \in Feed!Range(r), 1 + Feed!Cardinality(Prior(h)) <= Len(list)
      PROVE  list[1 + Feed!Cardinality(Prior(h))] = h
  <2>1. PICK j \in 1..Len(r) : r[j] = h
    BY <1>2 DEF Feed!Range
  <2>2. Feed!Cardinality(Prior(h)) = Cardinality(Prior(h))
    BY SameCount
  <2>3. CASE \E i \in 1..Len(list) : list[i] = h
    <3>1. PICK i \in 1..Len(list) : list[i] = h
      BY <2>3
    <3>2. Len(list) <= kMaxHeadlines
      BY <1>1, <1>2
    <3>3. Cardinality(Prior(list[i])) = i - 1
      BY <1>1, <3>2, BeforeListed
    <3> HIDE DEF Prior, list
    <3>4. 1 + Cardinality(Prior(h)) = i
      BY <1>2, <3>1, <3>3
    <3> QED BY <2>2, <3>1, <3>4
  <2>4. CASE \A i \in 1..Len(list) : list[i] # h
    <3>1. Cardinality(Prior(r[j])) \in Nat /\ Cardinality(Prior(r[j])) >= kMaxHeadlines
      BY <1>1, <2>1, <2>4, BeforeCut
    <3>2. Len(list) <= kMaxHeadlines
      BY <1>1, <1>2
    <3> HIDE DEF Prior, list
    <3> QED BY <1>2, <1>4, <2>1, <2>2, <3>1, <3>2
  <2> QED BY <2>3, <2>4
<1> QED BY <1>1, <1>3, <1>4 DEF Feed!FeedIsNewest

LEMMA FlashesAreNews == FeedInv => Feed!OnlyNewsFlash
<1> SUFFICES ASSUME FeedInv, NEW i \in state.bold
             PROVE  LET h == state.headlines[i]
                    IN  state.loaded /\ h.no > state.loaded_at /\ h.article /\ h.live
  BY DEF Feed!OnlyNewsFlash
<1> DEFINE h == state.headlines[i]
<1>1. i \in 1..Len(state.headlines) /\ h.no \in state.flashing
  BY DEF FeedInv, RowsInv
<1>2. PICK j \in 1..Len(state.received) : h = state.received[j]
  BY <1>1 DEF FeedInv, ListInv, NewestOf
<1>3. h.no = j
  BY <1>2 DEF FeedInv, ListInv, Numbered
<1>4. /\ state.loaded /\ state.loaded_at < h.no
      /\ state.received[h.no].article /\ state.received[h.no].live
  BY <1>1 DEF FeedInv, FlashInv
<1>5. state.loaded_at \in Int /\ j \in Int
  BY DEF FeedInv, Feeds
<1> QED BY <1>2, <1>3, <1>4, <1>5

\* A click on a row: the pixel is one of its own, and its headline is opened.
LEMMA ClickHits ==
    ASSUME FeedInv, NEW y \in Clicks, Feed!OnClick(y)
    PROVE  LET row == Feed!kBarReservedRows + Feed!kFeedHeaderRows
           IN  \E i \in DOMAIN state.rows :
                 /\ y \in ((row + i - 1) * CellHeight)..((row + i) * CellHeight - 1)
                 /\ state'.opened = state.rows[i]
<1> DEFINE row == Feed!RowUnder(y)
           list == state.headlines
           i == row + 1
<1>1. /\ row \in 0..(Len(list) - 1)
      /\ state' = [state EXCEPT !.opened = list[row + 1].no, !.hovered = -1]
  BY DEF Feed!OnClick
<1>2. state \in Feeds /\ Len(list) \in Nat
  <2>1. state \in Feeds /\ list \in Seq(Headlines)
    BY DEF FeedInv, Feeds
  <2> QED BY <2>1, LenProperties
<1>3. state'.opened = list[i].no
  BY <1>1, <1>2 DEF Feeds
<1>4. row \in Nat /\ i \in 1..Len(list)
  BY <1>1, <1>2
<1>5. y \in ((row + 4) * CellHeight)..((row + 5) * CellHeight - 1)
  BY <1>4, RowOfPixel, FeedConstants
<1>6. state.rows = [x \in 1..Len(list) |-> list[x].no]
  BY DEF FeedInv, RowsInv
<1>7. i \in DOMAIN state.rows /\ state'.opened = state.rows[i]
  BY <1>3, <1>4, <1>6
<1>8. /\ Feed!kBarReservedRows + Feed!kFeedHeaderRows = 4
      /\ 4 + i - 1 = row + 4 /\ 4 + i = row + 5
  BY <1>4 DEF Feed!kBarReservedRows, Feed!kFeedHeaderRows
<1> HIDE DEF row, i
<1> QED BY <1>5, <1>7, <1>8

\* However headlines come in, in batches of any size and with any timestamps,
\* the feed lists the newest of all those ever received, newest first; only what
\* came after the historical batch flashes; and a click opens the headline drawn
\* under it (news_screen.cc).
THEOREM FeedStaysRight == Spec => FeedIsRight
<1>1. FeedInv => Feed!FeedIsRight
  <2>1. FeedInv => Feed!TypeOK
    BY DEF FeedInv, Feeds, Headlines, Feed!TypeOK, Feed!Headline
  <2> QED BY <2>1, NewestFirst, FlashesAreNews DEF Feed!FeedIsRight
<1>2. FeedInv => Feed!ClickOpensWhatIsDrawn
  BY ClickHits DEF Feed!ClickOpensWhatIsDrawn
<1>3. (subject = "feed" => FeedInv) => (subject = "feed" => Feed!FeedIsRight)
  BY <1>1
<1>4. (subject = "feed" => FeedInv) /\ [Next]_vars
      => [subject = "feed" => Feed!ClickOpensWhatIsDrawn]_vars
  BY <1>2
<1> QED BY <1>3, <1>4, FeedHolds, PTL DEF Spec, FeedIsRight

-----------------------------------------------------------------------------
(***************************************************************************)
(* The filter of the log: every specification and every category.  After i *)
(* items the filter holds the last level said of all and, for every        *)
(* category named, what was said of it last; of the names that match a     *)
(* category no two of the same length differ.                              *)
(***************************************************************************)

LogNames == Seq(STRING)
Items == (LogNames \union {Every}) \X (0..4 \union {Unknown})

\* FilterIsAsSaid's terms, each for a specification of its own.
SaidOfAll(spec, i) == {j \in 1..i : spec[j][1] = Every /\ spec[j][2] # Unknown}
Upto(spec, i) == {spec[j][2] : j \in {k \in 1..i : spec[k][1] = Every}} \ {Unknown}
DefaultAt(spec, i) ==
    IF Upto(spec, i) = {} THEN Ring!kInfo ELSE spec[Ring!Max(SaidOfAll(spec, i))][2]
LevelOf(spec, i) == IF spec[i][2] = Unknown THEN DefaultAt(spec, i) ELSE spec[i][2]
Tails(c) == {<<>>} \union {SubSeq(c, i, Len(c)) : i \in {j \in DOMAIN c : c[j] = "."}}
Covers(name, c) == name = <<>> \/ \E tail \in Tails(c) : name \o tail = c
Above(spec, c) == {i \in DOMAIN spec : spec[i][1] # Every /\ Covers(spec[i][1], c)}
Nearest(spec, c) ==
    {i \in Above(spec, c) : \A j \in Above(spec, c) : Len(spec[j][1]) <= Len(spec[i][1])}

\* The items that are the last to name their category, up to item i.
LastNamed(spec, i) ==
    {j \in 1..i : spec[j][1] # Every /\ \A k \in 1..i : k > j => spec[k][1] # spec[j][1]}
Said(spec, i) ==
    [default |-> DefaultAt(spec, i),
     per_category |-> {<<spec[j][1], LevelOf(spec, j)>> : j \in LastNamed(spec, i)}]

Parsing == INSTANCE DeskLemmas WITH Op <- Ring!ParseItem

LEMMA LogConstants ==
    /\ Categories \subseteq LogNames /\ Specs \subseteq Seq(Items)
    /\ Unknown \notin 0..4
BY DeskAssumption DEF Ring!LogAssumption, LogNames, Items

LEMMA RingMax ==
    ASSUME NEW S, NEW m \in S, S \subseteq Int, \A x \in S : x <= m
    PROVE  Ring!Max(S) = m
<1>1. \A x \in S : (\A y \in S : x >= y) <=> x = m
  OBVIOUS
<1> QED BY <1>1 DEF Ring!Max

LEMMA RingMaxIn ==
    ASSUME NEW n \in Nat, NEW S \in SUBSET (1..n), S # {}
    PROVE  Ring!Max(S) \in S /\ \A x \in S : x <= Ring!Max(S)
<1>1. \A T \in SUBSET (1..n) :
        T # {} => Max(T) \in T /\ \A x \in T : x <= Max(T)
  BY MaxExists
<1>2. Max(S) = Ring!Max(S)
  BY DEF Max, Ring!Max
<1> QED BY <1>1, <1>2

\* The default after one more item.
LEMMA NextDefault ==
    ASSUME NEW spec, NEW i \in Nat, i >= 1
    PROVE  DefaultAt(spec, i) =
             IF spec[i][1] = Every /\ spec[i][2] # Unknown THEN spec[i][2]
             ELSE DefaultAt(spec, i - 1)
<1>1. \A j \in 1..i : j = i \/ j \in 1..(i - 1)
  OBVIOUS
<1>2. \A j \in 1..(i - 1) : j \in 1..i /\ j # i
  OBVIOUS
<1>3. i \in 1..i
  OBVIOUS
<1>4. CASE spec[i][1] = Every /\ spec[i][2] # Unknown
  <2>1. spec[i][2] \in Upto(spec, i)
    BY <1>3, <1>4 DEF Upto
  <2>2. Ring!Max(SaidOfAll(spec, i)) = i
    <3>1. i \in SaidOfAll(spec, i) /\ SaidOfAll(spec, i) \subseteq Int
          /\ \A x \in SaidOfAll(spec, i) : x <= i
      BY <1>3, <1>4 DEF SaidOfAll
    <3> QED BY <3>1, RingMax
  <2> QED BY <1>4, <2>1, <2>2 DEF DefaultAt
<1>5. CASE ~(spec[i][1] = Every /\ spec[i][2] # Unknown)
  <2>1. Upto(spec, i) = Upto(spec, i - 1)
    BY <1>1, <1>2, <1>5 DEF Upto
  <2>2. SaidOfAll(spec, i) = SaidOfAll(spec, i - 1)
    BY <1>1, <1>2, <1>5 DEF SaidOfAll
  <2> QED BY <1>5, <2>1, <2>2 DEF DefaultAt
<1> QED BY <1>4, <1>5

\* One turn of ParseFilter()'s loop.
LEMMA ParsedItem ==
    ASSUME NEW spec, NEW i \in Nat, i >= 1
    PROVE  Said(spec, i) = Ring!ParseItem(Said(spec, i - 1), spec[i])
<1> DEFINE f == Said(spec, i - 1)
           g == Said(spec, i)
           level == IF spec[i][2] = Unknown THEN f.default ELSE spec[i][2]
           pair(j) == <<spec[j][1], LevelOf(spec, j)>>
<1>1. /\ f = [default |-> f.default, per_category |-> f.per_category]
      /\ f.default = DefaultAt(spec, i - 1)
      /\ f.per_category = {pair(j) : j \in LastNamed(spec, i - 1)}
      /\ g = [default |-> g.default, per_category |-> g.per_category]
      /\ g.default = DefaultAt(spec, i)
      /\ g.per_category = {pair(j) : j \in LastNamed(spec, i)}
  BY DEF Said
<1>2. \A j \in 1..i : j = i \/ j \in 1..(i - 1)
  OBVIOUS
<1>3. \A j \in 1..(i - 1) : j \in 1..i /\ j # i /\ i > j
  OBVIOUS
<1>4. i \in 1..i /\ \A k \in 1..i : ~(k > i)
  OBVIOUS
<1>5. CASE spec[i][1] = Every
  <2>1. DefaultAt(spec, i) = level
    BY <1>1, <1>5, NextDefault
  <2>2. LastNamed(spec, i) = LastNamed(spec, i - 1)
    <3>1. \A j \in LastNamed(spec, i) : j \in LastNamed(spec, i - 1)
      BY <1>2, <1>3, <1>5 DEF LastNamed
    <3>2. \A j \in LastNamed(spec, i - 1) : j \in LastNamed(spec, i)
      BY <1>2, <1>3, <1>5 DEF LastNamed
    <3> QED BY <3>1, <3>2
  <2>3. Ring!ParseItem(f, spec[i]) = [f EXCEPT !.default = level]
    BY <1>5 DEF Ring!ParseItem
  <2> HIDE DEF f, g, level, pair
  <2> QED BY <1>1, <2>1, <2>2, <2>3 DEF f, g
<1>6. CASE spec[i][1] # Every
  <2>1. DefaultAt(spec, i) = DefaultAt(spec, i - 1)
    BY <1>6, NextDefault
  <2>2. LevelOf(spec, i) = level
    BY <1>1, <2>1 DEF LevelOf
  <2>3. LastNamed(spec, i) =
          {j \in LastNamed(spec, i - 1) : spec[j][1] # spec[i][1]} \union {i}
    <3>1. i \in LastNamed(spec, i)
      BY <1>4, <1>6 DEF LastNamed
    <3>2. ASSUME NEW j \in LastNamed(spec, i), j # i
          PROVE  j \in LastNamed(spec, i - 1) /\ spec[j][1] # spec[i][1]
      BY <1>2, <1>3, <1>4, <3>2 DEF LastNamed
    <3>3. ASSUME NEW j \in LastNamed(spec, i - 1), spec[j][1] # spec[i][1]
          PROVE  j \in LastNamed(spec, i)
      BY <1>2, <1>3, <3>3 DEF LastNamed
    <3> QED BY <3>1, <3>2, <3>3
  <2>4. Ring!ParseItem(f, spec[i]) =
          [f EXCEPT !.per_category =
              {h \in f.per_category : h[1] # spec[i][1]} \union {<<spec[i][1], level>>}]
    BY <1>6 DEF Ring!ParseItem
  <2>5. {h \in f.per_category : h[1] # spec[i][1]} =
          {pair(j) : j \in {k \in LastNamed(spec, i - 1) : spec[k][1] # spec[i][1]}}
    <3>1. \A j : pair(j)[1] = spec[j][1]
      OBVIOUS
    <3> HIDE DEF pair, f
    <3> QED BY <1>1, <3>1
  <2>6. <<spec[i][1], level>> = pair(i)
    BY <2>2
  <2> HIDE DEF f, g, level, pair
  <2>7. g.per_category = {h \in f.per_category : h[1] # spec[i][1]} \union {pair(i)}
    BY <1>1, <2>3, <2>5
  <2> QED BY <1>1, <2>1, <2>4, <2>6, <2>7 DEF f, g
<1> QED BY <1>5, <1>6

LEMMA ParsedIsSaid ==
    ASSUME NEW spec \in Seq(Items)
    PROVE  Ring!ParseFilter(spec) = Said(spec, Len(spec))
<1> DEFINE n == Len(spec)
           v == [i \in 0..n |-> Said(spec, i)]
<1>1. n \in Nat /\ DOMAIN spec = 1..n
  BY LenProperties
<1>2. v[0] = Ring!NoFilter
  <2>1. Upto(spec, 0) = {} /\ LastNamed(spec, 0) = {}
    BY DEF Upto, LastNamed
  <2>2. Said(spec, 0) = Ring!NoFilter
    BY <2>1 DEF Said, DefaultAt, Ring!NoFilter
  <2> QED BY <1>1, <2>2
<1>3. ASSUME NEW k \in 1..n PROVE v[k] = Ring!ParseItem(v[k - 1], spec[k])
  <2>1. k \in Nat /\ k >= 1 /\ k \in 0..n /\ k - 1 \in 0..n
    BY <1>1
  <2>2. v[k] = Said(spec, k) /\ v[k - 1] = Said(spec, k - 1)
    BY <2>1
  <2> QED BY <2>1, <2>2, ParsedItem
<1>4. v[n] = Said(spec, n)
  BY <1>1
<1> HIDE DEF v, n
<1>5. Parsing!Fold(Ring!NoFilter, spec) = v[n]
  <2>1. Parsing!Trace(v, Ring!NoFilter, spec, n)
    BY <1>2, <1>3 DEF Parsing!Trace
  <2> QED BY <1>1, <2>1, Parsing!FoldOfTrace
<1>6. Ring!ParseFilter(spec) = Parsing!Fold(Ring!NoFilter, spec)
  BY DEF Ring!ParseFilter, Ring!FoldLeft, Ring!MapThenFoldSet, Parsing!Fold,
         Parsing!MapThenFoldSet, Parsing!Max, Ring!Max
<1> QED BY <1>4, <1>5, <1>6 DEF n

\* MatchesPrefix() in other words, and what matches a category is part of it.
LEMMA PrefixCovers ==
    ASSUME NEW c \in LogNames, NEW name \in LogNames
    PROVE  /\ Ring!MatchesPrefix(c, name) <=> Covers(name, c)
           /\ Covers(name, c) => Len(name) <= Len(c) /\ name = SubSeq(c, 1, Len(name))
<1> DEFINE n == Len(name)
           m == Len(c)
<1>1. n \in Nat /\ m \in Nat /\ DOMAIN c = 1..m
  BY LenProperties DEF LogNames
<1>2. c \in Seq(STRING) /\ name \in Seq(STRING)
  BY DEF LogNames
<1>3. ASSUME Covers(name, c)
      PROVE  /\ n <= m /\ name = SubSeq(c, 1, n)
             /\ \/ name = <<>> \/ c = name
                \/ m > n /\ c[n + 1] = "."
  <2>1. CASE name = <<>>
    <3>1. SubSeq(c, 1, 0) = <<>> /\ n = 0
      BY <1>1, <1>2, <2>1, SubSeqProperties, EmptySeq
    <3> QED BY <1>1, <2>1, <3>1
  <2>2. CASE name # <<>>
    <3>1. PICK tail \in Tails(c) : name \o tail = c
      BY <1>3, <2>2 DEF Covers
    <3>2. CASE tail = <<>>
      <4>1. name = c
        BY <1>2, <3>1, <3>2, ConcatEmptySeq
      <4>2. SubSeq(c, 1, m) = c
        BY <1>2, SubSeqFull
      <4> QED BY <1>1, <4>1, <4>2
    <3>3. CASE tail # <<>>
      <4>1. PICK i \in 1..m : tail = SubSeq(c, i, m) /\ c[i] = "."
        BY <1>1, <3>1, <3>3 DEF Tails
      <4>2. tail \in Seq(STRING) /\ Len(tail) = m - i + 1
        BY <1>1, <1>2, <4>1, Stretch
      <4>3. m = n + Len(tail) /\ JoinOf(c, name, tail)
        <5>1. JoinOf(name \o tail, name, tail)
          BY <1>2, <4>2, Joined
        <5> QED BY <3>1, <5>1 DEF JoinOf
      <4>4. n + 1 = i /\ m > n
        BY <1>1, <4>2, <4>3
      <4>5. Agree(name, 1, n, c, 1, n)
        BY <1>1, <4>3 DEF Agree, JoinOf
      <4>6. SubSeq(name, 1, n) = SubSeq(c, 1, n)
        BY <1>1, <1>2, <4>5, SameStretch
      <4>7. SubSeq(name, 1, n) = name
        BY <1>2, SubSeqFull
      <4> QED BY <1>1, <4>1, <4>4, <4>6, <4>7
    <3> QED BY <3>2, <3>3
  <2> QED BY <2>1, <2>2
<1>4. ASSUME Covers(name, c) PROVE Ring!MatchesPrefix(c, name)
  <2>1. SubSeq(name, 1, n) = name
    BY <1>2, SubSeqFull
  <2>2. Ring!IsPrefix(name, c)
    BY <1>3, <1>4, <2>1 DEF Ring!IsPrefix
  <2> QED BY <1>3, <1>4, <2>2 DEF Ring!MatchesPrefix
<1>5. ASSUME Ring!MatchesPrefix(c, name) PROVE Covers(name, c)
  <2>1. CASE name = <<>>
    BY <2>1 DEF Covers
  <2>2. CASE c = name
    <3>1. name \o <<>> = c
      BY <1>2, <2>2, ConcatEmptySeq
    <3> QED BY <3>1 DEF Covers, Tails
  <2>3. CASE m > n /\ Ring!IsPrefix(name, c) /\ c[n + 1] = "."
    <3> DEFINE tail == SubSeq(c, n + 1, m)
    <3>1. n + 1 \in 1..m
      BY <1>1, <2>3
    <3>2. tail \in Tails(c)
      BY <1>1, <2>3, <3>1 DEF Tails
    <3>3. tail \in Seq(STRING) /\ Len(tail) = m - n
          /\ \A i \in 1..(m - n) : tail[i] = c[n + i]
      BY <1>1, <1>2, <3>1, Stretch
    <3>4. \A i \in 1..n : name[i] = c[i]
      <4>1. SubSeq(name, 1, n) = SubSeq(c, 1, n)
        BY <2>3 DEF Ring!IsPrefix
      <4>2. SubSeq(name, 1, n) = name
        BY <1>2, SubSeqFull
      <4>3. \A i \in 1..(n - 1 + 1) : SubSeq(c, 1, n)[i] = c[1 + i - 1]
        BY <1>1, <1>2, <2>3, Stretch
      <4> QED BY <1>1, <4>1, <4>2, <4>3
    <3> HIDE DEF tail
    <3> DEFINE d == name \o tail
    <3>5. d \in Seq(STRING) /\ JoinOf(d, name, tail)
      BY <1>2, <3>3, Joined
    <3> HIDE DEF d
    <3>6. Len(d) = m
      BY <1>1, <3>3, <3>5 DEF JoinOf
    <3>7. ASSUME NEW i \in 1..m PROVE d[i] = c[i]
      <4>1. CASE i <= n
        <5>1. i \in 1..n
          BY <1>1, <4>1
        <5> QED BY <3>4, <3>5, <5>1 DEF JoinOf
      <4>2. CASE ~(i <= n)
        <5>1. PICK j \in 1..(m - n) : i = n + j
          <6>1. i - n \in 1..(m - n) /\ i = n + (i - n)
            BY <1>1, <4>2
          <6> QED BY <6>1
        <5> QED BY <3>3, <3>5, <5>1 DEF JoinOf
      <4> QED BY <4>1, <4>2
    <3>8. d = c
      BY <1>2, <3>5, <3>6, <3>7, SeqEqual
    <3> QED BY <3>2, <3>8 DEF Covers, d
  <2> QED BY <1>5, <2>1, <2>2, <2>3 DEF Ring!MatchesPrefix
<1> QED BY <1>3, <1>4, <1>5

\* Of the names that cover a category, the longest and the last: that is the one
\* whose level EffectiveLevel() finds.
LEMMA NearestSaid ==
    ASSUME NEW spec \in Seq(Items), NEW c \in LogNames
    PROVE  Ring!EffectiveLevel(Said(spec, Len(spec)), c) =
             IF Nearest(spec, c) = {} THEN DefaultAt(spec, Len(spec))
             ELSE LevelOf(spec, Ring!Max(Nearest(spec, c)))
<1> DEFINE n == Len(spec)
           f == Said(spec, n)
           pair(j) == <<spec[j][1], LevelOf(spec, j)>>
           matches == {g \in f.per_category : Ring!MatchesPrefix(c, g[1])}
           size(j) == Len(spec[j][1])
<1>1. /\ n \in Nat /\ DOMAIN spec = 1..n
      /\ \A j \in 1..n : spec[j] \in Items
  BY LenProperties, ElementOfSeq
<1>2. ASSUME NEW j \in 1..n, spec[j][1] # Every PROVE spec[j][1] \in LogNames
  BY <1>1, <1>2 DEF Items
<1>3. f.default = DefaultAt(spec, n) /\ f.per_category = {pair(j) : j \in LastNamed(spec, n)}
  BY DEF Said
<1>4. \A j \in Above(spec, c) : j \in 1..n /\ spec[j][1] # Every /\ Covers(spec[j][1], c)
  BY <1>1 DEF Above
<1>5. ASSUME NEW j \in Above(spec, c)
      PROVE  /\ size(j) \in Nat /\ size(j) <= Len(c) /\ spec[j][1] = SubSeq(c, 1, size(j))
             /\ spec[j][1] \in LogNames
  <2>1. spec[j][1] \in LogNames /\ Covers(spec[j][1], c)
    BY <1>2, <1>4
  <2>2. size(j) \in Nat
    BY <2>1, LenProperties DEF LogNames
  <2> QED BY <2>1, <2>2, PrefixCovers
<1>6. matches = {pair(j) : j \in LastNamed(spec, n) \intersect Above(spec, c)}
  <2>1. \A j \in LastNamed(spec, n) : j \in 1..n /\ spec[j][1] # Every
    BY DEF LastNamed
  <2>2. ASSUME NEW j \in LastNamed(spec, n)
        PROVE  Ring!MatchesPrefix(c, spec[j][1]) <=> j \in Above(spec, c)
    <3>1. spec[j][1] \in LogNames
      BY <1>2, <2>1
    <3> QED BY <1>1, <2>1, <3>1, PrefixCovers DEF Above
  <2>3. \A j : pair(j)[1] = spec[j][1]
    OBVIOUS
  <2> HIDE DEF f, pair
  <2> QED BY <1>3, <2>2, <2>3
<1>7. CASE Above(spec, c) = {}
  <2>1. Nearest(spec, c) = {}
    BY <1>7 DEF Nearest
  <2>2. matches = {}
    BY <1>6, <1>7
  <2> QED BY <1>3, <2>1, <2>2 DEF Ring!EffectiveLevel
<1>8. CASE Above(spec, c) # {}
  <2>1. PICK longest \in Above(spec, c) : \A j \in Above(spec, c) : size(j) <= size(longest)
    <3> DEFINE short(j) == Len(c) - size(j)
               shorts == {short(j) : j \in Above(spec, c)}
    <3>1. Len(c) \in Nat
      BY LenProperties DEF LogNames
    <3>2. \A j \in Above(spec, c) : short(j) \in Nat
      BY <1>5, <3>1
    <3>3. shorts \subseteq Nat /\ shorts # {}
      BY <1>8, <3>2
    <3>4. PICK least \in shorts : \A x \in shorts : ~(x < least)
      <4> HIDE DEF shorts
      <4> QED BY <3>3, LeastNat
    <3>5. PICK l \in Above(spec, c) : least = short(l)
      BY <3>4
    <3>6. ASSUME NEW j \in Above(spec, c) PROVE size(j) <= size(l)
      <4>1. ~(short(j) < short(l))
        BY <3>4, <3>5
      <4>2. size(j) \in Nat /\ size(l) \in Nat /\ ~(Len(c) - size(j) < Len(c) - size(l))
        BY <1>5, <4>1
      <4> HIDE DEF size
      <4> QED BY <3>1, <4>2
    <3> QED BY <3>6
  <2>2. longest \in Nearest(spec, c) /\ Nearest(spec, c) # {}
    BY <2>1 DEF Nearest
  <2> DEFINE p == Ring!Max(Nearest(spec, c))
  <2>3. p \in Nearest(spec, c) /\ \A x \in Nearest(spec, c) : x <= p
    <3>1. Nearest(spec, c) \in SUBSET (1..n)
      BY <1>4 DEF Nearest
    <3> QED BY <1>1, <2>2, <3>1, RingMaxIn
  <2> HIDE DEF p
  <2>4. p \in Above(spec, c) /\ \A j \in Above(spec, c) : size(j) <= size(p)
    BY <2>3 DEF Nearest
  <2>5. p \in LastNamed(spec, n)
    <3>1. ASSUME NEW k \in 1..n, k > p, spec[k][1] = spec[p][1] PROVE FALSE
      <4>1. k \in Above(spec, c)
        BY <1>1, <1>4, <2>4, <3>1 DEF Above
      <4>2. k \in Nearest(spec, c)
        BY <2>4, <3>1, <4>1 DEF Nearest
      <4> QED BY <1>1, <1>4, <2>3, <2>4, <3>1, <4>2
    <3> QED BY <1>4, <2>4, <3>1 DEF LastNamed
  <2>6. ASSUME NEW j \in LastNamed(spec, n) \intersect Above(spec, c), size(j) = size(p)
        PROVE  pair(j) = pair(p)
    <3>1. spec[j][1] = spec[p][1]
      <4>1. /\ spec[j][1] = SubSeq(c, 1, size(j))
            /\ spec[p][1] = SubSeq(c, 1, size(p))
        BY <1>5, <2>4
      <4> HIDE DEF size
      <4> QED BY <2>6, <4>1
    <3>2. j = p
      BY <1>1, <1>4, <2>4, <2>5, <2>6, <3>1 DEF LastNamed
    <3> QED BY <3>2
  <2> DEFINE g == CHOOSE g \in matches : \A h \in matches : Len(h[1]) <= Len(g[1])
  <2>7. g = pair(p)
    <3>1. \A j : pair(j)[1] = spec[j][1]
      OBVIOUS
    <3> HIDE DEF matches, pair
    <3>2. pair(p) \in matches /\ \A h \in matches : Len(h[1]) <= Len(pair(p)[1])
      BY <1>6, <2>4, <2>5, <3>1
    <3>3. g \in matches /\ \A h \in matches : Len(h[1]) <= Len(g[1])
      BY <3>2
    <3>4. PICK j \in LastNamed(spec, n) \intersect Above(spec, c) : g = pair(j)
      BY <1>6, <3>3
    <3>5. size(j) = size(p)
      <4>1. size(j) <= size(p)
        BY <2>4
      <4>2. size(p) <= size(j)
        BY <3>1, <3>2, <3>3, <3>4
      <4> QED BY <1>5, <2>4, <4>1, <4>2
    <3> QED BY <2>6, <3>4, <3>5
  <2>8. Ring!EffectiveLevel(f, c) = pair(p)[2]
    <3>1. matches # {}
      BY <1>6, <2>4, <2>5
    <3>2. Ring!EffectiveLevel(f, c) = g[2]
      BY <3>1 DEF Ring!EffectiveLevel
    <3> HIDE DEF g
    <3> QED BY <2>7, <3>2
  <2>9. Ring!EffectiveLevel(f, c) = LevelOf(spec, p)
    BY <2>8
  <2> QED BY <2>2, <2>9 DEF p
<1> QED BY <1>7, <1>8

LEMMA FilterIs == LogInv => Ring!FilterIsAsSaid
<1> SUFFICES ASSUME LogInv, NEW c \in Categories
             PROVE  Ring!EffectiveLevel(Ring!ParseFilter(state.spec), c) =
                      IF Nearest(state.spec, c) = {}
                      THEN DefaultAt(state.spec, Len(state.spec))
                      ELSE LevelOf(state.spec, Ring!Max(Nearest(state.spec, c)))
  BY DEF Ring!FilterIsAsSaid, Nearest, DefaultAt, LevelOf, Above, Covers, Tails, Upto,
         SaidOfAll
<1>1. state.spec \in Seq(Items) /\ c \in LogNames
  BY LogConstants, EmptySeq DEF LogInv, Logs
<1> QED BY <1>1, ParsedIsSaid, NearestSaid

LEMMA LogIsRight == LogInv => Ring!LogIsRight
BY RecentAreLast, DebugShows, FilterIs DEF Ring!LogIsRight, LogInv, RingInv

\* The ring of the log shows the last entries in their order and the debug screen
\* the newest of them, the filter does what its text says, and the frame times
\* are those of the last frames, for every capacity, window, and filter.
THEOREM RecentStayNewest == Spec => []RecentAreNewest
<1>1. (subject = "log" => LogInv) /\ (subject = "frames" => FrameInv) => RecentAreNewest
  BY LogIsRight, TimesRecent DEF RecentAreNewest
<1> QED BY <1>1, RingHolds, FramesHold, PTL

================================================================================
