------------------------------- MODULE LogRing --------------------------------
(* log.cc: the filter by category and the ring of recent entries, and the    *)
(* tail of it that debug_screen.cc shows.  An entry is its number; text,     *)
(* timestamps and the file are left out.  Each operation holds the mutex.    *)
EXTENDS Naturals, Integers, SequencesExt

CONSTANTS
    Capacity,       \* ring_capacity (512)
    MaxTail,        \* kMaxLogTail (80)
    Categories,     \* sequences of characters, with "." between their parts
    Specs,          \* what DLTERM_LOG may say: sequences of pairs of a category,
                    \* or Every for a level alone, and a level, or Unknown
    Every, Unknown,
    MaxEntries      \* bound: entries logged between two Shutdown()s

\* What is assumed of the constants.
LogAssumption ==
    /\ Capacity \in Nat \ {0} /\ MaxTail \in Nat /\ MaxEntries \in Nat
    /\ Every \notin Categories /\ Unknown \notin 0..4
    /\ Categories \subseteq Seq(STRING)
    /\ Specs \subseteq Seq((Seq(STRING) \union {Every}) \X (0..4 \union {Unknown}))

kTrace == 0
kInfo == 2
kError == 4

VARIABLE log    \* ring, ring_head, ring_full, and the text its filter was parsed
                \* from; all entries taken in

NewLog == [ring |-> <<>>, head |-> 0, full |-> FALSE, spec |-> <<>>, taken |-> <<>>]
Init == log = NewLog

TypeOK ==
    /\ log.ring \in Seq(1..MaxEntries) /\ log.taken \in Seq(1..MaxEntries)
    /\ log.head \in 0..(Capacity - 1) /\ log.full \in BOOLEAN
    /\ log.spec \in Specs \union {<<>>}

-----------------------------------------------------------------------------
(* The filter. *)

NoFilter == [default |-> kInfo, per_category |-> {}]

\* ParseFilter(): item by item; a level that is unknown is the default level
\* said so far, and a category named again gets its new level.
ParseItem(f, item) ==
    LET level == IF item[2] = Unknown THEN f.default ELSE item[2]
    IN  IF item[1] = Every
        THEN [f EXCEPT !.default = level]
        ELSE [f EXCEPT !.per_category =
                {g \in @ : g[1] # item[1]} \union {<<item[1], level>>}]
ParseFilter(spec) == FoldLeft(ParseItem, NoFilter, spec)

AnyPrefixVariant(category, filter) == IsPrefix(filter, category)
MatchesPrefix(category, filter) ==
    \/ filter = <<>>
    \/ category = filter
    \/ /\ Len(category) > Len(filter)
       /\ IsPrefix(filter, category)
       /\ category[Len(filter) + 1] = "."

\* EffectiveLevel(): the map is walked in order, a match no shorter than the
\* last one wins; nothing is left to the order, as prefixes of one category
\* differ in length.
EffectiveLevel(filter, category) ==
    LET matches == {f \in filter.per_category : MatchesPrefix(category, f[1])}
    IN  IF matches = {} THEN filter.default
        ELSE (CHOOSE f \in matches : \A g \in matches : Len(g[1]) <= Len(f[1]))[2]

-----------------------------------------------------------------------------
(* The ring. *)

\* PushRingLocked(): until the ring is full it grows; then the oldest goes.
Pushed(l, e) ==
    IF Len(l.ring) < Capacity
    THEN [l EXCEPT !.ring = Append(@, e)]
    ELSE [l EXCEPT !.ring[l.head + 1] = e, !.head = (@ + 1) % Capacity, !.full = TRUE]

Emit(level, category) ==
    /\ Len(log.taken) < MaxEntries
    /\ level >= EffectiveLevel(ParseFilter(log.spec), category)
    /\ LET e == Len(log.taken) + 1
       IN  log' = [Pushed(log, e) EXCEPT !.taken = Append(@, e)]

\* Shutdown(): the ring is emptied, the filter goes back to the default.
HeadKeptVariant == [NewLog EXCEPT !.head = log.head]
Emptied == NewLog
Shutdown == log' = Emptied

\* Init(), or a test, sets the filter; the ring stays.
SetFilter(spec) == log' = [log EXCEPT !.spec = spec]

Next ==
    \/ \E level \in {kTrace, kInfo, kError}, category \in Categories :
          Emit(level, category)
    \/ Shutdown
    \/ \E spec \in Specs : SetFilter(spec)

Spec == Init /\ [][Next]_log

\* RecentEntries(max): oldest first, from ring_head on when the ring is full.
RecentEntries(max) ==
    LET total == IF log.full THEN Capacity ELSE Len(log.ring)
        take == Min({max, total})
        oldest == IF log.full THEN log.head ELSE 0
    IN  [i \in 1..take |-> log.ring[((oldest + total - take + i - 1) % Capacity) + 1]]

\* DebugScreen::OnFrame(): seven rows of header, then what fits.
DebugHeader == 7
DebugTail(rows) ==
    IF rows - 2 > DebugHeader
    THEN RecentEntries(Min({MaxTail, rows - 2 - DebugHeader})) ELSE <<>>

-----------------------------------------------------------------------------
(* Properties. *)

\* However often the ring wrapped around or was emptied, the recent entries are
\* the last ones taken in, in their order; no slot is read that was never
\* written.
RecentAreNewest ==
    \A max \in 0..(Capacity + 1) :
        RecentEntries(max) =
            SubSeq(log.taken,
                   Max({0, Len(log.taken) - Min({max, Capacity})}) + 1, Len(log.taken))

\* The debug screen shows the newest entry whenever it has a row for one.
DebugShowsNewest ==
    \A rows \in (2 + DebugHeader + 1)..(2 + DebugHeader + Capacity + 1) :
        log.taken # <<>> /\ MaxTail > 0 => Last(DebugTail(rows)) = Last(log.taken)

\* What DLTERM_LOG says of a category or of one it is part of ("a" of "a.b", not
\* of "ab") holds for it: what is said of the nearest, and of that what is said
\* last; and else the last level said of all.
FilterIsAsSaid ==
    LET spec == log.spec
        Upto(i) == {spec[j][2] : j \in {k \in 1..i : spec[k][1] = Every}} \ {Unknown}
        DefaultAt(i) ==     \* the last known level said of all, up to item i
            IF Upto(i) = {} THEN kInfo
            ELSE spec[Max({j \in 1..i : spec[j][1] = Every /\ spec[j][2] # Unknown})][2]
        LevelOf(i) == IF spec[i][2] = Unknown THEN DefaultAt(i) ELSE spec[i][2]
        Tails(c) == {<<>>} \union {SubSeq(c, i, Len(c)) : i \in {j \in DOMAIN c : c[j] = "."}}
        Above(c) == {i \in DOMAIN spec : spec[i][1] # Every /\
                        (spec[i][1] = <<>> \/ \E tail \in Tails(c) : spec[i][1] \o tail = c)}
    IN  \A c \in Categories :
            LET nearest == {i \in Above(c) : \A j \in Above(c) :
                                Len(spec[j][1]) <= Len(spec[i][1])}
            IN  EffectiveLevel(ParseFilter(spec), c) =
                    IF nearest = {} THEN DefaultAt(Len(spec)) ELSE LevelOf(Max(nearest))

LogIsRight == TypeOK /\ RecentAreNewest /\ DebugShowsNewest /\ FilterIsAsSaid

=============================================================================
