------------------------------- MODULE NewsFeed -------------------------------
(* The feed of news_screen.cc: headlines sorted into a bounded list, the     *)
(* rows drawn for them, the mouse on those rows, and the flashing of what is *)
(* new.  The reader is the module NewsReader.                                *)
EXTENDS Naturals, Integers, SequencesExt

CONSTANTS
    kMaxHeadlines,      \* 200
    Timestamps,         \* of headlines
    Clicks,             \* heights of the mouse, in pixels (negative: above the window)
    CellHeight,         \* of a row, in pixels
    MaxBatch, MaxReceived   \* bounds: headlines drained in a frame, and at all

\* What is assumed of the constants.
FeedAssumption ==
    /\ kMaxHeadlines \in Nat \ {0} /\ CellHeight \in Nat \ {0}
    /\ Timestamps \subseteq Nat /\ Clicks \subseteq Int
    /\ MaxBatch \in Nat /\ MaxReceived \in Nat

VARIABLE feed

kBarReservedRows == 2
kFeedHeaderRows == 2

\* A headline is the number under which it arrived, its timestamp, and whether
\* it has an article and is recent by the clock (is_live).
Headline ==
    [no : 1..MaxReceived, ts : Timestamps, article : BOOLEAN, live : BOOLEAN]

TypeOK ==
    /\ feed.received \in Seq(Headline) /\ feed.headlines \in Seq(Headline)
    /\ feed.loaded \in BOOLEAN
    /\ feed.flashing \subseteq 1..MaxReceived     \* flash_until_ms_ not passed yet
    /\ feed.hovered \in -1..(MaxReceived - 1)
    /\ feed.rows \in Seq(1..MaxReceived)          \* the feed lines below the header
    /\ feed.bold \subseteq 1..MaxReceived         \* bold ones, as rows from 1
    /\ feed.opened \in 0..MaxReceived             \* the headline last clicked on
    /\ feed.loaded_at \in 0..MaxReceived          \* received when loaded_ was set

Init ==
    feed = [received |-> <<>>, headlines |-> <<>>, loaded |-> FALSE, flashing |-> {},
            hovered |-> -1, rows |-> <<>>, bold |-> {}, opened |-> 0, loaded_at |-> 0]

-----------------------------------------------------------------------------
(* OnFrame(). *)

\* InsertSorted(): before the first headline that is older.
BeforeEqualVariant(h, g) == g.ts <= h.ts
GoesBefore(h, g) == g.ts < h.ts
InsertSorted(list, h) ==
    InsertAt(list, Min({i \in DOMAIN list : GoesBefore(h, list[i])} \union {Len(list) + 1}), h)

\* RebuildFeedLines(): a row for each headline, bold while it flashes.
Rebuilt(f) ==
    [f EXCEPT !.rows = [i \in DOMAIN f.headlines |-> f.headlines[i].no],
              !.bold = {i \in DOMAIN f.headlines :
                          f.headlines[i].article /\ f.headlines[i].no \in f.flashing}]

\* The headlines first, then the statuses, then the rows.  Flashes that are
\* over by now (`over') do not show.
OnFrame(fresh, says_loaded, over) ==
    LET sorted == FoldLeft(InsertSorted, feed.headlines, fresh)
        list == SubSeq(sorted, 1, Min({Len(sorted), kMaxHeadlines}))
        flash == {h.no : h \in {g \in Range(fresh) : feed.loaded /\ g.article /\ g.live}}
        f == [feed EXCEPT
                !.received = @ \o fresh,
                !.headlines = list,
                !.hovered = IF fresh # <<>> /\ @ >= Len(list) THEN -1 ELSE @,
                !.flashing = (@ \union flash) \ over,
                !.loaded = @ \/ says_loaded,
                !.loaded_at = IF ~feed.loaded /\ says_loaded
                              THEN Len(feed.received) + Len(fresh) ELSE @]
    IN  feed' = Rebuilt(f)

\* What the queue may hold: headlines not yet received.
Fresh ==
    {fresh \in BoundedSeq(Headline, MaxBatch) :
        /\ Len(feed.received) + Len(fresh) <= MaxReceived
        /\ \A i \in DOMAIN fresh : fresh[i].no = Len(feed.received) + i}

-----------------------------------------------------------------------------
(* The mouse. *)

\* C++ division, which cuts towards zero.
Quotient(a, b) == IF a >= 0 THEN a \div b ELSE -((-a) \div b)
MouseYToBodyRow(y) == Quotient(y, CellHeight) - kBarReservedRows
HeaderForgottenVariant(y) == MouseYToBodyRow(y)
RowUnder(y) == MouseYToBodyRow(y) - kFeedHeaderRows

OnMotion(y) ==
    feed' = [feed EXCEPT !.hovered = IF RowUnder(y) \in 0..(Len(feed.headlines) - 1)
                                     THEN RowUnder(y) ELSE -1]

\* A click opens the reader, whose title is the headline's.
OnClick(y) ==
    /\ RowUnder(y) \in 0..(Len(feed.headlines) - 1)
    /\ feed' = [feed EXCEPT !.opened = feed.headlines[RowUnder(y) + 1].no,
                            !.hovered = -1]

Next ==
    \/ \E fresh \in Fresh, says_loaded \in BOOLEAN, over \in SUBSET feed.flashing :
          OnFrame(fresh, says_loaded, over)
    \/ \E y \in Clicks : OnMotion(y) \/ OnClick(y)

-----------------------------------------------------------------------------
(* Properties. *)

\* Headline h of those received stands before g: it is newer, or as old and
\* came first.
StandsBefore(h, g) == h.ts > g.ts \/ (h.ts = g.ts /\ h.no < g.no)

\* However headlines came in, batch by batch, the feed is the newest of all
\* those ever received, each once, newest first, in the order of arrival among
\* equals: what was cut off is never missed later.
FeedIsNewest ==
    LET Place(h) == 1 + Cardinality({g \in Range(feed.received) : StandsBefore(g, h)})
        N == Min({Len(feed.received), kMaxHeadlines})
    IN  /\ Len(feed.headlines) = N
        /\ \A h \in Range(feed.received) :
             Place(h) <= N => feed.headlines[Place(h)] = h

\* Only what arrived after the historical batch flashes, and only recent
\* headlines with an article: the history that is loaded never does.
OnlyNewsFlash ==
    \A i \in feed.bold :
        LET h == feed.headlines[i]
        IN  feed.loaded /\ h.no > feed.loaded_at /\ h.article /\ h.live

\* A click opens the headline drawn where the mouse is, and none from above it.
ClickOpensWhatIsDrawn ==
    \A y \in Clicks : OnClick(y) =>
        LET row == kBarReservedRows + kFeedHeaderRows
        IN  \E i \in DOMAIN feed.rows :
              /\ y \in ((row + i - 1) * CellHeight)..((row + i) * CellHeight - 1)
              /\ feed'.opened = feed.rows[i]

FeedIsRight == TypeOK /\ FeedIsNewest /\ OnlyNewsFlash

=============================================================================
