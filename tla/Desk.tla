--------------------------------- MODULE Desk ---------------------------------
(***************************************************************************)
(* The small components side by side, so that one run checks them and one  *)
(* module proves about them.  They share nothing: a behaviour is one of    *)
(* the component named by `subject'.                                       *)
(***************************************************************************)
EXTENDS Naturals, Integers, Sequences

CONSTANTS
    Printable, Dropped, Upper, Widths, MaxTyped,            \* FunctionBar
    Letters, Digits, Others, Words, MoreWords, KnownRoots,  \* Commands
    MaxWords, MaxBlanks,
    LineWidths, WordLengths, MaxTextWords, MaxLines,        \* LineBreaks
    Names, MaxEntity, MaxPieces,                            \* HtmlText
    Heights, Lengths, MaxWheel,                             \* ScrollBlock
    Capacity, MaxTail, Categories, Specs, Every, Unknown,   \* LogRing
    MaxEntries,
    Window, Times, MaxFrames,                               \* FrameTimes
    kMaxHeadlines, Timestamps, Clicks, CellHeight,          \* NewsFeed
    MaxBatch, MaxReceived,
    Keys, GroupOf, Positions, Costs, Values, Largest        \* PortfolioTotals

VARIABLES subject, state

Bar == INSTANCE FunctionBar WITH bar <- state
Line == INSTANCE Commands WITH line <- state
Lines == INSTANCE LineBreaks WITH doc <- state, MaxWords <- MaxTextWords
Article == INSTANCE HtmlText WITH pieces <- state
Block == INSTANCE ScrollBlock WITH block <- state
Ring == INSTANCE LogRing WITH log <- state
Frames == INSTANCE FrameTimes WITH frames <- state
Feed == INSTANCE NewsFeed WITH feed <- state
Totals == INSTANCE PortfolioTotals WITH book <- state

ASSUME DeskAssumption ==
    /\ Bar!BarAssumption /\ Line!CommandsAssumption /\ Lines!LineBreaksAssumption
    /\ Block!ScrollAssumption /\ Ring!LogAssumption /\ Frames!FrameAssumption
    /\ Feed!FeedAssumption /\ Totals!TotalsAssumption /\ Article!HtmlAssumption

-----------------------------------------------------------------------------

Init ==
    \/ subject = "bar" /\ Bar!Init
    \/ subject = "line" /\ Line!Init
    \/ subject = "lines" /\ Lines!Init
    \/ subject = "article" /\ Article!Init
    \/ subject = "block" /\ Block!Init
    \/ subject = "log" /\ Ring!Init
    \/ subject = "frames" /\ Frames!Init
    \/ subject = "feed" /\ Feed!Init
    \/ subject = "book" /\ Totals!Init

Next ==
    /\ \/ subject = "bar" /\ Bar!Next
       \/ subject = "line" /\ Line!Next
       \/ subject = "lines" /\ Lines!Next
       \/ subject = "article" /\ Article!Next
       \/ subject = "block" /\ Block!Next
       \/ subject = "log" /\ Ring!Next
       \/ subject = "frames" /\ Frames!Next
       \/ subject = "feed" /\ Feed!Next
       \/ subject = "book" /\ Totals!Next
    /\ UNCHANGED subject

vars == <<subject, state>>
Spec == Init /\ [][Next]_vars

-----------------------------------------------------------------------------
(* Properties. *)

\* The line editor: the caret is always in the text and on the screen, and an
\* edit at the caret leaves the rest of the text alone.
CaretInText ==
    /\ [](subject = "bar" => Bar!CaretInText)
    /\ [][subject = "bar" => Bar!EditsAtCaret]_vars

\* The command parser: what a line of text opens can be served.
CommandsResolve == subject = "line" => Line!CommandsResolve

\* From an article to lines: every word of its text is kept, in its paragraph,
\* and no other layout is less ragged.
TextIsLaidOut ==
    /\ subject = "article" => Article!ArticleIsReadable
    /\ subject = "lines" => Lines!TextIsLaidOut

\* The reader's scrolling: in range after every resize, and no line skipped.
ScrollInRange ==
    /\ [](subject = "block" => Block!ScrollInRange)
    /\ [][subject = "block" => Block!NoLineSkipped]_vars

\* The log's ring and filter and the window of frame times: the newest, in order.
RecentAreNewest ==
    /\ subject = "log" => Ring!LogIsRight
    /\ subject = "frames" => Frames!TimesAreRecent

\* The feed: the newest headlines in order, and a click opens the one it hits.
FeedIsRight ==
    /\ [](subject = "feed" => Feed!FeedIsRight)
    /\ [][subject = "feed" => Feed!ClickOpensWhatIsDrawn]_vars

\* The portfolio: the rows shown are the balances TWS reported.
HeldIsShown == subject = "book" => Totals!TypeOK /\ Totals!HeldIsShown

=============================================================================
