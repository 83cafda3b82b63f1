----------------------------- MODULE ScrollBlock ------------------------------
(* ScrollableTextBlock of widgets.cc in the reader of news_screen.cc: a      *)
(* header that stays and a body that scrolls.  Only numbers of lines matter. *)
EXTENDS Integers

CONSTANTS
    Heights,        \* heights of the window, in rows
    Lengths,        \* lengths of a body, in lines
    MaxWheel        \* bound on one turn of the mouse wheel

kBarReservedRows == 2
ReaderHeader == 2       \* title and subtitle

\* What is assumed of the constants.
ScrollAssumption ==
    Heights \subseteq Nat /\ Lengths \subseteq Nat /\ MaxWheel \in Nat

VARIABLE block  \* rows of the window, lines of header and body, scroll_top_

TypeOK ==
    block \in [rows : Heights, header : {0, ReaderHeader}, body : Lengths \union {0},
               top : Nat]

Init == block \in [rows : Heights, header : {0}, body : {0}, top : {0}]

Clamp(x, low, high) == IF x < low THEN low ELSE IF x > high THEN high ELSE x

VisibleRows(b) ==
    IF b.rows - kBarReservedRows - b.header < 1
    THEN 1 ELSE b.rows - kBarReservedRows - b.header
OneMoreVariant(b) == IF b.body > VisibleRows(b) THEN b.body - VisibleRows(b) + 1 ELSE 0
MaxScrollTop(b) == IF b.body > VisibleRows(b) THEN b.body - VisibleRows(b) ELSE 0

\* SetBody() goes back to the top.  The reader is opened with its header, the
\* article arrives in its place, ESCAPE empties both.
OpenReader(n) == block' = [block EXCEPT !.header = ReaderHeader, !.body = n, !.top = 0]
SetBody(n) == block.header > 0 /\ block' = [block EXCEPT !.body = n, !.top = 0]
CloseReader == block' = [block EXCEPT !.header = 0, !.body = 0, !.top = 0]

\* The window is resized: the open reader lays out its text again.
Resize(rows, n) ==
    block' = IF block.header > 0
             THEN [block EXCEPT !.rows = rows, !.body = n, !.top = 0]
             ELSE [block EXCEPT !.rows = rows]

\* OnScrollEvent().
ScrollTo(top) == block.header > 0 /\ block' = [block EXCEPT !.top = top]
Up == block.top > 0 /\ ScrollTo(block.top - 1)
Down == block.top < MaxScrollTop(block) /\ ScrollTo(block.top + 1)
PageUp == ScrollTo(Clamp(block.top - VisibleRows(block), 0, block.top))
PageDown ==
    ScrollTo(IF block.top + VisibleRows(block) < MaxScrollTop(block)
             THEN block.top + VisibleRows(block) ELSE MaxScrollTop(block))
Home == ScrollTo(0)
End == ScrollTo(MaxScrollTop(block))
Wheel(y) == ScrollTo(Clamp(block.top - y, 0, MaxScrollTop(block)))

Next ==
    \/ \E n \in Lengths : OpenReader(n) \/ SetBody(n)
    \/ CloseReader
    \/ \E rows \in Heights, n \in Lengths : Resize(rows, n)
    \/ Up \/ Down \/ PageUp \/ PageDown \/ Home \/ End
    \/ \E y \in -MaxWheel..MaxWheel : Wheel(y)

Spec == Init /\ [][Next]_block

-----------------------------------------------------------------------------
(* Properties. *)

\* The rows that Render() leaves to the body, and the lines it then draws there:
\* those from scroll_top_ on, cut off at the end of the body.
Room(b) ==
    IF b.rows - kBarReservedRows - b.header > 0 THEN b.rows - kBarReservedRows - b.header
    ELSE 0
Drawn(b) == {i \in 0..(b.body - 1) :
                /\ i >= Clamp(b.top, 0, b.body)
                /\ i < Clamp(b.top, 0, b.body) + Room(b)}

\* No row stays empty while lines are scrolled out above: the window is full
\* or shows the whole body.
ScrollInRange ==
    /\ TypeOK
    /\ block.top <= MaxScrollTop(block)
    /\ block.top > 0 /\ Room(block) > 0 => block.top + Room(block) <= block.body

\* Paging passes over no line: the next page begins at the latest just behind
\* the last line of this one, and the page before ends just before this one.
NoLineSkipped ==
    Room(block) > 0 =>
        /\ PageDown => block'.top <= block.top + Room(block)
        /\ PageUp => block.top <= block'.top + Room(block)

=============================================================================
