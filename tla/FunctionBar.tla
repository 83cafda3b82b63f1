----------------------------- MODULE FunctionBar -----------------------------
(* The line editor of function_bar.cc, with the resize handler of main.cc.   *)
(* The caret is an index into the text, changed by other handlers than the   *)
(* text: std::string::insert() and erase() throw when it is out of range.    *)
EXTENDS Naturals, Integers, SequencesExt

CONSTANTS
    Printable,      \* the bytes kept: 0x20 to 0x7E
    Dropped,        \* bytes HandleTextInput() skips
    Upper,          \* toupper() on Printable
    Widths,         \* grid widths the window is resized to
    MaxTyped        \* bound: bytes in one SDL_EVENT_TEXT_INPUT

\* What is assumed of the constants.
BarAssumption ==
    /\ Upper \in [Printable -> Printable] /\ Printable \intersect Dropped = {}
    /\ Widths \subseteq Nat /\ Widths # {} /\ MaxTyped \in Nat

VARIABLE bar    \* FunctionBar, and the columns of the grid; status: is there one

TypeOK ==
    bar \in [input : Seq(Printable), cursor : Nat, status : BOOLEAN, cols : Widths]

Init == bar \in [input : {<<>>}, cursor : {0}, status : {FALSE}, cols : Widths]

\* BarMaxInputCols(): two columns of padding, one for the caret.
BarMaxInputCols(cols) == Max({0, cols - 2 - 1})

\* One byte of the text.
CaretStaysVariant(b, c) ==
    IF c \in Printable /\ Len(b.input) < BarMaxInputCols(b.cols)
    THEN [b EXCEPT !.input = InsertAt(@, b.cursor + 1, Upper[c])]
    ELSE b
TypeByte(b, c) ==
    IF c \in Printable /\ Len(b.input) < BarMaxInputCols(b.cols)
    THEN [b EXCEPT !.input = InsertAt(@, b.cursor + 1, Upper[c]), !.cursor = @ + 1]
    ELSE b

HandleTextInput ==
    \E text \in BoundedSeq(Printable \union Dropped, MaxTyped) :
        bar' = FoldLeft(TypeByte, [bar EXCEPT !.status = FALSE], text)

HandleBackspace ==
    bar' = IF bar.cursor > 0
           THEN [bar EXCEPT !.input = RemoveAt(@, bar.cursor),
                            !.cursor = @ - 1, !.status = FALSE]
           ELSE [bar EXCEPT !.status = FALSE]

HandleDelete ==
    bar' = IF bar.cursor < Len(bar.input)
           THEN [bar EXCEPT !.input = RemoveAt(@, bar.cursor + 1), !.status = FALSE]
           ELSE [bar EXCEPT !.status = FALSE]

\* HandleEscape(), and RETURN on a command that opens a screen.
HandleEscape == bar' = [bar EXCEPT !.input = <<>>, !.cursor = 0, !.status = FALSE]

\* RETURN on any other command, or a message of TWS: only the status.
SetStatus == bar' = [bar EXCEPT !.status = TRUE]

HandleCursorLeft == bar.cursor > 0 /\ bar' = [bar EXCEPT !.cursor = @ - 1]
HandleCursorRight ==
    bar.cursor < Len(bar.input) /\ bar' = [bar EXCEPT !.cursor = @ + 1]
HandleCursorHome == bar' = [bar EXCEPT !.cursor = 0]
HandleCursorEnd == bar' = [bar EXCEPT !.cursor = Len(bar.input)]

\* The window is resized: main.cc cuts the text, then moves the caret into it.
Resize(cols) ==
    LET kept == SubSeq(bar.input, 1, Min({Len(bar.input), BarMaxInputCols(cols)}))
    IN  bar' = [bar EXCEPT !.cols = cols, !.input = kept,
                           !.cursor = Min({@, Len(kept)})]

Next ==
    \/ HandleTextInput \/ HandleBackspace \/ HandleDelete
    \/ HandleEscape \/ SetStatus
    \/ HandleCursorLeft \/ HandleCursorRight \/ HandleCursorHome \/ HandleCursorEnd
    \/ \E cols \in Widths : Resize(cols)

-----------------------------------------------------------------------------
(* Properties. *)

\* The caret stands in the text or just behind it, and in a column of the grid
\* when the grid has room for it, whatever was typed, erased and resized.
CaretInText ==
    /\ TypeOK
    /\ bar.cursor <= Len(bar.input)
    /\ Len(bar.input) <= BarMaxInputCols(bar.cols)
    /\ bar.cols >= 3 => 2 + bar.cursor < bar.cols

\* What stands behind the caret is never touched by typing or by BACKSPACE, and
\* what stands before it never by DELETE.
EditsAtCaret ==
    LET Before(b) == SubSeq(b.input, 1, b.cursor)
        Behind(b) == SubSeq(b.input, b.cursor + 1, Len(b.input))
    IN  /\ HandleTextInput \/ HandleBackspace => Behind(bar') = Behind(bar)
        /\ HandleDelete => Before(bar') = Before(bar)

=============================================================================
