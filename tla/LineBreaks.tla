------------------------------ MODULE LineBreaks ------------------------------
(* layout.cc: LayoutText() splits a text into paragraphs at blank lines and  *)
(* each paragraph into lines of minimal raggedness, by dynamic programming.  *)
(* A word is its length.  The text grows by words and lines.                 *)
EXTENDS Naturals, Integers, SequencesExt

CONSTANTS
    LineWidths,         \* widths of the grid, 0 in a window too small
    WordLengths,
    MaxWords, MaxLines  \* bounds of the text

\* What is assumed of the constants.
LineBreaksAssumption ==
    LineWidths \subseteq Nat /\ WordLengths \subseteq Nat \ {0}

VARIABLE doc    \* line_cols, and the source lines; the empty one is blank

Init == doc \in [cols : LineWidths, lines : {<< <<>> >>}]
AddWord ==
    /\ Len(FlattenSeq(doc.lines)) < MaxWords
    /\ \E w \in WordLengths :
         doc' = [doc EXCEPT !.lines[Len(doc.lines)] = Append(@, w)]
AddLine ==
    /\ Len(doc.lines) < MaxLines
    /\ doc' = [doc EXCEPT !.lines = Append(@, <<>>)]
Next == AddWord \/ AddLine

-----------------------------------------------------------------------------
(* The algorithm. *)

\* SplitParagraphs() and Tokenize(): the words of each run of lines that are
\* not blank.
Paragraphs ==
    LET Line(acc, line) ==
            CASE line = <<>> -> [acc EXCEPT !.open = FALSE]
              [] line # <<>> /\ acc.open ->
                   [acc EXCEPT !.done = Append(Front(@), Last(@) \o line)]
              [] line # <<>> /\ ~acc.open ->
                   [done |-> Append(acc.done, line), open |-> TRUE]
    IN  FoldLeft(Line, [done |-> <<>>, open |-> FALSE], doc.lines).done

\* The width of words i + 1 to j on one line.
Width(words, i, j) == FoldLeft(+, j - i - 1, SubSeq(words, i + 1, j))
Cube(x) == x * x * x

\* A line of words i + 1 to j is possible when it fits, or has one word only.
\* The last one costs nothing, nor does a word too long for any line.
Possible(words, i, j) == Width(words, i, j) <= doc.cols \/ i + 1 = j
LastCostsVariant(words, i, j) == Cube(Max({0, doc.cols - Width(words, i, j)}))
LineCost(words, i, j) ==
    IF Width(words, i, j) > doc.cols \/ j = Len(words)
    THEN 0 ELSE Cube(doc.cols - Width(words, i, j))

\* Where a line that ends with word j may begin: behind one of these words.
From(words, j) == {i \in 0..(j - 1) : Possible(words, i, j)}

\* dp: the least cost of the first j words.
Best(words) ==
    LET dp[j \in 0..Len(words)] ==
            IF j = 0 THEN 0
            ELSE Min({dp[i] + LineCost(words, i, j) : i \in From(words, j)})
    IN  dp

\* parent: where the last line of the first j words begins; of equally good ones
\* the shortest line, as the scan meets it first.
Parent(words, dp, j) ==
    Max({i \in From(words, j) : dp[i] + LineCost(words, i, j) = dp[j]})

\* The chain of parents, from the end back to 0.
OptimalBreaks(words) ==
    LET dp == Best(words)
        chain[k \in 0..Len(words)] ==
            IF k = 0 THEN <<0>> ELSE Append(chain[Parent(words, dp, k)], k)
    IN  chain[Len(words)]

\* The lines of a paragraph, as sequences of words.
LinesOf(words) ==
    LET breaks == OptimalBreaks(words)
    IN  [k \in 1..(Len(breaks) - 1) |-> SubSeq(words, breaks[k] + 1, breaks[k + 1])]

\* LayoutText(): the lines of all paragraphs, and <<>> between them; nothing on
\* a grid without columns.
LayoutText ==
    LET Gap(i) == IF i = 1 THEN <<>> ELSE << <<>> >>
    IN  IF doc.cols = 0 THEN <<>>
        ELSE FlattenSeq([i \in DOMAIN Paragraphs |-> Gap(i) \o LinesOf(Paragraphs[i])])

-----------------------------------------------------------------------------
(* Properties. *)

\* The reference: every way to break a paragraph into possible lines, as the
\* set of where they end, and LayoutCost() of the program's self-test.
LastBefore(ends, j) == Max({0} \union {i \in ends : i < j})
Layouts(words) ==
    {ends \in SUBSET (1..Len(words)) :
        /\ Len(words) \in ends
        /\ \A j \in ends : Possible(words, LastBefore(ends, j), j)}
LayoutCost(words, ends) ==
    LET cost == [j \in ends |->
                    Cube(Max({0, doc.cols - Width(words, LastBefore(ends, j), j)}))]
    IN  MapThenSumSet(LAMBDA j : cost[j], ends \ {Len(words)})

\* The breaks found are those of a possible layout, and none costs less.
BreaksAreOptimal ==
    \A p \in Range(Paragraphs) :
        LET ends == Range(OptimalBreaks(p)) \ {0}
        IN  /\ ends \in Layouts(p)
            /\ \A other \in Layouts(p) : LayoutCost(p, ends) <= LayoutCost(p, other)

\* Nothing is lost or moved, unless there is no room at all: the words of the
\* lines are those of the text, no line but a single long word is wider than the
\* grid, and blank lines stand between paragraphs only.
TextIsKept ==
    \A text \in {LayoutText} :
      /\ FlattenSeq(text) = IF doc.cols = 0 THEN <<>> ELSE FlattenSeq(doc.lines)
      /\ \A i \in DOMAIN text :
           /\ text[i] = <<>> =>
                i \in 2..(Len(text) - 1) /\ text[i - 1] # <<>> /\ text[i + 1] # <<>>
           /\ Len(text[i]) > 1 => Width(text[i], 0, Len(text[i])) <= doc.cols

TextIsLaidOut == BreaksAreOptimal /\ TextIsKept

=============================================================================
