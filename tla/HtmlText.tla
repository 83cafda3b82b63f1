------------------------------- MODULE HtmlText -------------------------------
(* What news_screen.cc makes of an article and of a headline before they are *)
(* laid out: StripHtml() and CleanHeadline().  The article grows piece by    *)
(* piece, each piece with what it means to the reader; a name of an entity   *)
(* counts as one character.                                                  *)
EXTENDS Naturals, Integers, SequencesExt

CONSTANTS
    Names,          \* the characters StripHtml() decodes, by name of the entity
    MaxEntity,      \* "&" and ";" are no further apart than this (8)
    MaxPieces       \* bound

\* What is assumed of the constants.
HtmlAssumption ==
    /\ "lt" \in DOMAIN Names /\ MaxEntity \in Nat \ {0, 1} /\ MaxPieces \in Nat
    /\ "a" \notin DOMAIN Names /\ ";" \notin DOMAIN Names
    /\ \A name \in DOMAIN Names : Names[name] \notin {"{", "!"}

VARIABLE pieces

Piece(html, text) == [html |-> html, text |-> text]
Pieces ==
    {Piece(<<c>>, <<c>>) : c \in {"a", " ", "\n", ";", ">"}}            \* as it is
    \union {Piece(<<"<", "a", ">">>, <<>>), Piece(<<"<", "&", ">">>, <<>>)}   \* tags
    \union {Piece(<<"&", name, ";">>, <<Names[name]>>) : name \in DOMAIN Names}
    \union {Piece(<<"&", "a", ";">>, <<"&", "a", ";">>)}                \* unknown

Init == pieces = <<>>
AddPiece ==
    /\ Len(pieces) < MaxPieces
    /\ \E p \in Pieces : pieces' = Append(pieces, p)
Next == AddPiece

Html == FlattenSeq([i \in DOMAIN pieces |-> pieces[i].html])
Meaning == FlattenSeq([i \in DOMAIN pieces |-> pieces[i].text])

-----------------------------------------------------------------------------
(* The code. *)

\* The first pass of StripHtml(): tags vanish, entities are decoded.  `skip'
\* counts the characters of an entity that are still to be passed over.
Decoded(html) ==
    LET Semi(i) == {j \in (i + 1)..Len(html) : html[j] = ";"}
        IsEntity(i) == Semi(i) # {} /\ Min(Semi(i)) - i <= MaxEntity
        Entity(i) ==
            LET entity == SubSeq(html, i, Min(Semi(i)))
            IN  IF Len(entity) = 3 /\ entity[2] \in DOMAIN Names
                THEN <<Names[entity[2]]>> ELSE entity
        Step(acc, i) ==
            CASE acc.skip > 0 -> [acc EXCEPT !.skip = @ - 1]
              [] acc.skip = 0 /\ acc.in_tag -> [acc EXCEPT !.in_tag = html[i] # ">"]
              [] acc.skip = 0 /\ ~acc.in_tag /\ html[i] = "<" -> [acc EXCEPT !.in_tag = TRUE]
              [] acc.skip = 0 /\ ~acc.in_tag /\ html[i] = "&" /\ IsEntity(i) ->
                   [acc EXCEPT !.out = @ \o Entity(i), !.skip = Min(Semi(i)) - i]
              [] OTHER -> [acc EXCEPT !.out = Append(@, html[i])]
    IN  FoldLeft(Step, [out |-> <<>>, in_tag |-> FALSE, skip |-> 0],
                 [i \in DOMAIN html |-> i]).out

\* The second: runs of blanks become one, runs of newlines at most two, and
\* those at the end go.
Collapsed(text) ==
    LET Newlines(acc) ==
            IF acc.newline_run = 0 THEN acc
            ELSE [out |-> acc.out \o IF acc.newline_run >= 2 THEN <<"\n", "\n">> ELSE <<"\n">>,
                  newline_run |-> 0, last_space |-> FALSE]
        Put(acc, c) ==
            CASE c = " " /\ acc.last_space -> acc
              [] OTHER -> [acc EXCEPT !.out = Append(@, c), !.last_space = c = " "]
        Step(acc, c) ==
            IF c = "\n"
            THEN [acc EXCEPT !.newline_run = @ + 1, !.last_space = FALSE]
            ELSE Put(Newlines(acc), c)
    IN  FoldLeft(Step, [out |-> <<>>, newline_run |-> 0, last_space |-> FALSE], text).out

StripHtml(html) == Collapsed(Decoded(html))

\* CleanHeadline(): without the metadata in braces, a "!" and blanks before the
\* title.
CleanHeadline(raw) ==
    LET ends == {i \in DOMAIN raw : raw[i] = "}"}
        Behind(i) == SubSeq(raw, i + 1, Len(raw))
        bare == IF raw # <<>> /\ Head(raw) = "{" /\ ends # {}
                THEN IF Behind(Min(ends)) # <<>> /\ Head(Behind(Min(ends))) = "!"
                     THEN Tail(Behind(Min(ends))) ELSE Behind(Min(ends))
                ELSE raw
        title == {i \in DOMAIN bare : bare[i] # " "}
    IN  IF title = {} THEN <<>> ELSE SubSeq(bare, Min(title), Len(bare))

-----------------------------------------------------------------------------
(* Properties. *)

\* The words of a text, by paragraph: what LayoutText() will see of it.
Shape(text) ==
    LET Step(acc, c) ==
            CASE c = " " -> [acc EXCEPT !.word = FALSE]
              [] c = "\n" -> [acc EXCEPT !.word = FALSE, !.blank = TRUE,
                                         !.open = @ /\ ~acc.blank]
              [] c \notin {" ", "\n"} ->
                   [done |-> CASE ~acc.open -> Append(acc.done, << <<c>> >>)
                               [] acc.open /\ ~acc.word ->
                                    [acc.done EXCEPT ![Len(acc.done)] = Append(@, <<c>>)]
                               [] acc.open /\ acc.word ->
                                    [acc.done EXCEPT ![Len(acc.done)] =
                                        Append(Front(@), Append(Last(@), c))],
                    word |-> TRUE, open |-> TRUE, blank |-> FALSE]
    IN  FoldLeft(Step, [done |-> <<>>, word |-> FALSE, open |-> FALSE, blank |-> FALSE],
                 text).done

\* Of an article made of tags and entities the reader gets the meaning: no tag
\* shows, every entity is decoded once, and a decoded "<" opens no tag.
MeaningIsDecoded == Decoded(Html) = Meaning

\* Taking out blank space leaves every word in its place and paragraph, and the
\* text that is stored has no run of blanks or of more than two newlines.
WordsStay ==
    LET stored == StripHtml(Html)
    IN  /\ Shape(stored) = Shape(Meaning)
        /\ \A i \in 1..(Len(stored) - 1) : ~(stored[i] = " " /\ stored[i + 1] = " ")
        /\ \A i \in 1..(Len(stored) - 2) : \E j \in i..(i + 2) : stored[j] # "\n"

\* A headline loses its metadata and nothing of its title.
TitleIsKept ==
    Meaning # <<>> /\ Meaning[1] # " " =>
        \A metadata \in {<<>>, <<" ">>, <<"{", "a", "}">>, <<"{", "a", "}", "!">>,
                         <<"{", "}", "!", " ", " ">>} :
            CleanHeadline(metadata \o Meaning) = Meaning

ArticleIsReadable == MeaningIsDecoded /\ WordsStay /\ TitleIsKept

=============================================================================
