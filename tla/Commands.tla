------------------------------- MODULE Commands -------------------------------
(* RunCommand() of function_bar.cc with the symbol rules of futures.cc: what *)
(* a line of text opens.  The line grows word by word, as the user types it; *)
(* characters are upper-case already (HandleTextInput).                      *)
EXTENDS Naturals, SequencesExt

CONSTANTS
    Letters, Digits, Others,    \* characters besides the blank
    Words,                      \* words a line may begin with
    MoreWords,                  \* words that may follow
    KnownRoots,                 \* what ExchangeForContinuousFuture() knows
    MaxWords, MaxBlanks         \* bounds

Blank == " "

\* What is assumed of the constants.
CommandsAssumption ==
    /\ Letters \intersect Digits = {} /\ Blank \notin Letters \union Digits \union Others
    /\ MaxBlanks \in Nat
    /\ MoreWords \subseteq Words
    /\ Words \subseteq Seq(Letters \union Digits \union Others) \ {<<>>}

VARIABLE line   \* the words typed, and the blanks before each and at the end

NEWS == <<"N", "E", "W", "S">>
CHART == <<"C", "H", "A", "R", "T">>
FUT == <<"F", "U", "T">>

\* The verbs that stand alone.
Verbs ==
    [kStaticText |-> {<<"I", "N", "F", "O">>, <<"H", "E", "L", "P">>},
     kStartGeneralNews |-> {NEWS},
     kStartPortfolio |-> {<<"P", "O", "S">>},
     kStartDebug |-> {<<"D", "E", "B", "U", "G">>},
     kQuit |-> {<<"E", "X", "I", "T">>, <<"Q", "U", "I", "T">>}]
IsVerb(w) == \E kind \in DOMAIN Verbs : w \in Verbs[kind]
KindOfVerb(w) == CHOOSE kind \in DOMAIN Verbs : w \in Verbs[kind]

Init == line \in [words : {<<>>}, blanks : 1..MaxBlanks]
AddWord ==
    /\ Len(line.words) < MaxWords
    /\ \E w \in IF line.words = <<>> THEN Words ELSE MoreWords :
         line' = [line EXCEPT !.words = Append(@, w)]
Next == AddWord

Text ==
    LET blanks == [i \in 1..line.blanks |-> Blank]
    IN  FoldLeft(LAMBDA text, w : text \o w \o blanks, Tail(blanks), line.words)

-----------------------------------------------------------------------------
(* The parser. *)

\* Tokenize(): the maximal runs of characters that are not blank.
Token(acc, c) ==
    CASE c = Blank -> [acc EXCEPT !.open = FALSE]
      [] c # Blank /\ acc.open ->
           [acc EXCEPT !.tokens = Append(Front(@), Append(Last(@), c))]
      [] c # Blank /\ ~acc.open ->
           [tokens |-> Append(acc.tokens, <<c>>), open |-> TRUE]
Tokenize(text) == FoldLeft(Token, [tokens |-> <<>>, open |-> FALSE], text).tokens

IsValidSymbol(s) ==
    /\ Len(s) \in 1..8
    /\ \A i \in DOMAIN s : s[i] \in Letters \union Digits \union {"."}
    /\ \E i \in DOMAIN s : s[i] \in Letters

\* Up to two digits at the end: the year.
YearLen(s) ==
    CASE s[Len(s)] \notin Digits -> 0
      [] Len(s) > 1 /\ s[Len(s)] \in Digits /\ s[Len(s) - 1] \in Digits -> 2
      [] OTHER -> 1

\* Before the year a letter for the month, and before that the root.
IsFuturesLocalSymbol(s) ==
    LET month == Len(s) - YearLen(s)
    IN  /\ Len(s) >= 3
        /\ YearLen(s) > 0
        /\ month > 1
        /\ \A i \in 1..month : s[i] \in Letters

RootFromFuturesLocalSymbol(s) ==
    IF IsFuturesLocalSymbol(s) THEN SubSeq(s, 1, Len(s) - YearLen(s) - 1) ELSE <<>>

\* ExchangeForContinuousFuture() knows the root.
HasExchange(s) == s \in KnownRoots

Result(kind, symbol, instrument) ==
    [kind |-> kind, symbol |-> symbol, instrument |-> instrument, status |-> FALSE]
Nothing == Result("kNone", <<>>, "kStock")
Refused == [Nothing EXCEPT !.status = TRUE]

\* A symbol alone, or with CHART: futures local symbols are recognised, in a
\* copy of the code for each.
QuoteSymbol(s) ==
    CASE ~IsValidSymbol(s) -> Refused
      [] IsValidSymbol(s) /\ IsFuturesLocalSymbol(s) ->
           IF HasExchange(RootFromFuturesLocalSymbol(s))
           THEN Result("kStartQuote", s, "kFutureLocal") ELSE Refused
      [] OTHER -> Result("kStartQuote", s, "kStock")
UnknownRootVariant(s) ==
    CASE ~IsValidSymbol(s) -> Refused
      [] IsValidSymbol(s) /\ IsFuturesLocalSymbol(s) ->
           Result("kStartChart", s, "kFutureLocal")
      [] OTHER -> Result("kStartChart", s, "kStock")
ChartSymbol(s) ==
    CASE ~IsValidSymbol(s) -> Refused
      [] IsValidSymbol(s) /\ IsFuturesLocalSymbol(s) ->
           IF HasExchange(RootFromFuturesLocalSymbol(s))
           THEN Result("kStartChart", s, "kFutureLocal") ELSE Refused
      [] OTHER -> Result("kStartChart", s, "kStock")

\* A symbol with FUT, or with FUT CHART: again two copies.
QuoteContinuous(s) ==
    IF IsValidSymbol(s) /\ HasExchange(s)
    THEN Result("kStartQuote", s, "kContinuousFuture") ELSE Refused
ChartContinuous(s) ==
    IF IsValidSymbol(s) /\ HasExchange(s)
    THEN Result("kStartChart", s, "kContinuousFuture") ELSE Refused

RunCommand(text) ==
    LET tokens == Tokenize(text)
        Is(shape) == Len(tokens) = Len(shape) + 1 /\ Tail(tokens) = shape
        s == tokens[1]
    IN  CASE tokens = <<>> -> Nothing
          [] Is(<<>>) /\ IsVerb(s) -> Result(KindOfVerb(s), <<>>, "kStock")
          [] Is(<<>>) /\ ~IsVerb(s) -> QuoteSymbol(s)
          [] Is(<<NEWS>>) -> IF IsValidSymbol(s)
                             THEN Result("kStartNews", s, "kStock") ELSE Refused
          [] Is(<<CHART>>) -> ChartSymbol(s)
          [] Is(<<FUT>>) -> QuoteContinuous(s)
          [] Is(<<FUT, CHART>>) -> ChartContinuous(s)
          [] OTHER -> Refused

-----------------------------------------------------------------------------
(* Properties. *)

\* However the words are spaced, the parser sees the words that were typed.
WordsAreRead == Tokenize(Text) = line.words

\* The scan for year, month and root from the end of the symbol finds exactly
\* the symbols of that form ("alpha root + month code + 1-2 digit year",
\* commands.md:21), with the root they have.
FuturesAreFound ==
    \A i \in DOMAIN line.words :
        LET s == line.words[i]
            Splits == {k \in 1..Len(s) :    \* where the month stands
                /\ k > 1 /\ Len(s) - k \in 1..2
                /\ \A j \in 1..k : s[j] \in Letters
                /\ \A j \in (k + 1)..Len(s) : s[j] \in Digits}
        IN  /\ IsFuturesLocalSymbol(s) <=> Splits # {}
            /\ \A k \in Splits : RootFromFuturesLocalSymbol(s) = SubSeq(s, 1, k - 1)

\* A command is never passed over in silence: only an empty line is.
NeverSilent ==
    RunCommand(Text).kind = "kNone" /\ ~RunCommand(Text).status => line.words = <<>>

\* What opens a future names one whose exchange chart and quote services find
\* when they send the request: OnReady() looks up the symbol of a continuous
\* future, and the root of any other.
FuturesHaveExchange ==
    LET r == RunCommand(Text)
    IN  /\ r.instrument = "kContinuousFuture" => HasExchange(r.symbol)
        /\ r.instrument = "kFutureLocal" =>
             HasExchange(RootFromFuturesLocalSymbol(r.symbol))

\* A quote command opens what the same words with CHART open ("the same way
\* <SYM> CHART does", function_bar.cc:179), but for the verbs.
QuoteMirrorsChart ==
    LET q == RunCommand(Text)
        c == RunCommand(Text \o <<Blank>> \o CHART)
    IN  line.words \in {<<w>> : w \in {v \in Words : ~IsVerb(v)}} \union
                       {<<w, FUT>> : w \in Words}
        => /\ q.symbol = c.symbol /\ q.instrument = c.instrument /\ q.status = c.status
           /\ (q.kind = "kStartQuote") <=> (c.kind = "kStartChart")

CommandsResolve ==
    /\ WordsAreRead /\ FuturesAreFound /\ NeverSilent
    /\ FuturesHaveExchange /\ QuoteMirrorsChart

=============================================================================
