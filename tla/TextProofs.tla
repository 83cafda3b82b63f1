------------------------------ MODULE TextProofs ------------------------------
(***************************************************************************)
(* The two texts of the desk, for all values of their constants: what the  *)
(* reader makes of an article and of a headline (HtmlText), and how        *)
(* LayoutText() breaks a text into lines (LineBreaks).  The proofs are     *)
(* about the two components on their own; DeskDataProofs takes them to     *)
(* the desk with an INSTANCE.                                              *)
(***************************************************************************)
EXTENDS HtmlText, DeskLemmas

CONSTANTS LineWidths, WordLengths, MaxWords, MaxLines
VARIABLE doc

Lines == INSTANCE LineBreaks

-----------------------------------------------------------------------------
(***************************************************************************)
(* Texts: the pieces of an article, the lines of a text and the words of a *)
(* line are sequences of sequences.  FlattenSeq is the loop that joins     *)
(* them one after the other.                                               *)
(***************************************************************************)

Join(text, piece) == text \o piece
Joining == INSTANCE DeskLemmas WITH Op <- Join

Flat(seqs) == Joining!Fold(<<>>, seqs)

\* FlattenSeq of SequencesExt.
Joins(f, seqs) ==
    f = [i \in 1..Len(seqs) |-> IF i = 1 THEN seqs[i] ELSE f[i - 1] \o seqs[i]]
Flattened(seqs) == IF Len(seqs) = 0 THEN seqs ELSE (CHOOSE f : Joins(f, seqs))[Len(seqs)]

LEMMA FlattenIsFlattened ==
    \A seqs : FlattenSeq(seqs) = Flattened(seqs)
BY DEF FlattenSeq, Flattened, Joins

LEMMA EmptyJoined == ASSUME NEW S, NEW s \in Seq(S) PROVE <<>> \o s = s /\ s \o <<>> = s
BY ConcatEmptySeq

LEMMA AppendJoined ==
    ASSUME NEW S, NEW a \in Seq(S), NEW b \in Seq(S), NEW x \in S
    PROVE  a \o Append(b, x) = Append(a \o b, x)
<1> DEFINE e == <<x>>
           c == a \o b
<1>1. e \in Seq(S) /\ c \in Seq(S)
  BY ConcatProperties
<1>2. Append(b, x) = b \o e /\ Append(c, x) = c \o e
  <2> HIDE DEF c
  <2> QED BY <1>1, AppendIsConcat
<1> HIDE DEF e
<1>3. (a \o b) \o e = a \o (b \o e)
  BY <1>1, ConcatAssociative
<1> QED BY <1>2, <1>3 DEF c

LEMMA FlattenedIsFlat ==
    ASSUME NEW S, NEW seqs \in Seq(Seq(S))
    PROVE  Flattened(seqs) = Flat(seqs)
<1> DEFINE n == Len(seqs)
<1>1. n \in Nat /\ DOMAIN seqs = 1..n
  BY LenProperties
<1>2. CASE n = 0
  <2>1. seqs = <<>>
    BY <1>2, EmptySeq
  <2>2. Flat(seqs) = <<>>
    BY <2>1, Joining!FoldOfNone DEF Flat
  <2> QED BY <1>2, <2>1, <2>2 DEF Flattened
<1>3. CASE n # 0
  <2>1. PICK v : Joining!Trace(v, <<>>, seqs, n)
    BY <1>1, Joining!TraceExists
  <2>2. v[0] = <<>> /\ \A k \in 1..n : v[k] = v[k - 1] \o seqs[k]
    BY <2>1 DEF Joining!Trace, Join
  <2>3. \A k \in 1..n : v[k] = IF k = 1 THEN seqs[k] ELSE v[k - 1] \o seqs[k]
    <3> SUFFICES ASSUME NEW k \in 1..n
                 PROVE  v[k] = IF k = 1 THEN seqs[k] ELSE v[k - 1] \o seqs[k]
      OBVIOUS
    <3>1. CASE k = 1
      <4>1. seqs[1] \in Seq(S)
        BY <1>1, <3>1, ElementOfSeq
      <4>2. v[1] = <<>> \o seqs[1]
        <5>1. v[k] = v[k - 1] \o seqs[k]
          BY <2>2
        <5>2. k - 1 = 0 /\ v[0] = <<>>
          BY <2>2, <3>1
        <5> QED BY <3>1, <5>1, <5>2
      <4> QED BY <3>1, <4>1, <4>2, EmptyJoined
    <3>2. CASE k # 1
      BY <2>2, <3>2
    <3> QED BY <3>1, <3>2
  <2> DEFINE g == [i \in 1..n |-> v[i]]
             h == CHOOSE f : Joins(f, seqs)
  <2>4. Joins(g, seqs)
    <3>1. \A i \in 1..n : g[i] = v[i] /\ (i # 1 => g[i - 1] = v[i - 1])
      BY <1>1
    <3>2. \A i \in 1..n : v[i] = IF i = 1 THEN seqs[i] ELSE g[i - 1] \o seqs[i]
      BY <2>3, <3>1
    <3>3. g = [i \in 1..n |-> IF i = 1 THEN seqs[i] ELSE g[i - 1] \o seqs[i]]
      BY <3>2
    <3> HIDE DEF g
    <3> QED BY <3>3 DEF Joins
  <2>5. Joins(h, seqs)
    <3> HIDE DEF g
    <3> QED BY <2>4
  <2> HIDE DEF g, h
  <2>6. \A i \in 1..n : h[i] = IF i = 1 THEN seqs[i] ELSE h[i - 1] \o seqs[i]
    <3>1. h = [i \in 1..n |-> IF i = 1 THEN seqs[i] ELSE h[i - 1] \o seqs[i]]
      BY <2>5 DEF Joins
    <3> QED BY <3>1
  <2> DEFINE Q == {k \in Nat : k \in 1..n => h[k] = v[k]}
  <2>7. \A k \in Nat : k \in Q
    <3>1. 0 \in Q
      OBVIOUS
    <3>2. ASSUME NEW k \in Nat, k \in Q PROVE k + 1 \in Q
      <4> SUFFICES ASSUME k + 1 \in 1..n PROVE h[k + 1] = v[k + 1]
        OBVIOUS
      <4>1. CASE k = 0
        BY <2>3, <2>6, <4>1
      <4>2. CASE k # 0
        <5>1. k \in 1..n /\ (k + 1) - 1 = k /\ k + 1 # 1
          BY <1>1, <4>2
        <5>2. h[k] = v[k]
          BY <3>2, <5>1
        <5> QED BY <2>3, <2>6, <5>1, <5>2
      <4> QED BY <4>1, <4>2
    <3> HIDE DEF Q
    <3> QED BY <3>1, <3>2, Induction
  <2>8. n \in 1..n
    BY <1>1, <1>3
  <2>9. h[n] = v[n]
    BY <2>7, <2>8
  <2>10. Joining!Fold(<<>>, seqs) = v[n]
    BY <1>1, <2>1, Joining!FoldOfTrace
  <2>11. Flattened(seqs) = h[n]
    BY <1>3 DEF Flattened, h
  <2> QED BY <2>9, <2>10, <2>11 DEF Flat
<1> QED BY <1>2, <1>3

LEMMA FlatOfNone == Flat(<<>>) = <<>>
BY Joining!FoldOfNone DEF Flat

LEMMA FlatAppended ==
    ASSUME NEW S, NEW seqs \in Seq(Seq(S)), NEW s \in Seq(S)
    PROVE  Flat(Append(seqs, s)) = Flat(seqs) \o s
BY Joining!FoldAppended DEF Flat, Join

LEMMA FlatType == ASSUME NEW S PROVE \A seqs \in Seq(Seq(S)) : Flat(seqs) \in Seq(S)
<1> DEFINE Q == {seqs \in Seq(Seq(S)) : Flat(seqs) \in Seq(S)}
<1>1. <<>> \in Q
  BY FlatOfNone, EmptySeq
<1>2. ASSUME NEW seqs \in Seq(Seq(S)), seqs \in Q, NEW s \in Seq(S)
      PROVE  Append(seqs, s) \in Q
  <2>1. Flat(Append(seqs, s)) = Flat(seqs) \o s
    BY FlatAppended
  <2>2. Flat(seqs) \o s \in Seq(S)
    BY <1>2, ConcatProperties
  <2>3. Append(seqs, s) \in Seq(Seq(S))
    BY AppendProperties
  <2> QED BY <2>1, <2>2, <2>3
<1>3. \A seqs \in Seq(Seq(S)) : seqs \in Q
  <2> HIDE DEF Q
  <2> QED BY <1>1, <1>2, SeqInduction
<1> QED BY <1>3

LEMMA FlatOfOne == ASSUME NEW S, NEW s \in Seq(S) PROVE Flat(<<s>>) = s
<1>1. Flat(<<s>>) = <<>> \o s
  BY Joining!FoldOfOne DEF Flat, Join
<1> QED BY <1>1, EmptyJoined

LEMMA FlatJoined ==
    ASSUME NEW S, NEW a \in Seq(Seq(S))
    PROVE  \A b \in Seq(Seq(S)) : Flat(a \o b) = Flat(a) \o Flat(b)
<1> DEFINE Q == {b \in Seq(Seq(S)) : Flat(a \o b) = Flat(a) \o Flat(b)}
<1>1. <<>> \in Q
  <2>1. a \o <<>> = a
    BY EmptyJoined
  <2>2. Flat(a) \o <<>> = Flat(a)
    BY FlatType, EmptyJoined
  <2>3. <<>> \in Seq(Seq(S))
    BY EmptySeq
  <2> QED BY <2>1, <2>2, <2>3, FlatOfNone
<1>2. ASSUME NEW b \in Seq(Seq(S)), b \in Q, NEW s \in Seq(S) PROVE Append(b, s) \in Q
  <2>1. Append(b, s) \in Seq(Seq(S)) /\ a \o b \in Seq(Seq(S))
    BY AppendProperties, ConcatProperties
  <2>2. a \o Append(b, s) = Append(a \o b, s)
    BY AppendJoined
  <2>3. Flat(Append(a \o b, s)) = Flat(a \o b) \o s
    <3> DEFINE c == a \o b
    <3>1. c \in Seq(Seq(S))
      BY <2>1
    <3> HIDE DEF c
    <3>2. Flat(Append(c, s)) = Flat(c) \o s
      BY <3>1, FlatAppended
    <3> QED BY <3>2 DEF c
  <2>4. Flat(a \o b) = Flat(a) \o Flat(b)
    BY <1>2
  <2>5. (Flat(a) \o Flat(b)) \o s = Flat(a) \o (Flat(b) \o s)
    <3>1. Flat(a) \in Seq(S) /\ Flat(b) \in Seq(S)
      BY FlatType
    <3> QED BY <3>1, ConcatAssociative
  <2>6. Flat(Append(b, s)) = Flat(b) \o s
    BY FlatAppended
  <2> QED BY <2>1, <2>2, <2>3, <2>4, <2>5, <2>6
<1>3. \A b \in Seq(Seq(S)) : b \in Q
  <2> HIDE DEF Q
  <2> QED BY <1>1, <1>2, SeqInduction
<1> QED BY <1>3


-----------------------------------------------------------------------------
(***************************************************************************)
(* HtmlText: every article of tags, entities and text, whatever entities   *)
(* are known.  StripHtml() is a loop over the characters: behind each      *)
(* piece it stands outside of tags and entities, and has written what the  *)
(* pieces so far mean.                                                     *)
(***************************************************************************)

\* The end of an entity, by name: a character the provers do not spell.
Semicolon == ";"

Named == {Names[name] : name \in DOMAIN Names}
Plain == {"a", " ", "\n", Semicolon, ">"}
TextChars == Plain \union {"&"} \union Named
HtmlChars == TextChars \union {"<"} \union DOMAIN Names

ArticleInv == HtmlAssumption /\ pieces \in Seq(Pieces)

HtmlsOf(ps) == [i \in DOMAIN ps |-> ps[i].html]
TextsOf(ps) == [i \in DOMAIN ps |-> ps[i].text]

LEMMA ArticleConstants ==
    ASSUME HtmlAssumption
    PROVE
    /\ MaxEntity \in Nat /\ MaxEntity >= 2
    /\ "a" \notin DOMAIN Names /\ Semicolon \notin DOMAIN Names /\ Semicolon # "a"
    /\ "{" \notin Named /\ "!" \notin Named
<1>1. /\ MaxEntity \in Nat \ {0, 1}
      /\ "a" \notin DOMAIN Names /\ ";" \notin DOMAIN Names
      /\ \A name \in DOMAIN Names : Names[name] \notin {"{", "!"}
  BY DEF HtmlAssumption
<1>2. MaxEntity \in Nat /\ MaxEntity >= 2
  <2>1. MaxEntity \in Nat \ {0, 1}
    BY <1>1
  <2>2. \A n \in Nat \ {0, 1} : n >= 2
    OBVIOUS
  <2> QED BY <2>1, <2>2
<1>3. Semicolon \notin DOMAIN Names /\ Semicolon # "a"
  <2>1. ";" # "a"
    OBVIOUS
  <2> QED BY <1>1, <2>1, Zenon DEF Semicolon
<1>4. "{" \notin Named /\ "!" \notin Named
  BY <1>1 DEF Named
<1> QED BY <1>1, <1>2, <1>3, <1>4

LEMMA PieceIs ==
    ASSUME NEW p \in Pieces
    PROVE  /\ \/ \E c \in Plain : p.html = <<c>> /\ p.text = <<c>>
              \/ \E c \in {"a", "&"} : p.html = <<"<", c, ">">> /\ p.text = <<>>
              \/ \E name \in DOMAIN Names :
                    p.html = <<"&", name, Semicolon>> /\ p.text = <<Names[name]>>
              \/ p.html = <<"&", "a", Semicolon>> /\ p.text = <<"&", "a", Semicolon>>
           /\ p.html \in Seq(HtmlChars) /\ p.text \in Seq(TextChars)
           /\ p.html # <<>>
<1>1. CASE \E c \in Plain : p = Piece(<<c>>, <<c>>)
  <2>1. PICK c \in Plain : p = Piece(<<c>>, <<c>>)
    BY <1>1
  <2>2. p.html = <<c>> /\ p.text = <<c>>
    BY <2>1 DEF Piece
  <2>3. c \in HtmlChars /\ c \in TextChars
    BY DEF HtmlChars, TextChars
  <2> QED BY <2>2, <2>3
<1>2. CASE \E c \in {"a", "&"} : p = Piece(<<"<", c, ">">>, <<>>)
  <2>1. PICK c \in {"a", "&"} : p = Piece(<<"<", c, ">">>, <<>>)
    BY <1>2
  <2>2. p.html = <<"<", c, ">">> /\ p.text = <<>>
    BY <2>1 DEF Piece
  <2>3. c \in HtmlChars /\ "<" \in HtmlChars /\ ">" \in HtmlChars
    BY DEF HtmlChars, TextChars, Plain
  <2> QED BY <2>2, <2>3
<1>3. CASE \E name \in DOMAIN Names :
             p = Piece(<<"&", name, Semicolon>>, <<Names[name]>>)
  <2>1. PICK name \in DOMAIN Names :
             p = Piece(<<"&", name, Semicolon>>, <<Names[name]>>)
    BY <1>3
  <2>2. p.html = <<"&", name, Semicolon>> /\ p.text = <<Names[name]>>
    BY <2>1 DEF Piece
  <2>3. Names[name] \in Named
    BY DEF Named
  <2>4. /\ name \in HtmlChars /\ "&" \in HtmlChars /\ Semicolon \in HtmlChars
        /\ Names[name] \in TextChars
    BY <2>3 DEF HtmlChars, TextChars, Plain
  <2>5. p.html \in Seq(HtmlChars) /\ p.html # <<>>
    BY <2>2, <2>4
  <2>6. p.text \in Seq(TextChars)
    BY <2>2, <2>4
  <2> QED BY <2>2, <2>5, <2>6
<1>4. CASE p = Piece(<<"&", "a", Semicolon>>, <<"&", "a", Semicolon>>)
  <2>1. p.html = <<"&", "a", Semicolon>> /\ p.text = <<"&", "a", Semicolon>>
    BY <1>4 DEF Piece
  <2>2. "&" \in TextChars /\ Semicolon \in TextChars /\ "a" \in TextChars
    BY DEF TextChars, Plain
  <2>3. "&" \in HtmlChars /\ Semicolon \in HtmlChars /\ "a" \in HtmlChars
    BY <2>2 DEF HtmlChars
  <2>4. p.html \in Seq(HtmlChars) /\ p.html # <<>>
    BY <2>1, <2>3
  <2>5. p.text \in Seq(TextChars)
    BY <2>1, <2>2
  <2> QED BY <2>1, <2>4, <2>5
<1>5. \/ \E c \in Plain : p = Piece(<<c>>, <<c>>)
      \/ \E c \in {"a", "&"} : p = Piece(<<"<", c, ">">>, <<>>)
      \/ \E name \in DOMAIN Names :
            p = Piece(<<"&", name, Semicolon>>, <<Names[name]>>)
      \/ p = Piece(<<"&", "a", Semicolon>>, <<"&", "a", Semicolon>>)
  BY Zenon DEF Pieces, Plain, Semicolon
<1> QED BY <1>1, <1>2, <1>3, <1>4, <1>5

LEMMA SpelledOut ==
    ASSUME NEW ps \in Seq(Pieces)
    PROVE  /\ HtmlsOf(ps) \in Seq(Seq(HtmlChars)) /\ TextsOf(ps) \in Seq(Seq(TextChars))
           /\ Flat(HtmlsOf(ps)) \in Seq(HtmlChars) /\ Flat(TextsOf(ps)) \in Seq(TextChars)
           /\ \A p \in Pieces :
                /\ HtmlsOf(Append(ps, p)) = Append(HtmlsOf(ps), p.html)
                /\ TextsOf(Append(ps, p)) = Append(TextsOf(ps), p.text)
                /\ Flat(HtmlsOf(Append(ps, p))) = Flat(HtmlsOf(ps)) \o p.html
                /\ Flat(TextsOf(Append(ps, p))) = Flat(TextsOf(ps)) \o p.text
<1>1. Len(ps) \in Nat /\ DOMAIN ps = 1..Len(ps)
  BY LenProperties
<1>2. \A i \in 1..Len(ps) : ps[i] \in Pieces
  BY ElementOfSeq
<1>3. \A i \in 1..Len(ps) : ps[i].html \in Seq(HtmlChars) /\ ps[i].text \in Seq(TextChars)
  BY <1>2, PieceIs
<1>4. /\ HtmlsOf(ps) \in Seq(Seq(HtmlChars)) /\ TextsOf(ps) \in Seq(Seq(TextChars))
      /\ Len(HtmlsOf(ps)) = Len(ps) /\ Len(TextsOf(ps)) = Len(ps)
  BY <1>1, <1>3 DEF HtmlsOf, TextsOf
<1>5. ASSUME NEW p \in Pieces
      PROVE  /\ HtmlsOf(Append(ps, p)) = Append(HtmlsOf(ps), p.html)
             /\ TextsOf(Append(ps, p)) = Append(TextsOf(ps), p.text)
  <2> DEFINE qs == Append(ps, p)
  <2>1. /\ Len(qs) = Len(ps) + 1 /\ DOMAIN qs = 1..(Len(ps) + 1)
        /\ (\A i \in 1..Len(ps) : qs[i] = ps[i]) /\ qs[Len(ps) + 1] = p
    <3>1. qs \in Seq(Pieces) /\ Len(qs) = Len(ps) + 1
      BY AppendProperties
    <3>2. (\A i \in 1..Len(ps) : qs[i] = ps[i]) /\ qs[Len(ps) + 1] = p
      BY AppendProperties
    <3> HIDE DEF qs
    <3> QED BY <3>1, <3>2, LenProperties
  <2> HIDE DEF qs
  <2>2. p.html \in Seq(HtmlChars) /\ p.text \in Seq(TextChars)
    BY PieceIs
  <2>3. HtmlsOf(qs) = Append(HtmlsOf(ps), p.html)
    <3> DEFINE a == HtmlsOf(qs)
               b == Append(HtmlsOf(ps), p.html)
    <3>1. /\ b \in Seq(Seq(HtmlChars)) /\ Len(b) = Len(ps) + 1
          /\ b[Len(ps) + 1] = p.html
          /\ \A i \in 1..Len(ps) : b[i] = HtmlsOf(ps)[i]
      BY <1>4, <2>2, AppendProperties
    <3>2. \A i \in 1..Len(ps) : HtmlsOf(ps)[i] = ps[i].html
      BY <1>1 DEF HtmlsOf
    <3>3. a = [i \in 1..(Len(ps) + 1) |-> qs[i].html]
      BY <2>1 DEF HtmlsOf
    <3>4. \A i \in 1..(Len(ps) + 1) : qs[i].html = b[i]
      BY <1>1, <2>1, <3>1, <3>2
    <3>5. b = [i \in 1..(Len(ps) + 1) |-> b[i]]
      <4> HIDE DEF b
      <4> QED BY <3>1, LenProperties
    <3> HIDE DEF a, b
    <3>6. a = b
      BY <3>3, <3>4, <3>5
    <3> QED BY <3>6 DEF a, b
  <2>4. TextsOf(qs) = Append(TextsOf(ps), p.text)
    <3> DEFINE a == TextsOf(qs)
               b == Append(TextsOf(ps), p.text)
    <3>1. /\ b \in Seq(Seq(TextChars)) /\ Len(b) = Len(ps) + 1
          /\ b[Len(ps) + 1] = p.text
          /\ \A i \in 1..Len(ps) : b[i] = TextsOf(ps)[i]
      BY <1>4, <2>2, AppendProperties
    <3>2. \A i \in 1..Len(ps) : TextsOf(ps)[i] = ps[i].text
      BY <1>1 DEF TextsOf
    <3>3. a = [i \in 1..(Len(ps) + 1) |-> qs[i].text]
      BY <2>1 DEF TextsOf
    <3>4. \A i \in 1..(Len(ps) + 1) : qs[i].text = b[i]
      BY <1>1, <2>1, <3>1, <3>2
    <3>5. b = [i \in 1..(Len(ps) + 1) |-> b[i]]
      <4> HIDE DEF b
      <4> QED BY <3>1, LenProperties
    <3> HIDE DEF a, b
    <3>6. a = b
      BY <3>3, <3>4, <3>5
    <3> QED BY <3>6 DEF a, b
  <2> QED BY <2>3, <2>4 DEF qs
<1>6. Flat(HtmlsOf(ps)) \in Seq(HtmlChars) /\ Flat(TextsOf(ps)) \in Seq(TextChars)
  BY <1>4, FlatType
<1>7. ASSUME NEW p \in Pieces
      PROVE  /\ Flat(Append(HtmlsOf(ps), p.html)) = Flat(HtmlsOf(ps)) \o p.html
             /\ Flat(Append(TextsOf(ps), p.text)) = Flat(TextsOf(ps)) \o p.text
  <2>1. p.html \in Seq(HtmlChars) /\ p.text \in Seq(TextChars)
    BY PieceIs
  <2>2. Flat(Append(HtmlsOf(ps), p.html)) = Flat(HtmlsOf(ps)) \o p.html
    BY <1>4, <2>1, FlatAppended
  <2>3. Flat(Append(TextsOf(ps), p.text)) = Flat(TextsOf(ps)) \o p.text
    BY <1>4, <2>1, FlatAppended
  <2> QED BY <2>2, <2>3
<1> QED BY <1>4, <1>5, <1>6, <1>7


-----------------------------------------------------------------------------
(* Tags and entities. *)

Semis(i) == {j \in (i + 1)..Len(Html) : Html[j] = Semicolon}
IsEntityAt(i) == Semis(i) # {} /\ Min(Semis(i)) - i <= MaxEntity
EntityAt(i) ==
    LET entity == SubSeq(Html, i, Min(Semis(i)))
    IN  IF Len(entity) = 3 /\ entity[2] \in DOMAIN Names
        THEN <<Names[entity[2]]>> ELSE entity
DecodeStep(acc, i) ==
    CASE acc.skip > 0 -> [acc EXCEPT !.skip = acc.skip - 1]
      [] acc.skip = 0 /\ acc.in_tag -> [acc EXCEPT !.in_tag = Html[i] # ">"]
      [] acc.skip = 0 /\ ~acc.in_tag /\ Html[i] = "<" -> [acc EXCEPT !.in_tag = TRUE]
      [] acc.skip = 0 /\ ~acc.in_tag /\ Html[i] = "&" /\ IsEntityAt(i) ->
           [acc EXCEPT !.out = acc.out \o EntityAt(i), !.skip = Min(Semis(i)) - i]
      [] OTHER -> [acc EXCEPT !.out = Append(acc.out, Html[i])]
Decoding == INSTANCE DeskLemmas WITH Op <- DecodeStep

Stand(out, in_tag, skip) == [out |-> out, in_tag |-> in_tag, skip |-> skip]
Outside(out) == Stand(out, FALSE, 0)
Inside(out) == Stand(out, TRUE, 0)          \* of a tag
Skipping(out, skip) == Stand(out, FALSE, skip)

LEMMA DecodedIs ==
    Decoded(Html)
       = Decoding!Fold(Outside(<<>>), [i \in DOMAIN Html |-> i]).out
BY DEF Decoded, Outside, Stand, Decoding!Fold, FoldLeft,
       MapThenFoldSet, Decoding!MapThenFoldSet, Decoding!Max, Max,
       DecodeStep, IsEntityAt, EntityAt, Semis, Semicolon

LEMMA LeastIs ==
    ASSUME NEW S, NEW m \in S, S \subseteq Int, \A x \in S : m <= x
    PROVE  Min(S) = m
<1>1. \A x \in S : (\A y \in S : x <= y) <=> x = m
  OBVIOUS
<1> QED BY <1>1 DEF Min

\* One turn of the loop.
LEMMA DecodeStepIs ==
    ASSUME NEW out, NEW i
    PROVE  LET c == Html[i]
           IN  /\ c \notin {"<", "&"} =>
                    DecodeStep(Outside(out), i) = Outside(Append(out, c))
               /\ c = "<" => DecodeStep(Outside(out), i) = Inside(out)
               /\ c # ">" => DecodeStep(Inside(out), i) = Inside(out)
               /\ c = ">" => DecodeStep(Inside(out), i) = Outside(out)
               /\ c = "&" /\ IsEntityAt(i) /\ Min(Semis(i)) - i = 2 =>
                    DecodeStep(Outside(out), i) = Skipping(out \o EntityAt(i), 2)
               /\ DecodeStep(Skipping(out, 2), i) = Skipping(out, 1)
               /\ DecodeStep(Skipping(out, 1), i) = Outside(out)
<1> DEFINE c == Html[i]
           s == Outside(out)
           t == Stand(out, TRUE, 0)
           e == EntityAt(i)
<1>1. /\ s.out = out /\ s.in_tag = FALSE /\ s.skip = 0
      /\ t.out = out /\ t.in_tag = TRUE /\ t.skip = 0
  BY DEF Outside, Stand
<1> HIDE DEF c, e
<1>2. /\ [s EXCEPT !.out = Append(out, c)] = Outside(Append(out, c))
      /\ [s EXCEPT !.in_tag = TRUE] = t
      /\ [s EXCEPT !.out = out \o e, !.skip = 2] = Stand(out \o e, FALSE, 2)
      /\ [t EXCEPT !.in_tag = TRUE] = t /\ [t EXCEPT !.in_tag = FALSE] = s
  <2>1. \A no, yes :
           /\ [Stand(out, no, 0) EXCEPT !.out = Append(out, c)]
                 = Stand(Append(out, c), no, 0)
           /\ [Stand(out, no, 0) EXCEPT !.in_tag = yes] = Stand(out, yes, 0)
           /\ [Stand(out, no, 0) EXCEPT !.out = out \o e, !.skip = 2]
                 = Stand(out \o e, no, 2)
    <3> SUFFICES ASSUME NEW no, NEW yes
                 PROVE  /\ [Stand(out, no, 0) EXCEPT !.out = Append(out, c)]
                              = Stand(Append(out, c), no, 0)
                        /\ [Stand(out, no, 0) EXCEPT !.in_tag = yes] = Stand(out, yes, 0)
                        /\ [Stand(out, no, 0) EXCEPT !.out = out \o e, !.skip = 2]
                              = Stand(out \o e, no, 2)
      OBVIOUS
    <3>1. [Stand(out, no, 0) EXCEPT !.out = Append(out, c)] = Stand(Append(out, c), no, 0)
      BY DEF Stand
    <3>2. [Stand(out, no, 0) EXCEPT !.in_tag = yes] = Stand(out, yes, 0)
      BY DEF Stand
    <3>3. [Stand(out, no, 0) EXCEPT !.out = out \o e, !.skip = 2] = Stand(out \o e, no, 2)
      <4> DEFINE u == Stand(out, no, 0)
                 x == out \o e
      <4> HIDE DEF x
      <4>1. [u EXCEPT !.out = x] = Stand(x, no, 0)
        BY DEF Stand
      <4>2. [Stand(x, no, 0) EXCEPT !.skip = 2] = Stand(x, no, 2)
        BY DEF Stand
      <4> HIDE DEF u
      <4>3. [u EXCEPT !.out = x, !.skip = 2] = [[u EXCEPT !.out = x] EXCEPT !.skip = 2]
        OBVIOUS
      <4> QED BY <4>1, <4>2, <4>3 DEF u, x
    <3> QED BY <3>1, <3>2, <3>3
  <2> QED BY <2>1, Zenon DEF Outside
<1> HIDE DEF s, t
<1>3. c \notin {"<", "&"} => DecodeStep(s, i) = Outside(Append(out, c))
  BY <1>1, <1>2 DEF DecodeStep, c
<1>4. c = "<" => DecodeStep(s, i) = t
  BY <1>1, <1>2 DEF DecodeStep, c
<1>5. c # ">" => DecodeStep(t, i) = t
  <2>1. DecodeStep(t, i) = [t EXCEPT !.in_tag = c # ">"]
    BY <1>1 DEF DecodeStep, c
  <2> SUFFICES ASSUME c # ">" PROVE DecodeStep(t, i) = t
    OBVIOUS
  <2>2. (c # ">") = TRUE
    OBVIOUS
  <2> QED BY <1>2, <2>1, <2>2
<1>6. c = ">" => DecodeStep(t, i) = s
  <2>1. DecodeStep(t, i) = [t EXCEPT !.in_tag = c # ">"]
    BY <1>1 DEF DecodeStep, c
  <2> SUFFICES ASSUME c = ">" PROVE DecodeStep(t, i) = s
    OBVIOUS
  <2>2. (c # ">") = FALSE
    OBVIOUS
  <2> QED BY <1>2, <2>1, <2>2
<1>7. c = "&" /\ IsEntityAt(i) /\ Min(Semis(i)) - i = 2 =>
        DecodeStep(s, i) = Stand(out \o EntityAt(i), FALSE, 2)
  <2> DEFINE m == Min(Semis(i)) - i
  <2>1. c = "&" /\ IsEntityAt(i) =>
           DecodeStep(s, i) = [s EXCEPT !.out = s.out \o e, !.skip = m]
    BY <1>1 DEF DecodeStep, c, e
  <2> HIDE DEF m
  <2> QED BY <1>1, <1>2, <2>1 DEF m, e
<1>8. DecodeStep(Stand(out, FALSE, 2), i) = Stand(out, FALSE, 1)
  <2> DEFINE u == Stand(out, FALSE, 2)
  <2>1. u.skip = 2 /\ [u EXCEPT !.skip = 1] = Stand(out, FALSE, 1)
    <3>1. u.skip = 2
      BY DEF Stand
    <3>2. \A no : [Stand(out, no, 2) EXCEPT !.skip = 1] = Stand(out, no, 1)
      BY DEF Stand
    <3> QED BY <3>1, <3>2, Zenon
  <2> HIDE DEF u
  <2>2. DecodeStep(u, i) = [u EXCEPT !.skip = u.skip - 1]
    BY <2>1 DEF DecodeStep
  <2>3. u.skip - 1 = 1
    BY <2>1
  <2> QED BY <2>1, <2>2, <2>3 DEF u
<1>9. DecodeStep(Stand(out, FALSE, 1), i) = s
  <2> DEFINE u == Stand(out, FALSE, 1)
  <2>1. u.skip = 1 /\ [u EXCEPT !.skip = 0] = s
    <3>1. u.skip = 1
      BY DEF Stand
    <3>2. \A no : [Stand(out, no, 1) EXCEPT !.skip = 0] = Stand(out, no, 0)
      BY DEF Stand
    <3> QED BY <3>1, <3>2, Zenon DEF s, Outside
  <2> HIDE DEF u
  <2>2. DecodeStep(u, i) = [u EXCEPT !.skip = u.skip - 1]
    BY <2>1 DEF DecodeStep
  <2>3. u.skip - 1 = 0
    BY <2>1
  <2> QED BY <2>1, <2>2, <2>3 DEF u
<1> QED BY <1>3, <1>4, <1>5, <1>6, <1>7, <1>8, <1>9 DEF s, t, c, Inside, Skipping

\* Where a piece stands in the article.
LEMMA Within ==
    ASSUME NEW S, NEW a \in Seq(S), NEW q \in Seq(S), NEW b \in Seq(S)
    PROVE  LET t == a \o (q \o b)
           IN  /\ t \in Seq(S) /\ Len(t) = Len(a) + Len(q) + Len(b)
               /\ Len(a) \in Nat /\ Len(q) \in Nat /\ Len(b) \in Nat
               /\ \A j \in 1..Len(q) : t[Len(a) + j] = q[j]
<1> DEFINE u == q \o b
<1>1. /\ u \in Seq(S) /\ Len(u) = Len(q) + Len(b)
      /\ Len(a) \in Nat /\ Len(q) \in Nat /\ Len(b) \in Nat
      /\ \A j \in 1..Len(q) : u[j] = q[j]
  BY Joined, LenProperties DEF JoinOf
<1> HIDE DEF u
<1> DEFINE t == a \o u
<1>2. /\ t \in Seq(S) /\ Len(t) = Len(a) + Len(u)
      /\ \A j \in 1..Len(u) : t[Len(a) + j] = u[j]
  <2>1. u \in Seq(S)
    BY <1>1
  <2> QED BY <2>1, Joined DEF JoinOf
<1> HIDE DEF t
<1>3. \A j \in 1..Len(q) : t[Len(a) + j] = q[j]
  BY <1>1, <1>2
<1> QED BY <1>1, <1>2, <1>3 DEF t, u

\* An entity is found where it stands.
LEMMA EntityFound ==
    ASSUME HtmlAssumption, NEW a \in Seq(HtmlChars), NEW b \in Seq(HtmlChars), NEW name \in HtmlChars,
           name # Semicolon, NEW q \in Seq(HtmlChars), q = <<"&", name, Semicolon>>,
           Html = a \o (q \o b)
    PROVE  LET i == Len(a) + 1
           IN  /\ Min(Semis(i)) - i = 2 /\ IsEntityAt(i)
               /\ EntityAt(i) = IF name \in DOMAIN Names THEN <<Names[name]>> ELSE q
<1> DEFINE t == Html
           i == Len(a) + 1
<1>1. Len(q) = 3 /\ q[1] = "&" /\ q[2] = name /\ q[3] = Semicolon
  OBVIOUS
<1> HIDE DEF t
<1>2. /\ t \in Seq(HtmlChars) /\ Len(t) = Len(a) + 3 + Len(b)
      /\ Len(a) \in Nat /\ Len(b) \in Nat
      /\ \A j \in 1..3 : t[Len(a) + j] = q[j]
  <2> DEFINE w == a \o (q \o b)
  <2>1. /\ w \in Seq(HtmlChars) /\ Len(w) = Len(a) + Len(q) + Len(b)
        /\ Len(a) \in Nat /\ Len(b) \in Nat
        /\ \A j \in 1..Len(q) : w[Len(a) + j] = q[j]
    BY Within
  <2>2. t = w
    BY DEF t
  <2> HIDE DEF w
  <2> QED BY <1>1, <2>1, <2>2
<1>3. t[i + 2] = Semicolon /\ t[i + 1] = name /\ t[i] = "&"
  <2>1. t[Len(a) + 3] = q[3] /\ t[Len(a) + 2] = q[2] /\ t[Len(a) + 1] = q[1]
    BY <1>2
  <2>2. i + 2 = Len(a) + 3 /\ i + 1 = Len(a) + 2
    BY <1>2
  <2> QED BY <1>1, <2>1, <2>2
<1>4. Min(Semis(i)) = i + 2
  <2> DEFINE D == Semis(i)
  <2>1. D = {j \in (i + 1)..Len(t) : t[j] = Semicolon}
    BY DEF Semis, t
  <2> HIDE DEF D
  <2>2. i + 2 \in D
    BY <1>2, <1>3, <2>1
  <2>3. D \subseteq Int
    BY <1>2, <2>1
  <2>4. ASSUME NEW x \in D PROVE i + 2 <= x
    <3>1. x \in Int /\ x >= i + 1 /\ t[x] = Semicolon
      BY <1>2, <2>1
    <3>2. x # i + 1
      BY <1>3, <3>1
    <3> QED BY <1>2, <3>1, <3>2
  <2>5. Min(D) = i + 2
    BY <2>2, <2>3, <2>4, LeastIs
  <2> QED BY <2>5 DEF D
<1>5. Semis(i) # {}
  <2>1. Semis(i) = {j \in (i + 1)..Len(t) : t[j] = Semicolon}
    BY DEF Semis, t
  <2>2. i + 2 \in (i + 1)..Len(t)
    BY <1>2
  <2> HIDE DEF i
  <2> QED BY <1>3, <2>1, <2>2
<1>6. Min(Semis(i)) - i = 2
  BY <1>2, <1>4
<1>7. IsEntityAt(i)
  BY <1>5, <1>6, ArticleConstants DEF IsEntityAt
<1>8. SubSeq(t, i, i + 2) = q
  <2> DEFINE e == SubSeq(t, i, i + 2)
  <2>1. /\ e \in Seq(HtmlChars) /\ Len(e) = 3
        /\ \A n \in 1..3 : e[n] = t[i + n - 1]
    <3>1. i \in Int /\ i + 2 \in Int /\ 1 <= i /\ i + 2 <= Len(t)
          /\ (i + 2) - i + 1 = 3 /\ i <= i + 2
      BY <1>2
    <3> HIDE DEF i
    <3> QED BY <1>2, <3>1, Stretch
  <2> HIDE DEF e
  <2>2. \A n \in 1..3 : e[n] = q[n]
    <3> SUFFICES ASSUME NEW n \in 1..3 PROVE e[n] = q[n]
      OBVIOUS
    <3>1. i + n - 1 = Len(a) + n
      BY <1>2
    <3> QED BY <1>2, <2>1, <3>1
  <2>3. e = q
    BY <1>1, <2>1, <2>2, SeqEqual
  <2> QED BY <2>3 DEF e
<1>9. EntityAt(i) = IF name \in DOMAIN Names THEN <<Names[name]>> ELSE q
  <2> DEFINE m == Min(Semis(i))
  <2>1. EntityAt(i) = IF Len(SubSeq(t, i, m)) = 3 /\ SubSeq(t, i, m)[2] \in DOMAIN Names
                      THEN <<Names[SubSeq(t, i, m)[2]]>> ELSE SubSeq(t, i, m)
    BY DEF EntityAt, t
  <2>2. SubSeq(t, i, m) = q
    BY <1>4, <1>8
  <2> HIDE DEF m
  <2> QED BY <1>1, <2>1, <2>2
<1> QED BY <1>6, <1>7, <1>9


\* The loop has come to a piece, with some of the article before and behind it.
PieceAt(p, q, m, a, b, t, n, out, v) ==
    /\ p \in Pieces /\ q = p.html /\ m = p.text
    /\ a \in Seq(HtmlChars) /\ b \in Seq(HtmlChars)
    /\ t = Html /\ t = a \o (q \o b)
    /\ n \in Nat /\ n >= Len(a) + Len(q)
    /\ out \in Seq(TextChars) /\ v[Len(a)] = Outside(out)
    /\ \A k \in 1..n : v[k] = DecodeStep(v[k - 1], k)

\* Over a piece the loop writes what the piece means.
LEMMA PieceDecoded ==
    ASSUME HtmlAssumption, NEW p, NEW q, NEW m, NEW a, NEW b, NEW t, NEW n, NEW out, NEW v,
           PieceAt(p, q, m, a, b, t, n, out, v)
    PROVE  v[Len(a) + Len(q)] = Outside(out \o m)
<1> USE DEF PieceAt
<1> DEFINE L == Len(a)
<1>0. q \in Seq(HtmlChars) /\ q # <<>>
  BY PieceIs
<1>1. L \in Nat /\ Len(q) \in Nat /\ \A j \in 1..Len(q) : t[L + j] = q[j]
  <2> QED BY <1>0, Within
<1>2. \A j \in 1..Len(q) : v[L + j] = DecodeStep(v[L + j - 1], L + j)
  <2> SUFFICES ASSUME NEW j \in 1..Len(q)
               PROVE  v[L + j] = DecodeStep(v[L + j - 1], L + j)
    OBVIOUS
  <2> DEFINE k == L + j
  <2>1. k \in 1..n
    BY <1>1
  <2> HIDE DEF k
  <2>2. v[k] = DecodeStep(v[k - 1], k)
    BY <2>1
  <2> QED BY <2>2 DEF k
<1>3. v[L] = Outside(out)
  OBVIOUS
<1> HIDE DEF L
<1>4. ASSUME Len(q) = 3
      PROVE  /\ v[L + 1] = DecodeStep(v[L], L + 1) /\ v[L + 2] = DecodeStep(v[L + 1], L + 2)
             /\ v[L + 3] = DecodeStep(v[L + 2], L + 3)
             /\ t[L + 1] = q[1] /\ t[L + 2] = q[2] /\ t[L + 3] = q[3]
  <2>1. L + 1 - 1 = L /\ L + 2 - 1 = L + 1 /\ L + 3 - 1 = L + 2
    BY <1>1
  <2>2. 1 \in 1..Len(q) /\ 2 \in 1..Len(q) /\ 3 \in 1..Len(q)
    BY <1>4
  <2> QED BY <1>1, <1>2, <2>1, <2>2
<1>5. CASE \E c \in Plain : q = <<c>> /\ m = <<c>>
  <2>1. PICK c \in Plain : q = <<c>> /\ m = <<c>>
    BY <1>5
  <2>2. Len(q) = 1 /\ q[1] = c
    BY <2>1
  <2>3. v[L + 1] = DecodeStep(v[L], L + 1) /\ t[L + 1] = c
    <3>1. L + 1 - 1 = L /\ 1 \in 1..Len(q)
      BY <1>1, <2>2
    <3> QED BY <1>1, <1>2, <2>2, <3>1
  <2>4. c \notin {"<", "&"}
    BY Zenon DEF Plain, Semicolon
  <2>5. v[L + 1] = Outside(Append(out, c))
    <3>1. Html[L + 1] = c
      BY <2>3
    <3>2. DecodeStep(Outside(out), L + 1) = Outside(Append(out, Html[L + 1]))
      BY <2>4, <3>1, DecodeStepIs
    <3> QED BY <1>3, <2>3, <3>1, <3>2
  <2>6. Append(out, c) = out \o <<c>>
    <3>1. c \in TextChars
      BY DEF TextChars
    <3> QED BY <3>1, AppendIsConcat
  <2> QED BY <2>1, <2>2, <2>5, <2>6 DEF L
<1>6. CASE \E c \in {"a", "&"} : q = <<"<", c, ">">> /\ m = <<>>
  <2>1. PICK c \in {"a", "&"} : q = <<"<", c, ">">> /\ m = <<>>
    BY <1>6
  <2>2. Len(q) = 3 /\ q[1] = "<" /\ q[2] = c /\ q[3] = ">"
    BY <2>1
  <2>3. c # ">"
    OBVIOUS
  <2>4. v[L + 1] = Inside(out)
    BY <1>3, <1>4, <2>2, DecodeStepIs
  <2>5. v[L + 2] = Inside(out)
    <3>1. Html[L + 2] # ">"
      BY <1>4, <2>2, <2>3
    <3>2. DecodeStep(Inside(out), L + 2) = Inside(out)
      BY <3>1, DecodeStepIs
    <3> QED BY <1>4, <2>2, <2>4, <3>2
  <2>6. v[L + 3] = Outside(out)
    <3>1. Html[L + 3] = ">"
      BY <1>4, <2>2
    <3>2. DecodeStep(Inside(out), L + 3) = Outside(out)
      BY <3>1, DecodeStepIs
    <3> QED BY <1>4, <2>2, <2>5, <3>2
  <2>7. out \o m = out
    BY <2>1, EmptyJoined
  <2> QED BY <2>2, <2>6, <2>7 DEF L
<1>7. ASSUME NEW name \in HtmlChars, name # Semicolon, q = <<"&", name, Semicolon>>,
             m = IF name \in DOMAIN Names THEN <<Names[name]>> ELSE q
      PROVE  v[Len(a) + Len(q)] = Outside(out \o m)
  <2>1. Len(q) = 3 /\ q[1] = "&"
    BY <1>7
  <2>2. /\ Min(Semis(L + 1)) - (L + 1) = 2 /\ IsEntityAt(L + 1)
        /\ EntityAt(L + 1) = m
    <3>1. Html = a \o (q \o b)
      OBVIOUS
    <3>2. /\ Min(Semis(Len(a) + 1)) - (Len(a) + 1) = 2 /\ IsEntityAt(Len(a) + 1)
          /\ EntityAt(Len(a) + 1) = IF name \in DOMAIN Names THEN <<Names[name]>> ELSE q
      BY <1>0, <1>7, <3>1, EntityFound
    <3> QED BY <1>7, <3>2 DEF L
  <2>3. v[L + 1] = Skipping(out \o m, 2)
    <3>1. Html[L + 1] = "&"
      BY <1>4, <2>1
    <3>2. DecodeStep(Outside(out), L + 1) = Skipping(out \o EntityAt(L + 1), 2)
      BY <2>2, <3>1, DecodeStepIs
    <3> QED BY <1>3, <1>4, <2>1, <2>2, <3>2
  <2>4. v[L + 2] = Skipping(out \o m, 1)
    BY <1>4, <2>1, <2>3, DecodeStepIs
  <2>5. v[L + 3] = Outside(out \o m)
    BY <1>4, <2>1, <2>4, DecodeStepIs
  <2> QED BY <2>1, <2>5 DEF L
<1>8. CASE \E name \in DOMAIN Names :
             q = <<"&", name, Semicolon>> /\ m = <<Names[name]>>
  <2>1. PICK name \in DOMAIN Names :
             q = <<"&", name, Semicolon>> /\ m = <<Names[name]>>
    BY <1>8
  <2>2. name \in HtmlChars /\ name # Semicolon
    BY ArticleConstants DEF HtmlChars
  <2> QED BY <1>7, <2>1, <2>2
<1>9. CASE q = <<"&", "a", Semicolon>> /\ m = <<"&", "a", Semicolon>>
  <2>1. "a" \in HtmlChars /\ "a" # Semicolon /\ "a" \notin DOMAIN Names
    BY ArticleConstants DEF HtmlChars, TextChars, Plain
  <2> QED BY <1>7, <1>9, <2>1
<1> QED BY <1>5, <1>6, <1>8, <1>9, PieceIs

LEMMA ArticleTexts ==
    ASSUME ArticleInv
    PROVE  /\ Html = Flat(HtmlsOf(pieces)) /\ Meaning = Flat(TextsOf(pieces))
           /\ Html \in Seq(HtmlChars) /\ Meaning \in Seq(TextChars)
<1>1. /\ HtmlsOf(pieces) \in Seq(Seq(HtmlChars)) /\ TextsOf(pieces) \in Seq(Seq(TextChars))
      /\ Flat(HtmlsOf(pieces)) \in Seq(HtmlChars) /\ Flat(TextsOf(pieces)) \in Seq(TextChars)
  BY SpelledOut DEF ArticleInv
<1>2. /\ Html = FlattenSeq(HtmlsOf(pieces))
      /\ Meaning = FlattenSeq(TextsOf(pieces))
  BY DEF Html, Meaning, HtmlsOf, TextsOf
<1>3. /\ Flattened(HtmlsOf(pieces)) = Flat(HtmlsOf(pieces))
      /\ Flattened(TextsOf(pieces)) = Flat(TextsOf(pieces))
  BY <1>1, FlattenedIsFlat
<1> QED BY <1>1, <1>2, <1>3, FlattenIsFlattened

LEMMA MeaningDecoded == ArticleInv => MeaningIsDecoded
<1> SUFFICES ASSUME ArticleInv PROVE Decoded(Html) = Meaning
  BY DEF MeaningIsDecoded
<1> DEFINE t == Html
           n == Len(t)
           seq == [i \in DOMAIN t |-> i]
<1>0. HtmlAssumption
  BY DEF ArticleInv
<1>1. t \in Seq(HtmlChars) /\ n \in Nat /\ DOMAIN t = 1..n
  BY ArticleTexts, LenProperties
<1> HIDE DEF t, n
<1>2. PICK v : Decoding!Trace(v, Outside(<<>>), seq, n)
  BY <1>1, Decoding!TraceExists
<1>3. v[0] = Outside(<<>>) /\ \A k \in 1..n : v[k] = DecodeStep(v[k - 1], k)
  BY <1>1, <1>2 DEF Decoding!Trace
<1>4. Decoded(t) = v[n].out
  <2>1. DOMAIN seq = 1..n
    BY <1>1
  <2> HIDE DEF seq
  <2>2. Decoding!Fold(Outside(<<>>), seq) = v[n]
    BY <1>1, <1>2, <2>1, Decoding!FoldOfTrace
  <2> QED BY <2>2, DecodedIs DEF t, seq
<1> DEFINE H(ps) == Flat(HtmlsOf(ps))
           M(ps) == Flat(TextsOf(ps))
           Q == {ps \in Seq(Pieces) :
                   \A b \in Seq(HtmlChars) :
                      t = H(ps) \o b => v[Len(H(ps))] = Outside(M(ps))}
<1>5. <<>> \in Q
  <2>1. HtmlsOf(<<>>) = <<>> /\ TextsOf(<<>>) = <<>>
    BY DEF HtmlsOf, TextsOf
  <2>2. H(<<>>) = <<>> /\ M(<<>>) = <<>> /\ Len(<<>>) = 0
    BY <2>1, FlatOfNone
  <2>3. <<>> \in Seq(Pieces)
    BY EmptySeq
  <2> HIDE DEF H, M
  <2> QED BY <1>3, <2>2, <2>3
<1>6. ASSUME NEW ps \in Seq(Pieces), ps \in Q, NEW p \in Pieces
      PROVE  Append(ps, p) \in Q
  <2> DEFINE qs == Append(ps, p)
  <2>1. /\ H(ps) \in Seq(HtmlChars) /\ M(ps) \in Seq(TextChars)
        /\ H(qs) = H(ps) \o p.html /\ M(qs) = M(ps) \o p.text
    BY SpelledOut
  <2>2. qs \in Seq(Pieces)
    BY AppendProperties
  <2>3. p.html \in Seq(HtmlChars)
    BY PieceIs
  <2> HIDE DEF qs, H, M
  <2>4. ASSUME NEW b \in Seq(HtmlChars), t = H(qs) \o b
        PROVE  v[Len(H(qs))] = Outside(M(qs))
    <3> DEFINE a == H(ps)
               q == p.html
               m == p.text
               c == q \o b
    <3> HIDE DEF q, m
    <3>0. q \in Seq(HtmlChars) /\ q = p.html /\ m = p.text
      BY <2>3 DEF q, m
    <3>1. t = a \o c
      <4>1. H(qs) = a \o q
        BY <2>1, <3>0
      <4>2. a \in Seq(HtmlChars)
        BY <2>1
      <4>3. q \in Seq(HtmlChars)
        BY <3>0
      <4> HIDE DEF a
      <4>4. (a \o q) \o b = a \o (q \o b)
        BY <4>2, <4>3, ConcatAssociative
      <4> QED BY <2>4, <4>1, <4>4
    <3>2. c \in Seq(HtmlChars)
      BY <3>0, ConcatProperties
    <3>3. v[Len(a)] = Outside(M(ps))
      <4> HIDE DEF c
      <4> QED BY <1>6, <3>1, <3>2
    <3>4. n >= Len(a) + Len(q) /\ Len(H(qs)) = Len(a) + Len(q)
      <4>1. Len(H(qs)) = Len(a) + Len(q) /\ H(qs) \in Seq(HtmlChars)
        BY <2>1, <3>0, ConcatProperties
      <4>2. n = Len(H(qs)) + Len(b)
        <5>1. n = Len(H(qs) \o b)
          BY <2>4 DEF n
        <5> QED BY <4>1, <5>1, ConcatProperties
      <4>3. Len(H(qs)) \in Nat /\ Len(b) \in Nat
        BY <4>1, LenProperties
      <4> QED BY <4>1, <4>2, <4>3
    <3>5. t = Html /\ t = a \o (q \o b)
      BY <3>1 DEF t
    <3> DEFINE o == M(ps)
    <3>6. a \in Seq(HtmlChars) /\ o \in Seq(TextChars)
      BY <2>1
    <3> HIDE DEF a, o, c
    <3>7. v[Len(a) + Len(q)] = Outside(o \o m)
      <4>1. v[Len(a)] = Outside(o)
        BY <3>3 DEF o
      <4>2. n \in Nat /\ n >= Len(a) + Len(q)
        BY <1>1, <3>4
      <4>3. \A k \in 1..n : v[k] = DecodeStep(v[k - 1], k)
        BY <1>3
      <4>4. q = p.html /\ m = p.text
        BY <3>0
      <4>5. PieceAt(p, q, m, a, b, t, n, o, v)
        BY <3>5, <3>6, <4>1, <4>2, <4>3, <4>4 DEF PieceAt
      <4> QED BY <1>0, <4>5, PieceDecoded
    <3> QED BY <2>1, <3>0, <3>4, <3>7 DEF o
  <2>5. qs \in Q
    BY <2>2, <2>4
  <2> QED BY <2>5 DEF qs
<1>7. \A ps \in Seq(Pieces) : ps \in Q
  <2> HIDE DEF Q
  <2> QED BY <1>5, <1>6, SeqInduction
<1>8. t = H(pieces) \o <<>> /\ <<>> \in Seq(HtmlChars) /\ n = Len(H(pieces))
      /\ Meaning = M(pieces)
  <2>1. t = H(pieces) /\ Meaning = M(pieces)
    BY ArticleTexts DEF t
  <2> HIDE DEF H, M
  <2> QED BY <1>1, <2>1, EmptyJoined, EmptySeq DEF n
<1>9. v[n] = Outside(M(pieces))
  <2>1. pieces \in Seq(Pieces)
    BY DEF ArticleInv
  <2> HIDE DEF H, M
  <2> QED BY <1>7, <1>8, <2>1
<1>10. v[n].out = M(pieces)
  BY <1>9 DEF Outside, Stand
<1> QED BY <1>4, <1>8, <1>10 DEF t


-----------------------------------------------------------------------------
(* Blank space.  Newlines are held back until the next character is written; *)
(* what is read of the text written so far, and then of as many newlines, is *)
(* what is read of the whole text.                                           *)

NewlinesPut(acc) ==
    IF acc.newline_run = 0 THEN acc
    ELSE [out |-> acc.out \o IF acc.newline_run >= 2 THEN <<"\n", "\n">> ELSE <<"\n">>,
          newline_run |-> 0, last_space |-> FALSE]
Written(acc, out, space) == [acc EXCEPT !.out = out, !.last_space = space]
Counted(acc, run, space) == [acc EXCEPT !.newline_run = run, !.last_space = space]
CharPut(acc, c) ==
    CASE c = " " /\ acc.last_space -> acc
      [] OTHER -> Written(acc, Append(acc.out, c), c = " ")
CollapseStep(acc, c) ==
    IF c = "\n"
    THEN Counted(acc, acc.newline_run + 1, FALSE)
    ELSE CharPut(NewlinesPut(acc), c)
Collapsing == INSTANCE DeskLemmas WITH Op <- CollapseStep

Held(out, run, space) == [out |-> out, newline_run |-> run, last_space |-> space]

LEMMA CollapsedIs ==
    \A text : Collapsed(text) = Collapsing!Fold(Held(<<>>, 0, FALSE), text).out
BY DEF Collapsed, Held, Collapsing!Fold, FoldLeft,
       MapThenFoldSet, Collapsing!MapThenFoldSet, Collapsing!Max, Max,
       CollapseStep, CharPut, NewlinesPut, Written, Counted

ShapeStep(acc, c) ==
    CASE c = " " -> [acc EXCEPT !.word = FALSE]
      [] c = "\n" -> [acc EXCEPT !.word = FALSE, !.blank = TRUE,
                                 !.open = acc.open /\ ~acc.blank]
      [] c \notin {" ", "\n"} ->
           [done |-> CASE ~acc.open -> Append(acc.done, << <<c>> >>)
                       [] acc.open /\ ~acc.word ->
                            [acc.done EXCEPT ![Len(acc.done)] = Append(@, <<c>>)]
                       [] acc.open /\ acc.word ->
                            [acc.done EXCEPT ![Len(acc.done)] =
                                Append(Front(@), Append(Last(@), c))],
            word |-> TRUE, open |-> TRUE, blank |-> FALSE]
Shaping == INSTANCE DeskLemmas WITH Op <- ShapeStep

Shaped(done, word, open, blank) ==
    [done |-> done, word |-> word, open |-> open, blank |-> blank]
Unread == Shaped(<<>>, FALSE, FALSE, FALSE)
ReadShape(text) == Shaping!Fold(Unread, text)

LEMMA ShapeIs == \A text : Shape(text) = ReadShape(text).done
BY DEF Shape, ReadShape, Unread, Shaped, Shaping!Fold, FoldLeft,
       MapThenFoldSet, Shaping!MapThenFoldSet, Shaping!Max, Max,
       ShapeStep

\* What a character does to what has been read.
IsShape(s) ==
    /\ s = Shaped(s.done, s.word, s.open, s.blank)
    /\ s.word \in BOOLEAN /\ s.open \in BOOLEAN /\ s.blank \in BOOLEAN

LEMMA ShapedIs ==
    ASSUME NEW d, NEW w \in BOOLEAN, NEW o \in BOOLEAN, NEW b \in BOOLEAN
    PROVE  LET s == Shaped(d, w, o, b)
           IN IsShape(s) /\ s.done = d /\ s.word = w /\ s.open = o /\ s.blank = b
<1> DEFINE s == Shaped(d, w, o, b)
<1>1. s.done = d /\ s.word = w /\ s.open = o /\ s.blank = b
  BY DEF Shaped
<1>2. s = Shaped(s.done, s.word, s.open, s.blank)
  BY <1>1
<1> HIDE DEF s
<1>3. IsShape(s)
  BY <1>1, <1>2 DEF IsShape
<1> QED BY <1>1, <1>3 DEF s

LEMMA ShapeStepIs ==
    ASSUME NEW s, IsShape(s)
    PROVE  /\ ShapeStep(s, " ") = Shaped(s.done, FALSE, s.open, s.blank)
           /\ ShapeStep(s, "\n") = Shaped(s.done, FALSE, s.open /\ ~s.blank, TRUE)
           /\ \A c : c \notin {" ", "\n"} =>
                \E d : ShapeStep(s, c) = Shaped(d, TRUE, TRUE, FALSE)
<1>1. ShapeStep(s, " ") = [s EXCEPT !.word = FALSE]
  BY DEF ShapeStep
<1>2. ShapeStep(s, "\n") = [s EXCEPT !.word = FALSE, !.blank = TRUE,
                                     !.open = s.open /\ ~s.blank]
  BY DEF ShapeStep
<1>3. ASSUME NEW c, c \notin {" ", "\n"}
      PROVE  \E d : ShapeStep(s, c) = Shaped(d, TRUE, TRUE, FALSE)
  <2>1. c # " " /\ c # "\n"
    BY <1>3
  <2>2. \E d : ShapeStep(s, c) =
                 [done |-> d, word |-> TRUE, open |-> TRUE, blank |-> FALSE]
    BY <2>1 DEF ShapeStep
  <2> QED BY <2>2 DEF Shaped
<1>4. s = Shaped(s.done, s.word, s.open, s.blank)
  BY DEF IsShape
<1> DEFINE d == s.done
           w == s.word
           o == s.open
           b == s.blank
<1> HIDE DEF d, w, o, b
<1>5. s = Shaped(d, w, o, b)
  BY <1>4 DEF d, w, o, b
<1>6. ASSUME NEW x PROVE [s EXCEPT !.word = x] = Shaped(d, x, o, b)
  <2>1. s = [done |-> d, word |-> w, open |-> o, blank |-> b]
    BY <1>5 DEF Shaped
  <2>2. [s EXCEPT !.word = x] = [done |-> d, word |-> x, open |-> o, blank |-> b]
    BY <2>1
  <2> QED BY <2>2 DEF Shaped
<1>7. ASSUME NEW x, NEW y, NEW z
      PROVE  [s EXCEPT !.word = x, !.blank = y, !.open = z] = Shaped(d, x, z, y)
  <2> DEFINE t == [s EXCEPT !.word = x]
             u == [t EXCEPT !.blank = y]
  <2>1. [s EXCEPT !.word = x, !.blank = y, !.open = z] = [u EXCEPT !.open = z]
    OBVIOUS
  <2>2. t = Shaped(d, x, o, b)
    BY <1>6
  <2> HIDE DEF t
  <2>3. u = Shaped(d, x, o, y)
    <3>1. t = [done |-> d, word |-> x, open |-> o, blank |-> b]
      BY <2>2 DEF Shaped
    <3>2. [t EXCEPT !.blank = y] = [done |-> d, word |-> x, open |-> o, blank |-> y]
      BY <3>1
    <3> QED BY <3>2 DEF Shaped
  <2> HIDE DEF u
  <2>4. [u EXCEPT !.open = z] = Shaped(d, x, z, y)
    <3>1. u = [done |-> d, word |-> x, open |-> o, blank |-> y]
      BY <2>3 DEF Shaped
    <3>2. [u EXCEPT !.open = z] = [done |-> d, word |-> x, open |-> z, blank |-> y]
      BY <3>1
    <3> QED BY <3>2 DEF Shaped
  <2> QED BY <2>1, <2>4
<1>8. ShapeStep(s, " ") = Shaped(s.done, FALSE, s.open, s.blank)
  BY <1>1, <1>6, Zenon DEF d, o, b
<1>10. ShapeStep(s, "\n") = Shaped(s.done, FALSE, s.open /\ ~s.blank, TRUE)
  BY <1>2, <1>7, Zenon DEF d
<1> QED BY <1>3, <1>8, <1>10, Zenon

\* Blanks and newlines, one after the other.
LEMMA ShapeRuns ==
    ASSUME NEW s, IsShape(s)
    PROVE  LET nl(x) == ShapeStep(x, "\n")
           IN  /\ \A c : IsShape(ShapeStep(s, c))
               /\ nl(s).done = s.done /\ nl(nl(s)).done = s.done
               /\ nl(nl(nl(s))) = nl(nl(s))
               /\ ShapeStep(s, " ").word = FALSE
               /\ ~s.word => ShapeStep(s, " ") = s
<1> DEFINE nl(x) == ShapeStep(x, "\n")
<1>0. s.word \in BOOLEAN /\ s.open \in BOOLEAN /\ s.blank \in BOOLEAN
  BY DEF IsShape
<1>1. ASSUME NEW c PROVE IsShape(ShapeStep(s, c))
  <2>1. CASE c = " "
    <3>1. FALSE \in BOOLEAN
      OBVIOUS
    <3>2. IsShape(Shaped(s.done, FALSE, s.open, s.blank))
      BY <1>0, <3>1, ShapedIs
    <3> QED BY <2>1, <3>2, ShapeStepIs
  <2>2. CASE c = "\n"
    <3>1. FALSE \in BOOLEAN /\ TRUE \in BOOLEAN /\ (s.open /\ ~s.blank) \in BOOLEAN
      OBVIOUS
    <3>2. IsShape(Shaped(s.done, FALSE, s.open /\ ~s.blank, TRUE))
      BY <3>1, ShapedIs
    <3> QED BY <2>2, <3>2, ShapeStepIs
  <2>3. CASE c \notin {" ", "\n"}
    <3>1. PICK d : ShapeStep(s, c) = Shaped(d, TRUE, TRUE, FALSE)
      BY <2>3, ShapeStepIs
    <3>2. IsShape(Shaped(d, TRUE, TRUE, FALSE))
      BY ShapedIs, Zenon
    <3> QED BY <3>1, <3>2
  <2> QED BY <2>1, <2>2, <2>3
<1>2. nl(s) = Shaped(s.done, FALSE, s.open /\ ~s.blank, TRUE) /\ IsShape(nl(s))
  BY <1>1, ShapeStepIs
<1>3. /\ nl(s).done = s.done /\ nl(s).blank = TRUE
      /\ nl(s).open \in BOOLEAN
  <2>1. FALSE \in BOOLEAN /\ TRUE \in BOOLEAN /\ (s.open /\ ~s.blank) \in BOOLEAN
    OBVIOUS
  <2> DEFINE d == s.done
             o == (s.open /\ ~s.blank)
             x == Shaped(d, FALSE, o, TRUE)
  <2> HIDE DEF d, o
  <2>2. o \in BOOLEAN
    BY <2>1 DEF o
  <2>3. x.done = d /\ x.open = o /\ x.blank = TRUE
    BY DEF Shaped
  <2> HIDE DEF x
  <2>4. nl(s) = x
    BY <1>2 DEF x, d, o
  <2> HIDE DEF nl
  <2> QED BY <2>2, <2>3, <2>4 DEF d
<1>4. \A x : IsShape(x) /\ x.blank = TRUE => nl(x) = Shaped(x.done, FALSE, FALSE, TRUE)
  <2> SUFFICES ASSUME NEW x, IsShape(x), x.blank = TRUE
               PROVE  nl(x) = Shaped(x.done, FALSE, FALSE, TRUE)
    OBVIOUS
  <2>1. nl(x) = Shaped(x.done, FALSE, x.open /\ ~x.blank, TRUE)
    BY ShapeStepIs
  <2>2. (x.open /\ ~x.blank) = FALSE
    OBVIOUS
  <2> QED BY <2>1, <2>2
<1>5. nl(nl(s)) = Shaped(s.done, FALSE, FALSE, TRUE)
  <2> HIDE DEF nl
  <2> QED BY <1>2, <1>3, <1>4
<1>6. LET x == Shaped(s.done, FALSE, FALSE, TRUE)
      IN  IsShape(x) /\ x.done = s.done /\ x.blank = TRUE
  BY ShapedIs
<1>7. nl(nl(nl(s))) = nl(nl(s)) /\ nl(nl(s)).done = s.done
  <2> HIDE DEF nl
  <2> QED BY <1>4, <1>5, <1>6
<1>8. ShapeStep(s, " ").word = FALSE
  <2>1. FALSE \in BOOLEAN
    OBVIOUS
  <2>2. Shaped(s.done, FALSE, s.open, s.blank).word = FALSE
    BY DEF Shaped
  <2> QED BY <2>2, ShapeStepIs
<1>9. ASSUME ~s.word PROVE ShapeStep(s, " ") = s
  <2>1. s.word = FALSE
    BY <1>0, <1>9
  <2>2. s = Shaped(s.done, FALSE, s.open, s.blank)
    BY <2>1 DEF IsShape
  <2> QED BY <2>2, ShapeStepIs
<1> QED BY <1>1, <1>3, <1>7, <1>8, <1>9

LEMMA ReadShapeIs ==
    ASSUME NEW S, NEW text \in Seq(S)
    PROVE  /\ ReadShape(<<>>) = Unread
           /\ \A c \in S : ReadShape(Append(text, c)) = ShapeStep(ReadShape(text), c)
BY Shaping!FoldOfNone, Shaping!FoldAppended DEF ReadShape

LEMMA ReadIsShape == ASSUME NEW S PROVE \A text \in Seq(S) : IsShape(ReadShape(text))
<1> DEFINE Q == {text \in Seq(S) : IsShape(ReadShape(text))}
<1>1. <<>> \in Q
  <2>1. IsShape(Unread)
    BY ShapedIs DEF Unread
  <2>2. ReadShape(<<>>) = Unread
    BY Shaping!FoldOfNone DEF ReadShape
  <2> QED BY <2>1, <2>2, EmptySeq
<1>2. ASSUME NEW text \in Seq(S), text \in Q, NEW c \in S PROVE Append(text, c) \in Q
  <2>1. ReadShape(Append(text, c)) = ShapeStep(ReadShape(text), c)
    BY ReadShapeIs
  <2>2. IsShape(ShapeStep(ReadShape(text), c))
    BY <1>2, ShapeRuns
  <2>3. Append(text, c) \in Seq(S)
    BY AppendProperties
  <2> QED BY <2>1, <2>2, <2>3
<1>3. \A text \in Seq(S) : text \in Q
  <2> HIDE DEF Q
  <2> QED BY <1>1, <1>2, SeqInduction
<1> QED BY <1>3


\* What is read of a text, and then of as many newlines.
After(s, run) ==
    IF run = 0 THEN s
    ELSE IF run = 1 THEN ShapeStep(s, "\n") ELSE ShapeStep(ShapeStep(s, "\n"), "\n")

LEMMA OneMore ==
    ASSUME NEW s, IsShape(s), NEW run \in Nat
    PROVE  ShapeStep(After(s, run), "\n") = After(s, run + 1)
<1> DEFINE nl(x) == ShapeStep(x, "\n")
<1>1. nl(nl(nl(s))) = nl(nl(s))
  BY ShapeRuns
<1>2. After(s, run) = (IF run = 0 THEN s ELSE IF run = 1 THEN nl(s) ELSE nl(nl(s)))
  BY DEF After
<1>3. After(s, run + 1) =
        (IF run + 1 = 0 THEN s ELSE IF run + 1 = 1 THEN nl(s) ELSE nl(nl(s)))
  BY DEF After
<1> HIDE DEF nl
<1>4. nl(After(s, run)) = After(s, run + 1)
  <2>1. CASE run = 0
    <3>1. run + 1 = 1 /\ run + 1 # 0
      BY <2>1
    <3> QED BY <1>2, <1>3, <2>1, <3>1
  <2>2. CASE run = 1
    <3>1. run + 1 # 1 /\ run + 1 # 0 /\ run # 0
      BY <2>2
    <3> QED BY <1>2, <1>3, <2>2, <3>1
  <2>3. CASE run # 0 /\ run # 1
    <3>1. run + 1 # 1 /\ run + 1 # 0
      BY <2>3
    <3> QED BY <1>1, <1>2, <1>3, <2>3, <3>1
  <2> QED BY <2>1, <2>2, <2>3
<1> QED BY <1>4 DEF nl

LEMMA AfterDone ==
    ASSUME NEW s, IsShape(s), NEW run \in Nat
    PROVE  After(s, run).done = s.done
BY ShapeRuns DEF After

BlanksApart(out) == \A i \in 1..(Len(out) - 1) : ~(out[i] = " " /\ out[i + 1] = " ")
NewlinesApart(out) == \A i \in 1..(Len(out) - 2) : \E j \in i..(i + 2) : out[j] # "\n"
EndsBlank(out) == out # <<>> /\ out[Len(out)] = " "
EndsOpen(out) == out # <<>> /\ out[Len(out)] = "\n"
Tidy(out) == BlanksApart(out) /\ NewlinesApart(out)

LEMMA AppendIs ==
    ASSUME NEW S, NEW out \in Seq(S), NEW c \in S
    PROVE  /\ Append(out, c) \in Seq(S) /\ Append(out, c) # <<>>
           /\ Len(Append(out, c)) = Len(out) + 1 /\ Len(out) \in Nat
           /\ Append(out, c)[Len(out) + 1] = c
           /\ \A i \in 1..Len(out) : Append(out, c)[i] = out[i]
BY AppendProperties, LenProperties, EmptySeq

\* A character of the text keeps apart what it is not one of.
LEMMA TidyAppended ==
    ASSUME NEW S, NEW out \in Seq(S), NEW c \in S, Tidy(out)
    PROVE  /\ ~(c = " " /\ EndsBlank(out)) /\ c # "\n" => Tidy(Append(out, c))
           /\ ~EndsOpen(out) /\ c = "\n" => Tidy(Append(out, c))
           /\ ~EndsOpen(out) /\ c = "\n" => Tidy(Append(Append(out, c), c))
           /\ EndsBlank(Append(out, c)) <=> c = " "
           /\ EndsOpen(Append(out, c)) <=> c = "\n"
<1> DEFINE more == Append(out, c)
           twice == Append(more, c)
           n == Len(out)
<1>1. /\ more \in Seq(S) /\ more # <<>> /\ Len(more) = n + 1 /\ n \in Nat
      /\ more[n + 1] = c
      /\ \A i \in 1..n : more[i] = out[i]
  BY AppendIs
<1>2. n > 0 => out # <<>>
  BY EmptySeq
<1> HIDE DEF more
<1>3. /\ Len(twice) = n + 2 /\ twice[n + 2] = c /\ twice[n + 1] = c
      /\ \A i \in 1..n : twice[i] = out[i]
  <2>1. /\ Len(twice) = (n + 1) + 1 /\ twice[(n + 1) + 1] = c
        /\ \A i \in 1..(n + 1) : twice[i] = more[i]
    BY <1>1, AppendIs
  <2> HIDE DEF twice, n
  <2> QED BY <1>1, <2>1
<1> HIDE DEF twice, n
<1>4. \A i \in 1..(n - 1) : ~(out[i] = " " /\ out[i + 1] = " ")
  BY DEF Tidy, BlanksApart, n
<1>5. \A i \in 1..(n - 2) : \E j \in i..(i + 2) : out[j] # "\n"
  BY DEF Tidy, NewlinesApart, n
<1>6. ASSUME ~(c = " " /\ EndsBlank(out)), c # "\n" PROVE Tidy(more)
  <2>1. ASSUME NEW i \in 1..n PROVE ~(more[i] = " " /\ more[i + 1] = " ")
    <3>1. CASE i = n
      <4>1. n > 0 /\ out # <<>>
        BY <1>1, <1>2, <3>1
      <4>2. more[n] = out[n] /\ more[n + 1] = c
        BY <1>1, <4>1
      <4> QED BY <1>6, <3>1, <4>1, <4>2 DEF EndsBlank, n
    <3>2. CASE i # n
      <4>1. i \in 1..(n - 1) /\ i + 1 \in 1..n
        BY <1>1, <3>2
      <4> QED BY <1>1, <1>4, <4>1
    <3> QED BY <3>1, <3>2
  <2>2. ASSUME NEW i \in 1..(n - 1) PROVE \E j \in i..(i + 2) : more[j] # "\n"
    <3>1. CASE i = n - 1
      <4>1. n + 1 \in i..(i + 2)
        BY <1>1, <3>1
      <4> QED BY <1>1, <1>6, <4>1
    <3>2. CASE i # n - 1
      <4>1. i \in 1..(n - 2)
        BY <1>1, <3>2
      <4>2. PICK j \in i..(i + 2) : out[j] # "\n"
        BY <1>5, <4>1
      <4>3. j \in 1..n
        BY <1>1, <4>1
      <4> QED BY <1>1, <4>2, <4>3
    <3> QED BY <3>1, <3>2
  <2>3. Len(more) - 1 = n /\ Len(more) - 2 = n - 1
    BY <1>1
  <2> QED BY <2>1, <2>2, <2>3 DEF Tidy, BlanksApart, NewlinesApart
<1>7. ASSUME ~EndsOpen(out), c = "\n" PROVE Tidy(more) /\ Tidy(twice)
  <2>1. n > 0 => out[n] # "\n"
    BY <1>2, <1>7 DEF EndsOpen, n
  <2>2. ASSUME NEW m \in {more, twice}, NEW i \in Nat \ {0}, i + 1 <= Len(m)
        PROVE  ~(m[i] = " " /\ m[i + 1] = " ")
    <3>1. CASE i + 1 <= n
      <4>1. i \in 1..(n - 1) /\ i \in 1..n /\ i + 1 \in 1..n
        BY <1>1, <3>1
      <4>2. m[i] = out[i] /\ m[i + 1] = out[i + 1]
        BY <1>1, <1>3, <2>2, <4>1
      <4> QED BY <1>4, <4>1, <4>2
    <3>2. CASE i + 1 > n
      <4>1. i + 1 = n + 1 \/ i + 1 = n + 2
        BY <1>1, <1>3, <2>2, <3>2
      <4>2. m[i + 1] = "\n"
        BY <1>1, <1>3, <1>7, <2>2, <4>1
      <4>3. "\n" # " "
        OBVIOUS
      <4> QED BY <4>2, <4>3
    <3>3. i + 1 <= n \/ i + 1 > n
      BY <1>1
    <3> QED BY <3>1, <3>2, <3>3, Zenon
  <2>3. ASSUME NEW m \in {more, twice}, NEW i \in Nat \ {0}, i + 2 <= Len(m)
        PROVE  \E j \in i..(i + 2) : m[j] # "\n"
    <3>1. CASE i + 2 <= n
      <4>1. i \in 1..(n - 2)
        BY <1>1, <3>1
      <4>2. PICK j \in i..(i + 2) : out[j] # "\n"
        BY <1>5, <4>1
      <4>3. j \in 1..n
        BY <1>1, <3>1, <4>1
      <4> QED BY <1>1, <1>3, <2>3, <4>2, <4>3
    <3>2. CASE i + 2 > n
      <4>1. i <= n
        BY <1>1, <1>3, <2>3
      <4>2. n > 0 /\ n \in 1..n /\ n \in i..(i + 2)
        BY <1>1, <3>2, <4>1
      <4>3. m[n] = out[n]
        BY <1>1, <1>3, <2>3, <4>2
      <4> QED BY <2>1, <4>2, <4>3
    <3> QED BY <1>1, <3>1, <3>2
  <2>4. ASSUME NEW m \in {more, twice} PROVE Tidy(m)
    <3>1. Len(m) \in Nat
      BY <1>1, <1>3, <2>4
    <3>2. \A i \in 1..(Len(m) - 1) : i \in Nat \ {0} /\ i + 1 <= Len(m)
      BY <3>1
    <3>3. \A i \in 1..(Len(m) - 2) : i \in Nat \ {0} /\ i + 2 <= Len(m)
      BY <3>1
    <3> QED BY <2>2, <2>3, <2>4, <3>2, <3>3 DEF Tidy, BlanksApart, NewlinesApart
  <2> QED BY <2>4
<1>8. /\ EndsBlank(more) <=> c = " "
      /\ EndsOpen(more) <=> c = "\n"
  BY <1>1 DEF EndsBlank, EndsOpen
<1> QED BY <1>6, <1>7, <1>8 DEF more, twice

\* Reading a text to the end, and what has been written of it: `run' newlines are
\* held back.
Kept(text, out, run, space) ==
    /\ out \in Seq(TextChars) /\ run \in Nat /\ space \in BOOLEAN
    /\ ReadShape(text) = After(ReadShape(out), run)
    /\ Tidy(out) /\ ~EndsOpen(out)
    /\ space => run = 0 /\ ~ReadShape(out).word
    /\ EndsBlank(out) /\ run = 0 => space

\* Once the newlines have been written.
Put(text, out, space) ==
    /\ out \in Seq(TextChars) /\ space \in BOOLEAN
    /\ ReadShape(text) = ReadShape(out)
    /\ Tidy(out)
    /\ space => ~EndsOpen(out) /\ ~ReadShape(out).word
    /\ EndsBlank(out) => space

LEMMA HeldIs ==
    ASSUME NEW out, NEW run, NEW space
    PROVE  /\ Held(out, run, space).out = out
           /\ Held(out, run, space).newline_run = run
           /\ Held(out, run, space).last_space = space
BY DEF Held

LEMMA HeldMore ==
    ASSUME NEW out, NEW run, NEW space, NEW many, NEW no
    PROVE  Counted(Held(out, run, space), many, no) = Held(out, many, no)
<1> DEFINE h == Held(out, run, space)
           k == [h EXCEPT !.newline_run = many]
<1>1. [h EXCEPT !.newline_run = many, !.last_space = no] = [k EXCEPT !.last_space = no]
  OBVIOUS
<1>2. h = [out |-> out, newline_run |-> run, last_space |-> space]
  BY DEF Held
<1> HIDE DEF h
<1>3. k = [out |-> out, newline_run |-> many, last_space |-> space]
  BY <1>2
<1> HIDE DEF k
<1>4. [k EXCEPT !.last_space = no]
        = [out |-> out, newline_run |-> many, last_space |-> no]
  BY <1>3
<1> QED BY <1>1, <1>4 DEF Held, Counted, h

LEMMA HeldWritten ==
    ASSUME NEW out, NEW run, NEW space, NEW more, NEW now
    PROVE  Written(Held(out, run, space), more, now) = Held(more, run, now)
<1> DEFINE h == Held(out, run, space)
           k == [h EXCEPT !.out = more]
<1>1. [h EXCEPT !.out = more, !.last_space = now] = [k EXCEPT !.last_space = now]
  OBVIOUS
<1>2. h = [out |-> out, newline_run |-> run, last_space |-> space]
  BY DEF Held
<1> HIDE DEF h
<1>3. k = [out |-> more, newline_run |-> run, last_space |-> space]
  BY <1>2
<1> HIDE DEF k
<1>4. [k EXCEPT !.last_space = now]
        = [out |-> more, newline_run |-> run, last_space |-> now]
  BY <1>3
<1> QED BY <1>1, <1>4 DEF Held, Written, h

LEMMA NewlinesWritten ==
    ASSUME NEW text, NEW out, NEW run, NEW space, Kept(text, out, run, space)
    PROVE  \E o, b : NewlinesPut(Held(out, run, space)) = Held(o, 0, b) /\ Put(text, o, b)
<1>1. /\ out \in Seq(TextChars) /\ run \in Nat /\ space \in BOOLEAN
      /\ Tidy(out) /\ ~EndsOpen(out)
  BY DEF Kept
<1>2. ReadShape(text) = After(ReadShape(out), run)
  BY DEF Kept
<1>3. CASE run = 0
  <2>1. NewlinesPut(Held(out, run, space)) = Held(out, 0, space)
    <3>1. Held(out, run, space).newline_run = 0
      BY <1>3, HeldIs
    <3> QED BY <1>3, <3>1 DEF NewlinesPut
  <2>2. Put(text, out, space)
    BY <1>3 DEF Kept, Put, After
  <2> QED BY <2>1, <2>2
<1>4. CASE run # 0
  <2>0. "\n" \in TextChars
    BY DEF TextChars, Plain
  <2> DEFINE one == Append(out, "\n")
             two == Append(one, "\n")
  <2>1. NewlinesPut(Held(out, run, space)) =
          Held(out \o (IF run >= 2 THEN <<"\n", "\n">> ELSE <<"\n">>), 0, FALSE)
    BY <1>4, HeldIs DEF NewlinesPut, Held
  <2>2. out \o <<"\n">> = one /\ one \in Seq(TextChars)
    BY <1>1, <2>0, AppendIsConcat, AppendProperties
  <2>3. out \o <<"\n", "\n">> = two /\ two \in Seq(TextChars)
    <3>1. <<"\n">> \in Seq(TextChars)
      BY <2>0
    <3>2. <<"\n", "\n">> = Append(<<"\n">>, "\n")
      OBVIOUS
    <3>3. out \o Append(<<"\n">>, "\n") = Append(out \o <<"\n">>, "\n")
      BY <1>1, <2>0, <3>1, AppendJoined
    <3>4. two \in Seq(TextChars)
      <4> HIDE DEF one
      <4> QED BY <2>0, <2>2, AppendProperties
    <3> QED BY <2>2, <3>2, <3>3, <3>4, Zenon
  <2>4. Tidy(one) /\ Tidy(two) /\ ~EndsBlank(one)
    BY <1>1, <2>0, TidyAppended
  <2>5. ~EndsBlank(two)
    <3> HIDE DEF one
    <3> QED BY <2>0, <2>2, <2>4, TidyAppended
  <2>6. /\ ReadShape(one) = ShapeStep(ReadShape(out), "\n")
        /\ ReadShape(two) = ShapeStep(ShapeStep(ReadShape(out), "\n"), "\n")
    <3>1. ReadShape(one) = ShapeStep(ReadShape(out), "\n")
      BY <1>1, <2>0, ReadShapeIs
    <3>2. ReadShape(two) = ShapeStep(ReadShape(one), "\n")
      <4> HIDE DEF one
      <4> QED BY <2>0, <2>2, ReadShapeIs
    <3> QED BY <3>1, <3>2
  <2> DEFINE o == IF run >= 2 THEN two ELSE one
  <2>7. Put(text, o, FALSE)
    <3> HIDE DEF two, one
    <3>1. ReadShape(text) = ReadShape(o)
      <4>1. CASE run = 1
        BY <1>2, <2>6, <4>1 DEF After
      <4>2. CASE run # 1
        <5>1. run >= 2
          BY <1>1, <1>4, <4>2
        <5> QED BY <1>2, <1>4, <2>6, <4>2, <5>1 DEF After
      <4> QED BY <4>1, <4>2
    <3>2. o \in Seq(TextChars) /\ Tidy(o) /\ ~EndsBlank(o)
      BY <2>2, <2>3, <2>4, <2>5
    <3> HIDE DEF o
    <3> QED BY <3>1, <3>2 DEF Put
  <2>8. NewlinesPut(Held(out, run, space)) = Held(o, 0, FALSE)
    <3>1. CASE run >= 2
      BY <2>1, <2>3, <3>1
    <3>2. CASE ~(run >= 2)
      BY <2>1, <2>2, <3>2
    <3> QED BY <3>1, <3>2
  <2> HIDE DEF o
  <2> QED BY <2>7, <2>8
<1> QED BY <1>3, <1>4

LEMMA KeptByStep ==
    ASSUME NEW text \in Seq(TextChars), NEW c \in TextChars, NEW out, NEW run, NEW space,
           Kept(text, out, run, space)
    PROVE  \E o, r, b : /\ CollapseStep(Held(out, run, space), c) = Held(o, r, b)
                        /\ Kept(Append(text, c), o, r, b)
<1>1. ReadShape(Append(text, c)) = ShapeStep(ReadShape(text), c)
  BY ReadShapeIs
<1>2. CASE c = "\n"
  <2>1. CollapseStep(Held(out, run, space), c) = Held(out, run + 1, FALSE)
    <3>1. Held(out, run, space).newline_run = run
      BY HeldIs
    <3> DEFINE no == FALSE
    <3>2. CollapseStep(Held(out, run, space), c) =
            Counted(Held(out, run, space), run + 1, no)
      BY <1>2, <3>1 DEF CollapseStep
    <3> HIDE DEF no
    <3>3. Counted(Held(out, run, space), run + 1, no) = Held(out, run + 1, no)
      BY HeldMore
    <3> QED BY <3>2, <3>3, Zenon DEF no
  <2>2. out \in Seq(TextChars) /\ run \in Nat /\ Tidy(out) /\ ~EndsOpen(out)
    BY DEF Kept
  <2>3. ReadShape(Append(text, c)) = After(ReadShape(out), run + 1)
    <3>1. IsShape(ReadShape(out))
      BY <2>2, ReadIsShape
    <3>2. ReadShape(text) = After(ReadShape(out), run)
      BY DEF Kept
    <3> QED BY <1>1, <1>2, <2>2, <3>1, <3>2, OneMore
  <2>4. run + 1 \in Nat /\ run + 1 # 0
    BY <2>2
  <2>5. Kept(Append(text, c), out, run + 1, FALSE)
    BY <2>2, <2>3, <2>4 DEF Kept
  <2> QED BY <2>1, <2>5
<1>3. CASE c # "\n"
  <2>1. PICK o, b : /\ NewlinesPut(Held(out, run, space)) = Held(o, 0, b)
                    /\ Put(text, o, b)
    BY NewlinesWritten
  <2>2. CollapseStep(Held(out, run, space), c) = CharPut(Held(o, 0, b), c)
    BY <1>3, <2>1 DEF CollapseStep
  <2>3. /\ o \in Seq(TextChars) /\ b \in BOOLEAN /\ ReadShape(text) = ReadShape(o)
        /\ Tidy(o)
        /\ b => ~EndsOpen(o) /\ ~ReadShape(o).word
        /\ EndsBlank(o) => b
    BY <2>1 DEF Put
  <2>4. CASE c = " " /\ b
    <3>1. CharPut(Held(o, 0, b), c) = Held(o, 0, b)
      <4>1. Held(o, 0, b).last_space = b
        BY HeldIs
      <4> QED BY <2>4, <4>1 DEF CharPut
    <3>2. ReadShape(Append(text, c)) = After(ReadShape(o), 0)
      <4>1. IsShape(ReadShape(o))
        BY <2>3, ReadIsShape
      <4>2. ShapeStep(ReadShape(o), " ") = ReadShape(o)
        BY <2>3, <2>4, <4>1, ShapeRuns
      <4> QED BY <1>1, <2>3, <2>4, <4>2 DEF After
    <3>3. Kept(Append(text, c), o, 0, b)
      BY <2>3, <2>4, <3>2 DEF Kept
    <3> QED BY <2>2, <3>1, <3>3
  <2>5. CASE ~(c = " " /\ b)
    <3> DEFINE more == Append(o, c)
               sp == (c = " ")
    <3>1. CharPut(Held(o, 0, b), c) = Held(more, 0, sp)
      <4>1. Held(o, 0, b).last_space = b /\ Held(o, 0, b).out = o
        BY HeldIs
      <4>2. CharPut(Held(o, 0, b), c) =
              Written(Held(o, 0, b), more, sp)
        BY <2>5, <4>1 DEF CharPut
      <4> HIDE DEF more, sp
      <4>3. Written(Held(o, 0, b), more, sp) = Held(more, 0, sp)
        BY HeldWritten
      <4> QED BY <4>2, <4>3, Zenon
    <3>2. ~(c = " " /\ EndsBlank(o))
      BY <2>3, <2>5
    <3>3. Tidy(more) /\ ~EndsOpen(more) /\ (EndsBlank(more) => sp)
      BY <1>3, <2>3, <3>2, TidyAppended
    <3>4. more \in Seq(TextChars) /\ ReadShape(more) = ShapeStep(ReadShape(o), c)
      BY <2>3, ReadShapeIs, AppendProperties
    <3>5. sp => ~ReadShape(more).word
      <4>1. IsShape(ReadShape(o))
        BY <2>3, ReadIsShape
      <4>2. ShapeStep(ReadShape(o), " ").word = FALSE
        BY <4>1, ShapeRuns
      <4> QED BY <3>4, <4>2
    <3>6. ReadShape(Append(text, c)) = After(ReadShape(more), 0)
      BY <1>1, <2>3, <3>4 DEF After
    <3>7. sp \in BOOLEAN
      OBVIOUS
    <3> HIDE DEF more, sp
    <3>8. Kept(Append(text, c), more, 0, sp)
      BY <3>3, <3>4, <3>5, <3>6, <3>7 DEF Kept
    <3> QED BY <2>2, <3>1, <3>8
  <2> QED BY <2>4, <2>5
<1> QED BY <1>2, <1>3

LEMMA KeptAll ==
    \A text \in Seq(TextChars) : \E o, r, b :
        /\ Collapsing!Fold(Held(<<>>, 0, FALSE), text) = Held(o, r, b)
        /\ Kept(text, o, r, b)
<1> DEFINE start == Held(<<>>, 0, FALSE)
           Q == {text \in Seq(TextChars) :
                   \E o, r, b : /\ Collapsing!Fold(start, text) = Held(o, r, b)
                                /\ Kept(text, o, r, b)}
<1>1. <<>> \in Q
  <2>1. Collapsing!Fold(start, <<>>) = start
    BY Collapsing!FoldOfNone
  <2>2. Kept(<<>>, <<>>, 0, FALSE)
    <3>1. Tidy(<<>>) /\ ~EndsOpen(<<>>) /\ ~EndsBlank(<<>>)
      BY DEF Tidy, BlanksApart, NewlinesApart, EndsOpen, EndsBlank
    <3>2. ReadShape(<<>>) = After(ReadShape(<<>>), 0)
      BY DEF After
    <3>3. <<>> \in Seq(TextChars) /\ 0 \in Nat /\ FALSE \in BOOLEAN
      BY EmptySeq
    <3> QED BY <3>1, <3>2, <3>3, Zenon DEF Kept
  <2>3. <<>> \in Seq(TextChars)
    BY EmptySeq
  <2> QED BY <2>1, <2>2, <2>3, Zenon
<1>2. ASSUME NEW text \in Seq(TextChars), text \in Q, NEW c \in TextChars
      PROVE  Append(text, c) \in Q
  <2>1. PICK o, r, b : /\ Collapsing!Fold(start, text) = Held(o, r, b)
                       /\ Kept(text, o, r, b)
    BY <1>2
  <2>2. Collapsing!Fold(start, Append(text, c)) = CollapseStep(Held(o, r, b), c)
    <3> HIDE DEF start
    <3>1. Collapsing!Fold(start, Append(text, c)) =
            CollapseStep(Collapsing!Fold(start, text), c)
      BY Collapsing!FoldAppended
    <3> QED BY <2>1, <3>1
  <2>3. \E p, s, x : /\ CollapseStep(Held(o, r, b), c) = Held(p, s, x)
                     /\ Kept(Append(text, c), p, s, x)
    BY <2>1, KeptByStep
  <2>4. Append(text, c) \in Seq(TextChars)
    BY AppendProperties
  <2> HIDE DEF start
  <2> QED BY <2>2, <2>3, <2>4
<1>3. \A text \in Seq(TextChars) : text \in Q
  <2> HIDE DEF Q
  <2> QED BY <1>1, <1>2, SeqInduction
<1> QED BY <1>3

LEMMA WordsAreKept == ArticleInv => WordsStay
<1> SUFFICES ASSUME ArticleInv PROVE WordsStay
  OBVIOUS
<1> DEFINE text == Meaning
           stored == StripHtml(Html)
<1>1. text \in Seq(TextChars)
  BY ArticleTexts
<1> HIDE DEF text
<1>2. stored = Collapsed(text)
  BY MeaningDecoded DEF StripHtml, MeaningIsDecoded, text
<1>3. PICK o, r, b : /\ Collapsing!Fold(Held(<<>>, 0, FALSE), text) = Held(o, r, b)
                     /\ Kept(text, o, r, b)
  BY <1>1, KeptAll
<1>4. stored = o
  <2>1. Held(o, r, b).out = o
    BY HeldIs
  <2>2. stored = Collapsing!Fold(Held(<<>>, 0, FALSE), text).out
    BY <1>2, CollapsedIs, Zenon
  <2> QED BY <1>3, <2>1, <2>2, Zenon
<1>5. o \in Seq(TextChars) /\ r \in Nat /\ Tidy(o)
      /\ ReadShape(text) = After(ReadShape(o), r)
  BY <1>3 DEF Kept
<1>6. Shape(o) = Shape(text)
  <2>1. IsShape(ReadShape(o))
    BY <1>5, ReadIsShape
  <2> QED BY <1>5, <2>1, AfterDone, ShapeIs
<1> HIDE DEF stored
<1>7. BlanksApart(stored) /\ NewlinesApart(stored)
  BY <1>4, <1>5 DEF Tidy
<1> QED BY <1>4, <1>6, <1>7 DEF WordsStay, BlanksApart, NewlinesApart, stored, text


-----------------------------------------------------------------------------
(* Headlines. *)

LeftBrace == "{"
RightBrace == "}"
Bang == "!"
Space == " "

LEMMA Signs ==
    ASSUME HtmlAssumption
    PROVE
    /\ LeftBrace # RightBrace /\ LeftBrace # Bang /\ RightBrace # Bang
    /\ LeftBrace # Space /\ Bang # Space /\ LeftBrace # "a" /\ RightBrace # "a"
    /\ LeftBrace \notin TextChars /\ Bang \notin TextChars
<1>1. "{" # "}" /\ "{" # "!" /\ "}" # "!"
  OBVIOUS
<1>2. "{" # " " /\ "{" # "a" /\ "}" # "a" /\ "!" # " " /\ "!" # "a"
  OBVIOUS
<1>3. "{" # "\n" /\ "{" # ">" /\ "{" # "&" /\ "!" # "\n" /\ "!" # ">" /\ "!" # "&"
  OBVIOUS
<1>4. "{" # ";" /\ "!" # ";"
  OBVIOUS
<1>5. LeftBrace \notin TextChars
  <2>1. LeftBrace \notin Named
    BY ArticleConstants, Zenon DEF LeftBrace
  <2>2. LeftBrace # Semicolon
    BY <1>4, Zenon DEF LeftBrace, Semicolon
  <2>3. LeftBrace # "a" /\ LeftBrace # " " /\ LeftBrace # "\n" /\ LeftBrace # ">"
        /\ LeftBrace # "&"
    BY <1>2, <1>3, Zenon DEF LeftBrace
  <2> QED BY <2>1, <2>2, <2>3 DEF TextChars, Plain
<1>6. Bang \notin TextChars
  <2>1. Bang \notin Named
    BY ArticleConstants, Zenon DEF Bang
  <2>2. Bang # Semicolon
    BY <1>4, Zenon DEF Bang, Semicolon
  <2>3. Bang # "a" /\ Bang # " " /\ Bang # "\n" /\ Bang # ">" /\ Bang # "&"
    BY <1>2, <1>3, Zenon DEF Bang
  <2> QED BY <2>1, <2>2, <2>3 DEF TextChars, Plain
<1>7. /\ LeftBrace # RightBrace /\ LeftBrace # Bang /\ RightBrace # Bang
      /\ LeftBrace # Space /\ Bang # Space /\ LeftBrace # "a" /\ RightBrace # "a"
  BY <1>1, <1>2, Zenon DEF LeftBrace, RightBrace, Bang, Space
<1> QED BY <1>5, <1>6, <1>7

RawChars == TextChars \union {LeftBrace, RightBrace, Bang}

Bare(raw) ==
    LET ends == {i \in DOMAIN raw : raw[i] = RightBrace}
        Behind(i) == SubSeq(raw, i + 1, Len(raw))
    IN  IF raw # <<>> /\ Head(raw) = LeftBrace /\ ends # {}
        THEN IF Behind(Min(ends)) # <<>> /\ Head(Behind(Min(ends))) = Bang
             THEN Tail(Behind(Min(ends))) ELSE Behind(Min(ends))
        ELSE raw
Trimmed(bare) ==
    LET title == {i \in DOMAIN bare : bare[i] # Space}
    IN  IF title = {} THEN <<>> ELSE SubSeq(bare, Min(title), Len(bare))

LEMMA CleanIs == \A raw : CleanHeadline(raw) = Trimmed(Bare(raw))
BY Zenon DEF CleanHeadline, Trimmed, Bare, LeftBrace, RightBrace, Bang, Space

\* A title to be kept.
IsTitle(text) == text \in Seq(TextChars) /\ text # <<>> /\ text[1] # Space

LEMMA TitleIs ==
    ASSUME HtmlAssumption, NEW text, IsTitle(text)
    PROVE  /\ text \in Seq(RawChars) /\ Len(text) \in Nat \ {0} /\ Head(text) = text[1]
           /\ text[1] \notin {Space, LeftBrace, Bang}
<1>1. text \in Seq(TextChars) /\ text # <<>> /\ text[1] # Space
  BY DEF IsTitle
<1>2. Len(text) \in Nat \ {0} /\ DOMAIN text = 1..Len(text)
  <2>1. Len(text) \in Nat /\ DOMAIN text = 1..Len(text)
    BY <1>1, LenProperties
  <2>2. Len(text) # 0
    BY <1>1, EmptySeq
  <2> QED BY <2>1, <2>2
<1>3. \A i \in 1..Len(text) : text[i] \in TextChars
  BY <1>1, ElementOfSeq
<1>4. text \in Seq(RawChars)
  <2>1. \A i \in 1..Len(text) : text[i] \in RawChars
    BY <1>3 DEF RawChars
  <2>2. text \in [1..Len(text) -> RawChars]
    <3>1. text = [i \in 1..Len(text) |-> text[i]]
      BY <1>1, <1>2, LenProperties
    <3> QED BY <2>1, <3>1
  <2> QED BY <1>2, <2>2
<1>5. text[1] \in TextChars
  BY <1>2, <1>3
<1>6. LeftBrace \notin TextChars /\ Bang \notin TextChars
  BY Signs
<1>7. Head(text) = text[1]
  OBVIOUS
<1> QED BY <1>1, <1>2, <1>4, <1>5, <1>6, <1>7

LEMMA Behind ==
    ASSUME NEW S, NEW a \in Seq(S), NEW b \in Seq(S)
    PROVE  SubSeq(a \o b, Len(a) + 1, Len(a \o b)) = b
<1> DEFINE c == a \o b
           m == Len(a) + 1
           n == Len(c)
           d == SubSeq(c, m, n)
<1>1. Len(a) \in Nat /\ Len(b) \in Nat
  BY LenProperties
<1>2. /\ c \in Seq(S) /\ n = Len(a) + Len(b)
      /\ \A i \in 1..Len(a) + Len(b) : c[i] = IF i <= Len(a) THEN a[i] ELSE b[i - Len(a)]
  BY ConcatProperties
<1> HIDE DEF c
<1>3. \A i \in m..n : c[i] \in S
  <2>1. \A i \in 1..Len(c) : c[i] \in S
    BY <1>2, ElementOfSeq
  <2> QED BY <1>1, <1>2, <2>1
<1>4. m \in Int /\ n \in Int /\ n - m + 1 = Len(b)
  BY <1>1, <1>2
<1> HIDE DEF m, n
<1>5. /\ d \in Seq(S) /\ Len(d) = (IF m <= n THEN n - m + 1 ELSE 0)
      /\ \A i \in 1..(n - m + 1) : d[i] = c[m + i - 1]
  BY <1>3, <1>4, SubSeqProperties
<1> HIDE DEF d
<1>6. Len(d) = Len(b)
  BY <1>1, <1>2, <1>4, <1>5 DEF m
<1>7. \A i \in 1..Len(b) : d[i] = b[i]
  <2> SUFFICES ASSUME NEW i \in 1..Len(b) PROVE d[i] = b[i]
    OBVIOUS
  <2>1. m + i - 1 = Len(a) + i /\ Len(a) + i \in 1..(Len(a) + Len(b))
        /\ ~(Len(a) + i <= Len(a)) /\ (Len(a) + i) - Len(a) = i
    BY <1>1 DEF m
  <2>2. c[Len(a) + i] = b[i]
    BY <1>2, <2>1
  <2>3. d[i] = c[m + i - 1]
    BY <1>4, <1>5
  <2> QED BY <2>1, <2>2, <2>3
<1>8. d = b
  BY <1>5, <1>6, <1>7, SeqEqual
<1> QED BY <1>8 DEF d, c, m, n

LEMMA BlanksGo ==
    ASSUME HtmlAssumption, NEW text, IsTitle(text), NEW blanks \in Seq(RawChars),
           \A i \in 1..Len(blanks) : blanks[i] = Space
    PROVE  Trimmed(blanks \o text) = text
<1> DEFINE raw == blanks \o text
           m == Len(blanks) + 1
           title == {i \in DOMAIN raw : raw[i] # Space}
<1>1. /\ text \in Seq(RawChars) /\ Len(text) \in Nat \ {0} /\ Len(blanks) \in Nat
      /\ text[1] # Space
  BY TitleIs, LenProperties
<1>2. /\ raw \in Seq(RawChars) /\ Len(raw) = Len(blanks) + Len(text)
      /\ \A i \in 1..(Len(blanks) + Len(text)) :
           raw[i] = IF i <= Len(blanks) THEN blanks[i] ELSE text[i - Len(blanks)]
  BY <1>1, ConcatProperties
<1>3. SubSeq(raw, m, Len(raw)) = text
  BY <1>1, Behind
<1> HIDE DEF raw
<1>4. DOMAIN raw = 1..Len(raw)
  BY <1>2, LenProperties
<1>5. m \in title
  <2>1. m \in 1..(Len(blanks) + Len(text)) /\ ~(m <= Len(blanks)) /\ m - Len(blanks) = 1
    BY <1>1
  <2>2. raw[m] = text[1]
    BY <1>2, <2>1
  <2> QED BY <1>1, <1>2, <1>4, <2>1, <2>2
<1>6. \A x \in title : m <= x
  <2> SUFFICES ASSUME NEW x \in title, ~(m <= x) PROVE FALSE
    OBVIOUS
  <2>1. x \in 1..Len(blanks) /\ x \in 1..(Len(blanks) + Len(text)) /\ x <= Len(blanks)
    BY <1>1, <1>2, <1>4
  <2>2. raw[x] = Space
    BY <1>2, <2>1
  <2> QED BY <2>2
<1>7. title \subseteq Int
  BY <1>4
<1>8. Min(title) = m
  <2> HIDE DEF title, m
  <2> QED BY <1>5, <1>6, <1>7, LeastIs
<1>9. Trimmed(raw) = SubSeq(raw, Min(title), Len(raw))
  BY <1>5 DEF Trimmed
<1> QED BY <1>3, <1>8, <1>9 DEF raw

LEMMA BareOf ==
    ASSUME NEW raw \in Seq(RawChars), raw[1] # LeftBrace
    PROVE  Bare(raw) = raw
<1>1. raw # <<>> => Head(raw) = raw[1]
  OBVIOUS
<1> QED BY <1>1 DEF Bare

LEMMA BracesGo ==
    ASSUME NEW pre \in Seq(RawChars), pre # <<>>, pre[1] = LeftBrace, pre[Len(pre)] = RightBrace,
           \A i \in 1..(Len(pre) - 1) : pre[i] # RightBrace,
           NEW rest \in Seq(RawChars), rest # <<>>
    PROVE  Bare(pre \o rest) = IF rest[1] = Bang THEN Tail(rest) ELSE rest
<1> DEFINE raw == pre \o rest
           e == Len(pre)
           ends == {i \in DOMAIN raw : raw[i] = RightBrace}
<1>1. e \in Nat /\ Len(rest) \in Nat /\ e > 0
  <2>1. e \in Nat /\ Len(rest) \in Nat
    BY LenProperties
  <2>2. e # 0
    BY EmptySeq
  <2> QED BY <2>1, <2>2
<1>2. /\ raw \in Seq(RawChars) /\ Len(raw) = e + Len(rest)
      /\ \A i \in 1..(e + Len(rest)) : raw[i] = IF i <= e THEN pre[i] ELSE rest[i - e]
  BY ConcatProperties
<1>3. SubSeq(raw, e + 1, Len(raw)) = rest
  BY Behind
<1> HIDE DEF raw
<1>4. DOMAIN raw = 1..Len(raw)
  BY <1>2, LenProperties
<1>5. \A i \in 1..e : i \in DOMAIN raw /\ raw[i] = pre[i]
  BY <1>1, <1>2, <1>4
<1>6. e \in ends /\ \A x \in ends : e <= x
  <2>1. e \in 1..e
    BY <1>1
  <2>2. e \in ends
    BY <1>5, <2>1
  <2>3. ASSUME NEW x \in ends, ~(e <= x) PROVE FALSE
    <3>1. x \in 1..e /\ x \in 1..(Len(pre) - 1)
      BY <1>1, <1>2, <1>4, <2>3
    <3> QED BY <1>5, <3>1
  <2> QED BY <2>2, <2>3
<1>7. Min(ends) = e
  <2>1. ends \subseteq Int
    BY <1>4
  <2> HIDE DEF ends, e
  <2> QED BY <1>6, <2>1, LeastIs
<1>8. raw # <<>> /\ Head(raw) = LeftBrace
  <2>1. 1 \in 1..e
    BY <1>1
  <2>2. raw[1] = LeftBrace
    BY <1>5, <2>1
  <2>3. Len(raw) # 0
    BY <1>1, <1>2
  <2>4. raw # <<>>
    BY <1>2, <2>3, EmptySeq
  <2> QED BY <2>2, <2>4
<1>9. Head(rest) = rest[1]
  OBVIOUS
<1>10. Bare(raw) = IF SubSeq(raw, e + 1, Len(raw)) # <<>>
                      /\ Head(SubSeq(raw, e + 1, Len(raw))) = Bang
                   THEN Tail(SubSeq(raw, e + 1, Len(raw)))
                   ELSE SubSeq(raw, e + 1, Len(raw))
  <2>1. ends # {}
    BY <1>6
  <2> HIDE DEF e
  <2>2. Bare(raw) = IF SubSeq(raw, Min(ends) + 1, Len(raw)) # <<>>
                      /\ Head(SubSeq(raw, Min(ends) + 1, Len(raw))) = Bang
                   THEN Tail(SubSeq(raw, Min(ends) + 1, Len(raw)))
                   ELSE SubSeq(raw, Min(ends) + 1, Len(raw))
    BY <1>8, <2>1, Zenon DEF Bare
  <2> QED BY <1>7, <2>2, Zenon
<1>11. Bare(raw) = IF rest[1] = Bang THEN Tail(rest) ELSE rest
  BY <1>3, <1>9, <1>10
<1> QED BY <1>11 DEF raw

LEMMA TailBehind ==
    ASSUME NEW S, NEW x \in S, NEW b \in Seq(S)
    PROVE  /\ Tail(<<x>> \o b) = b /\ (<<x>> \o b)[1] = x /\ <<x>> \o b # <<>>
           /\ <<x>> \o b \in Seq(S)
<1> DEFINE a == <<x>>
           c == a \o b
<1>1. a \in Seq(S) /\ Len(a) = 1 /\ Len(b) \in Nat /\ a[1] = x
  BY LenProperties
<1> HIDE DEF a
<1>2. /\ c \in Seq(S) /\ Len(c) = 1 + Len(b)
      /\ c[1] = x
  <2>1. /\ c \in Seq(S) /\ Len(c) = Len(a) + Len(b)
        /\ \A i \in 1..Len(a) + Len(b) : c[i] = IF i <= Len(a) THEN a[i] ELSE b[i - Len(a)]
    BY <1>1, ConcatProperties
  <2> HIDE DEF c
  <2>2. 1 \in 1..Len(a) + Len(b) /\ 1 <= Len(a)
    BY <1>1
  <2> QED BY <1>1, <2>1, <2>2
<1>3. SubSeq(c, 2, Len(c)) = b
  <2>1. SubSeq(c, Len(a) + 1, Len(c)) = b
    BY <1>1, Behind
  <2>2. Len(a) + 1 = 2
    BY <1>1
  <2> HIDE DEF c
  <2> QED BY <2>1, <2>2
<1>4. c # <<>>
  <2> HIDE DEF c
  <2>1. Len(c) # 0
    BY <1>1, <1>2
  <2> QED BY <1>2, <2>1, EmptySeq
<1>5. Tail(c) = SubSeq(c, 2, Len(c))
  <2> HIDE DEF c
  <2> QED BY <1>2, <1>4, TailIsSubSeq
<1> QED BY <1>2, <1>3, <1>4, <1>5 DEF a

LEMMA Glued ==
    ASSUME NEW S, NEW p \in Seq(S), NEW q \in Seq(S), NEW r \in Seq(S),
           Len(r) = Len(p) + Len(q),
           \A i \in 1..Len(r) : r[i] = IF i <= Len(p) THEN p[i] ELSE q[i - Len(p)]
    PROVE  p \o q = r
<1> DEFINE c == p \o q
<1>1. /\ c \in Seq(S) /\ Len(c) = Len(p) + Len(q)
      /\ \A i \in 1..Len(p) + Len(q) : c[i] = IF i <= Len(p) THEN p[i] ELSE q[i - Len(p)]
  BY ConcatProperties
<1> HIDE DEF c
<1>2. Len(c) = Len(r) /\ \A i \in 1..Len(c) : c[i] = r[i]
  BY <1>1
<1> QED BY <1>1, <1>2, SeqEqual DEF c

\* Short texts, put together.
LEMMA ThreeAndOne ==
    ASSUME NEW S, NEW a \in S, NEW b \in S, NEW c \in S, NEW d \in S
    PROVE  <<a, b, c>> \o <<d>> = <<a, b, c, d>>
<1> DEFINE p == <<a, b, c>>
           q == <<d>>
           r == <<a, b, c, d>>
<1>1. /\ p \in Seq(S) /\ q \in Seq(S) /\ r \in Seq(S)
      /\ Len(p) = 3 /\ Len(q) = 1 /\ Len(r) = 4
      /\ p[1] = a /\ p[2] = b /\ p[3] = c /\ q[1] = d
      /\ r[1] = a /\ r[2] = b /\ r[3] = c /\ r[4] = d
  OBVIOUS
<1> HIDE DEF p, q, r
<1>2. \A i \in 1..4 : i = 1 \/ i = 2 \/ i = 3 \/ i = 4
  OBVIOUS
<1>3. \A i \in 1..4 : r[i] = IF i <= 3 THEN p[i] ELSE q[i - 3]
  BY <1>1, <1>2
<1>4. /\ Len(r) = Len(p) + Len(q)
      /\ \A i \in 1..Len(r) : r[i] = IF i <= Len(p) THEN p[i] ELSE q[i - Len(p)]
  BY <1>1, <1>3
<1>5. p \o q = r
  BY <1>1, <1>4, Glued
<1> QED BY <1>5 DEF p, q, r

LEMMA OneAndTwo ==
    ASSUME NEW S, NEW a \in S, NEW b \in S
    PROVE  <<a>> \o <<b, b>> = <<a, b, b>>
<1> DEFINE p == <<a>>
           q == <<b, b>>
           r == <<a, b, b>>
<1>1. /\ p \in Seq(S) /\ q \in Seq(S) /\ r \in Seq(S)
      /\ Len(p) = 1 /\ Len(q) = 2 /\ Len(r) = 3
      /\ p[1] = a /\ q[1] = b /\ q[2] = b
      /\ r[1] = a /\ r[2] = b /\ r[3] = b
  OBVIOUS
<1> HIDE DEF p, q, r
<1>2. \A i \in 1..3 : i = 1 \/ i = 2 \/ i = 3
  OBVIOUS
<1>3. \A i \in 1..3 : r[i] = IF i <= 1 THEN p[i] ELSE q[i - 1]
  BY <1>1, <1>2
<1>4. /\ Len(r) = Len(p) + Len(q)
      /\ \A i \in 1..Len(r) : r[i] = IF i <= Len(p) THEN p[i] ELSE q[i - Len(p)]
  BY <1>1, <1>3
<1>5. p \o q = r
  BY <1>1, <1>4, Glued
<1> QED BY <1>5 DEF p, q, r

LEMMA TwoAndThree ==
    ASSUME NEW S, NEW a \in S, NEW b \in S, NEW c \in S, NEW d \in S
    PROVE  <<a, b>> \o <<c, d, d>> = <<a, b, c, d, d>>
<1> DEFINE p == <<a, b>>
           q == <<c, d, d>>
           r == <<a, b, c, d, d>>
<1>1. /\ p \in Seq(S) /\ q \in Seq(S) /\ r \in Seq(S)
      /\ Len(p) = 2 /\ Len(q) = 3 /\ Len(r) = 5
      /\ p[1] = a /\ p[2] = b /\ q[1] = c /\ q[2] = d /\ q[3] = d
      /\ r[1] = a /\ r[2] = b /\ r[3] = c /\ r[4] = d /\ r[5] = d
  OBVIOUS
<1> HIDE DEF p, q, r
<1>2. \A i \in 1..5 : i = 1 \/ i = 2 \/ i = 3 \/ i = 4 \/ i = 5
  OBVIOUS
<1>3. \A i \in 1..5 : r[i] = IF i <= 2 THEN p[i] ELSE q[i - 2]
  BY <1>1, <1>2
<1>4. /\ Len(r) = Len(p) + Len(q)
      /\ \A i \in 1..Len(r) : r[i] = IF i <= Len(p) THEN p[i] ELSE q[i - Len(p)]
  BY <1>1, <1>3
<1>5. p \o q = r
  BY <1>1, <1>4, Glued
<1> QED BY <1>5 DEF p, q, r

LEMMA TitleKept ==
    ASSUME HtmlAssumption, NEW text, IsTitle(text)
    PROVE  /\ CleanHeadline(<<>> \o text) = text
           /\ CleanHeadline(<<Space>> \o text) = text
           /\ CleanHeadline(<<LeftBrace, "a", RightBrace>> \o text) = text
           /\ CleanHeadline(<<LeftBrace, "a", RightBrace, Bang>> \o text) = text
           /\ CleanHeadline(<<LeftBrace, RightBrace, Bang, Space, Space>> \o text) = text
<1>1. /\ text \in Seq(RawChars) /\ Len(text) \in Nat \ {0} /\ text # <<>>
      /\ text[1] # LeftBrace /\ text[1] # Bang /\ text[1] # Space
  BY TitleIs DEF IsTitle
<1>2. /\ "a" \in RawChars /\ Space \in RawChars /\ LeftBrace \in RawChars
      /\ RightBrace \in RawChars /\ Bang \in RawChars
  <2>1. Space \in Plain
    BY Zenon DEF Plain, Space
  <2> QED BY <2>1 DEF RawChars, TextChars, Plain
<1> DEFINE none == <<>>
           blank == <<Space>>
           blanks == <<Space, Space>>
           name == <<LeftBrace, "a", RightBrace>>
           braces == <<LeftBrace, RightBrace>>
<1>3. /\ none \in Seq(RawChars) /\ blank \in Seq(RawChars) /\ blanks \in Seq(RawChars)
      /\ name \in Seq(RawChars) /\ braces \in Seq(RawChars)
  BY <1>2
<1>4. /\ none \o text = text
      /\ \A b \in {none, blank, blanks} : Trimmed(b \o text) = text
  <2>1. none \o text = text
    BY <1>1, EmptyJoined
  <2>2. /\ \A i \in 1..Len(none) : none[i] = Space
        /\ \A i \in 1..Len(blank) : blank[i] = Space
        /\ \A i \in 1..Len(blanks) : blanks[i] = Space
    OBVIOUS
  <2> HIDE DEF none, blank, blanks
  <2> QED BY <1>3, <2>1, <2>2, BlanksGo
<1>5. CleanHeadline(none \o text) = text
  BY <1>1, <1>4, BareOf, CleanIs
<1>6. CleanHeadline(blank \o text) = text
  <2>1. blank \o text \in Seq(RawChars) /\ (blank \o text)[1] = Space
    BY <1>1, <1>2, TailBehind
  <2>2. Bare(blank \o text) = blank \o text
    <3> DEFINE raw == blank \o text
    <3>1. raw \in Seq(RawChars) /\ raw[1] # LeftBrace
      BY <2>1, Signs
    <3> HIDE DEF raw
    <3>2. Bare(raw) = raw
      BY <3>1, BareOf
    <3> QED BY <3>2 DEF raw
  <2> QED BY <1>4, <2>2, CleanIs
<1>7. ASSUME NEW rest \in Seq(RawChars), rest # <<>>
      PROVE  /\ Bare(name \o rest) = IF rest[1] = Bang THEN Tail(rest) ELSE rest
             /\ Bare(braces \o rest) = IF rest[1] = Bang THEN Tail(rest) ELSE rest
  <2>1. /\ name # <<>> /\ name[1] = LeftBrace /\ name[Len(name)] = RightBrace
        /\ \A i \in 1..(Len(name) - 1) : name[i] # RightBrace
    BY Signs
  <2>2. /\ braces # <<>> /\ braces[1] = LeftBrace /\ braces[Len(braces)] = RightBrace
        /\ \A i \in 1..(Len(braces) - 1) : braces[i] # RightBrace
    BY Signs
  <2> HIDE DEF name, braces
  <2> QED BY <1>3, <1>7, <2>1, <2>2, BracesGo
<1>8. CleanHeadline(name \o text) = text
  <2>1. Bare(name \o text) = text
    <3> HIDE DEF name
    <3> QED BY <1>1, <1>7
  <2> QED BY <1>4, <2>1, CleanIs
<1>9. CleanHeadline(<<LeftBrace, "a", RightBrace, Bang>> \o text) = text
  <2> DEFINE rest == <<Bang>> \o text
  <2>1. /\ Tail(rest) = text /\ rest[1] = Bang /\ rest # <<>> /\ rest \in Seq(RawChars)
    BY <1>1, <1>2, TailBehind
  <2>2. Bare(name \o rest) = text
    <3> HIDE DEF name, rest
    <3> QED BY <1>7, <2>1
  <2>3. <<LeftBrace, "a", RightBrace, Bang>> = name \o <<Bang>>
    <3>1. \A a \in RawChars : \A b \in RawChars : \A c \in RawChars : \A d \in RawChars :
            <<a, b, c>> \o <<d>> = <<a, b, c, d>>
      BY ThreeAndOne
    <3>2. <<LeftBrace, "a", RightBrace>> \o <<Bang>> = <<LeftBrace, "a", RightBrace, Bang>>
      BY <1>2, <3>1, Zenon
    <3> QED BY <3>2
  <2>4. (name \o <<Bang>>) \o text = name \o rest
    <3> DEFINE mark == <<Bang>>
    <3>1. mark \in Seq(RawChars)
      BY <1>2
    <3> HIDE DEF name, mark
    <3>2. (name \o mark) \o text = name \o (mark \o text)
      BY <1>1, <1>3, <3>1, ConcatAssociative
    <3> QED BY <3>2 DEF mark
  <2>5. CleanHeadline(name \o rest) = text
    <3> HIDE DEF name, rest
    <3> QED BY <1>4, <2>2, CleanIs
  <2> HIDE DEF name, rest
  <2> QED BY <2>3, <2>4, <2>5, Zenon
<1>10. CleanHeadline(<<LeftBrace, RightBrace, Bang, Space, Space>> \o text) = text
  <2> DEFINE mark == <<Bang>>
             gap == <<Bang, Space, Space>>
             title == blanks \o text
             rest == mark \o title
  <2>0. mark \in Seq(RawChars) /\ gap \in Seq(RawChars)
    BY <1>2
  <2>1. title \in Seq(RawChars)
    <3> HIDE DEF blanks
    <3> QED BY <1>1, <1>3, ConcatProperties
  <2>2. /\ Tail(rest) = title /\ rest[1] = Bang /\ rest # <<>> /\ rest \in Seq(RawChars)
    <3> HIDE DEF title
    <3> QED BY <1>2, <2>1, TailBehind
  <2>3. Bare(braces \o rest) = title
    <3> HIDE DEF braces, rest, title
    <3> QED BY <1>7, <2>2
  <2>4. mark \o blanks = gap
    BY <1>2, OneAndTwo, Zenon
  <2>5. braces \o gap = <<LeftBrace, RightBrace, Bang, Space, Space>>
    <3>1. \A a \in RawChars : \A b \in RawChars : \A c \in RawChars : \A d \in RawChars :
            <<a, b>> \o <<c, d, d>> = <<a, b, c, d, d>>
      BY TwoAndThree
    <3> QED BY <1>2, <3>1, Zenon
  <2>6. (braces \o gap) \o text = braces \o rest
    <3> HIDE DEF braces, mark, blanks, gap
    <3>1. (braces \o gap) \o text = braces \o (gap \o text)
      BY <1>1, <1>3, <2>0, ConcatAssociative
    <3>2. (mark \o blanks) \o text = mark \o (blanks \o text)
      BY <1>1, <1>3, <2>0, ConcatAssociative
    <3> QED BY <2>4, <3>1, <3>2
  <2>7. CleanHeadline(braces \o rest) = text
    <3> HIDE DEF braces, rest, blanks
    <3> QED BY <1>4, <2>3, CleanIs
  <2> HIDE DEF braces, rest, gap
  <2> QED BY <2>5, <2>6, <2>7, Zenon
<1> QED BY <1>5, <1>6, <1>8, <1>9, <1>10

LEMMA ArticleIs == ArticleInv => ArticleIsReadable
<1> SUFFICES ASSUME ArticleInv PROVE ArticleIsReadable
  OBVIOUS
<1>0. HtmlAssumption
  BY DEF ArticleInv
<1>1. TitleIsKept
  <2> DEFINE text == Meaning
  <2>1. text \in Seq(TextChars)
    BY ArticleTexts
  <2> HIDE DEF text
  <2>2. ASSUME text # <<>>, text[1] # " "
        PROVE  \A metadata \in {<<>>, <<" ">>, <<"{", "a", "}">>, <<"{", "a", "}", "!">>,
                                <<"{", "}", "!", " ", " ">>} :
                   CleanHeadline(metadata \o text) = text
    <3>1. IsTitle(text)
      BY <2>1, <2>2, Zenon DEF IsTitle, Space
    <3> QED BY <1>0, <3>1, TitleKept, Zenon DEF LeftBrace, RightBrace, Bang, Space
  <2> QED BY <2>2 DEF TitleIsKept, text
<1> QED BY <1>1, MeaningDecoded, WordsAreKept DEF ArticleIsReadable

\* The article grows piece by piece.
ArticleSpec == Init /\ [][Next]_pieces

LEMMA ArticleStarts == HtmlAssumption /\ Init => ArticleInv
BY EmptySeq DEF Init, ArticleInv

LEMMA ArticleStays == ArticleInv /\ [Next]_pieces => ArticleInv'
<1> SUFFICES ASSUME ArticleInv, [Next]_pieces PROVE ArticleInv'
  OBVIOUS
<1>1. CASE UNCHANGED pieces
  BY <1>1 DEF ArticleInv, HtmlAssumption, Pieces, Piece
<1>2. CASE AddPiece
  <2>1. PICK p \in Pieces : pieces' = Append(pieces, p)
    BY <1>2 DEF AddPiece
  <2>2. pieces' \in Seq(Pieces)
    BY <2>1, AppendProperties DEF ArticleInv
  <2> QED BY <2>2 DEF ArticleInv, HtmlAssumption, Pieces, Piece
<1> QED BY <1>1, <1>2 DEF Next

\* news_screen.cc, on its own: of an article the reader gets the meaning, with
\* every word in its place and paragraph, and a headline keeps its title.
THEOREM ArticleReadable == HtmlAssumption /\ ArticleSpec => []ArticleIsReadable
BY ArticleStarts, ArticleStays, ArticleIs, PTL DEF ArticleSpec

-----------------------------------------------------------------------------
(***************************************************************************)
(* LineBreaks: every text, on a grid of any width.  Of the width of a line *)
(* no more is used than that it is a number.                               *)
(***************************************************************************)

LineInv ==
    /\ Lines!LineBreaksAssumption
    /\ doc \in [cols : LineWidths, lines : Seq(Seq(WordLengths))]
    /\ doc.lines # <<>>

Plus(a, b) == a + b
Adding == INSTANCE DeskLemmas WITH Op <- Plus

LEMMA WidthIs ==
    \A words, i, j :
        Lines!Width(words, i, j) = Adding!Fold(j - i - 1, SubSeq(words, i + 1, j))
BY DEF Lines!Width, Lines!FoldLeft, Lines!MapThenFoldSet, Lines!Max, Plus,
       Adding!Fold, Adding!MapThenFoldSet, Adding!Max

LEMMA WidthType ==
    ASSUME LineInv, NEW words \in Seq(WordLengths),
           NEW j \in 1..Len(words), NEW i \in 0..(j - 1)
    PROVE  Lines!Width(words, i, j) \in Int
<1> DEFINE s == SubSeq(words, i + 1, j)
           base == j - i - 1
           n == Len(s)
           I == [k \in 0..n |-> Int]
<1>1. Len(words) \in Nat /\ i \in Int /\ j \in Int /\ i + 1 \in Int /\ 1 <= i + 1 /\ j <= Len(words)
  BY LenProperties
<1>2. s \in Seq(WordLengths)
  BY <1>1, Stretch
<1>3. WordLengths \subseteq Int
  BY DEF LineInv, Lines!LineBreaksAssumption
<1>4. base \in Int
  BY <1>1
<1>5. Lines!Width(words, i, j) = Adding!Fold(base, s)
  BY WidthIs
<1> HIDE DEF s, base
<1>6. n \in Nat /\ DOMAIN s = 1..n /\ \A k \in 1..n : s[k] \in Int
  BY <1>2, <1>3, LenProperties, ElementOfSeq
<1> HIDE DEF n
<1>7. base \in I[0]
  BY <1>4, <1>6
<1>8. \A k \in 1..n : \A a \in I[k - 1] : Plus(a, s[k]) \in I[k]
  <2> SUFFICES ASSUME NEW k \in 1..n, NEW a \in I[k - 1] PROVE Plus(a, s[k]) \in I[k]
    OBVIOUS
  <2>1. k - 1 \in 0..n /\ k \in 0..n
    BY <1>6
  <2>2. a \in Int /\ s[k] \in Int
    BY <1>6, <2>1
  <2>3. Plus(a, s[k]) \in Int
    BY <2>2 DEF Plus
  <2> QED BY <2>1, <2>3
<1> HIDE DEF I
<1>9. Adding!Fold(base, s) \in I[n]
  BY <1>6, <1>7, <1>8, Adding!FoldInvariant
<1> QED BY <1>5, <1>6, <1>9 DEF I

LEMMA CostType ==
    ASSUME LineInv, NEW words \in Seq(WordLengths),
           NEW j \in 1..Len(words), NEW i \in 0..(j - 1)
    PROVE  Lines!LineCost(words, i, j) \in Int
<1> DEFINE w == Lines!Width(words, i, j)
<1> HIDE DEF w
<1>1. w \in Int /\ doc.cols \in Int
  <2>1. doc.cols \in LineWidths
    BY DEF LineInv
  <2>2. LineWidths \subseteq Nat
    BY DEF LineInv, Lines!LineBreaksAssumption
  <2>3. \A x \in LineWidths : x \in Int
    BY <2>2
  <2>4. doc.cols \in Int
    BY <2>1, <2>3
  <2>5. w \in Int
    BY WidthType DEF w
  <2> QED BY <2>4, <2>5
<1>2. Lines!Cube(doc.cols - w) \in Int
  <2> DEFINE x == doc.cols - w
             y == x * x
  <2>1. x \in Int
    BY <1>1
  <2> HIDE DEF x
  <2>2. y \in Int
    BY <2>1
  <2>3. y * x \in Int
    <3> HIDE DEF y
    <3> QED BY <2>1, <2>2
  <2> QED BY <2>3 DEF Lines!Cube, x
<1> QED BY <1>2 DEF Lines!LineCost, w

\* A line that ends with word j can begin with it, whatever its length.
LEMMA FromIs ==
    ASSUME NEW words, NEW j \in Nat, j >= 1
    PROVE  /\ Lines!From(words, j) \subseteq 0..(j - 1) /\ j - 1 \in Lines!From(words, j)
           /\ IsFiniteSet(Lines!From(words, j))
           /\ \A i \in 0..(j - 1) :
                i \in Lines!From(words, j) <=> Lines!Possible(words, i, j)
<1>1. Lines!From(words, j) \subseteq 0..(j - 1)
  BY DEF Lines!From
<1>2. j - 1 \in Lines!From(words, j)
  <2>1. j - 1 \in 0..(j - 1) /\ (j - 1) + 1 = j
    OBVIOUS
  <2> QED BY <2>1 DEF Lines!From, Lines!Possible
<1>3. IsFiniteSet(Lines!From(words, j))
  <2>1. IsFiniteSet(0..(j - 1))
    BY FS_Interval
  <2> QED BY <1>1, <2>1, FS_Subset
<1> QED BY <1>1, <1>2, <1>3 DEF Lines!From

\* The least and the greatest of a finite set of numbers.
LEMMA EndsOf ==
    ASSUME NEW D, IsFiniteSet(D), D \subseteq Int, D # {}
    PROVE  /\ Lines!Min(D) \in D /\ \A x \in D : Lines!Min(D) <= x
           /\ Lines!Max(D) \in D /\ \A x \in D : x <= Lines!Max(D)
<1>1. PICK lo \in D, hi \in D : \A x \in D : lo <= x /\ x <= hi
  BY FiniteBounds
<1>2. /\ \A y \in D : lo <= y
      /\ \A y \in D : hi >= y
  BY <1>1
<1>3. Lines!Min(D) \in D /\ \A x \in D : Lines!Min(D) <= x
  BY <1>2 DEF Lines!Min
<1>4. Lines!Max(D) \in D /\ \A x \in D : Lines!Max(D) >= x
  BY <1>2 DEF Lines!Max
<1>5. \A x \in D : x <= Lines!Max(D)
  <2> DEFINE m == Lines!Max(D)
  <2>1. m \in Int
    BY <1>4
  <2> HIDE DEF m
  <2>2. \A x \in D : m >= x
    BY <1>4 DEF m
  <2>3. \A x \in D : x <= m
    BY <2>1, <2>2
  <2> QED BY <2>3 DEF m
<1> QED BY <1>3, <1>4, <1>5, Zenon

\* The costs are defined from the first word on: there is a function of them.
Reached(words, dp, j) ==
    IF j = 0 THEN 0
    ELSE Lines!Min({dp[i] + Lines!LineCost(words, i, j) : i \in Lines!From(words, j)})

LEMMA BestIs ==
    \A words : Lines!Best(words) =
        CHOOSE dp : dp = [j \in 0..Len(words) |-> Reached(words, dp, j)]
BY DEF Lines!Best, Reached

LEMMA SameReached ==
    ASSUME NEW words, NEW j \in Nat, NEW f, NEW g, \A i \in 0..(j - 1) : f[i] = g[i]
    PROVE  Reached(words, f, j) = Reached(words, g, j)
<1>1. CASE j = 0
  BY <1>1 DEF Reached
<1>2. CASE j # 0
  <2>1. \A i \in Lines!From(words, j) : f[i] = g[i]
    <3>1. Lines!From(words, j) \subseteq 0..(j - 1)
      BY <1>2, FromIs
    <3> QED BY <3>1
  <2> DEFINE A == {f[i] + Lines!LineCost(words, i, j) : i \in Lines!From(words, j)}
             B == {g[i] + Lines!LineCost(words, i, j) : i \in Lines!From(words, j)}
  <2>2. A = B
    BY <2>1
  <2>3. Reached(words, f, j) = Lines!Min(A) /\ Reached(words, g, j) = Lines!Min(B)
    BY <1>2 DEF Reached
  <2> HIDE DEF A, B
  <2> QED BY <2>2, <2>3
<1> QED BY <1>1, <1>2

LEMMA BestExists ==
    ASSUME NEW words
    PROVE  \A n \in Nat : \E dp : dp = [j \in 0..n |-> Reached(words, dp, j)]
<1> DEFINE P == {n \in Nat : \E dp : dp = [j \in 0..n |-> Reached(words, dp, j)]}
<1>1. 0 \in P
  <2> DEFINE g == [j \in 0..0 |-> 0]
  <2>1. \A j \in 0..0 : Reached(words, g, j) = 0
    BY DEF Reached
  <2>2. g = [j \in 0..0 |-> Reached(words, g, j)]
    <3>1. g = [j \in 0..0 |-> 0]
      OBVIOUS
    <3> HIDE DEF g
    <3> QED BY <2>1, <3>1
  <2> HIDE DEF g
  <2> QED BY <2>2
<1>2. ASSUME NEW n \in Nat, n \in P PROVE n + 1 \in P
  <2>1. PICK f : f = [j \in 0..n |-> Reached(words, f, j)]
    BY <1>2
  <2> DEFINE g == [j \in 0..(n + 1) |-> Reached(words, f, j)]
  <2>2. \A j \in 0..n : g[j] = f[j]
    <3>1. \A j \in 0..n : j \in 0..(n + 1)
      OBVIOUS
    <3>2. \A j \in 0..n : f[j] = Reached(words, f, j)
      BY <2>1
    <3> QED BY <3>1, <3>2
  <2>3. g = [j \in 0..(n + 1) |-> g[j]] /\ \A j \in 0..(n + 1) : g[j] = Reached(words, f, j)
    OBVIOUS
  <2> HIDE DEF g
  <2>4. \A j \in 0..(n + 1) : Reached(words, f, j) = Reached(words, g, j)
    <3> SUFFICES ASSUME NEW j \in 0..(n + 1)
                 PROVE  Reached(words, f, j) = Reached(words, g, j)
      OBVIOUS
    <3>1. \A i \in 0..(j - 1) : f[i] = g[i]
      BY <2>2
    <3>2. j \in Nat
      OBVIOUS
    <3> QED BY <3>1, <3>2, SameReached
  <2>5. g = [j \in 0..(n + 1) |-> Reached(words, g, j)]
    BY <2>3, <2>4
  <2> QED BY <2>5
<1> HIDE DEF P
<1>3. \A n \in Nat : n \in P
  BY <1>1, <1>2, Induction
<1> QED BY <1>3 DEF P

\* The costs: of the first j words none is less than that of a line up to word j
\* behind the best breaks before it, and the parent of j attains it.
LEMMA BestOf ==
    ASSUME LineInv, NEW words \in Seq(WordLengths), NEW dp, dp = Lines!Best(words)
    PROVE  /\ dp[0] = 0
           /\ \A j \in 0..Len(words) : dp[j] \in Int
           /\ \A j \in 1..Len(words) :
                /\ \A i \in Lines!From(words, j) :
                     dp[j] <= dp[i] + Lines!LineCost(words, i, j)
                /\ Lines!Parent(words, dp, j) \in Lines!From(words, j)
                /\ dp[j] = dp[Lines!Parent(words, dp, j)]
                             + Lines!LineCost(words, Lines!Parent(words, dp, j), j)
<1> DEFINE n == Len(words)
<1>1. n \in Nat
  BY LenProperties
<1>2. dp = [j \in 0..n |-> Reached(words, dp, j)]
  <2> DEFINE G(f) == f = [j \in 0..n |-> Reached(words, f, j)]
  <2>1. \E f : G(f)
    BY <1>1, BestExists
  <2>2. Lines!Best(words) = CHOOSE f : G(f)
    BY BestIs
  <2>3. G(dp)
    <3> HIDE DEF G
    <3> QED BY <2>1, <2>2
  <2> QED BY <2>3
<1>3. \A j \in 0..n : dp[j] = Reached(words, dp, j)
  BY <1>2
<1> HIDE DEF n
<1>4. dp[0] = 0
  <2>1. 0 \in 0..n
    BY <1>1
  <2> QED BY <1>3, <2>1 DEF Reached
<1>5. ASSUME NEW j \in 1..n, \A i \in 0..(j - 1) : dp[i] \in Int
      PROVE  /\ dp[j] \in Int
             /\ \A i \in Lines!From(words, j) :
                  dp[j] <= dp[i] + Lines!LineCost(words, i, j)
             /\ Lines!Parent(words, dp, j) \in Lines!From(words, j)
             /\ dp[j] = dp[Lines!Parent(words, dp, j)]
                          + Lines!LineCost(words, Lines!Parent(words, dp, j), j)
  <2> DEFINE F == Lines!From(words, j)
             cost == [i \in F |-> dp[i] + Lines!LineCost(words, i, j)]
             D == {cost[i] : i \in F}
             E == {i \in F : cost[i] = dp[j]}
  <2>1. /\ F \subseteq 0..(j - 1) /\ j - 1 \in F /\ IsFiniteSet(F) /\ j # 0
        /\ F \subseteq Int
    <3>1. j \in Nat /\ j >= 1
      BY <1>1
    <3>2. F \subseteq 0..(j - 1) /\ j - 1 \in F /\ IsFiniteSet(F)
      BY <3>1, FromIs
    <3> HIDE DEF F
    <3> QED BY <3>1, <3>2
  <2>2. \A i \in F : cost[i] = dp[i] + Lines!LineCost(words, i, j)
    OBVIOUS
  <2>3. \A i \in F : cost[i] \in Int
    <3> SUFFICES ASSUME NEW i \in F PROVE cost[i] \in Int
      OBVIOUS
    <3>1. i \in 0..(j - 1)
      BY <2>1
    <3>2. dp[i] \in Int
      BY <1>5, <3>1
    <3>3. Lines!LineCost(words, i, j) \in Int
      BY <3>1, CostType DEF n
    <3> HIDE DEF F, cost
    <3> QED BY <2>2, <3>2, <3>3
  <2>4. dp[j] = Lines!Min(D)
    <3>1. j \in 0..n
      BY <1>1
    <3>2. D = {dp[i] + Lines!LineCost(words, i, j) : i \in F}
      OBVIOUS
    <3> HIDE DEF D
    <3> QED BY <1>3, <2>1, <3>1, <3>2 DEF Reached
  <2> HIDE DEF F, cost
  <2>5. IsFiniteSet(D) /\ D \subseteq Int /\ D # {}
    BY <2>1, <2>3, FiniteImage
  <2>6. dp[j] \in D /\ \A x \in D : dp[j] <= x
    <3> HIDE DEF D
    <3> QED BY <2>4, <2>5, EndsOf
  <2>7. IsFiniteSet(E) /\ E \subseteq Int /\ E # {}
    <3>1. E \subseteq F
      OBVIOUS
    <3>2. E # {}
      BY <2>6
    <3> HIDE DEF E
    <3> QED BY <2>1, <3>1, <3>2, FS_Subset
  <2>8. Lines!Parent(words, dp, j) = Lines!Max(E)
    <3>1. E = {i \in Lines!From(words, j) :
                  dp[i] + Lines!LineCost(words, i, j) = dp[j]}
      BY <2>2 DEF F
    <3> HIDE DEF E
    <3> QED BY <3>1 DEF Lines!Parent
  <2>9. Lines!Parent(words, dp, j) \in E
    <3> HIDE DEF E
    <3> QED BY <2>7, <2>8, EndsOf
  <2> QED BY <2>2, <2>5, <2>6, <2>9 DEF F
<1> DEFINE Q == {k \in Nat : \A i \in 0..k : i \in 0..n => dp[i] \in Int}
<1>6. \A k \in Nat : k \in Q
  <2>1. 0 \in Q
    BY <1>4
  <2>2. ASSUME NEW k \in Nat, k \in Q PROVE k + 1 \in Q
    <3> SUFFICES ASSUME NEW i \in 0..(k + 1), i \in 0..n PROVE dp[i] \in Int
      OBVIOUS
    <3>1. CASE i \in 0..k
      BY <2>2, <3>1
    <3>2. CASE i = k + 1
      <4>1. i \in 1..n /\ \A m \in 0..(i - 1) : m \in 0..k /\ m \in 0..n
        BY <1>1, <3>2
      <4>2. \A m \in 0..(i - 1) : dp[m] \in Int
        BY <2>2, <4>1
      <4> QED BY <1>5, <4>1, <4>2
    <3> QED BY <3>1, <3>2
  <2> HIDE DEF Q
  <2> QED BY <2>1, <2>2, Induction
<1>7. \A j \in 0..n : dp[j] \in Int
  <2>1. n \in Q
    BY <1>1, <1>6
  <2> QED BY <2>1
<1>8. \A j \in 1..n : \A i \in 0..(j - 1) : dp[i] \in Int
  <2>1. \A j \in 1..n : \A i \in 0..(j - 1) : i \in 0..n
    BY <1>1
  <2> QED BY <1>7, <2>1
<1> QED BY <1>4, <1>5, <1>7, <1>8 DEF n

\* The chain of parents.
Chained(words, dp, chain, k) ==
    IF k = 0 THEN <<0>> ELSE Append(chain[Lines!Parent(words, dp, k)], k)

LEMMA BreaksAre ==
    \A words : Lines!OptimalBreaks(words) =
        (CHOOSE c : c = [k \in 0..Len(words) |-> Chained(words, Lines!Best(words), c, k)]
        )[Len(words)]
BY DEF Lines!OptimalBreaks, Chained

LEMMA ChainExists ==
    ASSUME LineInv, NEW words \in Seq(WordLengths), NEW dp, dp = Lines!Best(words)
    PROVE  \E c : c = [k \in 0..Len(words) |-> Chained(words, dp, c, k)]
<1> DEFINE P == {n \in Nat : n <= Len(words) =>
                    \E c : c = [k \in 0..n |-> Chained(words, dp, c, k)]}
<1>1. 0 \in P
  <2> DEFINE g == [k \in 0..0 |-> <<0>>]
  <2>1. \A k \in 0..0 : Chained(words, dp, g, k) = <<0>>
    BY DEF Chained
  <2>2. g = [k \in 0..0 |-> Chained(words, dp, g, k)]
    <3>1. g = [k \in 0..0 |-> <<0>>]
      OBVIOUS
    <3> HIDE DEF g
    <3> QED BY <2>1, <3>1
  <2> HIDE DEF g
  <2> QED BY <2>2
<1>2. ASSUME NEW n \in Nat, n \in P PROVE n + 1 \in P
  <2> SUFFICES ASSUME n + 1 <= Len(words)
               PROVE  \E c : c = [k \in 0..(n + 1) |-> Chained(words, dp, c, k)]
    OBVIOUS
  <2>0. Len(words) \in Nat
    BY LenProperties
  <2>1. PICK f : f = [k \in 0..n |-> Chained(words, dp, f, k)]
    BY <1>2, <2>0
  <2> DEFINE g == [k \in 0..(n + 1) |-> Chained(words, dp, f, k)]
  <2>2. \A k \in 0..n : g[k] = f[k]
    <3>1. \A k \in 0..n : k \in 0..(n + 1)
      OBVIOUS
    <3>2. \A k \in 0..n : f[k] = Chained(words, dp, f, k)
      BY <2>1
    <3> QED BY <3>1, <3>2
  <2>3. g = [k \in 0..(n + 1) |-> g[k]] /\ \A k \in 0..(n + 1) : g[k] = Chained(words, dp, f, k)
    OBVIOUS
  <2> HIDE DEF g
  <2>4. \A k \in 0..(n + 1) : Chained(words, dp, f, k) = Chained(words, dp, g, k)
    <3> SUFFICES ASSUME NEW k \in 0..(n + 1)
                 PROVE  Chained(words, dp, f, k) = Chained(words, dp, g, k)
      OBVIOUS
    <3>1. CASE k = 0
      BY <3>1 DEF Chained
    <3>2. CASE k # 0
      <4>1. k \in 1..Len(words) /\ k \in Nat /\ k >= 1
        BY <2>0, <3>2
      <4>2. Lines!Parent(words, dp, k) \in Lines!From(words, k)
        BY <4>1, BestOf
      <4>3. Lines!From(words, k) \subseteq 0..(k - 1)
        BY <4>1, FromIs
      <4>4. Lines!Parent(words, dp, k) \in 0..n
        <5>1. Lines!Parent(words, dp, k) \in 0..(k - 1)
          BY <4>2, <4>3
        <5>2. \A x \in 0..(k - 1) : x \in 0..n
          BY <4>1
        <5> QED BY <5>1, <5>2
      <4>5. f[Lines!Parent(words, dp, k)] = g[Lines!Parent(words, dp, k)]
        BY <2>2, <4>4
      <4> QED BY <3>2, <4>5 DEF Chained
    <3> QED BY <3>1, <3>2
  <2>5. g = [k \in 0..(n + 1) |-> Chained(words, dp, g, k)]
    BY <2>3, <2>4
  <2> QED BY <2>5
<1> HIDE DEF P
<1>3. \A n \in Nat : n \in P
  BY <1>1, <1>2, Induction
<1>4. Len(words) \in P /\ Len(words) \in Nat
  BY <1>3, LenProperties
<1> QED BY <1>4 DEF P

\* Ways to go from 0 to k by parents, each with its lines possible.
IsChain(words, dp, c) ==
    /\ c[0] = <<0>>
    /\ \A k \in 1..Len(words) :
         \E i \in Lines!From(words, k) :
            /\ c[k] = Append(c[i], k) /\ i \in 0..(k - 1) /\ Lines!Possible(words, i, k)
            /\ dp[k] = dp[i] + Lines!LineCost(words, i, k)

LEMMA ChainIs ==
    ASSUME LineInv, NEW words \in Seq(WordLengths)
    PROVE  \E c : /\ IsChain(words, Lines!Best(words), c)
                  /\ Lines!OptimalBreaks(words) = c[Len(words)]
<1> DEFINE dp == Lines!Best(words)
           n == Len(words)
           G(f) == f = [k \in 0..n |-> Chained(words, dp, f, k)]
           c == CHOOSE f : G(f)
<1>0. n \in Nat
  BY LenProperties
<1>1. dp = Lines!Best(words)
  OBVIOUS
<1> HIDE DEF dp
<1>2. Lines!OptimalBreaks(words) = c[n]
  BY <1>1, BreaksAre
<1>3. G(c)
  <2>1. \E f : G(f)
    BY <1>1, ChainExists
  <2> HIDE DEF G
  <2> QED BY <2>1
<1> HIDE DEF c
<1>4. \A k \in 0..n : c[k] = Chained(words, dp, c, k)
  BY <1>3
<1>5. c[0] = <<0>>
  <2>1. 0 \in 0..n
    BY <1>0
  <2> QED BY <1>4, <2>1 DEF Chained
<1>6. ASSUME NEW k \in 1..n
      PROVE  \E i \in Lines!From(words, k) :
                /\ c[k] = Append(c[i], k) /\ i \in 0..(k - 1) /\ Lines!Possible(words, i, k)
                /\ dp[k] = dp[i] + Lines!LineCost(words, i, k)
  <2> DEFINE p == Lines!Parent(words, dp, k)
  <2>1. p \in Lines!From(words, k) /\ dp[k] = dp[p] + Lines!LineCost(words, p, k)
    BY <1>1, BestOf
  <2>2. k \in Nat /\ k >= 1 /\ k # 0 /\ k \in 0..n
    BY <1>0
  <2>3. c[k] = Append(c[p], k)
    BY <1>4, <2>2 DEF Chained
  <2> HIDE DEF p
  <2>4. p \in 0..(k - 1) /\ Lines!Possible(words, p, k)
    <3>1. Lines!From(words, k) \subseteq 0..(k - 1)
      BY <2>2, FromIs
    <3>2. p \in 0..(k - 1)
      BY <2>1, <3>1
    <3> QED BY <2>1, <2>2, <3>2, FromIs
  <2> QED BY <2>1, <2>3, <2>4
<1> HIDE DEF n
<1>7. IsChain(words, dp, c)
  BY <1>5, <1>6 DEF IsChain, n
<1> QED BY <1>1, <1>2, <1>7 DEF n

\* The breaks found: from 0 to the last word, each line possible.
BreaksTo(words, s, k) ==
    /\ s \in Seq(0..k) /\ Len(s) >= 1 /\ s[1] = 0 /\ s[Len(s)] = k
    /\ \A m \in 1..(Len(s) - 1) : s[m] < s[m + 1] /\ Lines!Possible(words, s[m], s[m + 1])

LEMMA BreakAdded ==
    ASSUME NEW words, NEW k \in Nat, NEW i \in 0..(k - 1), NEW s, BreaksTo(words, s, i),
           Lines!Possible(words, i, k)
    PROVE  BreaksTo(words, Append(s, k), k)
<1> DEFINE t == Append(s, k)
           n == Len(s)
<1>1. s \in Seq(0..i) /\ n \in Nat /\ n >= 1
  BY LenProperties DEF BreaksTo
<1>2. s \in Seq(0..k) /\ k \in 0..k
  <2>1. \A m \in 1..n : s[m] \in 0..k
    <3>1. \A m \in 1..n : s[m] \in 0..i
      BY <1>1, ElementOfSeq
    <3>2. \A x \in 0..i : x \in 0..k
      OBVIOUS
    <3> QED BY <3>1, <3>2
  <2>2. s = [m \in 1..n |-> s[m]]
    BY <1>1
  <2> QED BY <1>1, <2>1, <2>2
<1>3. /\ t \in Seq(0..k) /\ Len(t) = n + 1 /\ (\A m \in 1..n : t[m] = s[m])
      /\ t[n + 1] = k
  BY <1>2, AppendProperties
<1> HIDE DEF t, n
<1>4. s[1] = 0 /\ s[n] = i
  BY DEF BreaksTo, n
<1>5. \A m \in 1..(n - 1) : s[m] < s[m + 1] /\ Lines!Possible(words, s[m], s[m + 1])
  BY DEF BreaksTo, n
<1>6. ASSUME NEW m \in 1..n
      PROVE  t[m] < t[m + 1] /\ Lines!Possible(words, t[m], t[m + 1])
  <2>1. CASE m = n
    <3>1. t[m] = i /\ t[m + 1] = k
      BY <1>1, <1>3, <1>4, <2>1
    <3> QED BY <3>1
  <2>2. CASE m # n
    <3>1. m \in 1..(n - 1) /\ m + 1 \in 1..n
      BY <1>1, <2>2
    <3>2. t[m] = s[m] /\ t[m + 1] = s[m + 1]
      BY <1>3, <3>1
    <3> QED BY <1>5, <3>1, <3>2
  <2> QED BY <2>1, <2>2
<1>7. 1 \in 1..n /\ (n + 1) - 1 = n /\ n + 1 >= 1
  BY <1>1
<1>8. Len(t) >= 1 /\ t[1] = 0 /\ t[Len(t)] = k
  BY <1>3, <1>4, <1>7
<1>9. \A m \in 1..(Len(t) - 1) : t[m] < t[m + 1] /\ Lines!Possible(words, t[m], t[m + 1])
  BY <1>3, <1>6, <1>7
<1> QED BY <1>3, <1>8, <1>9 DEF BreaksTo, t

LEMMA BreaksFound ==
    ASSUME LineInv, NEW words \in Seq(WordLengths)
    PROVE  BreaksTo(words, Lines!OptimalBreaks(words), Len(words))
<1> DEFINE n == Len(words)
<1>1. n \in Nat
  BY LenProperties
<1>2. PICK c : /\ IsChain(words, Lines!Best(words), c)
               /\ Lines!OptimalBreaks(words) = c[n]
  BY ChainIs
<1> HIDE DEF n
<1> DEFINE Q == {k \in Nat : \A j \in 0..k : j \in 0..n => BreaksTo(words, c[j], j)}
<1>3. 0 \in Q
  <2> DEFINE zero == <<0>>
  <2>1. /\ zero \in Seq(0..0) /\ Len(zero) = 1 /\ zero[1] = 0
    OBVIOUS
  <2>2. c[0] = zero
    BY <1>2 DEF IsChain
  <2> HIDE DEF zero
  <2>3. BreaksTo(words, zero, 0)
    <3>1. 1..(Len(zero) - 1) = {}
      BY <2>1
    <3> QED BY <2>1, <3>1 DEF BreaksTo
  <2> QED BY <2>2, <2>3
<1>4. ASSUME NEW k \in Nat, k \in Q PROVE k + 1 \in Q
  <2> SUFFICES ASSUME NEW j \in 0..(k + 1), j \in 0..n PROVE BreaksTo(words, c[j], j)
    OBVIOUS
  <2>1. CASE j \in 0..k
    BY <1>4, <2>1
  <2>2. CASE j = k + 1
    <3>1. j \in 1..n
      BY <1>1, <2>2
    <3>2. PICK i \in 0..(j - 1) : c[j] = Append(c[i], j) /\ Lines!Possible(words, i, j)
      BY <1>2, <3>1 DEF IsChain, n
    <3>3. i \in 0..k /\ i \in 0..n /\ j \in Nat
      BY <1>1, <2>2
    <3>4. BreaksTo(words, c[i], i)
      BY <1>4, <3>3
    <3> QED BY <3>2, <3>3, <3>4, BreakAdded
  <2> QED BY <2>1, <2>2
<1> HIDE DEF Q
<1>5. n \in Q
  BY <1>1, <1>3, <1>4, Induction
<1>6. BreaksTo(words, c[n], n)
  BY <1>1, <1>5 DEF Q
<1> QED BY <1>2, <1>6 DEF n

\* The layouts of the first j words, as the set of where their lines end, and
\* their cost line by line.
Ends(words, j) ==
    {ends \in SUBSET (1..j) :
        /\ j = 0 \/ j \in ends
        /\ \A e \in ends : Lines!Possible(words, Lines!LastBefore(ends, e), e)}
CostAt(words, ends) ==
    [e \in ends |-> Lines!LineCost(words, Lines!LastBefore(ends, e), e)]
CostOf(words, ends) == SumOf(CostAt(words, ends), ends)

LEMMA LastBeforeIs ==
    ASSUME NEW n \in Nat, NEW ends \in SUBSET (1..n), NEW j \in 1..n
    PROVE  /\ Lines!LastBefore(ends, j) \in 0..(j - 1)
           /\ Lines!LastBefore(ends, j) # 0 => Lines!LastBefore(ends, j) \in ends
           /\ \A i \in ends : i < j => i <= Lines!LastBefore(ends, j)
<1> DEFINE D == {0} \union {i \in ends : i < j}
<1>1. D \subseteq 0..(j - 1) /\ 0 \in D
  <2>1. \A i \in ends : i < j => i \in 0..(j - 1)
    OBVIOUS
  <2>2. 0 \in 0..(j - 1)
    OBVIOUS
  <2> QED BY <2>1, <2>2, Zenon
<1>2. IsFiniteSet(D) /\ D \subseteq Int /\ D # {}
  <2> HIDE DEF D
  <2>1. IsFiniteSet(0..(j - 1))
    BY FS_Interval
  <2>2. 0..(j - 1) \subseteq Int
    OBVIOUS
  <2> QED BY <1>1, <2>1, <2>2, FS_Subset
<1>3. Lines!LastBefore(ends, j) = Lines!Max(D)
  BY DEF Lines!LastBefore
<1>4. Lines!Max(D) \in D /\ \A x \in D : x <= Lines!Max(D)
  <2> HIDE DEF D
  <2> QED BY <1>2, EndsOf
<1>5. \A i \in ends : i < j => i \in D
  OBVIOUS
<1>6. \A i \in D : i # 0 => i \in ends
  OBVIOUS
<1> HIDE DEF D
<1> QED BY <1>1, <1>3, <1>4, <1>5, <1>6

LEMMA SameBefore ==
    ASSUME NEW ends, NEW j \in Int, NEW e \in Int, e < j
    PROVE  Lines!LastBefore(ends \union {j}, e) = Lines!LastBefore(ends, e)
<1>1. {x \in ends \union {j} : x < e} = {x \in ends : x < e}
  OBVIOUS
<1> DEFINE more == ends \union {j}
<1>2. {x \in more : x < e} = {x \in ends : x < e}
  BY <1>1
<1> HIDE DEF more
<1>3. Lines!LastBefore(more, e) = Lines!LastBefore(ends, e)
  BY <1>2 DEF Lines!LastBefore
<1> QED BY <1>3 DEF more

LEMMA SameSum ==
    ASSUME NEW S, IsFiniteSet(S), NEW f, NEW g, \A e \in S : g[e] \in Int,
           \A e \in S : f[e] = g[e]
    PROVE  SumOf(f, S) = SumOf(g, S)
<1>1. S \in SUBSET S /\ \A e \in S \ S : g[e] = 0
  OBVIOUS
<1> QED BY <1>1, SumOfPart

\* A line of words i + 1 to j after some lines of the first i words.
LineAfter(words, ends, i, j) ==
    /\ j \in 1..Len(words) /\ i \in 0..(j - 1) /\ ends \in SUBSET (1..i)
    /\ i = 0 \/ i \in ends

LEMMA LineAdded ==
    ASSUME LineInv, NEW words \in Seq(WordLengths), NEW ends, NEW i, NEW j,
           LineAfter(words, ends, i, j)
    PROVE  /\ Lines!LastBefore(ends \union {j}, j) = i
           /\ CostOf(words, ends) \in Int
           /\ CostOf(words, ends \union {j})
                = CostOf(words, ends) + Lines!LineCost(words, i, j)
<1> DEFINE more == ends \union {j}
           f == CostAt(words, more)
           g == CostAt(words, ends)
<1>0. /\ j \in 1..Len(words) /\ i \in 0..(j - 1) /\ ends \in SUBSET (1..i)
      /\ i = 0 \/ i \in ends
  BY DEF LineAfter
<1>1. Len(words) \in Nat /\ j \in Nat /\ i \in Nat
  BY <1>0, LenProperties
<1>2. /\ \A e \in ends : e \in 1..i /\ e \in 1..j /\ e < j
      /\ j \notin ends /\ more \in SUBSET (1..j) /\ j \in 1..j /\ j \in more
  BY <1>0, <1>1
<1>3. Lines!LastBefore(more, j) = i
  <2> DEFINE D == {0} \union {x \in more : x < j}
  <2>1. \A x \in more : x < j <=> x \in ends
    BY <1>0, <1>1, <1>2
  <2>2. D = {0} \union ends
    BY <2>1, Zenon
  <2>3. \A x \in ends : x \in Int /\ x <= i
    BY <1>0, <1>1
  <2> HIDE DEF D
  <2>4. \A x \in D : x \in Int /\ x <= i
    BY <1>1, <2>2, <2>3
  <2>5. i \in D
    BY <1>0, <2>2
  <2>6. Lines!Max(D) = i
    <3>1. \A x \in D : (\A y \in D : x >= y) <=> x = i
      BY <2>4, <2>5
    <3> QED BY <2>5, <3>1 DEF Lines!Max
  <2> QED BY <2>6 DEF Lines!LastBefore, D
<1>4. \A e \in ends : Lines!LastBefore(more, e) = Lines!LastBefore(ends, e)
  <2>1. \A e \in ends : e \in Int /\ e < j
    BY <1>1, <1>2
  <2> QED BY <1>1, <2>1, SameBefore
<1> HIDE DEF more
<1>5. IsFiniteSet(more) /\ IsFiniteSet(ends) /\ more \ {j} = ends
  <2>1. IsFiniteSet(1..i)
    BY <1>1, FS_Interval
  <2>2. IsFiniteSet(ends)
    BY <1>0, <2>1, FS_Subset
  <2>3. IsFiniteSet(more)
    BY <2>2, FS_AddElement DEF more
  <2> QED BY <1>2, <2>2, <2>3 DEF more
<1>6. \A e \in ends : f[e] = g[e] /\ g[e] \in Int /\ f[e] \in Int
  <2> SUFFICES ASSUME NEW e \in ends PROVE f[e] = g[e] /\ g[e] \in Int
    OBVIOUS
  <2>1. e \in more
    BY DEF more
  <2>2. /\ f[e] = Lines!LineCost(words, Lines!LastBefore(more, e), e)
        /\ g[e] = Lines!LineCost(words, Lines!LastBefore(ends, e), e)
    BY <2>1 DEF CostAt
  <2>3. Lines!LastBefore(ends, e) \in 0..(e - 1)
    <3>1. e \in 1..i /\ ends \in SUBSET (1..i)
      BY <1>0, <1>2
    <3> QED BY <1>1, <3>1, LastBeforeIs
  <2>4. e \in 1..Len(words)
    BY <1>0, <1>1, <1>2
  <2>5. g[e] \in Int
    BY <2>2, <2>3, <2>4, CostType
  <2> QED BY <1>4, <2>2, <2>5
<1>7. f[j] = Lines!LineCost(words, i, j) /\ f[j] \in Int
  <2>1. f[j] = Lines!LineCost(words, i, j)
    BY <1>2, <1>3 DEF CostAt
  <2> QED BY <1>0, <2>1, CostType
<1>8. \A e \in more : f[e] \in Int
  <2>1. \A e \in more : e \in ends \/ e = j
    BY DEF more
  <2> QED BY <1>6, <1>7, <2>1
<1> HIDE DEF f, g
<1>9. SumOf(f, more) = SumOf(f, ends) + f[j]
  BY <1>2, <1>5, <1>8, SumWithout
<1>10. SumOf(g, ends) \in Int
  BY <1>5, <1>6, SumWithout
<1>11. SumOf(f, ends) = SumOf(g, ends)
  BY <1>5, <1>6, SameSum
<1> QED BY <1>3, <1>7, <1>9, <1>10, <1>11 DEF CostOf, f, g, more

\* No layout of the first j words costs less than dp[j].
LEMMA NoneIsLess ==
    ASSUME LineInv, NEW words \in Seq(WordLengths), NEW dp, dp = Lines!Best(words)
    PROVE  \A ends \in Ends(words, Len(words)) :
              CostOf(words, ends) \in Int /\ dp[Len(words)] <= CostOf(words, ends)
<1> DEFINE n == Len(words)
           Less(j) == \A ends \in Ends(words, j) :
                         CostOf(words, ends) \in Int /\ dp[j] <= CostOf(words, ends)
           Q == {k \in Nat : \A j \in 0..k : j \in 0..n => Less(j)}
<1>1. n \in Nat
  BY LenProperties
<1>2. /\ dp[0] = 0 /\ \A j \in 0..n : dp[j] \in Int
  BY BestOf
<1> HIDE DEF n
<1>3. 0 \in Q
  <2>1. ASSUME NEW ends \in Ends(words, 0)
        PROVE  CostOf(words, ends) \in Int /\ dp[0] <= CostOf(words, ends)
    <3>1. ends = {}
      BY DEF Ends
    <3>2. CostOf(words, ends) = 0
      BY <3>1, SumOfNone DEF CostOf
    <3> QED BY <1>2, <3>2
  <2> QED BY <2>1
<1>4. ASSUME NEW k \in Nat, k \in Q PROVE k + 1 \in Q
  <2> SUFFICES ASSUME NEW j \in 0..(k + 1), j \in 0..n PROVE Less(j)
    OBVIOUS
  <2>1. CASE j \in 0..k
    <3> HIDE DEF Less
    <3> QED BY <1>4, <2>1
  <2>2. CASE j = k + 1
    <3> SUFFICES ASSUME NEW more \in Ends(words, j)
                 PROVE  CostOf(words, more) \in Int /\ dp[j] <= CostOf(words, more)
      OBVIOUS
    <3> DEFINE i == Lines!LastBefore(more, j)
               ends == more \ {j}
    <3>1. j \in Nat /\ j \in 1..j /\ j \in 1..n /\ j >= 1
      BY <1>1, <2>2
    <3>2. /\ more \in SUBSET (1..j) /\ j \in more
          /\ \A e \in more : Lines!Possible(words, Lines!LastBefore(more, e), e)
      BY <3>1 DEF Ends
    <3>3. /\ i \in 0..(j - 1) /\ (i # 0 => i \in more)
          /\ \A e \in more : e < j => e <= i
      BY <3>1, <3>2, LastBeforeIs
    <3>4. Lines!Possible(words, i, j)
      BY <3>2
    <3> HIDE DEF i
    <3>5. i = 0 \/ i \in ends
      BY <3>1, <3>3
    <3>6. ends \in SUBSET (1..i) /\ more = ends \union {j}
      <4>1. \A e \in ends : e \in 1..i
        <5> SUFFICES ASSUME NEW e \in ends PROVE e \in 1..i
          OBVIOUS
        <5>1. e \in 1..j /\ e # j /\ e \in more
          BY <3>2
        <5>2. e < j
          BY <3>1, <5>1
        <5>3. e <= i
          BY <3>3, <5>1, <5>2
        <5> QED BY <3>3, <5>1, <5>3
      <4> QED BY <3>2, <4>1
    <3> HIDE DEF ends
    <3>7. /\ \A e \in ends : Lines!LastBefore(more, e) = Lines!LastBefore(ends, e)
          /\ CostOf(words, ends) \in Int
          /\ CostOf(words, more) = CostOf(words, ends) + Lines!LineCost(words, i, j)
      <4>1. /\ CostOf(words, ends) \in Int
            /\ CostOf(words, ends \union {j})
                 = CostOf(words, ends) + Lines!LineCost(words, i, j)
        <5>1. LineAfter(words, ends, i, j)
          BY <3>1, <3>3, <3>5, <3>6 DEF LineAfter, n
        <5>2. CostOf(words, ends) \in Int
          BY <5>1, LineAdded, Zenon
        <5>3. CostOf(words, ends \union {j})
                 = CostOf(words, ends) + Lines!LineCost(words, i, j)
          BY <5>1, LineAdded, Zenon
        <5> QED BY <5>2, <5>3
      <4>2. \A e \in ends : Lines!LastBefore(ends \union {j}, e) = Lines!LastBefore(ends, e)
        <5>1. \A e \in ends : e \in Int /\ e < j
          BY <3>1, <3>3, <3>6
        <5> QED BY <3>1, <5>1, SameBefore
      <4> QED BY <3>6, <4>1, <4>2
    <3>8. ends \in Ends(words, i)
      <4>1. \A e \in ends : Lines!Possible(words, Lines!LastBefore(ends, e), e)
        BY <3>2, <3>6, <3>7
      <4> QED BY <3>5, <3>6, <4>1 DEF Ends
    <3>9. dp[i] <= CostOf(words, ends)
      <4>1. i \in 0..k /\ i \in 0..n
        BY <1>1, <2>2, <3>1, <3>3
      <4>2. Less(i)
        <5> HIDE DEF Less
        <5> QED BY <1>4, <4>1
      <4> QED BY <3>8, <4>2
    <3>10. dp[j] <= dp[i] + Lines!LineCost(words, i, j)
      <4>1. i \in Lines!From(words, j)
        BY <3>1, <3>3, <3>4, FromIs
      <4> QED BY <3>1, <4>1, BestOf DEF n
    <3>11. Lines!LineCost(words, i, j) \in Int
      BY <3>1, <3>3, CostType DEF n
    <3>12. dp[i] \in Int /\ dp[j] \in Int
      <4>1. i \in 0..n /\ j \in 0..n
        BY <1>1, <3>1, <3>3
      <4> QED BY <1>2, <4>1
    <3> DEFINE a == CostOf(words, ends)
               b == Lines!LineCost(words, i, j)
               s == CostOf(words, more)
    <3>13. a \in Int /\ b \in Int /\ s = a + b /\ dp[i] <= a /\ dp[j] <= dp[i] + b
      BY <3>7, <3>9, <3>10, <3>11
    <3> HIDE DEF a, b, s
    <3>14. s \in Int /\ dp[j] <= s
      BY <3>12, <3>13
    <3> QED BY <3>14 DEF s
  <2> QED BY <2>1, <2>2
<1> HIDE DEF Q
<1>5. n \in Q
  BY <1>1, <1>3, <1>4, Induction
<1>6. Less(n)
  <2> HIDE DEF Less
  <2> QED BY <1>1, <1>5 DEF Q
<1> QED BY <1>6 DEF n

\* The breaks of the chain are a layout, and cost what dp says.
LEMMA RangeOfAppended ==
    ASSUME NEW S, NEW s \in Seq(S), NEW x
    PROVE  Lines!Range(Append(s, x)) = Lines!Range(s) \union {x}
<1> DEFINE t == Append(s, x)
           n == Len(s)
<1>1. n \in Nat /\ DOMAIN s = 1..n
  BY LenProperties
<1>2. /\ DOMAIN t = 1..(n + 1) /\ (\A m \in 1..n : t[m] = s[m]) /\ t[n + 1] = x
  OBVIOUS
<1> HIDE DEF t, n
<1>3. Lines!Range(t) = {t[m] : m \in 1..(n + 1)} /\ Lines!Range(s) = {s[m] : m \in 1..n}
  BY <1>1, <1>2 DEF Lines!Range
<1>4. \A m \in 1..(n + 1) : m \in 1..n \/ m = n + 1
  BY <1>1
<1>5. n + 1 \in 1..(n + 1) /\ \A m \in 1..n : m \in 1..(n + 1)
  BY <1>1
<1>6. {t[m] : m \in 1..(n + 1)} = {s[m] : m \in 1..n} \union {x}
  BY <1>2, <1>4, <1>5
<1> QED BY <1>3, <1>6 DEF t

LEMMA ChainCosts ==
    ASSUME LineInv, NEW words \in Seq(WordLengths), NEW c,
           IsChain(words, Lines!Best(words), c)
    PROVE  \A j \in 0..Len(words) :
              /\ BreaksTo(words, c[j], j)
              /\ Lines!Range(c[j]) \ {0} \in Ends(words, j)
              /\ CostOf(words, Lines!Range(c[j]) \ {0}) = Lines!Best(words)[j]
<1> DEFINE n == Len(words)
           dp == Lines!Best(words)
           Costs(j) == /\ BreaksTo(words, c[j], j)
                       /\ Lines!Range(c[j]) \ {0} \in Ends(words, j)
                       /\ CostOf(words, Lines!Range(c[j]) \ {0}) = dp[j]
           Q == {k \in Nat : \A j \in 0..k : j \in 0..n => Costs(j)}
<1>1. n \in Nat
  BY LenProperties
<1>2. dp[0] = 0
  BY BestOf
<1>3. c[0] = <<0>>
  BY DEF IsChain
<1>4. \A k \in 1..n :
        \E i \in 0..(k - 1) :
           /\ c[k] = Append(c[i], k) /\ Lines!Possible(words, i, k)
           /\ dp[k] = dp[i] + Lines!LineCost(words, i, k)
  BY DEF IsChain
<1> HIDE DEF n, dp
<1>5. 0 \in Q
  <2> DEFINE zero == <<0>>
  <2>1. /\ zero \in Seq(0..0) /\ Len(zero) = 1 /\ zero[1] = 0 /\ DOMAIN zero = 1..1
    OBVIOUS
  <2> HIDE DEF zero
  <2>2. BreaksTo(words, zero, 0)
    <3>1. 1..(Len(zero) - 1) = {}
      BY <2>1
    <3> QED BY <2>1, <3>1 DEF BreaksTo
  <2>3. Lines!Range(zero) \ {0} = {}
    <3>1. \A m \in 1..1 : zero[m] = 0
      BY <2>1
    <3> QED BY <2>1, <3>1 DEF Lines!Range
  <2>4. {} \in Ends(words, 0)
    BY DEF Ends
  <2>5. CostOf(words, {}) = 0
    BY SumOfNone DEF CostOf
  <2>6. c[0] = zero
    BY <1>3 DEF zero
  <2>7. Costs(0)
    BY <1>2, <2>2, <2>3, <2>4, <2>5, <2>6
  <2> HIDE DEF Costs
  <2> QED BY <2>7
<1>6. ASSUME NEW k \in Nat, k \in Q PROVE k + 1 \in Q
  <2> SUFFICES ASSUME NEW j \in 0..(k + 1), j \in 0..n PROVE Costs(j)
    OBVIOUS
  <2>1. CASE j \in 0..k
    <3> HIDE DEF Costs
    <3> QED BY <1>6, <2>1
  <2>2. CASE j = k + 1
    <3>1. j \in Nat /\ j \in 1..j /\ j \in 1..n /\ j >= 1
      BY <1>1, <2>2
    <3>2. PICK i \in 0..(j - 1) :
             /\ c[j] = Append(c[i], j) /\ Lines!Possible(words, i, j)
             /\ dp[j] = dp[i] + Lines!LineCost(words, i, j)
      BY <1>4, <3>1
    <3> DEFINE ends == Lines!Range(c[i]) \ {0}
               more == Lines!Range(c[j]) \ {0}
    <3>3. i \in 0..k /\ i \in 0..n
      BY <1>1, <2>2, <3>1
    <3>4. BreaksTo(words, c[i], i) /\ ends \in Ends(words, i) /\ CostOf(words, ends) = dp[i]
      <4>1. Costs(i)
        <5> HIDE DEF Costs
        <5> QED BY <1>6, <3>3
      <4> QED BY <4>1
    <3>5. BreaksTo(words, c[j], j)
      BY <3>1, <3>2, <3>4, BreakAdded
    <3>6. more = ends \union {j}
      <4> DEFINE s == c[i]
      <4>1. s \in Seq(0..i)
        BY <3>4 DEF BreaksTo
      <4> HIDE DEF s
      <4>2. Lines!Range(Append(s, j)) = Lines!Range(s) \union {j}
        BY <4>1, RangeOfAppended
      <4>3. more = (Lines!Range(s) \union {j}) \ {0} /\ ends = Lines!Range(s) \ {0}
        BY <3>2, <4>2 DEF s
      <4>4. j # 0
        BY <3>1
      <4> HIDE DEF more, ends
      <4> QED BY <4>3, <4>4, Zenon
    <3> HIDE DEF more, ends
    <3>7. /\ ends \in SUBSET (1..i) /\ (i = 0 \/ i \in ends)
          /\ \A e \in ends : Lines!Possible(words, Lines!LastBefore(ends, e), e)
      BY <3>4 DEF Ends
    <3>8. LineAfter(words, ends, i, j)
      BY <3>1, <3>7 DEF LineAfter, n
    <3>9. Lines!LastBefore(ends \union {j}, j) = i
      BY <3>8, LineAdded
    <3>10. CostOf(words, ends \union {j})
              = CostOf(words, ends) + Lines!LineCost(words, i, j)
      BY <3>8, LineAdded
    <3>11. \A e \in ends : e \in Int /\ e < j /\ e \in 1..j
      BY <3>1, <3>7
    <3>12. more \in Ends(words, j)
      <4>1. \A e \in ends : Lines!LastBefore(more, e) = Lines!LastBefore(ends, e)
        BY <3>1, <3>6, <3>11, SameBefore
      <4>2. \A e \in more : e \in ends \/ e = j
        BY <3>6
      <4>3. \A e \in more : Lines!Possible(words, Lines!LastBefore(more, e), e)
        BY <3>2, <3>6, <3>7, <3>9, <4>1, <4>2, Zenon
      <4>4. more \in SUBSET (1..j) /\ j \in more
        BY <3>1, <3>6, <3>11
      <4> QED BY <4>3, <4>4 DEF Ends
    <3>13. CostOf(words, more) = dp[j]
      BY <3>2, <3>4, <3>6, <3>10
    <3> QED BY <3>5, <3>12, <3>13 DEF more
  <2> QED BY <2>1, <2>2
<1> HIDE DEF Q
<1>7. \A k \in Nat : k \in Q
  BY <1>5, <1>6, Induction
<1>8. \A j \in 0..n : Costs(j)
  <2> HIDE DEF Costs
  <2> QED BY <1>1, <1>7 DEF Q
<1> QED BY <1>8 DEF n, dp

\* The cost of the reference, by the penalties of the code.
LEMMA ZeroOr ==
    ASSUME NEW x \in Int
    PROVE  Lines!Max({0, x}) = IF x > 0 THEN x ELSE 0
<1> DEFINE m == IF x > 0 THEN x ELSE 0
<1>1. m \in {0, x} /\ \A y \in {0, x} : y \in Int /\ y <= m
  OBVIOUS
<1> HIDE DEF m
<1>2. \A y \in {0, x} : (\A z \in {0, x} : y >= z) <=> y = m
  BY <1>1
<1>3. Lines!Max({0, x}) = m
  BY <1>1, <1>2 DEF Lines!Max
<1> QED BY <1>3 DEF m

LEMMA PenaltyIs ==
    ASSUME LineInv, NEW words \in Seq(WordLengths),
           NEW j \in 1..(Len(words) - 1), NEW i \in 0..(j - 1)
    PROVE  Lines!Cube(Lines!Max({0, doc.cols - Lines!Width(words, i, j)}))
              = Lines!LineCost(words, i, j)
<1> DEFINE w == Lines!Width(words, i, j)
           cols == doc.cols
           x == cols - w
<1>1. Len(words) \in Nat /\ j \in 1..Len(words) /\ j # Len(words)
  BY LenProperties
<1>2. w \in Int
  BY <1>1, WidthType
<1>3. cols \in Int
  <2>1. doc.cols \in LineWidths
    BY DEF LineInv
  <2>2. \A y \in LineWidths : y \in Int
    BY DEF LineInv, Lines!LineBreaksAssumption
  <2> QED BY <2>1, <2>2
<1>4. Lines!LineCost(words, i, j) = IF w > cols THEN 0 ELSE Lines!Cube(x)
  BY <1>1 DEF Lines!LineCost
<1> HIDE DEF w, cols
<1>5. x \in Int /\ (w > cols <=> x < 0)
  BY <1>2, <1>3
<1> HIDE DEF x
<1>6. Lines!Max({0, x}) = IF x > 0 THEN x ELSE 0
  BY <1>5, ZeroOr
<1>7. Lines!Cube(0) = 0
  BY DEF Lines!Cube
<1>8. Lines!Cube(Lines!Max({0, x})) = IF x < 0 THEN 0 ELSE Lines!Cube(x)
  <2>1. CASE x > 0
    BY <1>5, <1>6, <2>1
  <2>2. CASE x = 0
    BY <1>6, <1>7, <2>2
  <2>3. CASE x < 0
    BY <1>5, <1>6, <1>7, <2>3
  <2> QED BY <1>5, <2>1, <2>2, <2>3
<1>9. Lines!Cube(Lines!Max({0, x})) = Lines!LineCost(words, i, j)
  BY <1>4, <1>5, <1>8
<1> QED BY <1>9 DEF x, cols, w

LEMMA LayoutsAre ==
    ASSUME NEW words, Len(words) # 0
    PROVE  Lines!Layouts(words) = Ends(words, Len(words))
BY DEF Lines!Layouts, Ends

LEMMA LayoutCostIs ==
    ASSUME LineInv, NEW words \in Seq(WordLengths), Len(words) # 0,
           NEW ends \in Ends(words, Len(words))
    PROVE  Lines!LayoutCost(words, ends) = CostOf(words, ends)
<1> DEFINE n == Len(words)
           f == CostAt(words, ends)
           g == [j \in ends |->
                   Lines!Cube(Lines!Max({0, doc.cols
                      - Lines!Width(words, Lines!LastBefore(ends, j), j)}))]
           inner == ends \ {n}
<1>1. n \in Nat /\ n \in 1..n /\ n >= 1
  BY LenProperties
<1>2. ends \in SUBSET (1..n) /\ n \in ends
  BY DEF Ends
<1>3. Lines!LayoutCost(words, ends) = SumOf(g, inner)
  <2>1. Lines!LayoutCost(words, ends) = Lines!MapThenSumSet(LAMBDA j : g[j], inner)
    BY DEF Lines!LayoutCost
  <2> HIDE DEF g, inner
  <2>2. Lines!MapThenSumSet(LAMBDA j : g[j], inner) = SumOf(g, inner)
    BY DEF Lines!MapThenSumSet, Lines!MapThenFoldSet, SumOf, MapThenSumSet, MapThenFoldSet
  <2> QED BY <2>1, <2>2
<1>4. /\ \A e \in ends : f[e] = Lines!LineCost(words, Lines!LastBefore(ends, e), e)
      /\ \A e \in ends : g[e] = Lines!Cube(Lines!Max({0, doc.cols
                                   - Lines!Width(words, Lines!LastBefore(ends, e), e)}))
  BY DEF CostAt
<1> HIDE DEF n, f, g
<1>5. \A e \in ends : e \in 1..n /\ Lines!LastBefore(ends, e) \in 0..(e - 1)
  BY <1>1, <1>2, LastBeforeIs
<1>6. \A e \in ends : f[e] \in Int
  BY <1>4, <1>5, CostType DEF n
<1>7. f[n] = 0
  <2>1. f[n] = Lines!LineCost(words, Lines!LastBefore(ends, n), n)
    BY <1>2, <1>4
  <2>2. Lines!LineCost(words, Lines!LastBefore(ends, n), n) = 0
    BY DEF Lines!LineCost, n
  <2> QED BY <2>1, <2>2
<1>8. IsFiniteSet(ends) /\ IsFiniteSet(inner)
  <2>1. IsFiniteSet(1..n)
    BY <1>1, FS_Interval
  <2> QED BY <1>2, <2>1, FS_Subset
<1>9. \A e \in inner : f[e] = g[e]
  <2> SUFFICES ASSUME NEW e \in inner PROVE f[e] = g[e]
    OBVIOUS
  <2> DEFINE i == Lines!LastBefore(ends, e)
  <2>1. e \in ends /\ e \in 1..n /\ e # n
    BY <1>2
  <2>2. e \in 1..(n - 1)
    BY <1>1, <2>1
  <2>3. i \in 0..(e - 1)
    BY <1>5, <2>1
  <2>4. f[e] = Lines!LineCost(words, i, e)
    BY <1>4, <2>1
  <2>5. g[e] = Lines!Cube(Lines!Max({0, doc.cols - Lines!Width(words, i, e)}))
    BY <1>4, <2>1
  <2> HIDE DEF i
  <2> QED BY <2>2, <2>3, <2>4, <2>5, PenaltyIs DEF n
<1>10. SumOf(f, ends) = SumOf(f, inner) + f[n] /\ SumOf(f, ends) \in Int
  BY <1>2, <1>6, <1>8, SumWithout
<1>11. SumOf(f, inner) \in Int
  <2>1. \A e \in inner : f[e] \in Int
    BY <1>6
  <2> HIDE DEF inner
  <2> QED BY <1>8, <2>1, SumWithout
<1>12. SumOf(f, inner) = SumOf(g, inner)
  <2>1. \A e \in inner : g[e] \in Int
    BY <1>6, <1>9
  <2> HIDE DEF inner
  <2> QED BY <1>8, <1>9, <2>1, SameSum
<1> HIDE DEF inner
<1>13. SumOf(f, ends) = SumOf(g, inner)
  BY <1>7, <1>10, <1>11, <1>12
<1> QED BY <1>3, <1>13 DEF CostOf, f

LEMMA OptimalFound ==
    ASSUME LineInv, NEW words \in Seq(WordLengths), Len(words) # 0
    PROVE  LET ends == Lines!Range(Lines!OptimalBreaks(words)) \ {0}
           IN  /\ ends \in Lines!Layouts(words)
               /\ \A other \in Lines!Layouts(words) :
                    Lines!LayoutCost(words, ends) <= Lines!LayoutCost(words, other)
<1> DEFINE n == Len(words)
           dp == Lines!Best(words)
           ends == Lines!Range(Lines!OptimalBreaks(words)) \ {0}
<1>1. PICK c : IsChain(words, dp, c) /\ Lines!OptimalBreaks(words) = c[n]
  BY ChainIs
<1>2. n \in Nat /\ n \in 0..n
  BY LenProperties
<1>3. ends \in Ends(words, n) /\ CostOf(words, ends) = dp[n]
  <2>1. /\ Lines!Range(c[n]) \ {0} \in Ends(words, n)
        /\ CostOf(words, Lines!Range(c[n]) \ {0}) = dp[n]
    BY <1>1, <1>2, ChainCosts
  <2> QED BY <1>1, <2>1
<1>4. \A other \in Ends(words, n) : dp[n] <= CostOf(words, other)
  BY NoneIsLess
<1>5. Lines!Layouts(words) = Ends(words, n)
  BY LayoutsAre
<1>6. \A other \in Ends(words, n) : Lines!LayoutCost(words, other) = CostOf(words, other)
  BY LayoutCostIs
<1> HIDE DEF n, dp, ends
<1>7. \A other \in Ends(words, n) :
         Lines!LayoutCost(words, ends) <= Lines!LayoutCost(words, other)
  BY <1>3, <1>4, <1>6, Zenon
<1> QED BY <1>3, <1>5, <1>7 DEF ends

\* Paragraphs: none is empty, and joined they are the words of the text.
Filled == Seq(WordLengths) \ {<<>>}

Splits(done, open) == [done |-> done, open |-> open]
SplitStep(acc, line) ==
    CASE line = <<>> -> [acc EXCEPT !.open = FALSE]
      [] line # <<>> /\ acc.open ->
           [acc EXCEPT !.done = Append(Lines!Front(acc.done), Lines!Last(acc.done) \o line)]
      [] line # <<>> /\ ~acc.open -> Splits(Append(acc.done, line), TRUE)
Splitting == INSTANCE DeskLemmas WITH Op <- SplitStep

LEMMA ParagraphsAre ==
    Lines!Paragraphs = Splitting!Fold(Splits(<<>>, FALSE), doc.lines).done
BY DEF Lines!Paragraphs, Splits, SplitStep, Lines!FoldLeft, Lines!MapThenFoldSet,
       Splitting!Fold, Splitting!MapThenFoldSet, Lines!Max, Splitting!Max

\* A sequence that is not empty ends in its last element.
LEMMA FrontAndLast ==
    ASSUME NEW S, NEW s \in Seq(S), s # <<>>
    PROVE  /\ Lines!Front(s) \in Seq(S) /\ Lines!Last(s) \in S
           /\ s = Append(Lines!Front(s), Lines!Last(s))
<1> DEFINE n == Len(s)
           f == SubSeq(s, 1, n - 1)
<1>1. n \in Nat /\ n >= 1 /\ n - 1 \in Int /\ n \in 1..n
  BY EmptySeq, LenProperties
<1>2. Lines!Front(s) = f /\ Lines!Last(s) = s[n]
  BY DEF Lines!Front, Lines!Last
<1>3. /\ f \in Seq(S) /\ Len(f) = n - 1
      /\ \A i \in 1..(n - 1) : f[i] = s[i]
  <2>1. /\ SubSeq(s, 1, n - 1) \in Seq(S)
        /\ Len(SubSeq(s, 1, n - 1)) = (IF 1 <= n - 1 THEN (n - 1) - 1 + 1 ELSE 0)
        /\ \A i \in 1..((n - 1) - 1 + 1) : SubSeq(s, 1, n - 1)[i] = s[1 + i - 1]
    BY <1>1, Stretch
  <2> HIDE DEF n
  <2>2. Len(f) = n - 1
    BY <1>1, <2>1
  <2>3. ASSUME NEW i \in 1..(n - 1) PROVE f[i] = s[i]
    <3>1. i \in 1..((n - 1) - 1 + 1) /\ 1 + i - 1 = i
      BY <1>1
    <3>2. f[i] = s[1 + i - 1]
      BY <2>1, <3>1
    <3> QED BY <3>1, <3>2
  <2> QED BY <2>1, <2>2, <2>3
<1>4. s[n] \in S
  BY <1>1, ElementOfSeq
<1> DEFINE t == Append(f, s[n])
<1> HIDE DEF f
<1>5. /\ t \in Seq(S) /\ Len(t) = n
      /\ (\A i \in 1..(n - 1) : t[i] = f[i]) /\ t[n] = s[n]
  <2>1. t \in Seq(S) /\ Len(t) = (n - 1) + 1
    BY <1>3, <1>4, AppendProperties
  <2>2. (\A i \in 1..(n - 1) : t[i] = f[i]) /\ t[(n - 1) + 1] = s[n]
    BY <1>3, <1>4, AppendProperties
  <2>3. (n - 1) + 1 = n
    BY <1>1
  <2> QED BY <2>1, <2>2, <2>3
<1> HIDE DEF t
<1>6. Len(s) = Len(t) /\ \A i \in 1..Len(s) : s[i] = t[i]
  <2>1. \A i \in 1..n : i \in 1..(n - 1) \/ i = n
    BY <1>1
  <2> QED BY <1>3, <1>5, <2>1
<1>7. s = t
  BY <1>5, <1>6, SeqEqual
<1> QED BY <1>2, <1>3, <1>4, <1>7 DEF t

IsSplit(acc, lines) ==
    /\ acc = Splits(acc.done, acc.open) /\ acc.open \in BOOLEAN
    /\ acc.done \in Seq(Filled) /\ (acc.open => acc.done # <<>>)
    /\ Flat(acc.done) = Flat(lines)

LEMMA SplitMore ==
    ASSUME NEW acc, NEW lines \in Seq(Seq(WordLengths)), NEW line \in Seq(WordLengths),
           IsSplit(acc, lines)
    PROVE  IsSplit(SplitStep(acc, line), Append(lines, line))
<1> DEFINE d == acc.done
<1>1. d \in Seq(Filled) /\ d \in Seq(Seq(WordLengths)) /\ Flat(d) = Flat(lines)
  <2>1. Filled \subseteq Seq(WordLengths)
    BY DEF Filled
  <2>2. d \in Seq(Filled)
    BY DEF IsSplit
  <2>3. d \in Seq(Seq(WordLengths))
    BY <2>1, <2>2, SeqMonotonic
  <2> QED BY <2>2, <2>3 DEF IsSplit
<1>2. Flat(Append(lines, line)) = Flat(d) \o line /\ Flat(d) \in Seq(WordLengths)
  <2>1. Flat(Append(lines, line)) = Flat(lines) \o line
    BY FlatAppended
  <2> QED BY <1>1, <2>1, FlatType
<1> HIDE DEF d
<1>3. CASE line = <<>>
  <2>1. SplitStep(acc, line) = Splits(d, FALSE)
    BY <1>3 DEF SplitStep, Splits, IsSplit, d
  <2>2. Flat(d) \o line = Flat(d)
    BY <1>2, <1>3, EmptyJoined
  <2> QED BY <1>1, <1>2, <2>1, <2>2 DEF IsSplit, Splits
<1>4. CASE line # <<>> /\ acc.open
  <2> DEFINE front == Lines!Front(d)
             last == Lines!Last(d)
             joined == last \o line
  <2>1. SplitStep(acc, line) = Splits(Append(front, joined), TRUE)
    <3>1. SplitStep(acc, line) = [acc EXCEPT !.done = Append(front, joined)]
      BY <1>4 DEF SplitStep, d
    <3>2. acc = [done |-> d, open |-> TRUE]
      BY <1>4 DEF IsSplit, Splits, d
    <3> HIDE DEF front, joined
    <3> QED BY <3>1, <3>2 DEF Splits
  <2>2. d # <<>>
    BY <1>4 DEF IsSplit, d
  <2>3. front \in Seq(Filled) /\ last \in Filled /\ d = Append(front, last)
    BY <1>1, <2>2, FrontAndLast
  <2> HIDE DEF front, last
  <2>4. front \in Seq(Seq(WordLengths)) /\ last \in Seq(WordLengths) /\ last # <<>>
    <3>1. Filled \subseteq Seq(WordLengths)
      BY DEF Filled
    <3>2. front \in Seq(Seq(WordLengths))
      BY <2>3, <3>1, SeqMonotonic
    <3> QED BY <2>3, <3>2 DEF Filled
  <2>5. joined \in Seq(WordLengths) /\ joined # <<>>
    <3>1. joined \in Seq(WordLengths)
      BY <2>4, ConcatProperties
    <3>2. joined = <<>> <=> last = <<>> /\ line = <<>>
      BY <2>4, ConcatEqualIffEmpty
    <3> QED BY <1>4, <3>1, <3>2
  <2> HIDE DEF joined
  <2>6. Append(front, joined) \in Seq(Filled) /\ Append(front, joined) # <<>>
    <3>1. joined \in Filled
      BY <2>5 DEF Filled
    <3> QED BY <2>3, <3>1, AppendIs
  <2>7. Flat(Append(front, joined)) = Flat(front) \o joined
    BY <2>4, <2>5, FlatAppended
  <2>8. Flat(d) = Flat(front) \o last
    BY <2>3, <2>4, FlatAppended
  <2>9. (Flat(front) \o last) \o line = Flat(front) \o joined
    <3>1. Flat(front) \in Seq(WordLengths)
      BY <2>4, FlatType
    <3> QED BY <2>4, <3>1, ConcatAssociative DEF joined
  <2> QED BY <1>2, <2>1, <2>6, <2>7, <2>8, <2>9 DEF IsSplit, Splits
<1>5. CASE line # <<>> /\ ~acc.open
  <2>1. SplitStep(acc, line) = Splits(Append(d, line), TRUE)
    BY <1>5 DEF SplitStep, d
  <2>2. Append(d, line) \in Seq(Filled) /\ Append(d, line) # <<>>
    <3>1. line \in Filled
      BY <1>5 DEF Filled
    <3> QED BY <1>1, <3>1, AppendIs
  <2>3. Flat(Append(d, line)) = Flat(d) \o line
    BY <1>1, FlatAppended
  <2> QED BY <1>2, <2>1, <2>2, <2>3 DEF IsSplit, Splits
<1> QED BY <1>3, <1>4, <1>5 DEF IsSplit

LEMMA ParagraphsKept ==
    ASSUME LineInv
    PROVE  /\ Lines!Paragraphs \in Seq(Filled)
           /\ Flat(Lines!Paragraphs) = Flat(doc.lines)
           /\ doc.lines \in Seq(Seq(WordLengths))
<1> DEFINE T == Seq(WordLengths)
           fold(lines) == Splitting!Fold(Splits(<<>>, FALSE), lines)
           Q == {lines \in Seq(T) : IsSplit(fold(lines), lines)}
<1>1. <<>> \in Q
  <2>1. fold(<<>>) = Splits(<<>>, FALSE)
    BY Splitting!FoldOfNone
  <2>2. IsSplit(Splits(<<>>, FALSE), <<>>)
    <3>1. <<>> \in Seq(Filled)
      BY EmptySeq
    <3> QED BY <3>1 DEF IsSplit, Splits
  <2>3. <<>> \in Seq(T)
    BY EmptySeq
  <2> HIDE DEF fold
  <2> QED BY <2>1, <2>2, <2>3
<1>2. ASSUME NEW lines \in Seq(T), lines \in Q, NEW line \in T PROVE Append(lines, line) \in Q
  <2>1. fold(Append(lines, line)) = SplitStep(fold(lines), line)
    BY Splitting!FoldAppended
  <2>2. IsSplit(fold(lines), lines)
    BY <1>2
  <2> HIDE DEF fold
  <2>3. IsSplit(SplitStep(fold(lines), line), Append(lines, line))
    BY <2>2, SplitMore
  <2>4. Append(lines, line) \in Seq(T)
    BY AppendProperties
  <2> HIDE DEF T
  <2> QED BY <2>1, <2>3, <2>4
<1>3. \A lines \in Seq(T) : lines \in Q
  <2> HIDE DEF Q
  <2> QED BY <1>1, <1>2, SeqInduction
<1>4. doc.lines \in Seq(T)
  BY DEF LineInv
<1>5. IsSplit(fold(doc.lines), doc.lines)
  BY <1>3, <1>4
<1> QED BY <1>4, <1>5, ParagraphsAre DEF IsSplit

\* The lines of a paragraph: none is empty, they fit, and joined they are it.
Fits(line) == Len(line) > 1 => Lines!Width(line, 0, Len(line)) <= doc.cols
AreLines(lines, p) ==
    /\ lines \in Seq(Filled) /\ lines # <<>> /\ Flat(lines) = p
    /\ \A i \in 1..Len(lines) : Fits(lines[i])

LEMMA LineOf ==
    ASSUME NEW p \in Seq(WordLengths), NEW j \in 1..Len(p), NEW i \in 0..(j - 1),
           Lines!Possible(p, i, j)
    PROVE  SubSeq(p, i + 1, j) \in Filled /\ Fits(SubSeq(p, i + 1, j))
<1> DEFINE line == SubSeq(p, i + 1, j)
<1>1. Len(p) \in Nat /\ i \in Int /\ j \in Int /\ i < j /\ 1 <= i + 1 /\ j <= Len(p)
  BY LenProperties
<1>2. line \in Seq(WordLengths) /\ Len(line) = j - i
  <2>1. /\ SubSeq(p, i + 1, j) \in Seq(WordLengths)
        /\ Len(SubSeq(p, i + 1, j)) = (IF i + 1 <= j THEN j - (i + 1) + 1 ELSE 0)
    BY <1>1, Stretch
  <2>2. i + 1 <= j /\ j - (i + 1) + 1 = j - i
    BY <1>1
  <2> QED BY <2>1, <2>2
<1>3. Lines!Width(p, i, j) = Adding!Fold(j - i - 1, line)
  BY WidthIs
<1>4. Lines!Width(line, 0, Len(line)) = Adding!Fold(Len(line) - 0 - 1, SubSeq(line, 0 + 1, Len(line)))
  BY WidthIs
<1> HIDE DEF line
<1>5. SubSeq(line, 0 + 1, Len(line)) = line /\ Len(line) - 0 - 1 = j - i - 1
  <2>1. SubSeq(line, 1, Len(line)) = line
    BY <1>2, SubSeqFull
  <2>2. 0 + 1 = 1
    OBVIOUS
  <2>3. Len(line) - 0 - 1 = j - i - 1
    BY <1>1, <1>2
  <2> QED BY <2>1, <2>2, <2>3
<1>6. Lines!Width(line, 0, Len(line)) = Lines!Width(p, i, j)
  BY <1>3, <1>4, <1>5
<1>7. Fits(line)
  <2> SUFFICES ASSUME Len(line) > 1 PROVE Lines!Width(p, i, j) <= doc.cols
    BY <1>6 DEF Fits
  <2>1. i + 1 # j
    BY <1>1, <1>2
  <2> QED BY <2>1 DEF Lines!Possible
<1>8. line # <<>>
  BY <1>1, <1>2
<1> QED BY <1>2, <1>7, <1>8 DEF line, Filled

LEMMA LinesFound ==
    ASSUME LineInv, NEW p \in Filled
    PROVE  AreLines(Lines!LinesOf(p), p)
<1> DEFINE n == Len(p)
           s == Lines!OptimalBreaks(p)
           m == Len(s) - 1
           lines == [k \in 1..m |-> SubSeq(p, s[k] + 1, s[k + 1])]
<1>1. p \in Seq(WordLengths) /\ n \in Nat /\ n # 0
  BY LenProperties, EmptySeq DEF Filled
<1>2. Lines!LinesOf(p) = lines
  BY DEF Lines!LinesOf
<1>3. BreaksTo(p, s, n)
  BY <1>1, BreaksFound
<1> HIDE DEF s, n
<1>4. /\ s \in Seq(0..n) /\ Len(s) \in Nat /\ Len(s) >= 1 /\ s[1] = 0 /\ s[Len(s)] = n
      /\ \A k \in 1..m : s[k] < s[k + 1] /\ Lines!Possible(p, s[k], s[k + 1])
  BY <1>3, LenProperties DEF BreaksTo
<1>5. \A k \in 1..Len(s) : s[k] \in 0..n
  BY <1>4, ElementOfSeq
<1>6. m \in Nat /\ m >= 1 /\ m + 1 = Len(s)
  BY <1>1, <1>4
<1> HIDE DEF m
<1>7. \A k \in 1..m : /\ s[k] \in 0..n /\ s[k + 1] \in 0..n
                      /\ s[k + 1] \in 1..n /\ s[k] \in 0..(s[k + 1] - 1)
  <2> SUFFICES ASSUME NEW k \in 1..m
               PROVE  /\ s[k] \in 0..n /\ s[k + 1] \in 0..n
                      /\ s[k + 1] \in 1..n /\ s[k] \in 0..(s[k + 1] - 1)
    OBVIOUS
  <2>1. k \in 1..Len(s) /\ k + 1 \in 1..Len(s)
    BY <1>6
  <2>2. s[k] \in 0..n /\ s[k + 1] \in 0..n /\ s[k] < s[k + 1]
    BY <1>4, <1>5, <2>1
  <2> QED BY <1>1, <2>2
<1>8. \A k \in 1..m : lines[k] \in Filled /\ Fits(lines[k])
  <2> SUFFICES ASSUME NEW k \in 1..m
               PROVE  lines[k] \in Filled /\ Fits(lines[k])
    OBVIOUS
  <2> DEFINE i == s[k]
             j == s[k + 1]
  <2>1. j \in 1..Len(p) /\ i \in 0..(j - 1) /\ Lines!Possible(p, i, j)
    BY <1>4, <1>7 DEF n
  <2>2. lines[k] = SubSeq(p, i + 1, j)
    OBVIOUS
  <2> HIDE DEF i, j, lines
  <2> QED BY <1>1, <2>1, <2>2, LineOf
<1>9. lines \in Seq(Filled) /\ Len(lines) = m
  BY <1>6, <1>8
<1> DEFINE Upto(k) == [i \in 1..k |-> lines[i]]
           At(k) == Flat(Upto(k)) = SubSeq(p, 1, s[k + 1])
           Q == {k \in Nat : k <= m => At(k)}
<1>10. 0 \in Q
  <2>1. Upto(0) = <<>>
    OBVIOUS
  <2>2. s[0 + 1] = 0
    BY <1>4
  <2>3. SubSeq(p, 1, 0) = <<>>
    BY SubSeqEmpty
  <2> HIDE DEF Upto
  <2> QED BY <2>1, <2>2, <2>3, FlatOfNone
<1>11. ASSUME NEW k \in Nat, k \in Q PROVE k + 1 \in Q
  <2> HIDE DEF At
  <2> SUFFICES ASSUME k + 1 <= m PROVE At(k + 1)
    OBVIOUS
  <2>1. At(k)
    <3>1. k <= m
      BY <1>6
    <3> QED BY <1>11, <3>1
  <2> HIDE DEF Q
  <2>2. k + 1 \in 1..m
    BY <1>6
  <2> DEFINE i == s[k + 1]
             j == s[(k + 1) + 1]
             line == lines[k + 1]
  <2>3. i \in 0..n /\ j \in 0..n /\ i \in 0..(j - 1) /\ line = SubSeq(p, i + 1, j)
    BY <1>7, <2>2
  <2>4. /\ Upto(k) \in Seq(Seq(WordLengths)) /\ line \in Seq(WordLengths)
        /\ Upto(k + 1) = Append(Upto(k), line)
    <3>1. \A x \in 1..m : lines[x] \in Seq(WordLengths)
      BY <1>8 DEF Filled
    <3>2. \A x \in 1..(k + 1) : x \in 1..m
      BY <1>6
    <3> HIDE DEF lines
    <3>3. line \in Seq(WordLengths)
      BY <2>2, <3>1
    <3>4. \A x \in 1..(k + 1) : lines[x] \in Seq(WordLengths)
      BY <3>1, <3>2
    <3>5. Upto(k) \in Seq(Seq(WordLengths)) /\ Len(Upto(k)) = k
      BY <3>4
    <3>6. Upto(k + 1) = Append(Upto(k), line)
      <4> DEFINE u == Upto(k)
                 v == Upto(k + 1)
                 w == Append(u, line)
      <4>1. /\ w \in Seq(Seq(WordLengths)) /\ Len(w) = k + 1
            /\ (\A x \in 1..k : w[x] = u[x]) /\ w[k + 1] = line
        <5> HIDE DEF u
        <5> QED BY <3>3, <3>5, AppendProperties DEF u
      <4>2. \A x \in 1..(k + 1) : v[x] = lines[x]
        OBVIOUS
      <4>3. \A x \in 1..k : u[x] = lines[x]
        OBVIOUS
      <4>4. v \in Seq(Seq(WordLengths)) /\ Len(v) = k + 1
        BY <3>4
      <4> HIDE DEF u, v, w
      <4>5. \A x \in 1..(k + 1) : x \in 1..k \/ x = k + 1
        OBVIOUS
      <4>6. \A x \in 1..Len(v) : v[x] = w[x]
        BY <4>1, <4>2, <4>3, <4>4, <4>5 DEF line
      <4>7. v = w
        BY <4>1, <4>4, <4>6, SeqEqual
      <4> QED BY <4>7 DEF u, v, w
    <3> QED BY <3>3, <3>5, <3>6
  <2> HIDE DEF Upto, line, i, j
  <2>5. Flat(Upto(k + 1)) = Flat(Upto(k)) \o line
    BY <2>4, FlatAppended
  <2>6. SubSeq(p, 1, i) \o SubSeq(p, i + 1, j) = SubSeq(p, 1, j)
    <3>1. /\ 1 \in 1..(Len(p) + 1) /\ i \in (1 - 1)..Len(p) /\ j \in i..Len(p)
      BY <1>1, <2>3 DEF n
    <3> QED BY <1>1, <3>1, ConcatAdjacentSubSeq
  <2>7. Flat(Upto(k)) = SubSeq(p, 1, i)
    BY <2>1 DEF At, i
  <2>8. Flat(Upto(k + 1)) = SubSeq(p, 1, j)
    BY <2>3, <2>5, <2>6, <2>7
  <2> QED BY <2>8 DEF At, j
<1> HIDE DEF Q
<1>12. m \in Q
  BY <1>6, <1>10, <1>11, Induction
<1>13. Upto(m) = lines
  OBVIOUS
<1> HIDE DEF lines
<1>14. Flat(lines) = p
  <2>1. Flat(lines) = SubSeq(p, 1, s[m + 1])
    BY <1>6, <1>12, <1>13 DEF Q, At
  <2>2. SubSeq(p, 1, Len(p)) = p
    BY <1>1, SubSeqFull
  <2> QED BY <1>4, <1>6, <2>1, <2>2 DEF n
<1>15. lines # <<>>
  BY <1>6, <1>9
<1> QED BY <1>2, <1>8, <1>9, <1>14, <1>15 DEF AreLines

\* The text: paragraph by paragraph, with a blank line before all but the first.
Block(p, i) == (IF i = 1 THEN <<>> ELSE << <<>> >>) \o Lines!LinesOf(p)
Blocks(ps) == [i \in DOMAIN ps |-> Block(ps[i], i)]

LEMMA LayoutIs ==
    Lines!LayoutText =
        IF doc.cols = 0 THEN <<>> ELSE Lines!FlattenSeq(Blocks(Lines!Paragraphs))
BY DEF Lines!LayoutText, Blocks, Block

LEMMA FlattenLines == \A seqs : Lines!FlattenSeq(seqs) = Flattened(seqs)
BY DEF Lines!FlattenSeq, Flattened, Joins

\* Blank lines stand between others.
Apart(text) ==
    \A i \in 1..Len(text) :
        text[i] = <<>> =>
            i \in 2..(Len(text) - 1) /\ text[i - 1] # <<>> /\ text[i + 1] # <<>>
AllFit(text) == \A i \in 1..Len(text) : Fits(text[i])

LEMMA LinesApart ==
    ASSUME NEW t \in Seq(Seq(WordLengths)), t # <<>>, Apart(t), AllFit(t),
           NEW ls \in Seq(Filled), ls # <<>>, AllFit(ls)
    PROVE  /\ t \o (<< <<>> >> \o ls) \in Seq(Seq(WordLengths))
           /\ t \o (<< <<>> >> \o ls) # <<>>
           /\ Apart(t \o (<< <<>> >> \o ls)) /\ AllFit(t \o (<< <<>> >> \o ls))
<1> DEFINE T == Seq(WordLengths)
           gap == << <<>> >>
           b == gap \o ls
           u == t \o b
           m == Len(t)
           n == Len(ls)
<1>1. /\ m \in Nat /\ n \in Nat /\ m >= 1 /\ n >= 1
      /\ \A i \in 1..n : ls[i] # <<>>
  <2>1. \A i \in 1..n : ls[i] \in Filled
    BY ElementOfSeq
  <2> QED BY <2>1, EmptySeq, LenProperties DEF Filled
<1>2. gap \in Seq(T) /\ Len(gap) = 1 /\ gap[1] = <<>> /\ ls \in Seq(T)
  <2>1. <<>> \in T
    BY EmptySeq
  <2>2. Filled \subseteq T
    BY DEF Filled
  <2>3. ls \in Seq(T)
    BY <2>2, SeqMonotonic
  <2> HIDE DEF T
  <2> QED BY <2>1, <2>3
<1> HIDE DEF gap
<1>3. b \in Seq(T) /\ Len(b) = n + 1 /\ b[1] = <<>> /\ \A i \in 1..n : b[1 + i] = ls[i]
  <2>1. b \in Seq(T) /\ JoinOf(b, gap, ls)
    BY <1>2, Joined
  <2>2. /\ Len(b) = Len(gap) + Len(ls)
        /\ \A i \in 1..Len(gap) : b[i] = gap[i]
        /\ \A i \in 1..Len(ls) : b[Len(gap) + i] = ls[i]
    BY <2>1 DEF JoinOf
  <2> HIDE DEF b
  <2> QED BY <1>1, <1>2, <2>1, <2>2
<1> HIDE DEF b
<1>4. /\ u \in Seq(T) /\ Len(u) = m + (n + 1) /\ (\A i \in 1..m : u[i] = t[i])
      /\ \A i \in 1..(n + 1) : u[m + i] = b[i]
  <2>1. u \in Seq(T) /\ JoinOf(u, t, b)
    BY <1>3, Joined
  <2> HIDE DEF u
  <2> QED BY <1>3, <2>1 DEF JoinOf
<1> HIDE DEF u, m, n
<1>5. u[m + 1] = <<>> /\ \A i \in 1..n : u[m + (1 + i)] = ls[i]
  <2>1. 1 \in 1..(n + 1) /\ \A i \in 1..n : 1 + i \in 1..(n + 1)
    BY <1>1
  <2> QED BY <1>3, <1>4, <2>1
<1>6. \A i \in 1..Len(u) : \/ i \in 1..m
                           \/ i = m + 1
                           \/ \E k \in 1..n : i = m + (1 + k)
  <2> SUFFICES ASSUME NEW i \in 1..Len(u), ~(i \in 1..m), i # m + 1
               PROVE  \E k \in 1..n : i = m + (1 + k)
    OBVIOUS
  <2>1. i - m - 1 \in 1..n /\ i = m + (1 + (i - m - 1))
    BY <1>1, <1>4
  <2> QED BY <2>1
<1>7. /\ \A i \in 1..m : t[i] = <<>> =>
            i \in 2..(m - 1) /\ t[i - 1] # <<>> /\ t[i + 1] # <<>>
      /\ t[m] # <<>>
  <2>1. \A i \in 1..m : t[i] = <<>> =>
            i \in 2..(m - 1) /\ t[i - 1] # <<>> /\ t[i + 1] # <<>>
    BY DEF Apart, m
  <2>2. m \in 1..m /\ m \notin 2..(m - 1)
    BY <1>1
  <2> QED BY <2>1, <2>2
<1>8. Apart(u)
  <2> SUFFICES ASSUME NEW i \in 1..Len(u), u[i] = <<>>
               PROVE  i \in 2..(Len(u) - 1) /\ u[i - 1] # <<>> /\ u[i + 1] # <<>>
    BY DEF Apart
  <2>1. CASE i \in 1..m
    <3>1. i \in 2..(m - 1) /\ t[i - 1] # <<>> /\ t[i + 1] # <<>>
      BY <1>4, <1>7, <2>1
    <3>2. i - 1 \in 1..m /\ i + 1 \in 1..m /\ i \in 2..(Len(u) - 1)
      BY <1>1, <1>4, <3>1
    <3> QED BY <1>4, <3>1, <3>2
  <2>2. CASE i = m + 1
    <3>1. i \in 2..(Len(u) - 1)
      BY <1>1, <1>4, <2>2
    <3>2. u[i - 1] # <<>>
      <4>1. i - 1 = m /\ m \in 1..m
        BY <1>1, <2>2
      <4> QED BY <1>4, <1>7, <4>1
    <3>3. u[i + 1] # <<>>
      <4>1. i + 1 = m + (1 + 1) /\ 1 \in 1..n
        BY <1>1, <2>2
      <4> QED BY <1>1, <1>5, <4>1
    <3> QED BY <3>1, <3>2, <3>3
  <2>3. CASE \E k \in 1..n : i = m + (1 + k)
    BY <1>1, <1>5, <2>3
  <2> QED BY <1>6, <2>1, <2>2, <2>3
<1>9. AllFit(u)
  <2> SUFFICES ASSUME NEW i \in 1..Len(u) PROVE Fits(u[i])
    BY DEF AllFit
  <2>1. CASE i \in 1..m
    BY <1>4, <2>1 DEF AllFit, m
  <2>2. CASE i = m + 1
    <3>1. Len(u[i]) = 0
      BY <1>5, <2>2
    <3> QED BY <3>1 DEF Fits
  <2>3. CASE \E k \in 1..n : i = m + (1 + k)
    <3>1. PICK k \in 1..n : i = m + (1 + k)
      BY <2>3
    <3>2. u[i] = ls[k]
      BY <1>5, <3>1
    <3> QED BY <3>2 DEF AllFit, n
  <2> QED BY <1>6, <2>1, <2>2, <2>3
<1>10. u # <<>>
  BY <1>1, <1>4
<1> QED BY <1>4, <1>8, <1>9, <1>10 DEF u, b, gap

\* Of paragraph after paragraph the text keeps the words.
IsText(text, ps) ==
    /\ Blocks(ps) \in Seq(Seq(Seq(WordLengths))) /\ text = Flat(Blocks(ps))
    /\ text \in Seq(Seq(WordLengths)) /\ Flat(text) = Flat(ps)
    /\ Apart(text) /\ AllFit(text) /\ (text = <<>> <=> ps = <<>>)

LEMMA BlocksAppended ==
    ASSUME NEW ps \in Seq(Filled), NEW p \in Filled
    PROVE  Blocks(Append(ps, p)) = Append(Blocks(ps), Block(p, Len(ps) + 1))
<1> DEFINE qs == Append(ps, p)
           n == Len(ps)
           U == {Block(qs[i], i) : i \in 1..(n + 1)}
           bs == Blocks(ps)
           cs == Blocks(qs)
<1>1. /\ qs \in Seq(Filled) /\ n \in Nat /\ DOMAIN ps = 1..n /\ DOMAIN qs = 1..(n + 1)
      /\ (\A i \in 1..n : qs[i] = ps[i]) /\ qs[n + 1] = p
  <2>1. qs \in Seq(Filled) /\ Len(qs) = n + 1
    BY AppendIs
  <2>2. (\A i \in 1..n : qs[i] = ps[i]) /\ qs[n + 1] = p
    BY AppendIs
  <2>3. n \in Nat /\ DOMAIN ps = 1..n
    BY LenProperties
  <2> HIDE DEF qs
  <2>4. DOMAIN qs = 1..(n + 1)
    BY <2>1, LenProperties
  <2> QED BY <2>1, <2>2, <2>3, <2>4
<1> HIDE DEF qs, n
<1>2. /\ bs \in Seq(U) /\ Len(bs) = n /\ \A i \in 1..n : bs[i] = Block(ps[i], i)
  <2>1. bs = [i \in 1..n |-> Block(ps[i], i)]
    BY <1>1 DEF Blocks
  <2>2. \A i \in 1..n : Block(ps[i], i) \in U
    BY <1>1
  <2> HIDE DEF bs, U
  <2> QED BY <1>1, <2>1, <2>2
<1>3. /\ cs \in Seq(U) /\ Len(cs) = n + 1 /\ \A i \in 1..(n + 1) : cs[i] = Block(qs[i], i)
  <2>1. cs = [i \in 1..(n + 1) |-> Block(qs[i], i)]
    BY <1>1 DEF Blocks
  <2>2. \A i \in 1..(n + 1) : Block(qs[i], i) \in U
    OBVIOUS
  <2> HIDE DEF cs, U
  <2> QED BY <1>1, <2>1, <2>2
<1>4. Block(p, n + 1) \in U
  <2>1. n + 1 \in 1..(n + 1)
    BY <1>1
  <2> QED BY <1>1, <2>1
<1> DEFINE last == Block(p, n + 1)
           ds == Append(bs, last)
<1> HIDE DEF bs, cs, U, last
<1>5. /\ ds \in Seq(U) /\ Len(ds) = n + 1 /\ (\A i \in 1..n : ds[i] = bs[i]) /\ ds[n + 1] = last
  BY <1>2, <1>4, AppendIs DEF last
<1> HIDE DEF ds
<1>6. \A i \in 1..Len(cs) : cs[i] = ds[i]
  <2>1. \A i \in 1..(n + 1) : i \in 1..n \/ i = n + 1
    BY <1>1
  <2> QED BY <1>1, <1>2, <1>3, <1>5, <2>1 DEF last
<1>7. cs = ds
  BY <1>3, <1>5, <1>6, SeqEqual
<1> QED BY <1>7 DEF cs, ds, bs, qs, last, n

LEMMA TextMore ==
    ASSUME LineInv, NEW ps \in Seq(Filled), NEW p \in Filled,
           IsText(Flat(Blocks(ps)), ps)
    PROVE  IsText(Flat(Blocks(Append(ps, p))), Append(ps, p))
<1> DEFINE T == Seq(WordLengths)
           qs == Append(ps, p)
           t == Flat(Blocks(ps))
           u == Flat(Blocks(qs))
           ls == Lines!LinesOf(p)
           gap == << <<>> >>
           bs == Blocks(ps)
           b == Block(p, Len(ps) + 1)
<1>1. /\ Blocks(ps) \in Seq(Seq(T)) /\ t \in Seq(T) /\ Flat(t) = Flat(ps)
      /\ Apart(t) /\ AllFit(t) /\ (t = <<>> <=> ps = <<>>)
  BY DEF IsText
<1>2. /\ ls \in Seq(Filled) /\ ls # <<>> /\ Flat(ls) = p
      /\ \A i \in 1..Len(ls) : Fits(ls[i])
  BY LinesFound DEF AreLines
<1>3. Filled \subseteq T /\ p \in T /\ ps \in Seq(T) /\ ls \in Seq(T) /\ gap \in Seq(T)
  <2>1. Filled \subseteq T
    BY DEF Filled
  <2>2. <<>> \in T
    BY EmptySeq
  <2> HIDE DEF ls, T
  <2>3. ps \in Seq(T) /\ ls \in Seq(T)
    BY <1>2, <2>1, SeqMonotonic
  <2> QED BY <2>1, <2>2, <2>3
<1>4. Blocks(qs) = Append(bs, b)
  BY BlocksAppended
<1>5. qs \in Seq(Filled) /\ qs # <<>> /\ Flat(qs) = Flat(ps) \o p
  <2>1. Flat(Append(ps, p)) = Flat(ps) \o p
    BY <1>3, FlatAppended
  <2> QED BY <2>1, AppendIs
<1> HIDE DEF ls
<1>6. b = (IF Len(ps) + 1 = 1 THEN <<>> ELSE gap) \o ls
  BY DEF Block, ls
<1>7. gap \o ls \in Seq(T) /\ <<>> \o ls = ls
  <2> HIDE DEF gap
  <2> QED BY <1>3, ConcatProperties, EmptyJoined
<1>8. b = IF ps = <<>> THEN ls ELSE gap \o ls
  <2>1. CASE ps = <<>>
    <3>1. Len(ps) + 1 = 1
      BY <2>1
    <3> HIDE DEF gap
    <3> QED BY <1>6, <1>7, <2>1, <3>1
  <2>2. CASE ps # <<>>
    <3>1. Len(ps) + 1 # 1
      BY <2>2, EmptySeq, LenProperties
    <3> HIDE DEF gap
    <3> QED BY <1>6, <2>2, <3>1
  <2> QED BY <2>1, <2>2
<1> HIDE DEF b, gap, bs, T, u
<1>9. b \in Seq(T)
  BY <1>3, <1>7, <1>8
<1>10. Blocks(qs) \in Seq(Seq(T)) /\ u = t \o b
  <2>1. bs \in Seq(Seq(T))
    BY <1>1 DEF bs
  <2>2. Append(bs, b) \in Seq(Seq(T))
    BY <1>9, <2>1, AppendIs
  <2>3. Flat(Append(bs, b)) = Flat(bs) \o b
    BY <1>9, <2>1, FlatAppended
  <2> QED BY <1>4, <2>2, <2>3 DEF u, bs
<1> HIDE DEF t
<1>11. Flat(qs) \in T /\ Flat(ps) \in T
  <2>1. qs \in Seq(T)
    BY <1>3, <1>5, SeqMonotonic
  <2> QED BY <1>3, <2>1, FlatType DEF T
<1>12. CASE ps = <<>>
  <2>1. u = ls
    BY <1>1, <1>7, <1>8, <1>10, <1>12
  <2>2. Flat(qs) = p
    <3>1. Flat(ps) = <<>>
      BY <1>12, FlatOfNone
    <3> QED BY <1>3, <1>5, <3>1, EmptyJoined DEF T
  <2>3. Apart(u) /\ AllFit(u)
    <3>1. \A i \in 1..Len(ls) : ls[i] # <<>>
      <4>1. \A i \in 1..Len(ls) : ls[i] \in Filled
        BY <1>2, ElementOfSeq
      <4> QED BY <4>1 DEF Filled
    <3> QED BY <1>2, <2>1, <3>1 DEF Apart, AllFit
  <2> QED BY <1>2, <1>3, <1>5, <1>10, <2>1, <2>2, <2>3 DEF IsText, u, T
<1>13. CASE ps # <<>>
  <2>1. u = t \o (gap \o ls)
    BY <1>8, <1>10, <1>13
  <2>2. AllFit(ls)
    BY <1>2 DEF AllFit
  <2>3. u \in Seq(T) /\ u # <<>> /\ Apart(u) /\ AllFit(u)
    <3>1. t \in Seq(Seq(WordLengths)) /\ t # <<>>
      BY <1>1, <1>13 DEF T
    <3>2. /\ t \o (<< <<>> >> \o ls) \in Seq(Seq(WordLengths))
          /\ t \o (<< <<>> >> \o ls) # <<>>
          /\ Apart(t \o (<< <<>> >> \o ls)) /\ AllFit(t \o (<< <<>> >> \o ls))
      BY <1>1, <1>2, <2>2, <3>1, LinesApart
    <3> QED BY <2>1, <3>2 DEF gap, T
  <2>4. Flat(u) = Flat(qs)
    <3>1. Flat(u) = Flat(t) \o Flat(gap \o ls)
      BY <1>1, <1>7, <2>1, FlatJoined DEF T
    <3>2. Flat(gap \o ls) = Flat(gap) \o Flat(ls)
      BY <1>3, FlatJoined DEF T
    <3>3. Flat(gap) = <<>>
      <4>1. <<>> \in Seq(WordLengths)
        BY EmptySeq
      <4> QED BY <4>1, FlatOfOne DEF gap
    <3>4. <<>> \o p = p
      BY <1>3, EmptyJoined DEF T
    <3> QED BY <1>1, <1>2, <1>5, <3>1, <3>2, <3>3, <3>4
  <2> QED BY <1>5, <1>10, <2>3, <2>4 DEF IsText, u, T
<1> QED BY <1>12, <1>13

LEMMA TextIs ==
    ASSUME LineInv
    PROVE  \A ps \in Seq(Filled) : IsText(Flat(Blocks(ps)), ps)
<1> DEFINE Q == {ps \in Seq(Filled) : IsText(Flat(Blocks(ps)), ps)}
<1>1. <<>> \in Q
  <2>1. Blocks(<<>>) = <<>>
    BY DEF Blocks
  <2>2. <<>> \in Seq(Filled) /\ <<>> \in Seq(Seq(WordLengths))
        /\ <<>> \in Seq(Seq(Seq(WordLengths))) /\ Len(<<>>) = 0
    BY EmptySeq
  <2>3. Apart(<<>>) /\ AllFit(<<>>)
    <3>1. 1..Len(<<>>) = {}
      BY <2>2
    <3> QED BY <3>1 DEF Apart, AllFit
  <2> QED BY <2>1, <2>2, <2>3, FlatOfNone DEF IsText
<1>2. ASSUME NEW ps \in Seq(Filled), ps \in Q, NEW p \in Filled PROVE Append(ps, p) \in Q
  <2>1. Append(ps, p) \in Seq(Filled)
    BY AppendIs
  <2> QED BY <1>2, <2>1, TextMore
<1>3. \A ps \in Seq(Filled) : ps \in Q
  <2> HIDE DEF Q
  <2> QED BY <1>1, <1>2, SeqInduction
<1> QED BY <1>3

LEMMA LinesAre == LineInv => Lines!TextIsLaidOut
<1> SUFFICES ASSUME LineInv PROVE Lines!TextIsLaidOut
  OBVIOUS
<1> DEFINE ps == Lines!Paragraphs
           text == Lines!LayoutText
<1>1. ps \in Seq(Filled) /\ Flat(ps) = Flat(doc.lines) /\ doc.lines \in Seq(Seq(WordLengths))
  BY ParagraphsKept
<1>2. Lines!BreaksAreOptimal
  <2>1. \A p \in Lines!Range(ps) : p \in Filled
    <3>1. DOMAIN ps = 1..Len(ps) /\ \A i \in 1..Len(ps) : ps[i] \in Filled
      BY <1>1, ElementOfSeq, LenProperties
    <3> QED BY <3>1 DEF Lines!Range
  <2>2. \A p \in Filled : p \in Seq(WordLengths) /\ Len(p) # 0
    BY EmptySeq DEF Filled
  <2> QED BY <2>1, <2>2, OptimalFound DEF Lines!BreaksAreOptimal
<1> HIDE DEF ps
<1>3. ASSUME doc.cols # 0 PROVE IsText(text, ps)
  <2>1. IsText(Flat(Blocks(ps)), ps)
    BY <1>1, TextIs
  <2>2. text = Flat(Blocks(ps))
    <3>1. text = Flattened(Blocks(ps))
      BY <1>3, LayoutIs, FlattenLines DEF ps
    <3>2. Flattened(Blocks(ps)) = Flat(Blocks(ps))
      <4>1. Blocks(ps) \in Seq(Seq(Seq(WordLengths)))
        BY <2>1 DEF IsText
      <4> QED BY <4>1, FlattenedIsFlat
    <3> QED BY <3>1, <3>2
  <2> QED BY <2>1, <2>2
<1>4. doc.cols = 0 => text = <<>>
  BY LayoutIs
<1> HIDE DEF text
<1>5. Lines!FlattenSeq(text) = IF doc.cols = 0 THEN <<>> ELSE Lines!FlattenSeq(doc.lines)
  <2>1. CASE doc.cols = 0
    <3>1. text \in Seq(Seq(WordLengths)) /\ Flat(text) = <<>>
      BY <1>4, <2>1, EmptySeq, FlatOfNone
    <3>2. Flattened(text) = Flat(text)
      BY <3>1, FlattenedIsFlat
    <3> QED BY <2>1, <3>1, <3>2, FlattenLines
  <2>2. CASE doc.cols # 0
    <3>1. text \in Seq(Seq(WordLengths)) /\ Flat(text) = Flat(ps)
      BY <1>3, <2>2 DEF IsText
    <3>2. Flattened(text) = Flat(text) /\ Flattened(doc.lines) = Flat(doc.lines)
      BY <1>1, <3>1, FlattenedIsFlat
    <3> QED BY <1>1, <2>2, <3>1, <3>2, FlattenLines
  <2> QED BY <2>1, <2>2
<1>6. DOMAIN text = 1..Len(text) /\ Apart(text) /\ AllFit(text)
  <2>1. CASE doc.cols = 0
    <3>1. text = <<>> /\ DOMAIN text = {} /\ Len(text) = 0 /\ 1..0 = {}
      BY <1>4, <2>1, EmptySeq
    <3> QED BY <3>1 DEF Apart, AllFit
  <2>2. CASE doc.cols # 0
    BY <1>3, <2>2, LenProperties DEF IsText
  <2> QED BY <2>1, <2>2
<1>7. Lines!TextIsKept
  BY <1>5, <1>6 DEF Lines!TextIsKept, Apart, AllFit, Fits, text
<1> QED BY <1>2, <1>7 DEF Lines!TextIsLaidOut

\* The text grows by words and lines.
LineSpec == Lines!Init /\ [][Lines!Next]_doc

LEMMA LineStarts == Lines!LineBreaksAssumption /\ Lines!Init => LineInv
<1> SUFFICES ASSUME Lines!LineBreaksAssumption, Lines!Init PROVE LineInv
  OBVIOUS
<1> DEFINE none == <<>>
           one == <<none>>
<1>1. doc \in [cols : LineWidths, lines : {one}]
  BY DEF Lines!Init
<1>2. none \in Seq(WordLengths) /\ one # <<>>
  BY EmptySeq
<1> HIDE DEF none
<1>3. one \in Seq(Seq(WordLengths))
  BY <1>2
<1> HIDE DEF one
<1>4. doc \in [cols : LineWidths, lines : Seq(Seq(WordLengths))] /\ doc.lines # <<>>
  BY <1>1, <1>2, <1>3
<1> QED BY <1>4 DEF LineInv

LEMMA LineStays == LineInv /\ [Lines!Next]_doc => LineInv'
<1> SUFFICES ASSUME LineInv, [Lines!Next]_doc PROVE LineInv'
  OBVIOUS
<1> DEFINE T == Seq(WordLengths)
           lines == doc.lines
           n == Len(lines)
<1>1. /\ doc = [cols |-> doc.cols, lines |-> lines] /\ doc.cols \in LineWidths
      /\ lines \in Seq(T) /\ lines # <<>> /\ Lines!LineBreaksAssumption
  BY DEF LineInv
<1>2. n \in Nat /\ n \in 1..n
  BY <1>1, EmptySeq, LenProperties
<1>3. ASSUME NEW more \in Seq(T), more # <<>>, doc' = [doc EXCEPT !.lines = more]
      PROVE  LineInv'
  <2>1. doc' = [cols |-> doc.cols, lines |-> more]
    BY <1>1, <1>3
  <2>2. Lines!LineBreaksAssumption'
    BY <1>1 DEF Lines!LineBreaksAssumption
  <2> QED BY <1>1, <1>3, <2>1, <2>2 DEF LineInv
<1>4. CASE Lines!AddWord
  <2>1. PICK w \in WordLengths :
           doc' = [doc EXCEPT !.lines[Len(doc.lines)] = Append(@, w)]
    BY <1>4 DEF Lines!AddWord
  <2> DEFINE last == Append(lines[n], w)
             more == [lines EXCEPT ![n] = last]
  <2>2. doc' = [doc EXCEPT !.lines = more]
    BY <2>1
  <2>3. last \in T
    <3>1. lines[n] \in T
      BY <1>1, <1>2, ElementOfSeq
    <3> QED BY <3>1, AppendIs
  <2>4. more \in Seq(T) /\ Len(more) = n
    <3> HIDE DEF last
    <3> QED BY <1>1, <1>2, <2>3, ExceptSeq
  <2>5. more # <<>>
    <3> HIDE DEF more
    <3> QED BY <1>2, <2>4, EmptySeq
  <2> HIDE DEF more
  <2> QED BY <1>3, <2>2, <2>4, <2>5
<1>5. CASE Lines!AddLine
  <2> DEFINE more == Append(lines, <<>>)
  <2>1. doc' = [doc EXCEPT !.lines = more]
    BY <1>5 DEF Lines!AddLine
  <2>2. more \in Seq(T) /\ more # <<>>
    <3>1. <<>> \in T
      BY EmptySeq
    <3> HIDE DEF T, lines
    <3> QED BY <1>1, <3>1, AppendIs
  <2> HIDE DEF more
  <2> QED BY <1>3, <2>1, <2>2
<1>6. CASE UNCHANGED doc
  BY <1>1, <1>6 DEF LineInv, Lines!LineBreaksAssumption
<1> QED BY <1>4, <1>5, <1>6 DEF Lines!Next

\* layout.cc, on its own: every paragraph is broken as well as it can be, and
\* every word is kept.
THEOREM LinesLaidOut ==
    Lines!LineBreaksAssumption /\ LineSpec => []Lines!TextIsLaidOut
BY LineStarts, LineStays, LinesAre, PTL DEF LineSpec

==============================================================================
