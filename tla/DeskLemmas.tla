------------------------------- MODULE DeskLemmas ------------------------------
(***************************************************************************)
(* What the proofs about the small components keep needing: numbers,       *)
(* sequences element by element, sums, and an invariant of FoldLeft for    *)
(* any operator.  The operator is a constant of the module, so that an     *)
(* INSTANCE puts the body of a loop in its place; sets stand for           *)
(* predicates, in the induction too.                                       *)
(***************************************************************************)
EXTENDS Integers, Sequences, FiniteSetsExt, FiniteSetTheorems, SequenceTheorems,
        WellFoundedInduction, TLAPS

CONSTANT Op(_, _)   \* the body of the loop

-----------------------------------------------------------------------------
(* Induction over the numbers. *)

LEMMA LeastNat ==
    ASSUME NEW S, S \subseteq Nat, S # {}
    PROVE  \E n \in S : \A m \in S : ~(m < n)
<1>1. PICK n \in S : \A m \in S : ~(<<m, n>> \in OpToRel(<, Nat))
  BY NatLessThanWellFounded, WFMin
<1> QED BY <1>1 DEF OpToRel

\* What 0 has and every number hands on to the next, all numbers have.
LEMMA Induction ==
    ASSUME NEW S, 0 \in S, \A n \in Nat : n \in S => n + 1 \in S
    PROVE  \A n \in Nat : n \in S
<1> SUFFICES ASSUME NEW k \in Nat, k \notin S PROVE FALSE
  OBVIOUS
<1> DEFINE T == {m \in Nat : m \notin S}
<1>1. PICK n \in T : \A m \in T : ~(m < n)
  <2>1. T \subseteq Nat /\ T # {}
    OBVIOUS
  <2> QED BY <2>1, LeastNat
<1>2. n # 0 /\ n \in Nat
  OBVIOUS
<1>3. n - 1 \in Nat /\ ~(n - 1 \in T)
  BY <1>1, <1>2
<1> QED BY <1>1, <1>2, <1>3

\* The largest element, however it was found.
LEMMA MaxIs ==
    ASSUME NEW S, NEW m \in S, S \subseteq Int, \A x \in S : x <= m
    PROVE  Max(S) = m
<1>1. \A x \in S : (\A y \in S : x >= y) <=> x = m
  OBVIOUS
<1> QED BY <1>1 DEF Max

\* A nonempty set of numbers up to n has a largest.
LEMMA MaxExists ==
    ASSUME NEW n \in Nat
    PROVE  \A S \in SUBSET (1..n) : S # {} => Max(S) \in S /\ \A x \in S : x <= Max(S)
<1> DEFINE P == {k \in Nat : \A S \in SUBSET (1..k) :
                    S # {} => \E m \in S : \A x \in S : x <= m}
<1>1. 0 \in P
  <2>1. 1..0 = {}
    OBVIOUS
  <2> QED BY <2>1
<1>2. ASSUME NEW k \in Nat, k \in P PROVE k + 1 \in P
  <2> SUFFICES ASSUME NEW S \in SUBSET (1..(k + 1)), S # {}
               PROVE  \E m \in S : \A x \in S : x <= m
    OBVIOUS
  <2>1. CASE k + 1 \in S
    BY <2>1
  <2>2. CASE k + 1 \notin S
    <3>1. S \in SUBSET (1..k)
      BY <2>2
    <3> QED BY <1>2, <3>1
  <2> QED BY <2>1, <2>2
<1>3. n \in P
  <2> HIDE DEF P
  <2> QED BY <1>1, <1>2, Induction
<1> SUFFICES ASSUME NEW S \in SUBSET (1..n), S # {}
             PROVE  Max(S) \in S /\ \A x \in S : x <= Max(S)
  OBVIOUS
<1>4. PICK m \in S : \A x \in S : x <= m
  BY <1>3
<1>5. S \subseteq Int
  OBVIOUS
<1>6. Max(S) = m
  BY <1>4, <1>5, MaxIs
<1> QED BY <1>4, <1>6

\* One turn around a circle of `size' places.
LEMMA Around ==
    ASSUME NEW size \in Nat, size >= 1, NEW x \in Nat, x < 2 * size
    PROVE  x % size = IF x < size THEN x ELSE x - size
<1>1. CASE x < size
  BY <1>1
<1>2. CASE ~(x < size)
  <2>1. x - size \in 0..(size - 1)
    BY <1>2
  <2>2. x = 1 * size + (x - size)
    OBVIOUS
  <2> QED BY <1>2, <2>1, <2>2
<1> QED BY <1>1, <1>2

LEMMA NextPlace ==
    ASSUME NEW size \in Nat, NEW h \in Nat, h < size
    PROVE  (h + 1) % size = IF h + 1 < size THEN h + 1 ELSE 0
<1> DEFINE x == h + 1
<1>1. x \in Nat /\ size >= 1 /\ x < 2 * size /\ (x < size \/ x = size)
  OBVIOUS
<1> HIDE DEF x
<1>2. x % size = IF x < size THEN x ELSE x - size
  BY <1>1, Around
<1>3. x % size = IF x < size THEN x ELSE 0
  BY <1>1, <1>2
<1> QED BY <1>3 DEF x

-----------------------------------------------------------------------------
(* Sequences. *)

\* A stretch of a sequence, element by element.
LEMMA Stretch ==
    ASSUME NEW S, NEW s \in Seq(S), NEW i \in Int, NEW j \in Int, 1 <= i, j <= Len(s)
    PROVE  /\ SubSeq(s, i, j) \in Seq(S)
           /\ Len(SubSeq(s, i, j)) = (IF i <= j THEN j - i + 1 ELSE 0)
           /\ \A n \in 1..(j - i + 1) : SubSeq(s, i, j)[n] = s[i + n - 1]
<1>1. Len(s) \in Nat /\ \A n \in 1..Len(s) : s[n] \in S
  BY LenProperties, ElementOfSeq
<1>2. \A n \in i..j : n \in 1..Len(s)
  BY <1>1
<1>3. \A n \in i..j : s[n] \in S
  BY <1>1, <1>2
<1> QED BY <1>3, SubSeqProperties

\* Stretches of two sequences that agree element by element.
Agree(s, i, j, t, k, l) ==
    /\ 1 <= i /\ j <= Len(s) /\ 1 <= k /\ l <= Len(t) /\ j - i = l - k
    /\ \A n \in 1..(j - i + 1) : s[i + n - 1] = t[k + n - 1]

LEMMA SameStretch ==
    ASSUME NEW S, NEW s \in Seq(S), NEW t \in Seq(S), NEW i \in Int, NEW j \in Int,
           NEW k \in Int, NEW l \in Int, Agree(s, i, j, t, k, l)
    PROVE  SubSeq(s, i, j) = SubSeq(t, k, l)
<1> DEFINE a == SubSeq(s, i, j)
           b == SubSeq(t, k, l)
<1>1. /\ a \in Seq(S) /\ Len(a) = (IF i <= j THEN j - i + 1 ELSE 0)
      /\ \A n \in 1..(j - i + 1) : a[n] = s[i + n - 1]
  BY Stretch DEF Agree
<1>2. /\ b \in Seq(S) /\ Len(b) = (IF k <= l THEN l - k + 1 ELSE 0)
      /\ \A n \in 1..(l - k + 1) : b[n] = t[k + n - 1]
  BY Stretch DEF Agree
<1> HIDE DEF a, b
<1>3. Len(a) = Len(b) /\ \A n \in 1..Len(a) : a[n] = b[n]
  BY <1>1, <1>2 DEF Agree
<1>4. a = b
  BY <1>1, <1>2, <1>3, SeqEqual
<1> QED BY <1>4 DEF a, b

\* Two sequences joined, element by element.
JoinOf(c, a, b) ==
    /\ Len(c) = Len(a) + Len(b)
    /\ \A i \in 1..Len(a) : c[i] = a[i]
    /\ \A i \in 1..Len(b) : c[Len(a) + i] = b[i]

LEMMA Joined ==
    ASSUME NEW S, NEW a \in Seq(S), NEW b \in Seq(S)
    PROVE  a \o b \in Seq(S) /\ JoinOf(a \o b, a, b)
<1>1. /\ a \o b \in Seq(S) /\ Len(a \o b) = Len(a) + Len(b)
      /\ \A i \in 1..(Len(a) + Len(b)) :
            (a \o b)[i] = IF i <= Len(a) THEN a[i] ELSE b[i - Len(a)]
  BY ConcatProperties
<1>2. Len(a) \in Nat /\ Len(b) \in Nat
  BY LenProperties
<1> DEFINE c == a \o b
<1> HIDE DEF c
<1>3. ASSUME NEW i \in 1..Len(a) PROVE c[i] = a[i]
  BY <1>1, <1>2 DEF c
<1>4. ASSUME NEW i \in 1..Len(b) PROVE c[Len(a) + i] = b[i]
  <2>1. /\ Len(a) + i \in 1..(Len(a) + Len(b)) /\ ~(Len(a) + i <= Len(a))
        /\ (Len(a) + i) - Len(a) = i
    BY <1>2
  <2> QED BY <1>1, <2>1 DEF c
<1> QED BY <1>1, <1>3, <1>4 DEF c, JoinOf

\* InsertAt(s, k + 1, e) and RemoveAt(s, k) of the library, and what they yield.
Inserted(s, k, e) == SubSeq(s, 1, k) \o <<e>> \o SubSeq(s, k + 1, Len(s))
Removed(s, k) == SubSeq(s, 1, k - 1) \o SubSeq(s, k + 1, Len(s))

Longer(t, s, k, e) ==
    /\ Len(t) = Len(s) + 1
    /\ \A i \in 1..(Len(s) + 1) :
         t[i] = IF i <= k THEN s[i] ELSE IF i = k + 1 THEN e ELSE s[i - 1]
Shorter(t, s, k) ==
    /\ Len(t) = Len(s) - 1
    /\ \A i \in 1..(Len(s) - 1) : t[i] = IF i < k THEN s[i] ELSE s[i + 1]

LEMMA InsertedProperties ==
    ASSUME NEW S, NEW s \in Seq(S), NEW e \in S, NEW k \in 0..Len(s)
    PROVE  Inserted(s, k, e) \in Seq(S) /\ Longer(Inserted(s, k, e), s, k, e)
<1> DEFINE len == Len(s)
           a == SubSeq(s, 1, k)
           b == SubSeq(s, k + 1, Len(s))
           one == <<e>>
<1>1. len \in Nat /\ k \in Nat /\ k <= len /\ len - k \in Nat
  BY LenProperties
<1>2. a \in Seq(S) /\ Len(a) = k /\ \A i \in 1..k : a[i] = s[i]
  BY <1>1, Stretch
<1>3. b \in Seq(S) /\ Len(b) = len - k /\ \A i \in 1..(len - k) : b[i] = s[k + i]
  BY <1>1, Stretch
<1>4. one \in Seq(S) /\ Len(one) = 1 /\ one[1] = e
  OBVIOUS
<1> HIDE DEF a, b, len, one
<1> DEFINE c == a \o one
           d == c \o b
<1>5. c \in Seq(S) /\ JoinOf(c, a, one)
  BY <1>2, <1>4, Joined
<1> HIDE DEF c
<1>6. Len(c) = k + 1 /\ (\A i \in 1..k : c[i] = a[i]) /\ c[k + 1] = e
  <2>1. /\ Len(c) = Len(a) + Len(one)
        /\ \A i \in 1..Len(a) : c[i] = a[i]
        /\ \A i \in 1..Len(one) : c[Len(a) + i] = one[i]
    BY <1>5 DEF JoinOf
  <2>2. Len(c) = k + 1 /\ \A i \in 1..k : c[i] = a[i]
    BY <1>2, <1>4, <2>1
  <2>3. 1 \in 1..Len(one) /\ Len(a) + 1 = k + 1
    BY <1>2, <1>4
  <2> QED BY <1>4, <2>1, <2>2, <2>3
<1>7. d \in Seq(S) /\ JoinOf(d, c, b)
  BY <1>3, <1>5, Joined
<1>8. Inserted(s, k, e) = d
  BY DEF Inserted, a, b, c, d, one
<1> HIDE DEF d
<1>9. /\ Len(d) = len + 1
      /\ \A i \in 1..(k + 1) : d[i] = c[i]
      /\ \A i \in 1..(len - k) : d[(k + 1) + i] = b[i]
  <2>1. /\ Len(d) = Len(c) + Len(b)
        /\ \A i \in 1..Len(c) : d[i] = c[i]
        /\ \A i \in 1..Len(b) : d[Len(c) + i] = b[i]
    BY <1>7 DEF JoinOf
  <2>2. Len(c) + Len(b) = len + 1
    BY <1>1, <1>3, <1>6
  <2> QED BY <1>3, <1>6, <2>1, <2>2
<1>10. ASSUME NEW i \in 1..(len + 1)
       PROVE  d[i] = IF i <= k THEN s[i] ELSE IF i = k + 1 THEN e ELSE s[i - 1]
  <2>1. CASE i <= k
    <3>1. i \in 1..(k + 1) /\ i \in 1..k
      BY <1>1, <2>1
    <3> QED BY <1>2, <1>6, <1>9, <2>1, <3>1
  <2>2. CASE i = k + 1
    <3>1. i \in 1..(k + 1) /\ ~(i <= k)
      BY <1>1, <2>2
    <3> QED BY <1>6, <1>9, <2>2, <3>1
  <2>3. CASE i > k + 1
    <3>1. PICK j \in 1..(len - k) : i = (k + 1) + j /\ k + j = i - 1
      <4>1. i - (k + 1) \in 1..(len - k)
        BY <1>1, <2>3
      <4> QED BY <1>1, <4>1
    <3>2. d[i] = s[i - 1]
      BY <1>3, <1>9, <3>1
    <3> QED BY <1>1, <2>3, <3>2
  <2> QED BY <1>1, <2>1, <2>2, <2>3
<1> QED BY <1>7, <1>8, <1>9, <1>10 DEF Longer, len

LEMMA RemovedProperties ==
    ASSUME NEW S, NEW s \in Seq(S), NEW k \in 1..Len(s)
    PROVE  Removed(s, k) \in Seq(S) /\ Shorter(Removed(s, k), s, k)
<1> DEFINE len == Len(s)
           a == SubSeq(s, 1, k - 1)
           b == SubSeq(s, k + 1, Len(s))
<1>1. len \in Nat /\ k \in Nat /\ 1 <= k /\ k <= len
  BY LenProperties
<1>2. a \in Seq(S) /\ Len(a) = k - 1 /\ \A i \in 1..(k - 1) : a[i] = s[i]
  BY <1>1, Stretch
<1>3. b \in Seq(S) /\ Len(b) = len - k /\ \A i \in 1..(len - k) : b[i] = s[k + i]
  BY <1>1, Stretch
<1> HIDE DEF a, b, len
<1> DEFINE d == a \o b
<1>4. d \in Seq(S) /\ JoinOf(d, a, b)
  BY <1>2, <1>3, Joined
<1>5. Removed(s, k) = d
  BY DEF Removed, a, b, d
<1> HIDE DEF d
<1>6. /\ Len(d) = len - 1
      /\ \A i \in 1..(k - 1) : d[i] = a[i]
      /\ \A i \in 1..(len - k) : d[(k - 1) + i] = b[i]
  <2>1. /\ Len(d) = Len(a) + Len(b)
        /\ \A i \in 1..Len(a) : d[i] = a[i]
        /\ \A i \in 1..Len(b) : d[Len(a) + i] = b[i]
    BY <1>4 DEF JoinOf
  <2>2. Len(a) + Len(b) = len - 1
    BY <1>1, <1>2, <1>3
  <2> QED BY <1>2, <1>3, <2>1, <2>2
<1>7. ASSUME NEW i \in 1..(len - 1)
      PROVE  d[i] = IF i < k THEN s[i] ELSE s[i + 1]
  <2>1. CASE i < k
    <3>1. i \in 1..(k - 1)
      BY <1>1, <2>1
    <3> QED BY <1>2, <1>6, <2>1, <3>1
  <2>2. CASE ~(i < k)
    <3>1. PICK j \in 1..(len - k) : i = (k - 1) + j /\ k + j = i + 1
      <4>1. i - (k - 1) \in 1..(len - k)
        BY <1>1, <2>2
      <4> QED BY <1>1, <4>1
    <3>2. d[i] = s[i + 1]
      BY <1>3, <1>6, <3>1
    <3> QED BY <2>2, <3>2
  <2> QED BY <2>1, <2>2
<1> QED BY <1>4, <1>5, <1>6, <1>7 DEF Shorter, len

\* What <<>> has and every sequence hands on to those with one element more, all
\* sequences have.
LEMMA SeqInduction ==
    ASSUME NEW S, NEW Q, <<>> \in Q,
           \A s \in Seq(S) : s \in Q => \A x \in S : Append(s, x) \in Q
    PROVE  \A s \in Seq(S) : s \in Q
<1> DEFINE P == {n \in Nat : \A s \in Seq(S) : Len(s) = n => s \in Q}
<1>1. 0 \in P
  <2>1. \A s \in Seq(S) : Len(s) = 0 => s = <<>>
    BY EmptySeq
  <2> QED BY <2>1
<1>2. ASSUME NEW n \in Nat, n \in P PROVE n + 1 \in P
  <2> SUFFICES ASSUME NEW s \in Seq(S), Len(s) = n + 1 PROVE s \in Q
    OBVIOUS
  <2>1. s # <<>>
    BY EmptySeq
  <2>2. PICK t \in Seq(S), x \in S : s = Append(t, x)
    BY <2>1, SequenceEmptyOrAppend
  <2>3. Len(t) = n
    <3>1. Len(s) = Len(t) + 1 /\ Len(t) \in Nat
      BY <2>2, AppendProperties, LenProperties
    <3> QED BY <3>1
  <2> QED BY <1>2, <2>2, <2>3
<1>3. \A n \in Nat : n \in P
  <2> HIDE DEF P
  <2> QED BY <1>1, <1>2, Induction
<1> QED BY <1>3, LenProperties

-----------------------------------------------------------------------------
(* Folds.  FoldLeft(Op, base, seq) is this fold over the places of seq,      *)
(* defined over their sets: the fold of a set is that of the set without its *)
(* largest element, and then that one.                                       *)

Fold(base, seq) ==
    MapThenFoldSet(LAMBDA x, y : Op(y, x), base, LAMBDA i : seq[i], LAMBDA S : Max(S),
                   DOMAIN seq)

Body(base, seq, iter, s) ==
    IF s = {} THEN base ELSE Op(iter[s \ {Max(s)}], seq[Max(s)])

Iter(base, seq, S) ==
    CHOOSE iter : iter = [s \in SUBSET S |-> Body(base, seq, iter, s)]

LEMMA FoldIsIter ==
    ASSUME NEW base, NEW seq
    PROVE  Fold(base, seq) = Iter(base, seq, DOMAIN seq)[DOMAIN seq]
BY DEF Fold, MapThenFoldSet, Iter, Body

\* There is such a function: the CHOOSE finds one.
LEMMA IterExists ==
    ASSUME NEW base, NEW seq, NEW n \in Nat
    PROVE  \E g : g = [s \in SUBSET (1..n) |-> Body(base, seq, g, s)]
<1> DEFINE P == {k \in Nat : \E g : g = [s \in SUBSET (1..k) |-> Body(base, seq, g, s)]}
<1>1. 0 \in P
  <2> DEFINE g == [s \in SUBSET (1..0) |-> base]
  <2>1. \A s \in SUBSET (1..0) : s = {}
    OBVIOUS
  <2>2. g = [s \in SUBSET (1..0) |-> Body(base, seq, g, s)]
    BY <2>1 DEF Body
  <2> QED BY <2>2
<1>2. ASSUME NEW k \in Nat, k \in P PROVE k + 1 \in P
  <2>1. PICK h : h = [s \in SUBSET (1..k) |-> Body(base, seq, h, s)]
    BY <1>2
  <2> DEFINE g == [s \in SUBSET (1..(k + 1)) |->
                     IF k + 1 \in s THEN Op(h[s \ {k + 1}], seq[k + 1]) ELSE h[s]]
  <2>2. ASSUME NEW s \in SUBSET (1..(k + 1)) PROVE g[s] = Body(base, seq, g, s)
    <3>1. CASE k + 1 \in s
      <4>1. Max(s) = k + 1
        <5>1. s \subseteq Int /\ \A x \in s : x <= k + 1
          OBVIOUS
        <5> QED BY <3>1, <5>1, MaxIs
      <4>2. s \ {k + 1} \in SUBSET (1..k)
        OBVIOUS
      <4>3. g[s \ {k + 1}] = h[s \ {k + 1}]
        BY <4>2
      <4> QED BY <3>1, <4>1, <4>3 DEF Body
    <3>2. CASE k + 1 \notin s
      <4>1. s \in SUBSET (1..k)
        BY <3>2
      <4>2. g[s] = Body(base, seq, h, s)
        BY <2>1, <3>2, <4>1
      <4>3. CASE s = {}
        BY <4>2, <4>3 DEF Body
      <4>4. CASE s # {}
        <5>1. s \ {Max(s)} \in SUBSET (1..k)
          BY <4>1
        <5>3. s \ {Max(s)} \in SUBSET (1..(k + 1)) /\ k + 1 \notin s \ {Max(s)}
          BY <5>1
        <5>2. g[s \ {Max(s)}] = h[s \ {Max(s)}]
          BY <5>3
        <5> QED BY <4>2, <4>4, <5>2 DEF Body
      <4> QED BY <4>3, <4>4
    <3> QED BY <3>1, <3>2
  <2> HIDE DEF g
  <2>3. g = [s \in SUBSET (1..(k + 1)) |-> g[s]]
    BY DEF g
  <2>4. g = [s \in SUBSET (1..(k + 1)) |-> Body(base, seq, g, s)]
    BY <2>2, <2>3
  <2> QED BY <2>4
<1> HIDE DEF P
<1>3. n \in P
  BY <1>1, <1>2, Induction
<1> QED BY <1>3 DEF P

\* A loop over the elements of a sequence ends in I[n] if it begins in I[0] and
\* its k-th turn leads from I[k - 1] to I[k].
LEMMA FoldInvariant ==
    ASSUME NEW base, NEW seq, NEW n \in Nat, DOMAIN seq = 1..n, NEW I,
           base \in I[0],
           \A k \in 1..n : \A a \in I[k - 1] : Op(a, seq[k]) \in I[k]
    PROVE  Fold(base, seq) \in I[n]
<1> DEFINE iter == Iter(base, seq, 1..n)
<1>1. iter = [s \in SUBSET (1..n) |-> Body(base, seq, iter, s)]
  BY IterExists DEF Iter
<1> HIDE DEF iter
<1> DEFINE P == {k \in Nat : k <= n => iter[1..k] \in I[k]}
<1>2. 0 \in P
  <2>1. 1..0 = {} /\ {} \in SUBSET (1..n)
    OBVIOUS
  <2>2. iter[{}] = base
    BY <1>1, <2>1 DEF Body
  <2> QED BY <2>1, <2>2
<1>3. ASSUME NEW k \in Nat, k \in P PROVE k + 1 \in P
  <2> SUFFICES ASSUME k + 1 <= n PROVE iter[1..(k + 1)] \in I[k + 1]
    OBVIOUS
  <2>1. 1..(k + 1) \in SUBSET (1..n) /\ 1..(k + 1) # {} /\ k + 1 \in 1..n
    <3>1. k + 1 \in 1..n /\ 1 \in 1..(k + 1)
      OBVIOUS
    <3>2. \A x \in 1..(k + 1) : x \in 1..n
      OBVIOUS
    <3> QED BY <3>1, <3>2
  <2>2. Max(1..(k + 1)) = k + 1
    <3>1. /\ 1..(k + 1) \subseteq Int /\ k + 1 \in 1..(k + 1)
          /\ \A x \in 1..(k + 1) : x <= k + 1
      OBVIOUS
    <3> QED BY <3>1, MaxIs
  <2>3. (1..(k + 1)) \ {k + 1} = 1..k
    OBVIOUS
  <2>4. iter[1..(k + 1)] = Op(iter[1..k], seq[k + 1])
    BY <1>1, <2>1, <2>2, <2>3 DEF Body
  <2>5. iter[1..k] \in I[(k + 1) - 1]
    BY <1>3
  <2> QED BY <2>1, <2>4, <2>5
<1>4. n \in P
  <2> HIDE DEF P
  <2> QED BY <1>2, <1>3, Induction
<1> QED BY <1>4, FoldIsIter DEF iter

\* What the loop has computed after each of its turns.
Trace(v, base, seq, n) == v[0] = base /\ \A k \in 1..n : v[k] = Op(v[k - 1], seq[k])

\* A fold is the last of a trace of it.
LEMMA FoldOfTrace ==
    ASSUME NEW base, NEW seq, NEW n \in Nat, DOMAIN seq = 1..n, NEW v,
           Trace(v, base, seq, n)
    PROVE  Fold(base, seq) = v[n]
<1> DEFINE I == [k \in 0..n |-> {v[k]}]
<1>1. base \in I[0]
  BY DEF Trace
<1>2. \A k \in 1..n : \A a \in I[k - 1] : Op(a, seq[k]) \in I[k]
  <2> SUFFICES ASSUME NEW k \in 1..n, NEW a \in I[k - 1] PROVE Op(a, seq[k]) \in I[k]
    OBVIOUS
  <2>1. k - 1 \in 0..n /\ k \in 0..n
    OBVIOUS
  <2>2. a = v[k - 1]
    BY <2>1
  <2> QED BY <2>1, <2>2 DEF Trace
<1> HIDE DEF I
<1>3. Fold(base, seq) \in I[n]
  BY <1>1, <1>2, FoldInvariant
<1> QED BY <1>3 DEF I

LEMMA TraceExists ==
    ASSUME NEW base, NEW seq, NEW n \in Nat
    PROVE  \E v : Trace(v, base, seq, n)
<1> DEFINE P == {k \in Nat : \E v : Trace(v, base, seq, k)}
<1>1. 0 \in P
  <2> DEFINE v == [i \in {0} |-> base]
  <2>1. Trace(v, base, seq, 0)
    BY DEF Trace
  <2> QED BY <2>1
<1>2. ASSUME NEW k \in Nat, k \in P PROVE k + 1 \in P
  <2>1. PICK u : Trace(u, base, seq, k)
    BY <1>2
  <2> DEFINE v == [i \in 0..(k + 1) |-> IF i <= k THEN u[i] ELSE Op(u[k], seq[k + 1])]
  <2>2. \A i \in 0..k : v[i] = u[i]
    OBVIOUS
  <2>3. v[k + 1] = Op(u[k], seq[k + 1])
    OBVIOUS
  <2> HIDE DEF v
  <2>4. v[0] = base
    BY <2>1, <2>2 DEF Trace
  <2>5. ASSUME NEW i \in 1..(k + 1) PROVE v[i] = Op(v[i - 1], seq[i])
    <3>1. i - 1 \in 0..k
      OBVIOUS
    <3>2. CASE i \in 1..k
      BY <2>1, <2>2, <3>1, <3>2 DEF Trace
    <3>3. CASE i = k + 1
      <4>1. i - 1 = k /\ v[k] = u[k]
        BY <2>2, <3>3
      <4> QED BY <2>3, <3>3, <4>1
    <3> QED BY <3>2, <3>3
  <2>6. Trace(v, base, seq, k + 1)
    BY <2>4, <2>5 DEF Trace
  <2> QED BY <2>6
<1>3. n \in P
  <2> HIDE DEF P
  <2> QED BY <1>1, <1>2, Induction
<1> QED BY <1>3

\* The loop over two sequences joined goes on where that over the first ends.
LEMMA FoldJoined ==
    ASSUME NEW base, NEW S, NEW a \in Seq(S), NEW b \in Seq(S)
    PROVE  Fold(base, a \o b) = Fold(Fold(base, a), b)
<1> DEFINE m == Len(a)
           n == Len(b)
           c == a \o b
<1>1. m \in Nat /\ n \in Nat /\ DOMAIN a = 1..m /\ DOMAIN b = 1..n
  BY LenProperties
<1>2. /\ c \in Seq(S) /\ Len(c) = m + n
      /\ (\A i \in 1..m : c[i] = a[i]) /\ (\A i \in 1..n : c[m + i] = b[i])
  BY Joined DEF JoinOf
<1>3. DOMAIN c = 1..(m + n)
  <2>1. DOMAIN c = 1..Len(c)
    BY <1>2, LenProperties
  <2> QED BY <1>2, <2>1
<1> HIDE DEF m, n, c
<1>4. PICK v : Trace(v, base, a, m)
  BY <1>1, TraceExists
<1>5. Fold(base, a) = v[m]
  BY <1>1, <1>4, FoldOfTrace
<1>6. PICK w : Trace(w, v[m], b, n)
  BY <1>1, TraceExists
<1>7. Fold(v[m], b) = w[n]
  BY <1>1, <1>6, FoldOfTrace
<1> DEFINE u == [i \in 0..(m + n) |-> IF i <= m THEN v[i] ELSE w[i - m]]
<1>8. \A i \in 0..m : u[i] = v[i]
  BY <1>1
<1>9. ASSUME NEW i \in 0..n PROVE u[m + i] = w[i]
  <2>1. CASE i = 0
    BY <1>1, <1>6, <2>1 DEF Trace
  <2>2. CASE i # 0
    <3>1. m + i \in 0..(m + n) /\ ~(m + i <= m) /\ (m + i) - m = i
      BY <1>1, <2>2
    <3> QED BY <3>1
  <2> QED BY <2>1, <2>2
<1> HIDE DEF u
<1>10. u[0] = base
  BY <1>1, <1>4, <1>8 DEF Trace
<1>11. ASSUME NEW i \in 1..(m + n) PROVE u[i] = Op(u[i - 1], c[i])
  <2>1. CASE i <= m
    <3>1. i \in 1..m /\ i \in 0..m /\ i - 1 \in 0..m
      BY <1>1, <2>1
    <3> QED BY <1>2, <1>4, <1>8, <3>1 DEF Trace
  <2>2. CASE i > m
    <3>1. PICK j \in 1..n : i = m + j
      <4>1. i - m \in 1..n /\ i = m + (i - m)
        BY <1>1, <2>2
      <4> QED BY <4>1
    <3>2. j \in 0..n /\ j - 1 \in 0..n /\ i - 1 = m + (j - 1)
      BY <1>1, <3>1
    <3>3. u[i] = w[j] /\ u[i - 1] = w[j - 1]
      BY <1>9, <3>1, <3>2
    <3>4. w[j] = Op(w[j - 1], b[j]) /\ c[i] = b[j]
      BY <1>2, <1>6, <3>1 DEF Trace
    <3> QED BY <3>3, <3>4
  <2> QED BY <1>1, <2>1, <2>2
<1>12. Fold(base, c) = u[m + n]
  <2>1. Trace(u, base, c, m + n) /\ m + n \in Nat
    BY <1>1, <1>10, <1>11 DEF Trace
  <2> QED BY <1>3, <2>1, FoldOfTrace
<1>13. n \in 0..n
  BY <1>1
<1> QED BY <1>5, <1>7, <1>9, <1>12, <1>13 DEF c

LEMMA FoldOfNone == ASSUME NEW base PROVE Fold(base, <<>>) = base
<1> DEFINE v == [i \in {0} |-> base]
<1>1. Trace(v, base, <<>>, 0) /\ v[0] = base
  BY DEF Trace
<1>2. DOMAIN <<>> = 1..0
  OBVIOUS
<1> HIDE DEF v
<1> QED BY <1>1, <1>2, FoldOfTrace

LEMMA FoldOfOne == ASSUME NEW base, NEW x PROVE Fold(base, <<x>>) = Op(base, x)
<1> DEFINE v == [i \in 0..1 |-> IF i = 0 THEN base ELSE Op(base, x)]
           one == <<x>>
<1>1. DOMAIN one = 1..1 /\ one[1] = x
  OBVIOUS
<1>2. v[0] = base /\ v[1] = Op(base, x)
  OBVIOUS
<1> HIDE DEF v, one
<1>3. Trace(v, base, one, 1)
  BY <1>1, <1>2 DEF Trace
<1>4. Fold(base, one) = v[1]
  BY <1>1, <1>3, FoldOfTrace
<1> QED BY <1>2, <1>4 DEF one

\* One turn more.
LEMMA FoldAppended ==
    ASSUME NEW base, NEW S, NEW s \in Seq(S), NEW x \in S
    PROVE  Fold(base, Append(s, x)) = Op(Fold(base, s), x)
<1> DEFINE one == <<x>>
<1>1. one \in Seq(S)
  OBVIOUS
<1>2. Append(s, x) = s \o one
  BY AppendIsConcat
<1>3. Fold(base, one) = Op(base, x) /\ Fold(Fold(base, s), one) = Op(Fold(base, s), x)
  BY FoldOfOne
<1> HIDE DEF one
<1>4. Fold(base, s \o one) = Fold(Fold(base, s), one)
  BY <1>1, FoldJoined
<1> QED BY <1>2, <1>3, <1>4

-----------------------------------------------------------------------------
(* Sums.  MapThenSumSet takes the elements of a set in an order of its own;  *)
(* the sum is the same whichever is taken first.                             *)

SumOf(f, S) == MapThenSumSet(LAMBDA x : f[x], S)

Chosen(S) == CHOOSE x \in S : TRUE
Rest(S) == S \ {Chosen(S)}
Part(f, g, s) == IF s = {} THEN 0 ELSE f[Chosen(s)] + g[Rest(s)]
Parts(f, S) == CHOOSE g : g = [s \in SUBSET S |-> Part(f, g, s)]

LEMMA SumIsPart ==
    ASSUME NEW f, NEW S
    PROVE  SumOf(f, S) = Parts(f, S)[S]
BY DEF SumOf, MapThenSumSet, MapThenFoldSet, Parts, Part, Rest, Chosen

LEMMA RestIsSmaller ==
    ASSUME NEW S, IsFiniteSet(S), S # {}
    PROVE  /\ Chosen(S) \in S /\ Rest(S) \subseteq S /\ Rest(S) # S
           /\ IsFiniteSet(Rest(S)) /\ Cardinality(S) \in Nat
           /\ Cardinality(Rest(S)) = Cardinality(S) - 1 /\ Cardinality(S) >= 1
<1>1. Chosen(S) \in S
  BY DEF Chosen
<1>2. Cardinality(S) \in Nat /\ Cardinality(S) # 0
  BY FS_CardinalityType, FS_EmptySet
<1>3. IsFiniteSet(Rest(S)) /\ Cardinality(Rest(S)) = Cardinality(S) - 1
  BY <1>1, FS_RemoveElement DEF Rest
<1> QED BY <1>1, <1>2, <1>3 DEF Rest

\* The parts of a finite set have sums: those of k elements from those of k - 1.
LEMMA PartsExist ==
    ASSUME NEW f, NEW S, IsFiniteSet(S)
    PROVE  \A s \in SUBSET S : Parts(f, S)[s] = Part(f, Parts(f, S), s)
<1> DEFINE Upto(k) == {s \in SUBSET S : Cardinality(s) <= k}
           P == {k \in Nat : \E g : g = [s \in Upto(k) |-> Part(f, g, s)]}
<1>1. \A s \in SUBSET S : IsFiniteSet(s) /\ Cardinality(s) \in Nat
                          /\ Cardinality(s) <= Cardinality(S)
  BY FS_Subset, FS_CardinalityType
<1>2. 0 \in P
  <2> DEFINE g == [s \in Upto(0) |-> 0]
  <2>1. \A s \in Upto(0) : s = {}
    BY <1>1, FS_EmptySet
  <2>2. g = [s \in Upto(0) |-> Part(f, g, s)]
    BY <2>1 DEF Part
  <2> QED BY <2>2
<1>3. ASSUME NEW k \in Nat, k \in P PROVE k + 1 \in P
  <2>1. PICK h : h = [s \in Upto(k) |-> Part(f, h, s)]
    BY <1>3
  <2> DEFINE g == [s \in Upto(k + 1) |-> Part(f, h, s)]
  <2>2. ASSUME NEW s \in Upto(k + 1) PROVE g[s] = Part(f, g, s)
    <3>1. CASE s = {}
      BY <3>1 DEF Part
    <3>2. CASE s # {}
      <4>1. Rest(s) \in Upto(k) /\ Rest(s) \in Upto(k + 1)
        <5>1. IsFiniteSet(s) /\ Cardinality(s) <= k + 1 /\ s \subseteq S
          BY <1>1
        <5>2. /\ Rest(s) \subseteq S /\ Cardinality(Rest(s)) = Cardinality(s) - 1
              /\ Cardinality(s) \in Nat
          BY <3>2, <5>1, RestIsSmaller
        <5> QED BY <5>1, <5>2
      <4>2. g[Rest(s)] = h[Rest(s)]
        BY <2>1, <4>1
      <4>3. g[s] = f[Chosen(s)] + h[Rest(s)]
        BY <3>2 DEF Part
      <4> HIDE DEF g
      <4> QED BY <3>2, <4>2, <4>3 DEF Part
    <3> QED BY <3>1, <3>2
  <2>3. g = [s \in Upto(k + 1) |-> Part(f, g, s)]
    <3>1. g = [s \in Upto(k + 1) |-> g[s]]
      OBVIOUS
    <3> HIDE DEF g
    <3> QED BY <2>2, <3>1
  <2> HIDE DEF g, Upto
  <2> QED BY <2>3
<1>4. Cardinality(S) \in P
  <2> HIDE DEF P
  <2>1. Cardinality(S) \in Nat
    BY FS_CardinalityType
  <2> QED BY <1>2, <1>3, <2>1, Induction
<1>5. Upto(Cardinality(S)) = SUBSET S
  BY <1>1
<1>6. \E g : g = [s \in SUBSET S |-> Part(f, g, s)]
  <2> HIDE DEF Upto
  <2> QED BY <1>4, <1>5
<1> DEFINE h == Parts(f, S)
<1>7. h = [s \in SUBSET S |-> Part(f, h, s)]
  BY <1>6 DEF Parts
<1> HIDE DEF h
<1>8. \A s \in SUBSET S : h[s] = Part(f, h, s)
  BY <1>7
<1> QED BY <1>8 DEF h

\* A part has the same sum in every set.
LEMMA PartIsSum ==
    ASSUME NEW f
    PROVE  \A k \in Nat : \A S, s : IsFiniteSet(S) /\ s \in SUBSET S /\ Cardinality(s) = k
              => Parts(f, S)[s] = Parts(f, s)[s]
<1> DEFINE Same(S, s) == Parts(f, S)[s] = Parts(f, s)[s]
           P == {k \in Nat : \A S, s : IsFiniteSet(S) /\ s \in SUBSET S /\ Cardinality(s) = k
                               => Same(S, s)}
<1>1. ASSUME NEW S, IsFiniteSet(S), NEW s \in SUBSET S
      PROVE  /\ Parts(f, S)[s] = Part(f, Parts(f, S), s)
             /\ IsFiniteSet(s) /\ Parts(f, s)[s] = Part(f, Parts(f, s), s)
  <2>1. IsFiniteSet(s)
    BY <1>1, FS_Subset
  <2>2. ASSUME NEW T, IsFiniteSet(T), NEW t \in SUBSET T
        PROVE  Parts(f, T)[t] = Part(f, Parts(f, T), t)
    BY <2>2, PartsExist
  <2> QED BY <1>1, <2>1, <2>2
<1>2. 0 \in P
  <2> SUFFICES ASSUME NEW S, NEW s, IsFiniteSet(S), s \in SUBSET S, Cardinality(s) = 0
               PROVE  Same(S, s)
    OBVIOUS
  <2>1. s = {}
    BY <1>1, FS_EmptySet
  <2> QED BY <1>1, <2>1 DEF Part
<1>3. ASSUME NEW k \in Nat, k \in P PROVE k + 1 \in P
  <2> SUFFICES ASSUME NEW S, NEW s, IsFiniteSet(S), s \in SUBSET S, Cardinality(s) = k + 1
               PROVE  Same(S, s)
    OBVIOUS
  <2>1. /\ Parts(f, S)[s] = Part(f, Parts(f, S), s)
        /\ IsFiniteSet(s) /\ Parts(f, s)[s] = Part(f, Parts(f, s), s)
    BY <1>1
  <2>2. s # {}
    <3>1. Cardinality({}) = 0
      BY FS_EmptySet
    <3> QED BY <3>1
  <2>3. /\ Rest(s) \in SUBSET S /\ Rest(s) \in SUBSET s /\ Cardinality(Rest(s)) = k
    BY <2>1, <2>2, RestIsSmaller
  <2>4. Same(S, Rest(s)) /\ Same(s, Rest(s))
    BY <1>3, <2>1, <2>3
  <2> QED BY <2>1, <2>2, <2>4 DEF Part
<1>4. \A k \in Nat : k \in P
  <2> HIDE DEF P
  <2> QED BY <1>2, <1>3, Induction
<1> QED BY <1>4

\* The sum over a nonempty set is that without the element taken first, and it.
LEMMA SumOfRest ==
    ASSUME NEW f, NEW S, IsFiniteSet(S), S # {}
    PROVE  SumOf(f, S) = f[Chosen(S)] + SumOf(f, Rest(S))
<1>1. IsFiniteSet(Rest(S)) /\ Rest(S) \in SUBSET S /\ Cardinality(Rest(S)) \in Nat
  BY RestIsSmaller, FS_CardinalityType
<1>2. Parts(f, S)[S] = Part(f, Parts(f, S), S)
  BY PartsExist
<1>3. Parts(f, S)[Rest(S)] = Parts(f, Rest(S))[Rest(S)]
  BY <1>1, PartIsSum
<1>4. SumOf(f, S) = f[Chosen(S)] + Parts(f, S)[Rest(S)]
  BY <1>2, SumIsPart DEF Part
<1> QED BY <1>3, <1>4, SumIsPart

LEMMA SumOfNone == ASSUME NEW f PROVE SumOf(f, {}) = 0
<1>1. Parts(f, {})[{}] = Part(f, Parts(f, {}), {})
  BY FS_EmptySet, PartsExist
<1> QED BY <1>1, SumIsPart DEF Part

LEMMA SumType ==
    ASSUME NEW f, NEW D, \A x \in D : f[x] \in Int
    PROVE  \A k \in Nat : \A S \in SUBSET D :
              IsFiniteSet(S) /\ Cardinality(S) = k => SumOf(f, S) \in Int
<1> DEFINE P == {k \in Nat : \A S \in SUBSET D :
                    IsFiniteSet(S) /\ Cardinality(S) = k => SumOf(f, S) \in Int}
<1>1. 0 \in P
  <2>1. SumOf(f, {}) \in Int
    BY SumOfNone
  <2>2. \A S : IsFiniteSet(S) /\ Cardinality(S) = 0 => S = {}
    BY FS_EmptySet
  <2> QED BY <2>1, <2>2
<1>2. ASSUME NEW k \in Nat, k \in P PROVE k + 1 \in P
  <2> SUFFICES ASSUME NEW S \in SUBSET D, IsFiniteSet(S), Cardinality(S) = k + 1
               PROVE  SumOf(f, S) \in Int
    OBVIOUS
  <2>1. S # {}
    <3>1. Cardinality({}) = 0
      BY FS_EmptySet
    <3> QED BY <3>1
  <2>2. /\ Chosen(S) \in S /\ Rest(S) \in SUBSET D /\ IsFiniteSet(Rest(S))
        /\ Cardinality(Rest(S)) = k
    BY <2>1, RestIsSmaller
  <2>3. SumOf(f, Rest(S)) \in Int /\ f[Chosen(S)] \in Int
    BY <1>2, <2>2
  <2>4. SumOf(f, S) = f[Chosen(S)] + SumOf(f, Rest(S))
    BY <2>1, SumOfRest
  <2> QED BY <2>3, <2>4
<1>3. \A k \in Nat : k \in P
  <2> HIDE DEF P
  <2> QED BY <1>1, <1>2, Induction
<1> QED BY <1>3

\* Whichever element is taken out: what is left is the sum without it.
LEMMA SumWithoutOne ==
    ASSUME NEW f, NEW D, \A x \in D : f[x] \in Int
    PROVE  \A k \in Nat : \A S \in SUBSET D : IsFiniteSet(S) /\ Cardinality(S) = k
              => \A x \in S : SumOf(f, S) = SumOf(f, S \ {x}) + f[x]
<1> DEFINE Good(S) == \A x \in S : SumOf(f, S) = SumOf(f, S \ {x}) + f[x]
           P == {k \in Nat : \A S \in SUBSET D :
                    IsFiniteSet(S) /\ Cardinality(S) = k => Good(S)}
<1>1. 0 \in P
  <2>2. \A S : IsFiniteSet(S) /\ Cardinality(S) = 0 => S = {}
    BY FS_EmptySet
  <2> QED BY <2>2
<1>2. ASSUME NEW k \in Nat, k \in P PROVE k + 1 \in P
  <2> SUFFICES ASSUME NEW S \in SUBSET D, IsFiniteSet(S), Cardinality(S) = k + 1
               PROVE  Good(S)
    OBVIOUS
  <2>1. S # {}
    <3>1. Cardinality({}) = 0
      BY FS_EmptySet
    <3> QED BY <3>1
  <2>2. ASSUME NEW T \in SUBSET D, IsFiniteSet(T), Cardinality(T) = k PROVE Good(T)
    <3> HIDE DEF Good
    <3> QED BY <1>2, <2>2
  <2>3. ASSUME NEW x \in S
        PROVE  /\ \A y \in S \ {x} :
                    SumOf(f, S \ {x}) = SumOf(f, (S \ {x}) \ {y}) + f[y]
               /\ SumOf(f, S \ {x}) \in Int
    <3>1. S \ {x} \in SUBSET D /\ IsFiniteSet(S \ {x}) /\ Cardinality(S \ {x}) = k
      BY FS_RemoveElement
    <3>2. SumOf(f, S \ {x}) \in Int
      BY <3>1, SumType
    <3> QED BY <2>2, <3>1, <3>2
  <2>4. PICK c \in S : Rest(S) = S \ {c} /\ SumOf(f, S) = f[c] + SumOf(f, S \ {c})
    <3>1. Chosen(S) \in S
      BY <2>1 DEF Chosen
    <3> QED BY <2>1, <3>1, SumOfRest DEF Rest
  <2>5. ASSUME NEW x \in S PROVE SumOf(f, S) = SumOf(f, S \ {x}) + f[x]
    <3>1. SumOf(f, S \ {c}) \in Int /\ f[c] \in Int /\ f[x] \in Int
      BY <2>3
    <3>2. CASE x = c
      BY <2>4, <3>1, <3>2
    <3>3. CASE x # c
      <4> DEFINE u == SumOf(f, (S \ {c}) \ {x})
      <4>1. x \in S \ {c} /\ c \in S \ {x} /\ (S \ {x}) \ {c} = (S \ {c}) \ {x}
        BY <3>3
      <4>2. SumOf(f, S \ {c}) = u + f[x] /\ SumOf(f, S \ {x}) = u + f[c]
        BY <2>3, <4>1
      <4>3. u \in Int
        <5>1. IsFiniteSet((S \ {c}) \ {x}) /\ (S \ {c}) \ {x} \in SUBSET D
          BY FS_RemoveElement
        <5>2. Cardinality((S \ {c}) \ {x}) \in Nat
          BY <5>1, FS_CardinalityType
        <5> QED BY <5>1, <5>2, SumType
      <4> HIDE DEF u
      <4> QED BY <2>4, <3>1, <4>2, <4>3
    <3> QED BY <3>2, <3>3
  <2> QED BY <2>5
<1>3. \A k \in Nat : k \in P
  <2> HIDE DEF P
  <2> QED BY <1>1, <1>2, Induction
<1> QED BY <1>3

LEMMA SumWithout ==
    ASSUME NEW f, NEW S, IsFiniteSet(S), \A x \in S : f[x] \in Int
    PROVE  /\ SumOf(f, S) \in Int
           /\ \A x \in S : SumOf(f, S) = SumOf(f, S \ {x}) + f[x]
<1>1. Cardinality(S) \in Nat
  BY FS_CardinalityType
<1>2. SumOf(f, S) \in Int
  <2>1. \A k \in Nat : \A T \in SUBSET S :
           IsFiniteSet(T) /\ Cardinality(T) = k => SumOf(f, T) \in Int
    BY SumType
  <2> QED BY <1>1, <2>1
<1>3. \A x \in S : SumOf(f, S) = SumOf(f, S \ {x}) + f[x]
  <2>1. \A k \in Nat : \A T \in SUBSET S : IsFiniteSet(T) /\ Cardinality(T) = k
           => \A x \in T : SumOf(f, T) = SumOf(f, T \ {x}) + f[x]
    BY SumWithoutOne
  <2> QED BY <1>1, <2>1
<1> QED BY <1>2, <1>3

\* The sum does not change when the elements are renamed, each to one of its own.
Renames(h, f, g, D) ==
    /\ \A x \in D : f[x] \in Int /\ g[h[x]] = f[x]
    /\ \A x, y \in D : h[x] = h[y] => x = y
Renamed(h, S) == {h[x] : x \in S}

LEMMA SumRenamed ==
    ASSUME NEW f, NEW g, NEW h, NEW D, Renames(h, f, g, D)
    PROVE  \A k \in Nat : \A S \in SUBSET D : IsFiniteSet(S) /\ Cardinality(S) = k
              => SumOf(g, Renamed(h, S)) = SumOf(f, S)
<1> DEFINE To(S) == {h[x] : x \in S}    \* Renamed(h, S), with its definition
           P == {k \in Nat : \A S \in SUBSET D :
                    IsFiniteSet(S) /\ Cardinality(S) = k
                       => IsFiniteSet(To(S)) /\ SumOf(g, To(S)) = SumOf(f, S)}
<1> USE DEF Renames
<1>1. 0 \in P
  <2>1. \A S : IsFiniteSet(S) /\ Cardinality(S) = 0 => S = {}
    BY FS_EmptySet
  <2>2. SumOf(g, {}) = SumOf(f, {}) /\ To({}) = {} /\ IsFiniteSet({})
    BY SumOfNone, FS_EmptySet
  <2> QED BY <2>1, <2>2
<1>2. ASSUME NEW k \in Nat, k \in P PROVE k + 1 \in P
  <2> SUFFICES ASSUME NEW S \in SUBSET D, IsFiniteSet(S), Cardinality(S) = k + 1
               PROVE  IsFiniteSet(To(S)) /\ SumOf(g, To(S)) = SumOf(f, S)
    OBVIOUS
  <2>1. PICK c : c \in S
    <3>1. Cardinality({}) = 0
      BY FS_EmptySet
    <3> QED BY <3>1
  <2>2. S \ {c} \in SUBSET D /\ IsFiniteSet(S \ {c}) /\ Cardinality(S \ {c}) = k
    <3>1. IsFiniteSet(S \ {c}) /\ Cardinality(S \ {c}) = Cardinality(S) - 1
      BY <2>1, FS_RemoveElement
    <3> QED BY <3>1
  <2>3. IsFiniteSet(To(S \ {c})) /\ SumOf(g, To(S \ {c})) = SumOf(f, S \ {c})
    <3> HIDE DEF To
    <3> QED BY <1>2, <2>2
  <2>4. SumOf(f, S) = SumOf(f, S \ {c}) + f[c]
    <3>1. \A x \in S : f[x] \in Int
      OBVIOUS
    <3> QED BY <2>1, <3>1, SumWithout
  <2>5. IsFiniteSet(To(S))
    <3>1. To(S) = To(S \ {c}) \union {h[c]}
      BY <2>1
    <3> HIDE DEF To
    <3>2. IsFiniteSet(To(S \ {c}) \union {h[c]})
      BY <2>3, FS_AddElement
    <3> QED BY <3>1, <3>2
  <2>6. SumOf(g, To(S)) = SumOf(g, To(S) \ {h[c]}) + g[h[c]]
    <3>1. h[c] \in To(S)
      BY <2>1
    <3>2. \A y \in To(S) : g[y] \in Int
      OBVIOUS
    <3> HIDE DEF To
    <3> QED BY <2>5, <3>1, <3>2, SumWithout
  <2>7. To(S) \ {h[c]} = To(S \ {c})
    BY <2>1
  <2>8. g[h[c]] = f[c]
    BY <2>1
  <2> HIDE DEF To
  <2> QED BY <2>3, <2>4, <2>6, <2>5, <2>7, <2>8
<1>3. \A k \in Nat : k \in P
  <2> HIDE DEF P
  <2> QED BY <1>1, <1>2, Induction
<1> QED BY <1>3 DEF Renamed

\* What holds of the empty set and of a set with one element more holds of D.
LEMMA FiniteInduction ==
    ASSUME NEW D, IsFiniteSet(D), NEW Q, {} \in Q,
           \A S \in SUBSET D : S \in Q => \A x \in D \ S : S \union {x} \in Q
    PROVE  D \in Q
<1> DEFINE P == {k \in Nat : \A S \in SUBSET D :
                    IsFiniteSet(S) /\ Cardinality(S) = k => S \in Q}
<1>1. 0 \in P
  <2>1. \A S : IsFiniteSet(S) /\ Cardinality(S) = 0 => S = {}
    BY FS_EmptySet
  <2> QED BY <2>1
<1>2. ASSUME NEW k \in Nat, k \in P PROVE k + 1 \in P
  <2> SUFFICES ASSUME NEW S \in SUBSET D, IsFiniteSet(S), Cardinality(S) = k + 1
               PROVE  S \in Q
    OBVIOUS
  <2>1. PICK x : x \in S
    <3>1. S # {}
      <4>1. Cardinality({}) = 0 /\ k + 1 # 0
        BY FS_EmptySet
      <4> QED BY <4>1
    <3> QED BY <3>1
  <2> DEFINE T == S \ {x}
  <2>2. T \in SUBSET D /\ x \in D \ T /\ T \union {x} = S
    BY <2>1
  <2>3. IsFiniteSet(T) /\ Cardinality(T) = k
    <3>1. IsFiniteSet(S \ {x}) /\ Cardinality(S \ {x}) = Cardinality(S) - 1
      BY <2>1, FS_RemoveElement
    <3> QED BY <3>1
  <2> HIDE DEF T
  <2>4. T \in Q
    BY <1>2, <2>2, <2>3
  <2> QED BY <2>2, <2>4
<1>3. \A k \in Nat : k \in P
  <2> HIDE DEF P
  <2> QED BY <1>1, <1>2, Induction
<1>4. Cardinality(D) \in Nat
  BY FS_CardinalityType
<1> QED BY <1>3, <1>4

\* The sum over one element more.
LEMMA SumWith ==
    ASSUME NEW f, NEW D, IsFiniteSet(D), \A x \in D : f[x] \in Int,
           NEW S \in SUBSET D, NEW x \in D \ S
    PROVE  /\ SumOf(f, S) \in Int
           /\ SumOf(f, S \union {x}) = SumOf(f, S) + f[x]
<1> DEFINE T == S \union {x}
<1>1. IsFiniteSet(S) /\ IsFiniteSet(T) /\ T \ {x} = S /\ x \in T
  <2>1. T \in SUBSET D
    OBVIOUS
  <2> QED BY <2>1, FS_Subset
<1>2. \A y \in T : f[y] \in Int
  OBVIOUS
<1>3. \A y \in S : f[y] \in Int
  OBVIOUS
<1> HIDE DEF T
<1>4. SumOf(f, T) = SumOf(f, T \ {x}) + f[x]
  BY <1>1, <1>2, SumWithout
<1>5. SumOf(f, S) \in Int
  BY <1>1, <1>3, SumWithout
<1> QED BY <1>1, <1>4, <1>5 DEF T

\* Terms that are 0 may be left out of a sum.
LEMMA SumOfPart ==
    ASSUME NEW f, NEW g, NEW D, IsFiniteSet(D), NEW E \in SUBSET D,
           \A x \in D : g[x] \in Int,
           \A x \in E : f[x] = g[x], \A x \in D \ E : g[x] = 0
    PROVE  SumOf(f, E) = SumOf(g, D)
<1> DEFINE Q == {S \in SUBSET D : SumOf(f, S \intersect E) = SumOf(g, S)}
<1>1. {} \in Q
  <2>1. {} \intersect E = {}
    OBVIOUS
  <2> QED BY <2>1, SumOfNone
<1>2. ASSUME NEW S \in SUBSET D, S \in Q, NEW x \in D \ S PROVE S \union {x} \in Q
  <2> DEFINE T == S \intersect E
  <2>1. SumOf(g, S) \in Int /\ SumOf(g, S \union {x}) = SumOf(g, S) + g[x]
    BY SumWith
  <2>2. SumOf(f, T) = SumOf(g, S)
    BY <1>2
  <2>3. CASE x \in E
    <3>1. (S \union {x}) \intersect E = T \union {x}
      BY <2>3
    <3>2. SumOf(f, T \union {x}) = SumOf(f, T) + f[x]
      <4>1. IsFiniteSet(E) /\ T \in SUBSET E /\ x \in E \ T /\ \A y \in E : f[y] \in Int
        BY <2>3, FS_Subset
      <4> HIDE DEF T
      <4> QED BY <4>1, SumWith
    <3> HIDE DEF T
    <3> QED BY <2>1, <2>2, <2>3, <3>1, <3>2
  <2>4. CASE x \notin E
    <3>1. (S \union {x}) \intersect E = T /\ g[x] = 0
      BY <2>4
    <3> HIDE DEF T
    <3>2. SumOf(g, S \union {x}) = SumOf(g, S)
      BY <2>1, <3>1
    <3>3. SumOf(f, T) = SumOf(g, S \union {x})
      BY <2>2, <3>2
    <3> QED BY <3>1, <3>3
  <2> QED BY <2>3, <2>4
<1>3. D \in Q
  <2> HIDE DEF Q
  <2> QED BY <1>1, <1>2, FiniteInduction
<1>4. D \intersect E = E
  OBVIOUS
<1> QED BY <1>3, <1>4

\* A bound of each term, in proportion to another, bounds the sum.
LEMMA SumScaled ==
    ASSUME NEW f, NEW g, NEW D, IsFiniteSet(D), NEW c \in Int,
           \A x \in D : f[x] \in Int /\ g[x] \in Int /\ c * f[x] <= g[x]
    PROVE  /\ SumOf(f, D) \in Int /\ SumOf(g, D) \in Int
           /\ c * SumOf(f, D) <= SumOf(g, D)
<1> DEFINE Q == {S \in SUBSET D : c * SumOf(f, S) <= SumOf(g, S)}
<1>1. {} \in Q
  <2>1. SumOf(f, {}) = 0 /\ SumOf(g, {}) = 0
    BY SumOfNone
  <2>2. c * 0 <= 0
    OBVIOUS
  <2> QED BY <2>1, <2>2
<1>2. ASSUME NEW S \in SUBSET D, S \in Q, NEW x \in D \ S PROVE S \union {x} \in Q
  <2> DEFINE a == SumOf(f, S)
             b == SumOf(g, S)
             u == f[x]
             v == g[x]
  <2>1. a \in Int /\ SumOf(f, S \union {x}) = a + u
    BY SumWith
  <2>2. b \in Int /\ SumOf(g, S \union {x}) = b + v
    BY SumWith
  <2>3. u \in Int /\ v \in Int /\ c * u <= v /\ c * a <= b
    BY <1>2
  <2> HIDE DEF a, b, u, v
  <2>4. c * (a + u) = c * a + c * u /\ c * a \in Int /\ c * u \in Int
    BY <2>1, <2>3
  <2>5. c * (a + u) <= b + v
    BY <2>2, <2>3, <2>4
  <2> QED BY <2>1, <2>2, <2>5
<1>3. D \in Q
  <2> HIDE DEF Q
  <2> QED BY <1>1, <1>2, FiniteInduction
<1> QED BY <1>3, SumWithout

\* The same with two others, one of which counts against it.
LEMMA SumMixed ==
    ASSUME NEW f, NEW g, NEW w, NEW D, IsFiniteSet(D), NEW c \in Int, NEW d \in Int,
           \A x \in D : /\ f[x] \in Int /\ g[x] \in Int /\ w[x] \in Int
                        /\ c * f[x] - d * g[x] <= w[x]
    PROVE  /\ SumOf(f, D) \in Int /\ SumOf(g, D) \in Int /\ SumOf(w, D) \in Int
           /\ c * SumOf(f, D) - d * SumOf(g, D) <= SumOf(w, D)
<1> DEFINE Q == {S \in SUBSET D : c * SumOf(f, S) - d * SumOf(g, S) <= SumOf(w, S)}
<1>1. {} \in Q
  <2>1. SumOf(f, {}) = 0 /\ SumOf(g, {}) = 0 /\ SumOf(w, {}) = 0
    BY SumOfNone
  <2>2. c * 0 - d * 0 <= 0
    OBVIOUS
  <2> QED BY <2>1, <2>2
<1>2. ASSUME NEW S \in SUBSET D, S \in Q, NEW x \in D \ S PROVE S \union {x} \in Q
  <2> DEFINE F == SumOf(f, S)
             G == SumOf(g, S)
             W == SumOf(w, S)
             p == f[x]
             q == g[x]
             r == w[x]
  <2>1. F \in Int /\ SumOf(f, S \union {x}) = F + p
    BY SumWith
  <2>2. G \in Int /\ SumOf(g, S \union {x}) = G + q
    BY SumWith
  <2>3. W \in Int /\ SumOf(w, S \union {x}) = W + r
    BY SumWith
  <2>4. /\ p \in Int /\ q \in Int /\ r \in Int
        /\ c * p - d * q <= r /\ c * F - d * G <= W
    BY <1>2
  <2> HIDE DEF F, G, W, p, q, r
  <2>5. /\ c * (F + p) = c * F + c * p /\ d * (G + q) = d * G + d * q
        /\ c * F \in Int /\ c * p \in Int /\ d * G \in Int /\ d * q \in Int
    BY <2>1, <2>2, <2>4
  <2>6. c * (F + p) - d * (G + q) <= W + r
    BY <2>3, <2>4, <2>5
  <2> QED BY <2>1, <2>2, <2>3, <2>6
<1>3. D \in Q
  <2> HIDE DEF Q
  <2> QED BY <1>1, <1>2, FiniteInduction
<1> QED BY <1>3, SumWithout

\* The negatives.
LEMMA SumNegated ==
    ASSUME NEW f, NEW D, IsFiniteSet(D), \A x \in D : f[x] \in Int
    PROVE  SumOf([x \in D |-> -f[x]], D) = -SumOf(f, D) /\ SumOf(f, D) \in Int
<1> DEFINE n == [x \in D |-> -f[x]]
           Q == {S \in SUBSET D : SumOf(n, S) = -SumOf(f, S)}
<1>1. {} \in Q
  BY SumOfNone
<1>2. ASSUME NEW S \in SUBSET D, S \in Q, NEW x \in D \ S PROVE S \union {x} \in Q
  <2>1. SumOf(f, S) \in Int /\ SumOf(f, S \union {x}) = SumOf(f, S) + f[x]
    BY SumWith
  <2>2. SumOf(n, S \union {x}) = SumOf(n, S) + n[x]
    <3>1. \A y \in D : n[y] \in Int
      OBVIOUS
    <3> HIDE DEF n
    <3> QED BY <3>1, SumWith
  <2>3. n[x] = -f[x] /\ f[x] \in Int
    OBVIOUS
  <2> HIDE DEF n
  <2> QED BY <1>2, <2>1, <2>2, <2>3
<1>3. D \in Q
  <2> HIDE DEF Q
  <2> QED BY <1>1, <1>2, FiniteInduction
<1> QED BY <1>3, SumWithout

\* A sum of ones counts.
LEMMA SumOfOnes ==
    ASSUME NEW f, NEW D, IsFiniteSet(D), \A x \in D : f[x] = 1
    PROVE  SumOf(f, D) = Cardinality(D)
<1> DEFINE Q == {S \in SUBSET D : SumOf(f, S) = Cardinality(S)}
<1>1. {} \in Q
  BY SumOfNone, FS_EmptySet
<1>2. ASSUME NEW S \in SUBSET D, S \in Q, NEW x \in D \ S PROVE S \union {x} \in Q
  <2>1. SumOf(f, S) \in Int /\ SumOf(f, S \union {x}) = SumOf(f, S) + f[x]
    BY SumWith
  <2>2. Cardinality(S \union {x}) = Cardinality(S) + 1
    <3>1. IsFiniteSet(S)
      BY FS_Subset
    <3> QED BY <3>1, FS_AddElement
  <2> QED BY <1>2, <2>1, <2>2
<1>3. D \in Q
  <2> HIDE DEF Q
  <2> QED BY <1>1, <1>2, FiniteInduction
<1> QED BY <1>3

-----------------------------------------------------------------------------
(* Finite sets as sequences. *)

\* A finite set can be listed by descending keys.
Descending(s, key) == \A i, j \in DOMAIN s : i < j => key[s[i]] >= key[s[j]]
Lists(S) ==
    {s \in [1..Cardinality(S) -> S] : \A i, j \in 1..Cardinality(S) : i # j => s[i] # s[j]}

LEMMA SortedExists ==
    ASSUME NEW D, IsFiniteSet(D), NEW key, \A x \in D : key[x] \in Nat
    PROVE  \E s \in Lists(D) : Descending(s, key)
<1> DEFINE P == {k \in Nat : \A S \in SUBSET D : IsFiniteSet(S) /\ Cardinality(S) = k
                    => \E s \in Lists(S) : Descending(s, key)}
<1>1. 0 \in P
  <2> SUFFICES ASSUME NEW S \in SUBSET D, Cardinality(S) = 0
               PROVE  \E s \in Lists(S) : Descending(s, key)
    OBVIOUS
  <2> DEFINE s == [i \in 1..0 |-> i]
  <2>1. s \in Lists(S) /\ Descending(s, key)
    BY DEF Lists, Descending
  <2> QED BY <2>1
<1>2. ASSUME NEW k \in Nat, k \in P PROVE k + 1 \in P
  <2> SUFFICES ASSUME NEW S \in SUBSET D, IsFiniteSet(S), Cardinality(S) = k + 1
               PROVE  \E s \in Lists(S) : Descending(s, key)
    OBVIOUS
  <2>1. PICK m \in S : \A x \in S : key[m] <= key[x]
    <3> DEFINE K == {key[x] : x \in S}
    <3>1. S # {}
      <4>1. Cardinality({}) = 0
        BY FS_EmptySet
      <4> QED BY <4>1
    <3>2. K \subseteq Nat /\ K # {}
      BY <3>1
    <3>3. PICK n \in K : \A x \in K : ~(x < n)
      <4> HIDE DEF K
      <4> QED BY <3>2, LeastNat
    <3>4. \A x \in K : n <= x
      BY <3>2, <3>3
    <3> QED BY <3>3, <3>4
  <2> DEFINE T == S \ {m}
  <2>2. IsFiniteSet(T) /\ Cardinality(T) = k /\ T \in SUBSET D
    <3>1. IsFiniteSet(S \ {m}) /\ Cardinality(S \ {m}) = Cardinality(S) - 1
      BY <2>1, FS_RemoveElement
    <3> QED BY <3>1
  <2>3. PICK t \in Lists(T) : Descending(t, key)
    <3> HIDE DEF T
    <3> QED BY <1>2, <2>2
  <2>4. /\ t \in [1..k -> T] /\ \A i, j \in 1..k : i # j => t[i] # t[j]
        /\ \A i, j \in 1..k : i < j => key[t[i]] >= key[t[j]]
    BY <2>2, <2>3 DEF Lists, Descending
  <2> DEFINE s == [i \in 1..(k + 1) |-> IF i <= k THEN t[i] ELSE m]
  <2>5. \A i \in 1..k : s[i] = t[i] /\ s[i] \in T /\ i \in 1..(k + 1)
    BY <2>4
  <2>6. s[k + 1] = m
    OBVIOUS
  <2>7. \A i \in 1..(k + 1) : i \in 1..k \/ i = k + 1
    OBVIOUS
  <2>8. s \in [1..(k + 1) -> S]
    BY <2>4
  <2>9. DOMAIN s = 1..(k + 1)
    OBVIOUS
  <2> HIDE DEF s
  <2>10. ASSUME NEW i \in 1..(k + 1), NEW j \in 1..(k + 1), i # j PROVE s[i] # s[j]
    BY <2>4, <2>5, <2>6, <2>7, <2>10
  <2>11. ASSUME NEW i \in 1..(k + 1), NEW j \in 1..(k + 1), i < j
         PROVE  key[s[i]] >= key[s[j]]
    <3>1. i \in 1..k
      BY <2>7, <2>11
    <3>2. CASE j \in 1..k
      BY <2>4, <2>5, <2>11, <3>1, <3>2
    <3>3. CASE j = k + 1
      <4>1. key[m] \in Nat /\ s[i] \in S /\ key[s[i]] \in Nat
        BY <2>1, <2>5, <3>1
      <4> QED BY <2>1, <2>6, <3>3, <4>1
    <3> QED BY <2>7, <3>2, <3>3
  <2>12. s \in Lists(S)
    BY <2>8, <2>10 DEF Lists
  <2>13. Descending(s, key)
    BY <2>9, <2>11 DEF Descending
  <2> QED BY <2>12, <2>13
<1>3. \A k \in Nat : k \in P
  <2> HIDE DEF P
  <2> QED BY <1>1, <1>2, Induction
<1>4. Cardinality(D) \in Nat
  BY FS_CardinalityType
<1> QED BY <1>3, <1>4

\* A list without repetitions lists every element.
LEMMA ListsAll ==
    ASSUME NEW D, IsFiniteSet(D), NEW s \in Lists(D)
    PROVE  \A x \in D : \E i \in 1..Cardinality(D) : s[i] = x
<1> DEFINE n == Cardinality(D)
<1>1. n \in Nat /\ IsFiniteSet(1..n) /\ Cardinality(1..n) = n
  <2>1. n \in Nat
    BY FS_CardinalityType
  <2>2. IsFiniteSet(1..n) /\ Cardinality(1..n) = IF 1 > n THEN 0 ELSE n - 1 + 1
    BY <2>1, FS_Interval
  <2> QED BY <2>1, <2>2
<1> DEFINE R == {s[i] : i \in 1..n}
<1>2. s \in [1..n -> D] /\ \A i, j \in 1..n : s[i] = s[j] => i = j
  BY DEF Lists
<1>3. R \in SUBSET D
  BY <1>2
<1>4. IsFiniteSet(R) /\ Cardinality(R) = n
  <2>1. s \in Bijection(1..n, R)
    <3>1. s \in [1..n -> R]
      BY <1>2
    <3> QED BY <1>2, <3>1 DEF Bijection, Injection, Surjection, IsInjective
  <2>2. ExistsBijection(1..n, R)
    BY <2>1 DEF ExistsBijection
  <2> HIDE DEF R, n
  <2> QED BY <1>1, <2>2, FS_Bijection
<1>5. R = D
  <2> HIDE DEF R
  <2> QED BY <1>3, <1>4, FS_Subset
<1> QED BY <1>5

LEMMA FiniteImage ==
    ASSUME NEW D, IsFiniteSet(D), NEW h
    PROVE  IsFiniteSet({h[x] : x \in D})
<1> DEFINE To(S) == {h[x] : x \in S}
           Q == {S \in SUBSET D : IsFiniteSet(To(S))}
<1>1. {} \in Q
  <2>1. To({}) = {}
    OBVIOUS
  <2> QED BY <2>1, FS_EmptySet
<1>2. ASSUME NEW S \in SUBSET D, S \in Q, NEW x \in D \ S PROVE S \union {x} \in Q
  <2>1. To(S \union {x}) = To(S) \union {h[x]}
    OBVIOUS
  <2>2. IsFiniteSet(To(S))
    BY <1>2
  <2> HIDE DEF To
  <2>3. IsFiniteSet(To(S) \union {h[x]})
    BY <2>2, FS_AddElement
  <2> QED BY <2>1, <2>3
<1>3. D \in Q
  <2> HIDE DEF Q
  <2> QED BY <1>1, <1>2, FiniteInduction
<1> QED BY <1>3

\* A finite nonempty set of numbers has a least and a largest.
LEMMA FiniteBounds ==
    ASSUME NEW D, IsFiniteSet(D), D \subseteq Int, D # {}
    PROVE  \E lo, hi \in D : \A x \in D : lo <= x /\ x <= hi
<1> DEFINE Q == {S \in SUBSET D :
                   S = {} \/ \E lo, hi \in S : \A x \in S : lo <= x /\ x <= hi}
<1>1. {} \in Q
  OBVIOUS
<1>2. ASSUME NEW S \in SUBSET D, S \in Q, NEW x \in D \ S PROVE S \union {x} \in Q
  <2>1. CASE S = {}
    BY <2>1
  <2>2. CASE S # {}
    <3>1. PICK lo \in S, hi \in S : \A y \in S : lo <= y /\ y <= hi
      BY <1>2, <2>2
    <3> DEFINE a == IF x < lo THEN x ELSE lo
               b == IF x > hi THEN x ELSE hi
    <3>2. a \in S \union {x} /\ b \in S \union {x}
      OBVIOUS
    <3>3. \A y \in S \union {x} : a <= y /\ y <= b
      BY <3>1
    <3> HIDE DEF a, b
    <3> QED BY <3>2, <3>3
  <2> QED BY <2>1, <2>2
<1>3. D \in Q
  <2> HIDE DEF Q
  <2> QED BY <1>1, <1>2, FiniteInduction
<1> QED BY <1>3

\* Both sides of an inequality as often.
LEMMA TimesLeq ==
    ASSUME NEW a \in Int, NEW b \in Int, a <= b, NEW n \in Nat
    PROVE  a * n <= b * n
<1>1. (b - a) * n \in Nat
  <2>1. b - a \in Nat
    OBVIOUS
  <2> QED BY <2>1
<1>2. b * n = a * n + (b - a) * n /\ a * n \in Int /\ b * n \in Int
  OBVIOUS
<1> QED BY <1>1, <1>2

================================================================================
