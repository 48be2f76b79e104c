-------------------------- MODULE OriginateProofs --------------------------
(***************************************************************************)
(* Proofs about the text of an Originate, for all keys, values, names,     *)
(* arguments and contexts: a block of variables comes back, the server finds *)
(* every field in its place, and the parser reads the Originate that was   *)
(* written, each exactly when the model says so.                           *)
(*                                                                         *)
(* What the splitter finds outside quotes is read through item by item: an *)
(* item is a text in which every mark it looks for is inside quotes, and   *)
(* whose quotes are even.  Every part of a text the formats can carry is   *)
(* one, so the words of the text are the parts, and the rest is where they *)
(* stand and what the parsers make of each.                                *)
(***************************************************************************)
EXTENDS TextProofs, Originate

-----------------------------------------------------------------------------
(***************************************************************************)
(* Escape and Unescape, by the last token of the text.                     *)
(***************************************************************************)

\* The first k tokens.
Upto(s, k) == SubSeq(s, 1, k)

LEMMA UptoGrows ==
    ASSUME NEW T, NEW s \in Seq(T)
    PROVE  /\ Len(s) \in Nat /\ Upto(s, 0) = << >> /\ Upto(s, Len(s)) = s
           /\ \A k \in 0..Len(s) : /\ Upto(s, k) \in Seq(T) /\ Len(Upto(s, k)) = k
                                   /\ \A i \in 1..k : Upto(s, k)[i] = s[i]
           /\ \A k \in 1..Len(s) : s[k] \in T /\ Upto(s, k) = Append(Upto(s, k - 1), s[k])
<1>1. Len(s) \in Nat /\ Upto(s, 0) = << >> /\ Upto(s, Len(s)) = s
  BY DEF Upto
<1>2. \A k \in 0..Len(s) : /\ Upto(s, k) \in Seq(T) /\ Len(Upto(s, k)) = k
                           /\ \A i \in 1..k : Upto(s, k)[i] = s[i]
  BY DEF Upto
<1>3. ASSUME NEW k \in 1..Len(s)
      PROVE  s[k] \in T /\ Upto(s, k) = Append(Upto(s, k - 1), s[k])
  BY DEF Upto
<1>4. QED
  BY <1>1, <1>2, <1>3

Unescaping(t, x, c) ==
    IF x = c /\ t # << >> /\ Last(t) = "\\" THEN Append(Front(t), c) ELSE Append(t, x)

LEMMA UnescapingType ==
    ASSUME NEW T, NEW t \in Seq(T), NEW x \in T, NEW c
    PROVE  Unescaping(t, x, c) \in Seq(T)
  BY DEF Unescaping, Front

Unescapes(g, T, s, c) ==
    /\ PrefixValues(g, Seq(T), s, << >>, Unescape(s, c))
    /\ \A k \in 1..Len(s) : g[k] = Unescaping(g[k - 1], s[k], c)

LEMMA UnescapeSteps ==
    ASSUME NEW T, NEW c, NEW s \in Seq(T)
    PROVE  \E g : Unescapes(g, T, s, c)
<1> DEFINE X == Seq(T)
           base == << >>
           n == Len(s)
           step == [t \in X |-> [x \in T |-> Unescaping(t, x, c)]]
           Is(h) == h = [d \in SUBSET (DOMAIN s) |-> IF d = {} THEN << >> ELSE
                           (LET t == h[d \ {Max(d)}]
                                x == s[Max(d)]
                            IN  IF x = c /\ t # << >> /\ Last(t) = "\\" THEN Front(t) \o <<c>>
                                ELSE Append(t, x))]
           h == CHOOSE h : Is(h)
<1>1. n \in Nat /\ DOMAIN s = 1..n /\ base \in X
  OBVIOUS
<1>2. /\ step \in [X -> [T -> X]]
      /\ \A t \in X, x \in T : step[t][x] = Unescaping(t, x, c)
  BY UnescapingType
<1>3. Unescape(s, c) = h[DOMAIN s]
  BY DEF Unescape, FoldLeft, MapThenFoldSet
<1>4. PICK f \in [SUBSET (1..n) -> X] : Folded(f, s, base, step, n)
  <2> HIDE DEF step, X
  <2>1. QED
    BY <1>1, <1>2, FoldExists
<1>5. ASSUME NEW d \in SUBSET (1..n), d # {}
      PROVE  /\ f[d \ {Max(d)}] \in X
             /\ step[f[d \ {Max(d)}]][s[Max(d)]] = Unescaping(f[d \ {Max(d)}], s[Max(d)], c)
  <2>1. Max(d) \in 1..n
    BY <1>1, <1>5, MaxIsMember
  <2>2. s[Max(d)] \in T
    BY <1>1, <2>1, ElementOfSeq
  <2>3. f[d \ {Max(d)}] \in X
    <3>1. d \ {Max(d)} \in SUBSET (1..n)
      BY <1>5
    <3> HIDE DEF X, n
    <3>2. QED
      BY <1>4, <3>1
  <2> HIDE DEF X, step
  <2>4. QED
    BY <1>2, <2>2, <2>3
<1>6. Is(f)
  <2> DEFINE One(d) == Unescaping(f[d \ {Max(d)}], s[Max(d)], c)
             Two(d) == LET t == f[d \ {Max(d)}]
                           x == s[Max(d)]
                       IN  IF x = c /\ t # << >> /\ Last(t) = "\\" THEN Front(t) \o <<c>>
                           ELSE Append(t, x)
  <2>1. f = [d \in SUBSET (1..n) |-> IF d = {} THEN base ELSE One(d)]
    BY <1>4, <1>5 DEF Folded
  <2>2. \A d \in SUBSET (1..n) : d # {} => One(d) = Two(d)
    <3> SUFFICES ASSUME NEW d \in SUBSET (1..n), d # {} PROVE One(d) = Two(d)
      OBVIOUS
    <3> DEFINE t == f[d \ {Max(d)}]
    <3>1. t \in X
      BY <1>5
    <3> HIDE DEF t
    <3>2. t # << >> => Front(t) \o <<c>> = Append(Front(t), c)
      BY <3>1 DEF Front
    <3>3. QED
      BY <3>2 DEF t, Unescaping
  <2> HIDE DEF One, Two
  <2>3. f = [d \in SUBSET (1..n) |-> IF d = {} THEN base ELSE Two(d)]
    BY <2>1, <2>2
  <2>4. QED
    BY <1>1, <2>3 DEF Two
<1>7. Is(h)
  BY <1>6
<1> HIDE DEF h
<1>8. \A d \in SUBSET (1..n) :
         h[d] = IF d = {} THEN << >> ELSE
                   (LET t == h[d \ {Max(d)}]
                        x == s[Max(d)]
                    IN  IF x = c /\ t # << >> /\ Last(t) = "\\" THEN Front(t) \o <<c>>
                        ELSE Append(t, x))
  BY <1>1, <1>7
<1> HIDE DEF step, Is
<1>9. h[{}] = base
  BY <1>8
<1>10. ASSUME NEW k \in 1..n, h[1..(k - 1)] \in X
       PROVE  h[1..k] = Unescaping(h[1..(k - 1)], s[k], c)
  <2>1. k \in Nat \ {0} /\ 1..k \in SUBSET (1..n) /\ 1..k # {}
    BY <1>1
  <2>2. Max(1..k) = k /\ (1..k) \ {k} = 1..(k - 1)
    BY <2>1, MaxOfPrefix
  <2> DEFINE t == h[1..(k - 1)]
             x == s[k]
  <2>3. h[1..k] = IF x = c /\ t # << >> /\ Last(t) = "\\" THEN Front(t) \o <<c>> ELSE Append(t, x)
    BY <1>8, <2>1, <2>2
  <2>4. t \in X
    BY <1>10
  <2> HIDE DEF t, x
  <2>5. t # << >> => Front(t) \o <<c>> = Append(Front(t), c)
    BY <2>4 DEF Front
  <2>6. QED
    BY <2>3, <2>5 DEF t, x, Unescaping
<1>11. \A k \in 0..n : h[1..k] \in X
  <2>1. \A k \in 1..n : h[1..(k - 1)] \in X => h[1..k] \in X
    <3>1. \A k \in 1..n : s[k] \in T
      BY <1>1, ElementOfSeq
    <3> HIDE DEF X
    <3>2. QED
      BY <1>10, <3>1, UnescapingType DEF X
  <2>2. QED
    BY <1>1, <1>9, <2>1, PrefixTypes
<1> DEFINE g == [k \in 0..n |-> h[1..k]]
<1>12. g \in [0..n -> X] /\ g[0] = base /\ g[n] = Unescape(s, c)
  <2>1. 1..0 = {}
    OBVIOUS
  <2>2. QED
    BY <1>1, <1>3, <1>9, <1>11, <2>1
<1>13. \A k \in 1..n : g[k] = Unescaping(g[k - 1], s[k], c)
  <2>1. \A k \in 1..n : k \in 0..n /\ k - 1 \in 0..n
    BY <1>1
  <2> HIDE DEF X
  <2>2. QED
    BY <1>10, <1>11, <2>1
<1>14. QED
  BY <1>12, <1>13 DEF PrefixValues, Unescapes

LEMMA UnescapeNothing ==
    ASSUME NEW c
    PROVE  Unescape(<< >>, c) = << >>
<1>1. << >> \in Seq({c}) /\ Len(<< >>) = 0
  OBVIOUS
<1>2. PICK g : Unescapes(g, {c}, << >>, c)
  BY <1>1, UnescapeSteps
<1>3. QED
  BY <1>1, <1>2 DEF PrefixValues, Unescapes

LEMMA UnescapeAppend ==
    ASSUME NEW T, NEW c, NEW s \in Seq(T), NEW x \in T
    PROVE  /\ Unescape(s, c) \in Seq(T)
           /\ Unescape(Append(s, x), c) = Unescaping(Unescape(s, c), x, c)
<1> DEFINE r == Append(s, x)
<1>1. /\ Len(s) \in Nat /\ r \in Seq(T) /\ Len(r) = Len(s) + 1
      /\ r[Len(s) + 1] = x /\ \A i \in 1..Len(s) : r[i] = s[i]
  BY AppendProperties
<1>2. PICK f : Unescapes(f, T, s, c)
  BY UnescapeSteps
<1> HIDE DEF r
<1>3. PICK g : Unescapes(g, T, r, c)
  BY <1>1, UnescapeSteps
<1>4. f[0] = g[0]
  BY <1>2, <1>3 DEF PrefixValues, Unescapes
<1>5. \A k \in 1..Len(s) : f[k - 1] = g[k - 1] => f[k] = g[k]
  BY <1>1, <1>2, <1>3 DEF Unescapes
<1>6. \A k \in 0..Len(s) : f[k] = g[k]
  BY <1>1, <1>4, <1>5, PrefixesAgree, ZenonT(30)
<1>7. g[Len(s)] = Unescape(s, c) /\ f[Len(s)] \in Seq(T)
  BY <1>1, <1>2, <1>6 DEF PrefixValues, Unescapes
<1>8. g[Len(s) + 1] = Unescaping(g[Len(s)], x, c)
  BY <1>1, <1>3 DEF Unescapes
<1>9. QED
  BY <1>1, <1>2, <1>3, <1>7, <1>8 DEF PrefixValues, Unescapes, r

\* What holds of the empty sequence, and of each that one it holds of grows to,
\* holds of every sequence.
LEMMA GrowingUp ==
    ASSUME NEW T, NEW S, << >> \in S,
           \A s \in Seq(T), x \in T : s \in S => Append(s, x) \in S
    PROVE  \A s \in Seq(T) : s \in S
<1>1. SUFFICES ASSUME NEW s \in Seq(T) PROVE s \in S
  OBVIOUS
<1> DEFINE Good == {k \in Nat : Upto(s, k) \in S}
<1>2. Len(s) \in Nat /\ Upto(s, 0) = << >> /\ Upto(s, Len(s)) = s
  BY UptoGrows
<1>3. ASSUME NEW k \in 1..Len(s), k - 1 \in Good
      PROVE  k \in Good
  <2>1. s[k] \in T /\ Upto(s, k) = Append(Upto(s, k - 1), s[k])
    BY UptoGrows
  <2>2. k - 1 \in 0..Len(s) /\ k \in Nat
    BY <1>2
  <2>3. Upto(s, k - 1) \in Seq(T)
    BY <2>2, UptoGrows
  <2>4. Append(Upto(s, k - 1), s[k]) \in S
    BY <1>3, <2>1, <2>3
  <2>5. QED
    BY <2>1, <2>2, <2>4
<1>4. 0 \in Good
  BY <1>2
<1> HIDE DEF Good
<1>5. \A k \in 0..Len(s) : k \in Good
  BY <1>2, <1>3, <1>4, CountingUp
<1>6. Len(s) \in Good
  BY <1>2, <1>5
<1>7. QED
  BY <1>2, <1>6 DEF Good

\* The marks of a block, under names of their own.
Quote == "'"
Comma == ","
Backslash == "\\"

LEMMA MarksDiffer ==
    /\ Backslash = "\\" /\ Quote # Backslash /\ Comma # Backslash /\ Quote # Comma
    /\ Space # Backslash
  BY DEF Quote, Comma, Backslash, Space

Escaping(x, c) == IF x = c THEN <<Backslash, c>> ELSE <<x>>

LEMMA EscapeAppend ==
    ASSUME NEW T, NEW c \in T, Backslash \in T, NEW s \in Seq(T)
    PROVE  /\ Escape(<< >>, c) = << >> /\ Escape(s, c) \in Seq(T)
           /\ \A x \in T : Escape(Append(s, x), c) = Then(Escape(s, c), Escaping(x, c))
<1> DEFINE of(t) == [i \in 1..Len(t) |-> Escaping(t[i], c)]
<1>1. \A t : Escape(t, c) = FlattenSeq(of(t))
  BY DEF Escape, Escaping, Backslash
<1>2. \A x \in T : Escaping(x, c) \in Seq(T)
  BY DEF Escaping
<1>3. of(<< >>) = << >>
  OBVIOUS
<1>4. of(s) \in Seq(Seq(T))
  <2>1. \A i \in 1..Len(s) : Escaping(s[i], c) \in Seq(T)
    BY <1>2, ElementOfSeq
  <2>2. QED
    BY <2>1
<1>5. ASSUME NEW x \in T
      PROVE  of(Append(s, x)) = Append(of(s), Escaping(x, c))
  <2>1. /\ Len(s) \in Nat /\ Len(Append(s, x)) = Len(s) + 1
        /\ Append(s, x)[Len(s) + 1] = x /\ \A i \in 1..Len(s) : Append(s, x)[i] = s[i]
    BY AppendProperties
  <2>2. Append(s, x) \in Seq(T)
    OBVIOUS
  <2>3. of(Append(s, x)) \in Seq(Seq(T))
    <3>1. \A i \in 1..Len(Append(s, x)) : Escaping(Append(s, x)[i], c) \in Seq(T)
      BY <1>2, <2>2, ElementOfSeq
    <3>2. QED
      BY <2>1, <3>1
  <2>4. Len(of(s)) = Len(s) /\ Len(of(Append(s, x))) = Len(s) + 1
    BY <2>1
  <2>5. Escaping(x, c) \in Seq(T)
    BY <1>2
  <2> DEFINE e == Escaping(x, c)
  <2>6. /\ \A i \in 1..Len(s) : of(Append(s, x))[i] = of(s)[i]
        /\ of(Append(s, x))[Len(s) + 1] = e
    BY <2>1
  <2> HIDE DEF of, e
  <2>7. /\ Append(of(s), e) \in Seq(Seq(T)) /\ Len(Append(of(s), e)) = Len(s) + 1
        /\ \A i \in 1..Len(s) : Append(of(s), e)[i] = of(s)[i]
        /\ Append(of(s), e)[Len(s) + 1] = e
    <3>1. e \in Seq(T)
      BY <2>5 DEF e
    <3>2. QED
      BY <1>4, <2>4, <3>1, AppendProperties
  <2>8. \A i \in 1..(Len(s) + 1) : of(Append(s, x))[i] = Append(of(s), e)[i]
    <3>1. \A i \in 1..(Len(s) + 1) : i \in 1..Len(s) \/ i = Len(s) + 1
      BY <2>1
    <3>2. QED
      BY <2>6, <2>7, <3>1
  <2>9. of(Append(s, x)) = Append(of(s), e)
    BY <2>3, <2>4, <2>7, <2>8, SeqEqual
  <2>10. QED
    BY <2>9 DEF e
<1> HIDE DEF of
<1>6. Escape(<< >>, c) = << >>
  BY <1>1, <1>3, FlattenNothing
<1>7. Escape(s, c) \in Seq(T)
  BY <1>1, <1>4, FlattenType
<1>8. ASSUME NEW x \in T
      PROVE  Escape(Append(s, x), c) = Then(Escape(s, c), Escaping(x, c))
  <2> DEFINE e == Escaping(x, c)
             r == of(s)
  <2>1. e \in Seq(T) /\ r \in Seq(Seq(T))
    BY <1>2, <1>4
  <2>2. Escape(Append(s, x), c) = FlattenSeq(Append(r, e))
    BY <1>1, <1>5
  <2> HIDE DEF e, r
  <2>3. FlattenSeq(Append(r, e)) = Then(FlattenSeq(r), e)
    BY <2>1, FlattenAppend
  <2>4. QED
    BY <1>1, <2>2, <2>3 DEF e, r
<1>9. QED
  BY <1>6, <1>7, <1>8

LEMMA EscapingBehind ==
    ASSUME NEW T, NEW c \in T, Backslash \in T, NEW e \in Seq(T), NEW x \in T
    PROVE  Then(e, Escaping(x, c)) = IF x = c THEN Append(Append(e, Backslash), c) ELSE Append(e, x)
<1>1. e \o <<Backslash, c>> = Append(Append(e, Backslash), c)
  OBVIOUS
<1>2. e \o <<x>> = Append(e, x)
  OBVIOUS
<1>3. QED
  BY <1>1, <1>2 DEF Then, Escaping

\* str::replace back undoes str::replace, whatever was in the text before.
LEMMA EscapedComesBack ==
    ASSUME NEW T, NEW c \in T, Backslash \in T, c # Backslash
    PROVE  \A s \in Seq(T) : Unescape(Escape(s, c), c) = s
<1> DEFINE S == {s \in Seq(T) : Unescape(Escape(s, c), c) = s}
<1>1. << >> \in S
  <2>1. << >> \in Seq(T)
    OBVIOUS
  <2>2. Escape(<< >>, c) = << >>
    BY <2>1, EscapeAppend
  <2>3. QED
    BY <2>1, <2>2, UnescapeNothing
<1>2. ASSUME NEW s \in Seq(T), NEW x \in T, s \in S
      PROVE  Append(s, x) \in S
  <2> DEFINE e == Escape(s, c)
             b == Backslash
  <2>1. e \in Seq(T) /\ Escape(Append(s, x), c) = Then(e, Escaping(x, c))
    BY EscapeAppend
  <2>2. Unescape(e, c) = s
    BY <1>2
  <2>3. Append(s, x) \in Seq(T) /\ b \in T /\ b # c
    OBVIOUS
  <2> HIDE DEF e
  <2>4. Then(e, Escaping(x, c)) = IF x = c THEN Append(Append(e, b), c) ELSE Append(e, x)
    BY <2>1, EscapingBehind
  <2>5. CASE x # c
    <3>1. Unescape(Append(e, x), c) = Unescaping(s, x, c)
      BY <2>1, <2>2, UnescapeAppend
    <3>2. Unescaping(s, x, c) = Append(s, x)
      BY <2>5 DEF Unescaping
    <3>3. Unescape(Escape(Append(s, x), c), c) = Append(s, x)
      BY <2>1, <2>4, <2>5, <3>1, <3>2
    <3>4. QED
      BY <2>3, <3>3
  <2>6. CASE x = c
    <3> DEFINE r == Append(e, b)
    <3>1. r \in Seq(T)
      BY <2>1, <2>3
    <3>2. Unescape(r, c) = Unescaping(s, b, c)
      <4> HIDE DEF b
      <4>1. QED
        BY <2>1, <2>2, <2>3, UnescapeAppend
    <3>3. Unescaping(s, b, c) = Append(s, b)
      BY <2>3 DEF Unescaping, Backslash
    <3> HIDE DEF r
    <3>4. Unescape(Append(r, c), c) = Unescaping(Append(s, b), c, c)
      BY <3>1, <3>2, <3>3, UnescapeAppend
    <3>5. Append(s, b) # << >> /\ Last(Append(s, b)) = b /\ Front(Append(s, b)) = s
      BY <2>3 DEF Front, Last
    <3>6. Unescaping(Append(s, b), c, c) = Append(s, c)
      BY <3>5 DEF Unescaping, Backslash
    <3>7. Unescape(Escape(Append(s, x), c), c) = Append(s, x)
      BY <2>1, <2>4, <2>6, <3>4, <3>6 DEF r
    <3>8. QED
      BY <2>3, <3>7
  <2>7. QED
    BY <2>5, <2>6
<1> HIDE DEF S
<1>3. \A s \in Seq(T) : s \in S
  BY <1>1, <1>2, GrowingUp
<1>4. QED
  BY <1>3 DEF S

\* Every c has a backslash before it.
Guarded(t, c) == \A i \in 1..Len(t) : t[i] = c => i > 1 /\ t[i - 1] = Backslash

\* What is the same in a text before and after an escape: whether it is empty,
\* its last token, its tokens, and its first one, but for backslashes.
SameMarks(s, e) ==
    /\ e = << >> <=> s = << >>
    /\ s # << >> => Last(e) = Last(s)
    /\ e # << >> => e[1] \in {s[1], Backslash}
    /\ Range(e) \ {Backslash} = Range(s) \ {Backslash}

LEMMA ContainsRange ==
    ASSUME NEW T, NEW s \in Seq(T)
    PROVE  \A d : Contains(s, d) <=> d \in Range(s)
  BY DEF Contains, Range

LEMMA EscapedText ==
    ASSUME NEW T, NEW c \in T, Backslash \in T, c # Backslash
    PROVE  \A s \in Seq(T) : Guarded(Escape(s, c), c) /\ SameMarks(s, Escape(s, c))
<1> DEFINE S == {s \in Seq(T) : Guarded(Escape(s, c), c) /\ SameMarks(s, Escape(s, c))}
           b == Backslash
<1>1. << >> \in S
  <2>1. << >> \in Seq(T)
    OBVIOUS
  <2>2. Escape(<< >>, c) = << >>
    BY <2>1, EscapeAppend
  <2>3. QED
    BY <2>1, <2>2 DEF Guarded, SameMarks
<1>2. ASSUME NEW s \in Seq(T), NEW x \in T, s \in S
      PROVE  Append(s, x) \in S
  <2> DEFINE e == Escape(s, c)
             f == Escape(Append(s, x), c)
             r == Append(s, x)
             m == Append(e, b)
  <2>1. e \in Seq(T) /\ f = Then(e, Escaping(x, c))
    BY EscapeAppend
  <2>2. Guarded(e, c) /\ SameMarks(s, e)
    BY <1>2
  <2>3. r \in Seq(T) /\ b \in T /\ b # c
    OBVIOUS
  <2> HIDE DEF e, f
  <2>4. f = IF x = c THEN Append(m, c) ELSE Append(e, x)
    BY <2>1, EscapingBehind
  <2>5. /\ r # << >> /\ Last(r) = x
        /\ Range(r) = Range(s) \cup {x}
        /\ r[1] = IF s = << >> THEN x ELSE s[1]
    BY AppendTokens
  <2> HIDE DEF r, m, b
  <2>6. CASE x # c
    <3>1. /\ Len(e) \in Nat /\ Len(f) = Len(e) + 1 /\ f # << >> /\ Last(f) = x /\ f[Len(e) + 1] = x
          /\ \A i \in 1..Len(e) : f[i] = e[i]
          /\ Range(f) = Range(e) \cup {x}
          /\ f[1] = IF e = << >> THEN x ELSE e[1]
      BY <2>1, <2>4, <2>6, AppendTokens
    <3>2. Guarded(f, c)
      <4>1. ASSUME NEW i \in 1..(Len(e) + 1), f[i] = c
            PROVE  i > 1 /\ f[i - 1] = Backslash
        <5>1. i \in 1..Len(e)
          BY <2>6, <3>1, <4>1
        <5>2. i > 1 /\ e[i - 1] = Backslash /\ i - 1 \in 1..Len(e)
          BY <2>2, <3>1, <4>1, <5>1 DEF Guarded
        <5>3. QED
          BY <3>1, <5>2
      <4>2. QED
        BY <3>1, <4>1 DEF Guarded
    <3>3. SameMarks(r, f)
      <4>1. Range(f) \ {b} = Range(r) \ {b}
        BY <2>2, <2>5, <3>1 DEF SameMarks, b
      <4>2. f[1] \in {r[1], b}
        BY <2>2, <2>5, <3>1 DEF SameMarks, b
      <4>3. QED
        BY <2>5, <3>1, <4>1, <4>2 DEF SameMarks, b
    <3>4. QED
      BY <2>3, <3>2, <3>3 DEF f, r
  <2>7. CASE x = c
    <3>1. /\ Len(e) \in Nat /\ Len(m) = Len(e) + 1 /\ m \in Seq(T) /\ m # << >> /\ m[Len(e) + 1] = b
          /\ \A i \in 1..Len(e) : m[i] = e[i]
          /\ Range(m) = Range(e) \cup {b}
          /\ m[1] = IF e = << >> THEN b ELSE e[1]
      BY <2>1, <2>3, AppendTokens DEF m
    <3>2. /\ Len(f) = Len(m) + 1 /\ f # << >> /\ Last(f) = c /\ f[Len(m) + 1] = c
          /\ \A i \in 1..Len(m) : f[i] = m[i]
          /\ Range(f) = Range(m) \cup {c}
          /\ f[1] = IF m = << >> THEN c ELSE m[1]
      BY <2>4, <2>7, <3>1, AppendTokens
    <3>3. Guarded(f, c)
      <4>1. ASSUME NEW i \in 1..(Len(e) + 2), f[i] = c
            PROVE  i > 1 /\ f[i - 1] = Backslash
        <5>1. CASE i \in 1..Len(e)
          <6>1. i > 1 /\ e[i - 1] = Backslash /\ i - 1 \in 1..Len(e)
            BY <2>2, <3>1, <3>2, <4>1, <5>1 DEF Guarded
          <6>2. QED
            BY <3>1, <3>2, <6>1
        <5>2. CASE i = Len(e) + 1
          BY <2>3, <3>1, <3>2, <4>1, <5>2
        <5>3. CASE i = Len(e) + 2
          BY <3>1, <3>2, <5>3 DEF b
        <5>4. QED
          BY <3>1, <5>1, <5>2, <5>3
      <4>2. QED
        BY <3>1, <3>2, <4>1 DEF Guarded
    <3>4. SameMarks(r, f)
      <4>1. Range(f) \ {b} = Range(r) \ {b}
        BY <2>2, <2>5, <2>7, <3>1, <3>2 DEF SameMarks, b
      <4>2. f[1] \in {r[1], b}
        BY <2>2, <2>5, <2>7, <3>1, <3>2 DEF SameMarks, b
      <4>3. QED
        BY <2>5, <2>7, <3>2, <4>1, <4>2 DEF SameMarks, b
    <3>5. QED
      BY <2>3, <3>3, <3>4 DEF f, r
  <2>8. QED
    BY <2>6, <2>7
<1> HIDE DEF S
<1>3. \A s \in Seq(T) : s \in S
  BY <1>1, <1>2, GrowingUp
<1>4. QED
  BY <1>3 DEF S

LEMMA Ends ==
    ASSUME NEW T, NEW s \in Seq(T)
    PROVE  /\ Len(s) \in Nat
           /\ s = << >> <=> Len(s) = 0
           /\ s # << >> => /\ 1 \in 1..Len(s) /\ Len(s) \in 1..Len(s)
                          /\ Head(s) = s[1] /\ Last(s) = s[Len(s)]
  BY DEF Last

\* A text between two marks.
Enclosed(a, s, z) == <<a>> \o s \o <<z>>

LEMMA EnclosedText ==
    ASSUME NEW T, NEW a \in T, NEW z \in T, NEW s \in Seq(T)
    PROVE  /\ Enclosed(a, s, z) \in Seq(T) /\ Len(Enclosed(a, s, z)) = Len(s) + 2 /\ Len(s) \in Nat
           /\ Enclosed(a, s, z)[1] = a /\ Enclosed(a, s, z)[Len(s) + 2] = z
           /\ \A i \in 1..Len(s) : Enclosed(a, s, z)[i + 1] = s[i]
           /\ SubSeq(Enclosed(a, s, z), 2, Len(s) + 1) = s
<1> DEFINE q == Enclosed(a, s, z)
<1>1. /\ q \in Seq(T) /\ Len(q) = Len(s) + 2 /\ Len(s) \in Nat
      /\ q[1] = a /\ q[Len(s) + 2] = z
      /\ \A i \in 1..Len(s) : q[i + 1] = s[i]
  BY DEF Enclosed
<1> HIDE DEF q
<1>2. /\ SubSeq(q, 2, Len(s) + 1) \in Seq(T) /\ Len(SubSeq(q, 2, Len(s) + 1)) = Len(s)
      /\ \A i \in 1..Len(s) : SubSeq(q, 2, Len(s) + 1)[i] = s[i]
  <2>1. /\ 2 \in Int /\ Len(s) + 1 \in Int
        /\ \A i \in 2..(Len(s) + 1) : q[i] \in T
    BY <1>1
  <2>2. /\ SubSeq(q, 2, Len(s) + 1) \in Seq(T)
        /\ Len(SubSeq(q, 2, Len(s) + 1)) =
               IF 2 <= Len(s) + 1 THEN Len(s) + 1 - 2 + 1 ELSE 0
        /\ \A i \in 1..(Len(s) + 1 - 2 + 1) : SubSeq(q, 2, Len(s) + 1)[i] = q[2 + i - 1]
    BY <2>1, SubSeqProperties
  <2>3. Len(s) + 1 - 2 + 1 = Len(s) /\ \A i \in 1..Len(s) : 2 + i - 1 = i + 1
    BY <1>1
  <2>4. QED
    BY <1>1, <2>2, <2>3
<1>3. SubSeq(q, 2, Len(s) + 1) = s
  BY <1>2, SeqEqual
<1>4. QED
  BY <1>1, <1>3 DEF q

LEMMA QuotedText ==
    ASSUME NEW T, Quote \in T, NEW s \in Seq(T)
    PROVE  /\ Quoted(s) = Enclosed(Quote, s, Quote)
           /\ Unquoted(Quoted(s)) = s
<1> DEFINE q == Enclosed(Quote, s, Quote)
<1>1. Quoted(s) = q
  BY DEF Quoted, Enclosed, Quote
<1>2. /\ Len(q) = Len(s) + 2 /\ Len(s) \in Nat
      /\ q[1] = Quote /\ q[Len(s) + 2] = Quote /\ SubSeq(q, 2, Len(s) + 1) = s
  BY EnclosedText
<1> HIDE DEF q
<1>3. Len(q) > 1 /\ Head(q) = Quote /\ Last(q) = Quote /\ Len(q) - 1 = Len(s) + 1
  BY <1>2 DEF Last
<1>4. Unquoted(q) = s
  BY <1>2, <1>3 DEF Unquoted, Quote
<1>5. QED
  BY <1>1, <1>4 DEF q

\* A value of a block is written so that it comes back, and has no comma that
\* ends it.
LEMMA ValueComesBack ==
    ASSUME NEW T, Backslash \in T, Quote \in T, Comma \in T, NEW v \in Seq(T)
    PROVE  /\ escape_value(v) \in Seq(T) /\ unescape_value(escape_value(v)) = v
           /\ Guarded(escape_value(v), Comma)
           /\ escape_value(v) = << >> <=> v = << >>
           /\ v # << >> => (Last(escape_value(v)) = Backslash
                            <=> Last(v) = Backslash /\ ~Contains(v, Space))
<1> DEFINE t == Escape(v, Quote)
           e == Escape(t, Comma)
           r == escape_value(v)
<1>1. /\ Quote # Backslash /\ Comma # Backslash /\ Quote # Comma /\ Space # Backslash
  BY MarksDiffer
<1>2. t \in Seq(T)
  BY <1>1, EscapeAppend
<1>3. Unescape(t, Quote) = v
  BY <1>1, EscapedComesBack
<1>4. Guarded(t, Quote) /\ SameMarks(v, t)
  BY <1>1, EscapedText
<1> HIDE DEF t
<1>5. e \in Seq(T)
  BY <1>1, <1>2, EscapeAppend
<1>6. Unescape(e, Comma) = t
  BY <1>1, <1>2, EscapedComesBack
<1>7. Guarded(e, Comma) /\ SameMarks(t, e)
  BY <1>1, <1>2, EscapedText
<1> HIDE DEF e
<1>8. /\ e = << >> <=> v = << >>
      /\ v # << >> => Last(e) = Last(v)
      /\ Contains(e, Space) <=> Contains(v, Space)
  <2>1. Space \in Range(e) <=> Space \in Range(v)
    BY <1>1, <1>4, <1>7 DEF SameMarks
  <2>2. Contains(e, Space) <=> Contains(v, Space)
    BY <1>5, <2>1, ContainsRange
  <2>3. QED
    BY <1>4, <1>7, <2>2 DEF SameMarks
<1>9. e = << >> \/ e[1] # Quote
  <2>1. SUFFICES ASSUME e # << >>, e[1] = Quote PROVE FALSE
    OBVIOUS
  <2>2. t # << >> /\ t[1] = Quote
    BY <1>1, <1>7, <2>1 DEF SameMarks
  <2>3. 1 \in 1..Len(t)
    BY <1>2, <2>2, Ends
  <2>4. 1 > 1
    BY <1>4, <2>2, <2>3 DEF Guarded
  <2>5. QED
    BY <2>4
<1>10. r = IF Contains(e, Space) THEN Quoted(e) ELSE e
  BY DEF escape_value, e, t, Quote, Comma, Space
<1>11. \A u : unescape_value(u) = Unescape(Unescape(Unquoted(u), Comma), Quote)
  BY DEF unescape_value, Quote, Comma
<1>12. CASE ~Contains(e, Space)
  <2>1. Unquoted(e) = e
    <3>1. ~(Len(e) > 1 /\ Head(e) = Quote /\ Last(e) = Quote)
      BY <1>5, <1>9, Ends
    <3>2. QED
      BY <3>1 DEF Unquoted, Quote
  <2>2. r = e
    BY <1>10, <1>12
  <2> HIDE DEF r
  <2>3. unescape_value(r) = v
    BY <1>3, <1>6, <1>11, <2>1, <2>2
  <2>4. QED
    BY <1>5, <1>7, <1>8, <1>12, <2>2, <2>3 DEF r
<1>13. CASE Contains(e, Space)
  <2>1. r = Quoted(e)
    BY <1>10, <1>13
  <2>2. /\ r \in Seq(T) /\ Len(r) = Len(e) + 2 /\ Len(e) \in Nat
        /\ r[1] = Quote /\ r[Len(e) + 2] = Quote /\ \A i \in 1..Len(e) : r[i + 1] = e[i]
        /\ Unquoted(r) = e
    <3> DEFINE q == Enclosed(Quote, e, Quote)
    <3>1. /\ q \in Seq(T) /\ Len(q) = Len(e) + 2 /\ Len(e) \in Nat
          /\ q[1] = Quote /\ q[Len(e) + 2] = Quote /\ \A i \in 1..Len(e) : q[i + 1] = e[i]
      BY <1>5, EnclosedText
    <3>2. Quoted(e) = q /\ Unquoted(Quoted(e)) = e
      BY <1>5, QuotedText
    <3> HIDE DEF q
    <3>3. QED
      BY <2>1, <3>1, <3>2
  <2> HIDE DEF r
  <2>3. unescape_value(r) = v
    BY <1>3, <1>6, <1>11, <2>2
  <2>4. Guarded(r, Comma)
    <3>1. ASSUME NEW i \in 1..(Len(e) + 2), r[i] = Comma
          PROVE  i > 1 /\ r[i - 1] = Backslash
      <4> DEFINE j == i - 1
                 h == i - 2
      <4>1. i # 1 /\ i # Len(e) + 2
        BY <1>1, <2>2, <3>1
      <4>2. j \in 1..Len(e) /\ j + 1 = i
        BY <2>2, <4>1
      <4>3. r[i] = e[j]
        BY <2>2, <4>2
      <4>4. j > 1 /\ e[j - 1] = Backslash
        BY <1>7, <3>1, <4>2, <4>3 DEF Guarded
      <4>5. h \in 1..Len(e) /\ h + 1 = j /\ j - 1 = h /\ i > 1
        BY <2>2, <4>2, <4>4
      <4>6. r[j] = e[h]
        BY <2>2, <4>5
      <4>7. QED
        BY <4>4, <4>5, <4>6
    <3>2. QED
      BY <2>2, <3>1 DEF Guarded
  <2>5. v # << >> /\ r # << >> /\ Last(r) # Backslash
    <3>1. r # << >> /\ Last(r) = r[Len(r)]
      BY <2>2, Ends
    <3>2. e # << >>
      <4>1. ~Contains(<< >>, Space)
        BY DEF Contains
      <4>2. QED
        BY <1>13, <4>1
    <3>3. QED
      BY <1>1, <1>8, <2>2, <3>1, <3>2
  <2>6. QED
    BY <1>8, <1>13, <2>2, <2>3, <2>4, <2>5 DEF r
<1>14. QED
  BY <1>12, <1>13

-----------------------------------------------------------------------------
(***************************************************************************)
(* split_unescaped_commas, by the last token of the text.                  *)
(***************************************************************************)

Ending(part) == part = << >> \/ Last(part) # Backslash

\* A comma behind the last part ends it, unless a backslash is before it.
Commas(parts, x) ==
    IF x = Comma /\ Ending(Last(parts)) THEN Append(parts, << >>)
    ELSE [parts EXCEPT ![Len(parts)] = Append(@, x)]

LEMMA CommasType ==
    ASSUME NEW T, NEW parts \in Pieces(T), NEW x \in T
    PROVE  Commas(parts, x) \in Pieces(T)
<1>1. Split(parts, x, Comma) \in Pieces(T) /\ Split(parts, x, Backslash) \in Pieces(T)
  BY SplitType
<1>2. x # Comma \/ x # Backslash
  BY MarksDiffer
<1>3. /\ x = Comma => Split(parts, x, Comma) = Append(parts, << >>)
      /\ x # Comma => Split(parts, x, Comma) = [parts EXCEPT ![Len(parts)] = Append(@, x)]
      /\ x # Backslash => Split(parts, x, Backslash) = [parts EXCEPT ![Len(parts)] = Append(@, x)]
  BY DEF Split
<1>4. Commas(parts, x) \in {Split(parts, x, Comma), Split(parts, x, Backslash)}
  BY <1>2, <1>3 DEF Commas
<1>5. QED
  BY <1>1, <1>4

CommaParts(g, T, s) ==
    /\ PrefixValues(g, Pieces(T), s, << << >> >>, split_unescaped_commas(s))
    /\ \A k \in 1..Len(s) : g[k] = Commas(g[k - 1], s[k])

LEMMA CommaSteps ==
    ASSUME NEW T, NEW s \in Seq(T)
    PROVE  \E g : CommaParts(g, T, s)
<1> DEFINE X == Pieces(T)
           base == << << >> >>
           n == Len(s)
           step == [parts \in X |-> [x \in T |-> Commas(parts, x)]]
           Is(h) == h = [d \in SUBSET (DOMAIN s) |-> IF d = {} THEN << << >> >> ELSE
                           (LET parts == h[d \ {Max(d)}]
                                x == s[Max(d)]
                            IN  IF x = "," /\ (Last(parts) = << >> \/ Last(Last(parts)) # "\\")
                                  THEN Append(parts, << >>)
                                ELSE [parts EXCEPT ![Len(parts)] = Append(@, x)])]
           h == CHOOSE h : Is(h)
<1>1. n \in Nat /\ DOMAIN s = 1..n
  OBVIOUS
<1>2. base \in X
  <2>1. << >> \in Seq(T)
    OBVIOUS
  <2>2. << << >> >> \in Seq(Seq(T))
    BY <2>1
  <2>3. QED
    BY <2>2 DEF Pieces
<1>3. /\ step \in [X -> [T -> X]]
      /\ \A parts \in X, x \in T : step[parts][x] = Commas(parts, x)
  BY CommasType
<1>4. split_unescaped_commas(s) = h[DOMAIN s]
  BY DEF split_unescaped_commas, FoldLeft, MapThenFoldSet
<1>5. PICK f \in [SUBSET (1..n) -> X] : Folded(f, s, base, step, n)
  <2> HIDE DEF step, X, base
  <2>1. QED
    BY <1>1, <1>2, <1>3, FoldExists
<1>6. ASSUME NEW d \in SUBSET (1..n), d # {}
      PROVE  step[f[d \ {Max(d)}]][s[Max(d)]] = Commas(f[d \ {Max(d)}], s[Max(d)])
  <2>1. Max(d) \in 1..n
    BY <1>1, <1>6, MaxIsMember
  <2>2. s[Max(d)] \in T
    BY <1>1, <2>1, ElementOfSeq
  <2>3. f[d \ {Max(d)}] \in X
    <3>1. d \ {Max(d)} \in SUBSET (1..n)
      BY <1>6
    <3> HIDE DEF X, n
    <3>2. QED
      BY <1>5, <3>1
  <2> HIDE DEF X, step
  <2>4. QED
    BY <1>3, <2>2, <2>3
<1>7. Is(f)
  <2>1. f = [d \in SUBSET (1..n) |-> IF d = {} THEN base ELSE Commas(f[d \ {Max(d)}], s[Max(d)])]
    BY <1>5, <1>6 DEF Folded
  <2>2. QED
    BY <1>1, <2>1 DEF Commas, Ending, Comma, Backslash
<1>8. Is(h)
  BY <1>7
<1>9. h = [d \in SUBSET (1..n) |-> IF d = {} THEN base ELSE Commas(h[d \ {Max(d)}], s[Max(d)])]
  BY <1>1, <1>8 DEF Commas, Ending, Comma, Backslash
<1> HIDE DEF h, step, Is
<1>10. h[{}] = base
  BY <1>9
<1>11. ASSUME NEW k \in 1..n
       PROVE  h[1..k] = Commas(h[1..(k - 1)], s[k])
  <2>1. k \in Nat \ {0} /\ 1..k \in SUBSET (1..n) /\ 1..k # {}
    <3> HIDE DEF n, base
    <3>1. k \in Nat \ {0} /\ k <= n /\ k \in 1..k
      BY <1>1
    <3>2. \A i \in 1..k : i \in 1..n
      BY <1>1, <3>1
    <3>3. QED
      BY <3>1, <3>2
  <2>2. Max(1..k) = k /\ (1..k) \ {k} = 1..(k - 1)
    BY <2>1, MaxOfPrefix
  <2>3. QED
    BY <1>9, <2>1, <2>2
<1>12. \A k \in 0..n : h[1..k] \in X
  <2>1. \A k \in 1..n : h[1..(k - 1)] \in X => h[1..k] \in X
    <3>1. \A k \in 1..n : s[k] \in T
      BY <1>1, ElementOfSeq
    <3> HIDE DEF X
    <3>2. QED
      BY <1>11, <3>1, CommasType DEF X
  <2> HIDE DEF X
  <2>2. QED
    BY <1>1, <1>2, <1>10, <2>1, PrefixTypes
<1> DEFINE g == [k \in 0..n |-> h[1..k]]
<1>13. g \in [0..n -> X] /\ g[0] = base /\ g[n] = split_unescaped_commas(s)
  <2>1. 1..0 = {}
    OBVIOUS
  <2> HIDE DEF X
  <2>2. QED
    BY <1>1, <1>4, <1>10, <1>12, <2>1
<1>14. \A k \in 1..n : g[k] = Commas(g[k - 1], s[k])
  <2>1. \A k \in 1..n : k \in 0..n /\ k - 1 \in 0..n
    BY <1>1
  <2>2. QED
    BY <1>11, <2>1
<1>15. QED
  BY <1>13, <1>14 DEF PrefixValues, CommaParts

LEMMA CommasNothing == split_unescaped_commas(<< >>) = << << >> >>
<1>1. << >> \in Seq({}) /\ Len(<< >>) = 0
  OBVIOUS
<1>2. PICK g : CommaParts(g, {}, << >>)
  BY <1>1, CommaSteps
<1>3. QED
  BY <1>1, <1>2 DEF PrefixValues, CommaParts

LEMMA CommasAppend ==
    ASSUME NEW T, NEW s \in Seq(T)
    PROVE  /\ split_unescaped_commas(s) \in Pieces(T)
           /\ \A x \in T : split_unescaped_commas(Append(s, x)) = Commas(split_unescaped_commas(s), x)
<1>1. PICK f : CommaParts(f, T, s)
  BY CommaSteps
<1>2. Len(s) \in Nat /\ f[Len(s)] = split_unescaped_commas(s) /\ f[Len(s)] \in Pieces(T)
  BY <1>1 DEF PrefixValues, CommaParts
<1>3. ASSUME NEW x \in T
      PROVE  split_unescaped_commas(Append(s, x)) = Commas(split_unescaped_commas(s), x)
  <2> DEFINE r == Append(s, x)
  <2>1. /\ r \in Seq(T) /\ Len(r) = Len(s) + 1
        /\ r[Len(s) + 1] = x /\ \A i \in 1..Len(s) : r[i] = s[i]
    BY AppendProperties
  <2> HIDE DEF r
  <2>2. PICK g : CommaParts(g, T, r)
    BY <2>1, CommaSteps
  <2>3. f[0] = g[0]
    BY <1>1, <2>2 DEF PrefixValues, CommaParts
  <2>4. \A k \in 1..Len(s) : f[k - 1] = g[k - 1] => f[k] = g[k]
    BY <1>1, <1>2, <2>1, <2>2 DEF CommaParts
  <2>5. \A k \in 0..Len(s) : f[k] = g[k]
    BY <1>2, <2>3, <2>4, PrefixesAgree
  <2>6. g[Len(s)] = split_unescaped_commas(s)
    BY <1>2, <2>5
  <2>7. g[Len(s) + 1] = Commas(g[Len(s)], x)
    BY <1>2, <2>1, <2>2 DEF CommaParts
  <2>8. QED
    BY <2>1, <2>2, <2>6, <2>7 DEF PrefixValues, CommaParts, r
<1>4. QED
  BY <1>2, <1>3

LastComma(done, p, x) ==
    IF x = Comma /\ Ending(p) THEN Append(Append(done, p), << >>) ELSE Append(done, Append(p, x))

LEMMA CommasBehind ==
    ASSUME NEW T, NEW done \in Seq(Seq(T)), NEW p \in Seq(T), NEW x \in T
    PROVE  Commas(Append(done, p), x) = LastComma(done, p, x)
<1> DEFINE n == Len(done) + 1
           parts == Append(done, p)
           q == Append(p, x)
           left == [parts EXCEPT ![n] = q]
           right == Append(done, q)
<1>1. /\ parts \in Seq(Seq(T)) /\ Len(parts) = n /\ n \in 1..n /\ n \in Nat /\ Last(parts) = p
      /\ parts[n] = p /\ \A i \in 1..Len(done) : parts[i] = done[i]
  BY AppendTokens
<1>2. q \in Seq(T)
  OBVIOUS
<1> HIDE DEF q
<1>3. /\ right \in Seq(Seq(T)) /\ Len(right) = n
      /\ right[n] = q /\ \A i \in 1..Len(done) : right[i] = done[i]
  BY <1>2, AppendTokens
<1> HIDE DEF parts, right
<1>4. left \in Seq(Seq(T)) /\ Len(left) = n /\ \A i \in 1..n : left[i] = IF i = n THEN q ELSE parts[i]
  BY <1>1, <1>2, ExceptSeq
<1>5. \A i \in 1..n : left[i] = right[i]
  <2>1. \A i \in 1..n : i = n \/ i \in 1..Len(done)
    OBVIOUS
  <2> HIDE DEF left, n
  <2>2. QED
    BY <1>1, <1>3, <1>4, <2>1
<1>6. left = right
  BY <1>3, <1>4, <1>5, SeqEqual
<1>7. Commas(parts, x) = IF x = Comma /\ Ending(p) THEN Append(parts, << >>) ELSE left
  BY <1>1 DEF Commas, q
<1>8. QED
  BY <1>6, <1>7 DEF parts, right, q, LastComma

\* A text whose commas all have a backslash before them adds to the last part.
LEMMA GuardedBehind ==
    ASSUME NEW T, NEW done \in Seq(Seq(T)), NEW p \in Seq(T), NEW s \in Seq(T), NEW w \in Seq(T),
           split_unescaped_commas(s) = Append(done, p), Guarded(w, Comma)
    PROVE  split_unescaped_commas(Then(s, w)) = Append(done, Then(p, w))
<1> DEFINE Done == {k \in Nat : split_unescaped_commas(Then(s, Upto(w, k)))
                                  = Append(done, Then(p, Upto(w, k)))}
<1>1. Len(w) \in Nat /\ Upto(w, 0) = << >> /\ Upto(w, Len(w)) = w
  BY UptoGrows
<1>2. 0 \in Done
  <2>1. Then(s, << >>) = s /\ Then(p, << >>) = p
    BY DEF Then
  <2>2. QED
    BY <1>1, <2>1
<1>3. ASSUME NEW k \in 1..Len(w), k - 1 \in Done
      PROVE  k \in Done
  <2> DEFINE u == Upto(w, k - 1)
             x == w[k]
             t == Then(s, u)
             q == Then(p, u)
  <2>1. k \in Nat /\ k - 1 \in 0..Len(w) /\ x \in T /\ Upto(w, k) = Append(u, x)
    <3>1. k \in Nat /\ k - 1 \in 0..Len(w)
      BY <1>1
    <3>2. x \in T /\ Upto(w, k) = Append(u, x)
      BY UptoGrows
    <3>3. QED
      BY <3>1, <3>2
  <2>2. u \in Seq(T) /\ Len(u) = k - 1 /\ \A i \in 1..(k - 1) : u[i] = w[i]
    BY <2>1, UptoGrows
  <2> HIDE DEF u, x
  <2>3. Then(s, Append(u, x)) = Append(t, x) /\ Then(p, Append(u, x)) = Append(q, x)
    BY <2>1, <2>2 DEF Then
  <2>4. /\ t \in Seq(T) /\ q \in Seq(T) /\ Len(q) = Len(p) + (k - 1)
        /\ \A i \in 1..(Len(p) + (k - 1)) : q[i] = IF i <= Len(p) THEN p[i] ELSE u[i - Len(p)]
    <3>1. t \in Seq(T)
      BY <2>2, ThenTokens
    <3>2. /\ q \in Seq(T) /\ Len(q) = Len(p) + Len(u)
          /\ \A i \in 1..(Len(p) + Len(u)) : q[i] = IF i <= Len(p) THEN p[i] ELSE u[i - Len(p)]
      BY <2>2, ThenTokens
    <3> HIDE DEF t, q
    <3>3. QED
      BY <2>2, <3>1, <3>2
  <2>5. split_unescaped_commas(t) = Append(done, q)
    BY <1>3 DEF u
  <2> HIDE DEF t, q
  <2>6. split_unescaped_commas(Append(t, x)) = Commas(Append(done, q), x)
    <3>1. split_unescaped_commas(Append(t, x)) = Commas(split_unescaped_commas(t), x)
      BY <2>1, <2>4, CommasAppend
    <3>2. QED
      BY <2>5, <3>1
  <2>7. ~(x = Comma /\ Ending(q))
    <3>1. SUFFICES ASSUME x = Comma PROVE ~Ending(q)
      OBVIOUS
    <3>2. k > 1 /\ w[k - 1] = Backslash
      BY <3>1 DEF Guarded, x
    <3>3. /\ k - 1 \in 1..(k - 1) /\ Len(p) \in Nat /\ Len(q) \in 1..(Len(p) + (k - 1))
          /\ ~(Len(q) <= Len(p)) /\ Len(q) - Len(p) = k - 1
      BY <2>1, <2>4, <3>2
    <3>4. q[Len(q)] = Backslash
      BY <2>2, <2>4, <3>2, <3>3
    <3>5. q # << >>
      BY <3>3
    <3>6. QED
      BY <3>4, <3>5 DEF Ending, Last
  <2>8. Commas(Append(done, q), x) = Append(done, Append(q, x))
    BY <2>1, <2>4, <2>7, CommasBehind DEF LastComma
  <2>9. QED
    <3> DEFINE r == Append(u, x)
    <3>1. Then(s, r) = Append(t, x) /\ Then(p, r) = Append(q, x) /\ Upto(w, k) = r
      BY <2>1, <2>3
    <3> HIDE DEF r
    <3>2. split_unescaped_commas(Then(s, r)) = Append(done, Then(p, r))
      BY <2>6, <2>8, <3>1
    <3>3. QED
      BY <2>1, <3>1, <3>2
<1> HIDE DEF Done
<1>4. \A k \in 0..Len(w) : k \in Done
  BY <1>1, <1>2, <1>3, CountingUp
<1>5. Len(w) \in Done
  BY <1>1, <1>4
<1>6. QED
  BY <1>1, <1>5 DEF Done

LEMMA LastOfThen ==
    ASSUME NEW T, NEW a \in Seq(T), NEW b \in Seq(T), b # << >>
    PROVE  Then(a, b) # << >> /\ Last(Then(a, b)) = Last(b)
<1> DEFINE r == Then(a, b)
<1>1. /\ r \in Seq(T) /\ Len(r) = Len(a) + Len(b)
      /\ \A i \in 1..(Len(a) + Len(b)) : r[i] = IF i <= Len(a) THEN a[i] ELSE b[i - Len(a)]
  BY ThenTokens
<1>2. Len(a) \in Nat /\ Len(b) \in Nat /\ Len(b) # 0
  BY Ends
<1> HIDE DEF r
<1>3. Len(r) # 0 /\ Len(r) \in 1..(Len(a) + Len(b)) /\ ~(Len(r) <= Len(a)) /\ Len(r) - Len(a) = Len(b)
  BY <1>1, <1>2
<1>4. r[Len(r)] = b[Len(b)]
  BY <1>1, <1>3
<1>5. r # << >>
  BY <1>1, <1>3, Ends
<1>6. QED
  BY <1>4, <1>5 DEF Last, r

LEMMA LastPart ==
    ASSUME NEW T, NEW parts \in Pieces(T)
    PROVE  \E done \in Seq(Seq(T)), p \in Seq(T) :
               parts = Append(done, p) /\ p = Last(parts) /\ Len(parts) = Len(done) + 1
<1> DEFINE X == Seq(T)
           n == Len(parts)
<1>1. parts \in Seq(X) /\ parts # << >>
  BY DEF Pieces
<1> HIDE DEF X
<1>2. n \in Nat /\ n \in 1..n /\ n - 1 \in 0..n /\ Last(parts) = parts[n]
  <2>1. n \in Nat /\ n \in 1..n /\ Last(parts) = parts[n]
    BY <1>1, Ends
  <2> HIDE DEF n
  <2>2. QED
    BY <2>1
<1>3. /\ parts[n] \in X /\ parts = Append(Upto(parts, n - 1), parts[n])
      /\ Upto(parts, n - 1) \in Seq(X) /\ Len(Upto(parts, n - 1)) = n - 1
  <2>1. Upto(parts, n) = parts
    BY <1>1, UptoGrows
  <2>2. parts[n] \in X /\ Upto(parts, n) = Append(Upto(parts, n - 1), parts[n])
    BY <1>1, <1>2, UptoGrows
  <2>3. Upto(parts, n - 1) \in Seq(X) /\ Len(Upto(parts, n - 1)) = n - 1
    BY <1>1, <1>2, UptoGrows
  <2>4. QED
    BY <2>1, <2>2, <2>3
<1>4. (n - 1) + 1 = n
  BY <1>2
<1>5. QED
  BY <1>2, <1>3, <1>4 DEF X

\* The parts of the first k items: these items, unless one of them but the last
\* swallows the comma behind it, and then they are fewer.
PartsAt(items, k, parts) ==
    /\ Last(parts) # << >> /\ Last(Last(parts)) = Last(items[k])
    /\ (\A i \in 1..(k - 1) : Ending(items[i])) => parts = Upto(items, k)
    /\ Len(parts) <= k
    /\ (\E i \in 1..(k - 1) : ~Ending(items[i])) => Len(parts) < k

LEMMA PartsStep ==
    ASSUME NEW T, Comma \in T, NEW items \in Seq(Seq(T)), NEW k \in 1..(Len(items) - 1),
           NEW s \in Seq(T), PartsAt(items, k, split_unescaped_commas(s)),
           items[k] # << >>, items[k + 1] # << >>, Guarded(items[k + 1], Comma)
    PROVE  PartsAt(items, k + 1, split_unescaped_commas(Then(Append(s, Comma), items[k + 1])))
<1> DEFINE parts == split_unescaped_commas(s)
           item == items[k + 1]
           t == Append(s, Comma)
           new == split_unescaped_commas(Then(t, item))
<1>1. Len(items) \in Nat /\ k \in Nat /\ k \in 1..Len(items) /\ k + 1 \in 1..Len(items) /\ (k + 1) - 1 = k
  <2>1. Len(items) \in Nat
    OBVIOUS
  <2>2. QED
    BY <2>1
<1>2. item \in Seq(T) /\ t \in Seq(T)
  BY <1>1, ElementOfSeq
<1>3. parts \in Pieces(T) /\ split_unescaped_commas(t) = Commas(parts, Comma)
  BY CommasAppend
<1>4. PICK done \in Seq(Seq(T)), p \in Seq(T) :
          parts = Append(done, p) /\ p = Last(parts) /\ Len(parts) = Len(done) + 1
  BY <1>3, LastPart
<1>5. Len(done) \in Nat
  OBVIOUS
<1>6. /\ p # << >> /\ Last(p) = Last(items[k])
      /\ (\A i \in 1..(k - 1) : Ending(items[i])) => parts = Upto(items, k)
      /\ Len(parts) <= k
      /\ (\E i \in 1..(k - 1) : ~Ending(items[i])) => Len(parts) < k
  BY <1>4 DEF PartsAt
<1>7. Ending(p) <=> Ending(items[k])
  BY <1>6 DEF Ending
<1>8. \A i \in 1..k : i = k \/ i \in 1..(k - 1)
  BY <1>1
<1> HIDE DEF parts, item, t
<1>9. Commas(parts, Comma) = IF Ending(p) THEN Append(parts, << >>) ELSE Append(done, Append(p, Comma))
  <2>1. Commas(Append(done, p), Comma) = LastComma(done, p, Comma)
    BY CommasBehind
  <2>2. QED
    BY <1>4, <2>1 DEF LastComma
<1>10. item # << >> /\ Guarded(item, Comma)
  BY DEF item
<1>11. CASE Ending(p)
  <2> DEFINE none == << >>
  <2>1. none \in Seq(T) /\ parts \in Seq(Seq(T)) /\ Then(none, item) = item
    BY <1>2, <1>3 DEF Pieces, Then
  <2>2. split_unescaped_commas(t) = Append(parts, none)
    BY <1>3, <1>9, <1>11
  <2> HIDE DEF none
  <2>3. new = Append(parts, item)
    <3>1. new = Append(parts, Then(none, item))
      BY <1>2, <1>10, <2>1, <2>2, GuardedBehind, ZenonT(30)
    <3>2. QED
      BY <2>1, <3>1
  <2>4. Last(new) = item /\ Len(new) = Len(parts) + 1
    BY <1>2, <2>1, <2>3, AppendTokens
  <2> HIDE DEF new
  <2>5. (\A i \in 1..k : Ending(items[i])) => new = Upto(items, k + 1)
    <3>1. SUFFICES ASSUME \A i \in 1..k : Ending(items[i]) PROVE new = Upto(items, k + 1)
      OBVIOUS
    <3>2. \A i \in 1..(k - 1) : Ending(items[i])
      <4>1. \A i \in 1..(k - 1) : i \in 1..k
        BY <1>1
      <4>2. QED
        BY <3>1, <4>1
    <3>3. parts = Upto(items, k)
      BY <1>6, <3>2
    <3>4. Upto(items, k + 1) = Append(Upto(items, (k + 1) - 1), items[k + 1])
      BY <1>1, UptoGrows
    <3>5. QED
      BY <1>1, <2>3, <3>3, <3>4 DEF item
  <2>6. Len(new) <= k + 1
    BY <1>1, <1>4, <1>5, <1>6, <2>4
  <2>7. (\E i \in 1..k : ~Ending(items[i])) => Len(new) < k + 1
    <3>1. SUFFICES ASSUME \E i \in 1..k : ~Ending(items[i]) PROVE Len(new) < k + 1
      OBVIOUS
    <3>2. \E i \in 1..(k - 1) : ~Ending(items[i])
      BY <1>7, <1>8, <1>11, <3>1
    <3>3. QED
      BY <1>1, <1>4, <1>5, <1>6, <2>4, <3>2, SMTT(30)
  <2>8. QED
    BY <1>1, <1>10, <2>4, <2>5, <2>6, <2>7 DEF PartsAt, new, item, t
<1>12. CASE ~Ending(p)
  <2> DEFINE q == Append(p, Comma)
  <2>1. q \in Seq(T) /\ split_unescaped_commas(t) = Append(done, q)
    BY <1>3, <1>9, <1>12
  <2> HIDE DEF q
  <2>2. new = Append(done, Then(q, item))
    BY <1>2, <1>10, <2>1, GuardedBehind, ZenonT(30)
  <2>3. Then(q, item) \in Seq(T) /\ Then(q, item) # << >> /\ Last(Then(q, item)) = Last(item)
    BY <1>2, <1>10, <2>1, LastOfThen, ThenTokens
  <2> DEFINE r == Then(q, item)
  <2> HIDE DEF r
  <2>4. Last(new) = r /\ Len(new) = Len(done) + 1
    BY <2>2, <2>3, AppendTokens DEF r
  <2> HIDE DEF new
  <2>5. ~(\A i \in 1..k : Ending(items[i]))
    BY <1>1, <1>7, <1>12
  <2>6. Len(new) <= k + 1 /\ Len(new) < k + 1
    BY <1>1, <1>4, <1>5, <1>6, <2>4, SMTT(30)
  <2>7. QED
    BY <1>1, <2>3, <2>4, <2>5, <2>6 DEF PartsAt, new, item, t, r
<1>13. QED
  BY <1>11, <1>12

LEMMA OneItem ==
    ASSUME NEW T, NEW item \in Seq(T), Guarded(item, Comma)
    PROVE  split_unescaped_commas(item) = <<item>>
<1> DEFINE none == << >>
           nothing == << >>
<1>1. none \in Seq(T) /\ nothing \in Seq(Seq(T)) /\ Then(none, item) = item
  BY DEF Then
<1>2. split_unescaped_commas(none) = Append(nothing, none)
  BY CommasNothing
<1>3. Append(nothing, item) = <<item>>
  OBVIOUS
<1> HIDE DEF none, nothing
<1>4. split_unescaped_commas(Then(none, item)) = Append(nothing, Then(none, item))
  BY <1>1, <1>2, GuardedBehind
<1>5. QED
  BY <1>1, <1>3, <1>4

LEMMA InterleavedParts ==
    ASSUME NEW T, Comma \in T, NEW items \in Pieces(T),
           \A i \in 1..Len(items) : items[i] # << >> /\ Guarded(items[i], Comma)
    PROVE  /\ Interleaved(items, Comma) \in Seq(T)
           /\ PartsAt(items, Len(items), split_unescaped_commas(Interleaved(items, Comma)))
<1> DEFINE n == Len(items)
           sep == <<Comma>>
<1>1. /\ items \in Seq(Seq(T)) /\ items # << >> /\ n \in Nat /\ n # 0 /\ sep \in Seq(T)
      /\ \A i \in 1..n : items[i] \in Seq(T)
  BY EmptySeq, ElementOfSeq DEF Pieces
<1>2. /\ Head(items) = items[1] /\ Len(Tail(items)) = n - 1
      /\ \A i \in 1..(n - 1) : Tail(items)[i] = items[i + 1]
  BY <1>1, HeadTailProperties
<1>3. Interleaved(items, Comma) = Joined(items, sep)
  BY <1>1 DEF Interleaved, Joined, FoldLeft, Comma
<1> HIDE DEF sep
<1>4. PICK g : Joins(g, T, items, sep)
  BY <1>1, JoinedSteps
<1> HIDE DEF n
<1>5. /\ g \in [0..(n - 1) -> Seq(T)] /\ g[0] = items[1] /\ g[n - 1] = Joined(items, sep)
      /\ \A k \in 1..(n - 1) : g[k] = Then(Then(g[k - 1], sep), items[k + 1])
  BY <1>2, <1>4 DEF PrefixValues, Joins
<1> DEFINE Done == {k \in Nat : PartsAt(items, k + 1, split_unescaped_commas(g[k]))}
<1>6. 0 \in Done
  <2> DEFINE item == items[1]
             parts == <<item>>
  <2>1. 1 \in 1..n
    BY <1>1
  <2>2. item \in Seq(T) /\ item # << >> /\ Guarded(item, Comma)
    BY <1>1, <2>1 DEF n
  <2> HIDE DEF item
  <2>3. split_unescaped_commas(item) = parts
    BY <2>2, OneItem
  <2>4. Last(parts) = item /\ Len(parts) = 1
    BY DEF Last
  <2>5. parts = Upto(items, 1)
    <3>1. Upto(items, 1) = Append(Upto(items, 1 - 1), items[1]) /\ Upto(items, 0) = << >>
      BY <1>1, <2>1, UptoGrows DEF n
    <3>2. Append(<< >>, item) = <<item>>
      OBVIOUS
    <3>3. 1 - 1 = 0
      OBVIOUS
    <3>4. QED
      BY <3>1, <3>2, <3>3 DEF item, parts
  <2> HIDE DEF parts
  <2>6. PartsAt(items, 1, parts)
    BY <2>2, <2>4, <2>5 DEF PartsAt, item
  <2>7. QED
    BY <1>5, <2>3, <2>6 DEF item
<1>7. ASSUME NEW k \in 1..(n - 1), k - 1 \in Done
      PROVE  k \in Done
  <2>1. k \in Nat /\ k - 1 \in 0..(n - 1) /\ k \in 1..n /\ k + 1 \in 1..n /\ (k - 1) + 1 = k
    BY <1>1
  <2> DEFINE s == g[k - 1]
  <2>2. s \in Seq(T)
    BY <1>5, <2>1
  <2>3. PartsAt(items, k, split_unescaped_commas(s))
    BY <1>7, <2>1
  <2> HIDE DEF s
  <2>4. /\ items[k] # << >> /\ items[k + 1] # << >> /\ Guarded(items[k + 1], Comma)
    BY <2>1 DEF n
  <2>5. Then(s, sep) = Append(s, Comma)
    BY <2>2, AppendIsConcat DEF Then, sep
  <2>6. PartsAt(items, k + 1, split_unescaped_commas(Then(Append(s, Comma), items[k + 1])))
    BY <1>1, <2>2, <2>3, <2>4, PartsStep DEF n
  <2>7. g[k] = Then(Append(s, Comma), items[k + 1])
    BY <1>5, <2>5 DEF s
  <2>8. PartsAt(items, k + 1, split_unescaped_commas(g[k]))
    BY <2>6, <2>7
  <2>9. QED
    BY <2>1, <2>8
<1> HIDE DEF Done
<1>8. n - 1 \in Nat /\ n - 1 \in 0..(n - 1) /\ (n - 1) + 1 = n
  BY <1>1
<1>9. \A k \in 0..(n - 1) : k \in Done
  BY <1>6, <1>7, <1>8, CountingUp
<1>10. PartsAt(items, n, split_unescaped_commas(g[n - 1])) /\ g[n - 1] \in Seq(T)
  BY <1>5, <1>8, <1>9 DEF Done
<1>11. QED
  BY <1>3, <1>5, <1>10 DEF n

-----------------------------------------------------------------------------
(***************************************************************************)
(* A block of variables.                                                   *)
(***************************************************************************)

Equals == "="

LEMMA ItemParts ==
    ASSUME NEW T, Equals \in T, NEW key \in Seq(T), Equals \notin Range(key), NEW w \in Seq(T),
           NEW item, item = Then(Append(key, Equals), w)
    PROVE  /\ item \in Seq(T) /\ item # << >>
           /\ Position(item, "=") # 0
           /\ Before(item, Position(item, "=")) = key
           /\ After(item, Position(item, "=")) = w
<1> DEFINE k == Len(key)
           r == Append(key, Equals)
<1>1. /\ k \in Nat /\ r \in Seq(T) /\ Len(r) = k + 1 /\ r[k + 1] = Equals
      /\ \A i \in 1..k : r[i] = key[i]
  BY AppendTokens
<1>2. \A i \in 1..k : key[i] \in T /\ key[i] # Equals
  BY DEF Range
<1> HIDE DEF r, k
<1>3. /\ item \in Seq(T) /\ Len(item) = (k + 1) + Len(w) /\ Len(w) \in Nat
      /\ item[k + 1] = Equals /\ \A i \in 1..k : item[i] = key[i]
      /\ \A i \in 1..Len(w) : item[(k + 1) + i] = w[i]
  <2>1. /\ item \in Seq(T) /\ Len(item) = Len(r) + Len(w) /\ Len(w) \in Nat
        /\ \A i \in 1..(Len(r) + Len(w)) : item[i] = IF i <= Len(r) THEN r[i] ELSE w[i - Len(r)]
    <3>1. item = Then(r, w)
      BY DEF r
    <3>2. /\ Then(r, w) \in Seq(T) /\ Len(Then(r, w)) = Len(r) + Len(w)
          /\ \A i \in 1..(Len(r) + Len(w)) : Then(r, w)[i] = IF i <= Len(r) THEN r[i] ELSE w[i - Len(r)]
      BY <1>1, ThenTokens
    <3>3. Len(w) \in Nat
      OBVIOUS
    <3>4. QED
      BY <3>1, <3>2, <3>3
  <2>2. \A i \in 1..(k + 1) : item[i] = r[i]
    BY <1>1, <2>1
  <2>3. \A i \in 1..Len(w) : item[(k + 1) + i] = w[i]
    BY <1>1, <2>1
  <2>4. QED
    BY <1>1, <2>1, <2>2, <2>3
<1>4. Position(item, "=") = k + 1
  <2> DEFINE I == {i \in 1..Len(item) : item[i] = Equals}
  <2>1. Position(item, "=") = IF I # {} THEN Min(I) ELSE 0
    BY DEF Position, SelectInSeq, Equals
  <2>2. k + 1 \in I /\ I \in SUBSET Nat /\ \A i \in I : ~(i \in 1..k)
    BY <1>1, <1>2, <1>3
  <2>3. Min(I) \in I /\ Min(I) <= k + 1
    BY <2>2, MinIsMember
  <2>4. Min(I) \in Nat /\ Min(I) # 0 /\ ~(Min(I) \in 1..k)
    BY <2>2, <2>3
  <2> HIDE DEF I
  <2>5. QED
    BY <1>1, <2>1, <2>2, <2>3, <2>4
<1>5. SubSeq(item, 1, k) = key
  <2>1. \A i \in 1..k : item[i] \in T
    BY <1>2, <1>3
  <2>2. /\ SubSeq(item, 1, k) \in Seq(T) /\ Len(SubSeq(item, 1, k)) = k
        /\ \A i \in 1..k : SubSeq(item, 1, k)[i] = item[i]
    BY <1>1, <2>1, SubSeqProperties
  <2>3. QED
    BY <1>3, <2>2, SeqEqual DEF k
<1>6. SubSeq(item, k + 2, Len(item)) = w
  <2> DEFINE n == Len(item)
  <2>1. n \in Int /\ k + 2 \in Int /\ n - (k + 2) + 1 = Len(w) /\ (k + 2 <= n <=> Len(w) # 0)
    BY <1>1, <1>3
  <2>2. \A i \in (k + 2)..n : item[i] \in T
    BY <1>1, <1>3, ElementOfSeq
  <2>3. /\ SubSeq(item, k + 2, n) \in Seq(T)
        /\ Len(SubSeq(item, k + 2, n)) = IF k + 2 <= n THEN n - (k + 2) + 1 ELSE 0
        /\ \A i \in 1..(n - (k + 2) + 1) : SubSeq(item, k + 2, n)[i] = item[(k + 2) + i - 1]
    BY <2>1, <2>2, SubSeqProperties
  <2>4. \A i \in 1..Len(w) : (k + 2) + i - 1 = (k + 1) + i
    BY <1>1
  <2> HIDE DEF n
  <2>5. Len(SubSeq(item, k + 2, n)) = Len(w) /\ \A i \in 1..Len(w) : SubSeq(item, k + 2, n)[i] = w[i]
    BY <1>3, <2>1, <2>3, <2>4
  <2>6. SubSeq(item, k + 2, n) = w
    BY <2>3, <2>5, SeqEqual
  <2>7. QED
    BY <2>6 DEF n
<1>7. item # << >> /\ k + 1 # 0 /\ (k + 1) - 1 = k /\ (k + 1) + 1 = k + 2
  <2>1. Len(item) # 0 /\ k + 1 # 0 /\ (k + 1) - 1 = k /\ (k + 1) + 1 = k + 2
    BY <1>1, <1>3
  <2>2. QED
    BY <1>3, <2>1, Ends
<1>8. QED
  BY <1>3, <1>4, <1>5, <1>6, <1>7 DEF Before, After

Pairs(T) == [key : Seq(T), value : Seq(T)]

Pair(k, v) == [key |-> k, value |-> v]

LEMMA InsertType ==
    ASSUME NEW T, NEW vars \in Seq(Pairs(T)), NEW k \in Seq(T), NEW v \in Seq(T)
    PROVE  /\ Insert(vars, k, v) \in Seq(Pairs(T)) /\ Len(Insert(vars, k, v)) <= Len(vars) + 1
           /\ (\A i \in 1..Len(vars) : vars[i].key # k) => Insert(vars, k, v) = Append(vars, Pair(k, v))
<1> DEFINE R == Pairs(T)
           x == [key |-> k, value |-> v]
           changed == [i \in DOMAIN vars |-> IF vars[i].key = k THEN x ELSE vars[i]]
<1>1. x \in R /\ Len(vars) \in Nat /\ DOMAIN vars = 1..Len(vars) /\ \A i \in 1..Len(vars) : vars[i] \in R
  <2>1. x \in R
    BY DEF Pairs
  <2> HIDE DEF x
  <2>2. Len(vars) \in Nat /\ DOMAIN vars = 1..Len(vars)
    BY Ends
  <2>3. \A i \in 1..Len(vars) : vars[i] \in R
    BY ElementOfSeq
  <2>4. QED
    BY <2>1, <2>2, <2>3
<1>2. Insert(vars, k, v) = IF \E i \in DOMAIN vars : vars[i].key = k THEN changed ELSE Append(vars, x)
  BY DEF Insert
<1> HIDE DEF x, R
<1>3. changed \in Seq(R) /\ Len(changed) = Len(vars)
  BY <1>1
<1>4. Append(vars, x) \in Seq(R) /\ Len(Append(vars, x)) = Len(vars) + 1
  BY <1>1, AppendTokens DEF R
<1>5. (\A i \in 1..Len(vars) : vars[i].key # k) => Insert(vars, k, v) = Append(vars, x)
  BY <1>1, <1>2
<1> HIDE DEF changed
<1>6. Insert(vars, k, v) \in {changed, Append(vars, x)}
  BY <1>2
<1> DEFINE r == Insert(vars, k, v)
<1> HIDE DEF r
<1>7. r \in Seq(R) /\ Len(r) <= Len(vars) + 1
  <2>1. Len(vars) <= Len(vars) + 1
    BY <1>1
  <2>2. CASE r = changed
    <3>1. Len(changed) <= Len(vars) + 1
      BY <1>3, <2>1
    <3>2. QED
      BY <1>3, <2>2, <3>1
  <2>3. CASE r = Append(vars, x)
    <3> DEFINE a == Append(vars, x)
    <3>1. a \in Seq(R) /\ Len(a) = Len(vars) + 1
      BY <1>4
    <3> HIDE DEF a
    <3>2. Len(a) <= Len(vars) + 1
      BY <1>1, <3>1
    <3>3. r = a
      BY <2>3 DEF a
    <3>4. QED
      BY <3>1, <3>2, <3>3
  <2>4. QED
    BY <1>6, <2>2, <2>3 DEF r
<1>8. QED
  BY <1>5, <1>7 DEF R, x, r, Pair

LEMMA UnescapeTypes ==
    ASSUME NEW T, NEW s \in Seq(T)
    PROVE  unescape_value(s) \in Seq(T)
<1> DEFINE u == Unquoted(s)
           t == Unescape(u, ",")
<1>1. u \in Seq(T)
  BY DEF Unquoted
<1> HIDE DEF u
<1>2. t \in Seq(T)
  <2>1. PICK g : Unescapes(g, T, u, ",")
    BY <1>1, UnescapeSteps
  <2>2. Len(u) \in 0..Len(u)
    BY <1>1, Ends
  <2>3. QED
    BY <2>1, <2>2 DEF Unescapes, PrefixValues
<1> HIDE DEF t
<1>3. Unescape(t, "'") \in Seq(T)
  <2>1. PICK g : Unescapes(g, T, t, "'")
    BY <1>2, UnescapeSteps
  <2>2. Len(t) \in 0..Len(t)
    BY <1>2, Ends
  <2>3. QED
    BY <2>1, <2>2 DEF Unescapes, PrefixValues
<1>4. QED
  BY <1>3 DEF unescape_value, t, u

\* A part of a block adds its variable.
TakePart(vars, part) ==
    Insert(vars, Before(part, Position(part, "=")), unescape_value(After(part, Position(part, "="))))

LEMMA TakeType ==
    ASSUME NEW T, NEW vars \in Seq(Pairs(T)), NEW part \in Seq(T)
    PROVE  TakePart(vars, part) \in Seq(Pairs(T)) /\ Len(TakePart(vars, part)) <= Len(vars) + 1
<1> DEFINE at == Position(part, "=")
           k == Before(part, at)
           v == unescape_value(After(part, at))
<1>1. at \in 0..Len(part)
  <2> DEFINE I == {i \in 1..Len(part) : part[i] = "="}
  <2>1. at = IF I # {} THEN Min(I) ELSE 0
    BY DEF Position, SelectInSeq
  <2>2. I # {} => Min(I) \in I
    <3>1. I \in SUBSET Nat
      OBVIOUS
    <3> HIDE DEF I
    <3>2. QED
      BY <3>1, MinIsMember
  <2>3. \A i \in I : i \in 0..Len(part)
    OBVIOUS
  <2>4. 0 \in 0..Len(part)
    BY Ends
  <2> HIDE DEF I, at
  <2>5. QED
    BY <2>1, <2>2, <2>3, <2>4
<1> HIDE DEF at
<1>2. k \in Seq(T) /\ After(part, at) \in Seq(T)
  <2>1. at \in Int /\ Len(part) \in Int /\ at - 1 \in Int /\ at + 1 \in Int /\ at - 1 <= Len(part) /\ 0 <= at
    BY <1>1
  <2>2. \A i \in 1..Len(part) : part[i] \in T
    BY ElementOfSeq
  <2>3. \A i \in 1..(at - 1) : part[i] \in T
    BY <2>1, <2>2
  <2>4. \A i \in (at + 1)..Len(part) : part[i] \in T
    BY <2>1, <2>2
  <2>5. QED
    BY <2>1, <2>3, <2>4, SubSeqProperties DEF Before, After
<1>3. v \in Seq(T)
  BY <1>2, UnescapeTypes
<1>4. TakePart(vars, part) = Insert(vars, k, v)
  BY DEF TakePart, at
<1> HIDE DEF k, v
<1>5. QED
  BY <1>2, <1>3, <1>4, InsertType

\* The variables of the parts of a block.
ReadBlock(parts) ==
    FoldLeft(LAMBDA vars, part :
               LET i == Position(part, "=")
               IN  Insert(vars, Before(part, i), unescape_value(After(part, i))),
             << >>, parts)

BlockReads(g, T, parts) ==
    /\ PrefixValues(g, Seq(Pairs(T)), parts, << >>, ReadBlock(parts))
    /\ \A k \in 1..Len(parts) : g[k] = TakePart(g[k - 1], parts[k])

LEMMA BlockSteps ==
    ASSUME NEW T, NEW parts \in Seq(Seq(T))
    PROVE  \E g : BlockReads(g, T, parts)
<1> DEFINE X == Seq(Pairs(T))
           Y == Seq(T)
           base == << >>
           n == Len(parts)
           step == [vars \in X |-> [part \in Y |-> TakePart(vars, part)]]
           Is(h) == h = [d \in SUBSET (DOMAIN parts) |-> IF d = {} THEN << >> ELSE
                           (LET i == Position(parts[Max(d)], "=")
                            IN  Insert(h[d \ {Max(d)}], Before(parts[Max(d)], i),
                                       unescape_value(After(parts[Max(d)], i))))]
           h == CHOOSE h : Is(h)
<1>1. n \in Nat /\ DOMAIN parts = 1..n /\ base \in X /\ parts \in Seq(Y)
  OBVIOUS
<1>2. /\ step \in [X -> [Y -> X]]
      /\ \A vars \in X, part \in Y : step[vars][part] = TakePart(vars, part)
  BY TakeType
<1>3. ReadBlock(parts) = h[DOMAIN parts]
  BY DEF ReadBlock, FoldLeft, MapThenFoldSet
<1> HIDE DEF Y
<1>4. PICK f \in [SUBSET (1..n) -> X] : Folded(f, parts, base, step, n)
  <2> HIDE DEF step, X, base
  <2>1. QED
    BY <1>1, <1>2, FoldExists
<1>5. ASSUME NEW d \in SUBSET (1..n), d # {}
      PROVE  step[f[d \ {Max(d)}]][parts[Max(d)]] = TakePart(f[d \ {Max(d)}], parts[Max(d)])
  <2>1. Max(d) \in 1..n
    BY <1>1, <1>5, MaxIsMember
  <2>2. parts[Max(d)] \in Y
    BY <1>1, <2>1, ElementOfSeq
  <2>3. f[d \ {Max(d)}] \in X
    <3>1. d \ {Max(d)} \in SUBSET (1..n)
      BY <1>5
    <3> HIDE DEF X, n
    <3>2. QED
      BY <1>4, <3>1
  <2> HIDE DEF X, step
  <2>4. QED
    BY <1>2, <2>2, <2>3
<1>6. Is(f)
  <2>1. f = [d \in SUBSET (1..n) |-> IF d = {} THEN base ELSE TakePart(f[d \ {Max(d)}], parts[Max(d)])]
    BY <1>4, <1>5 DEF Folded
  <2>2. QED
    BY <1>1, <2>1 DEF TakePart
<1>7. Is(h)
  BY <1>6
<1>8. h = [d \in SUBSET (1..n) |-> IF d = {} THEN base ELSE TakePart(h[d \ {Max(d)}], parts[Max(d)])]
  BY <1>1, <1>7 DEF TakePart
<1> HIDE DEF h, step, Is
<1>9. h[{}] = base
  BY <1>8
<1>10. ASSUME NEW k \in 1..n
       PROVE  h[1..k] = TakePart(h[1..(k - 1)], parts[k])
  <2>1. k \in Nat \ {0} /\ 1..k \in SUBSET (1..n) /\ 1..k # {}
    <3> HIDE DEF n, base
    <3>1. k \in Nat \ {0} /\ k <= n /\ k \in 1..k
      BY <1>1
    <3>2. \A i \in 1..k : i \in 1..n
      BY <1>1, <3>1
    <3>3. QED
      BY <3>1, <3>2
  <2>2. Max(1..k) = k /\ (1..k) \ {k} = 1..(k - 1)
    BY <2>1, MaxOfPrefix
  <2>3. QED
    BY <1>8, <2>1, <2>2
<1>11. \A k \in 0..n : h[1..k] \in X
  <2>1. \A k \in 1..n : h[1..(k - 1)] \in X => h[1..k] \in X
    <3>1. \A k \in 1..n : parts[k] \in Y
      BY <1>1, ElementOfSeq
    <3>2. \A vars \in X, part \in Y : TakePart(vars, part) \in X
      BY TakeType DEF Y
    <3> HIDE DEF X
    <3>3. QED
      BY <1>10, <3>1, <3>2
  <2> HIDE DEF X
  <2>2. QED
    BY <1>1, <1>9, <2>1, PrefixTypes
<1> DEFINE g == [k \in 0..n |-> h[1..k]]
<1>12. g \in [0..n -> X] /\ g[0] = base /\ g[n] = ReadBlock(parts)
  <2>1. 1..0 = {}
    OBVIOUS
  <2> HIDE DEF X
  <2>2. QED
    BY <1>1, <1>3, <1>9, <1>11, <2>1
<1>13. \A k \in 1..n : g[k] = TakePart(g[k - 1], parts[k])
  <2>1. \A k \in 1..n : k \in 0..n /\ k - 1 \in 0..n
    BY <1>1
  <2>2. QED
    BY <1>10, <2>1
<1>14. QED
  BY <1>12, <1>13 DEF PrefixValues, BlockReads

\* Parsing gives no more variables than parts.
LEMMA BlockLength ==
    ASSUME NEW T, NEW parts \in Seq(Seq(T))
    PROVE  ReadBlock(parts) \in Seq(Pairs(T)) /\ Len(ReadBlock(parts)) <= Len(parts)
<1> DEFINE n == Len(parts)
           X == Seq(Pairs(T))
<1>1. PICK g : BlockReads(g, T, parts)
  BY BlockSteps
<1>2. n \in Nat /\ \A k \in 1..n : parts[k] \in Seq(T)
  BY ElementOfSeq
<1>3. /\ g \in [0..n -> X] /\ g[0] = << >> /\ g[n] = ReadBlock(parts)
      /\ \A k \in 1..n : g[k] = TakePart(g[k - 1], parts[k])
  BY <1>1 DEF BlockReads, PrefixValues
<1> HIDE DEF n
<1> DEFINE Done == {k \in Nat : Len(g[k]) <= k}
<1>4. 0 \in Done
  BY <1>3
<1>5. ASSUME NEW k \in 1..n, k - 1 \in Done
      PROVE  k \in Done
  <2> DEFINE u == g[k - 1]
  <2>1. k \in Nat /\ k - 1 \in 0..n
    BY <1>2
  <2>2. u \in Seq(Pairs(T)) /\ Len(u) \in Nat /\ Len(u) <= k - 1
    <3>1. u \in X
      BY <1>3, <2>1
    <3>2. Len(u) <= k - 1
      BY <1>5
    <3>3. QED
      BY <3>1, <3>2, Ends
  <2>3. g[k] = TakePart(u, parts[k])
    BY <1>3
  <2> HIDE DEF u
  <2>4. TakePart(u, parts[k]) \in Seq(Pairs(T)) /\ Len(TakePart(u, parts[k])) <= Len(u) + 1
    BY <1>2, <2>2, TakeType
  <2> DEFINE t == TakePart(u, parts[k])
  <2>5. Len(t) \in Nat /\ Len(t) <= Len(u) + 1
    <3>1. t \in Seq(Pairs(T))
      BY <2>4
    <3>2. Len(t) <= Len(u) + 1
      BY <2>4
    <3> HIDE DEF t
    <3>3. QED
      BY <3>1, <3>2, Ends
  <2> HIDE DEF t
  <2>6. Len(t) <= k
    BY <2>1, <2>2, <2>5
  <2>7. Len(g[k]) <= k
    BY <2>3, <2>6 DEF t
  <2>8. QED
    BY <2>1, <2>7
<1> HIDE DEF Done
<1>6. \A k \in 0..n : k \in Done
  BY <1>2, <1>4, <1>5, CountingUp
<1>7. n \in 0..n
  BY <1>2
<1>8. QED
  BY <1>3, <1>6, <1>7 DEF Done, n

Marked(T) == Backslash \in T /\ Quote \in T /\ Comma \in T /\ Equals \in T

\* A value that ends in a backslash and is not quoted.
Swallows(v) == v # << >> /\ Last(v) = Backslash /\ ~Contains(v, Space)

KeyIn(T, key) == key \in Seq(T) /\ Equals \notin Range(key) /\ Comma \notin Range(key)

VariableItem(key, v) == key \o <<"=">> \o escape_value(v)

\* What a variable's text is: it comes back from a part, all its commas have a
\* backslash before them, and it swallows the comma behind it if its value does.
LEMMA ItemComesBack ==
    ASSUME NEW T, Marked(T), NEW key, KeyIn(T, key), NEW v \in Seq(T),
           NEW item, item = VariableItem(key, v)
    PROVE  /\ item \in Seq(T) /\ item # << >> /\ Guarded(item, Comma)
           /\ Ending(item) <=> ~Swallows(v)
           /\ Position(item, "=") # 0
           /\ \A vars \in Seq(Pairs(T)) :
                  (\A i \in 1..Len(vars) : vars[i].key # key) =>
                      TakePart(vars, item) = Append(vars, Pair(key, v))
<1> DEFINE e == escape_value(v)
           r == Append(key, Equals)
           k == Len(key)
<1>1. key \in Seq(T) /\ Equals \notin Range(key) /\ Comma \notin Range(key)
  BY DEF KeyIn
<1>2. Backslash \in T /\ Quote \in T /\ Comma \in T /\ Equals \in T
  BY DEF Marked
<1>3. /\ e \in Seq(T) /\ unescape_value(e) = v /\ Guarded(e, Comma)
      /\ e = << >> <=> v = << >>
      /\ v # << >> => (Last(e) = Backslash <=> Last(v) = Backslash /\ ~Contains(v, Space))
  BY <1>2, ValueComesBack
<1>4. Comma # Equals /\ Backslash # Equals
  BY DEF Comma, Equals, Backslash
<1>5. item = Then(r, e)
  <2>1. key \o <<Equals>> = r
    BY <1>1, <1>2, AppendIsConcat
  <2>2. item = key \o <<Equals>> \o e
    BY DEF VariableItem, Equals
  <2>3. QED
    BY <2>1, <2>2 DEF Then
<1> HIDE DEF e
<1>6. /\ k \in Nat /\ r \in Seq(T) /\ r # << >> /\ Len(r) = k + 1 /\ r[k + 1] = Equals /\ Last(r) = Equals
      /\ \A i \in 1..k : r[i] = key[i]
  BY <1>1, <1>2, AppendTokens
<1>7. /\ item \in Seq(T) /\ item # << >> /\ Position(item, "=") # 0
      /\ Before(item, Position(item, "=")) = key /\ After(item, Position(item, "=")) = e
  BY <1>1, <1>2, <1>3, <1>5, ItemParts
<1>8. \A i \in 1..(k + 1) : r[i] # Comma
  <2>1. \A i \in 1..k : key[i] # Comma
    BY <1>1 DEF Range
  <2>2. \A i \in 1..(k + 1) : i = k + 1 \/ i \in 1..k
    BY <1>6
  <2>3. QED
    BY <1>4, <1>6, <2>1, <2>2
<1> HIDE DEF r, k
<1>9. /\ Len(item) = (k + 1) + Len(e) /\ Len(e) \in Nat
      /\ \A i \in 1..((k + 1) + Len(e)) : item[i] = IF i <= k + 1 THEN r[i] ELSE e[i - (k + 1)]
  <2>1. /\ Len(item) = Len(r) + Len(e)
        /\ \A i \in 1..(Len(r) + Len(e)) : item[i] = IF i <= Len(r) THEN r[i] ELSE e[i - Len(r)]
    <3>1. /\ Len(Then(r, e)) = Len(r) + Len(e)
          /\ \A i \in 1..(Len(r) + Len(e)) :
                 Then(r, e)[i] = IF i <= Len(r) THEN r[i] ELSE e[i - Len(r)]
      BY <1>3, <1>6, ThenTokens
    <3>2. QED
      BY <1>5, <3>1
  <2>2. Len(e) \in Nat
    BY <1>3, Ends
  <2>3. QED
    BY <1>6, <2>1, <2>2
<1>10. Guarded(item, Comma)
  <2>1. ASSUME NEW i \in 1..((k + 1) + Len(e)), item[i] = Comma
        PROVE  i > 1 /\ item[i - 1] = Backslash
    <3> DEFINE j == i - (k + 1)
               h == j - 1
    <3>1. ~(i <= k + 1)
      BY <1>6, <1>8, <1>9, <2>1
    <3>2. j \in 1..Len(e) /\ e[j] = Comma
      BY <1>6, <1>9, <2>1, <3>1
    <3>3. j > 1 /\ e[h] = Backslash
      BY <1>3, <3>2 DEF Guarded
    <3>4. /\ i - 1 \in 1..((k + 1) + Len(e)) /\ ~(i - 1 <= k + 1) /\ (i - 1) - (k + 1) = h /\ i > 1
      BY <1>6, <1>9, <3>2, <3>3
    <3> HIDE DEF h
    <3>5. item[i - 1] = e[h]
      BY <1>9, <3>4
    <3>6. QED
      BY <3>3, <3>4, <3>5
  <2>2. QED
    BY <1>9, <2>1 DEF Guarded
<1>11. Ending(item) <=> ~Swallows(v)
  <2>1. CASE v = << >>
    <3>1. Len(e) = 0
      BY <1>3, <2>1, Ends
    <3>2. Len(item) = k + 1 /\ item[k + 1] = Equals
      BY <1>6, <1>9, <3>1
    <3>3. Last(item) = Equals
      BY <1>7, <3>2, Ends
    <3>4. QED
      BY <1>4, <1>7, <2>1, <3>3 DEF Ending, Swallows
  <2>2. CASE v # << >>
    <3>1. Last(item) = Last(e)
      BY <1>3, <1>5, <1>6, <2>2, LastOfThen
    <3>2. QED
      BY <1>3, <1>7, <2>2, <3>1 DEF Ending, Swallows
  <2>3. QED
    BY <2>1, <2>2
<1>12. ASSUME NEW vars \in Seq(Pairs(T)), \A i \in 1..Len(vars) : vars[i].key # key
       PROVE  TakePart(vars, item) = Append(vars, Pair(key, v))
  <2>1. TakePart(vars, item) = Insert(vars, key, v)
    BY <1>3, <1>7 DEF TakePart
  <2>2. QED
    BY <1>1, <1>12, <2>1, InsertType
<1>13. QED
  BY <1>7, <1>10, <1>11, <1>12

\* Variables with one value for each key.
Variables(T) ==
    {vars \in Seq(Pairs(T)) :
       /\ \A i \in 1..Len(vars) : KeyIn(T, vars[i].key)
       /\ \A i, j \in 1..Len(vars) : vars[i].key = vars[j].key => i = j}

ItemsOf(vars) == [i \in DOMAIN vars |-> VariableItem(vars[i].key, vars[i].value)]

\* There is a value in front of another that swallows the comma behind it.
Swallowing(vars) == \E i \in 1..(Len(vars) - 1) : Swallows(vars[i].value)

LEMMA ItemsAre ==
    ASSUME NEW T, Marked(T), NEW vars \in Variables(T)
    PROVE  /\ ItemsOf(vars) \in Seq(Seq(T)) /\ Len(ItemsOf(vars)) = Len(vars) /\ Len(vars) \in Nat
           /\ \A i \in 1..Len(vars) :
                  /\ ItemsOf(vars)[i] # << >> /\ Guarded(ItemsOf(vars)[i], Comma)
                  /\ Ending(ItemsOf(vars)[i]) <=> ~Swallows(vars[i].value)
                  /\ Position(ItemsOf(vars)[i], "=") # 0
                  /\ \A u \in Seq(Pairs(T)) :
                         (\A j \in 1..Len(u) : u[j].key # vars[i].key) =>
                             TakePart(u, ItemsOf(vars)[i]) = Append(u, vars[i])
<1> DEFINE items == ItemsOf(vars)
           n == Len(vars)
<1>1. /\ vars \in Seq(Pairs(T)) /\ n \in Nat /\ DOMAIN vars = 1..n
      /\ \A i \in 1..n : KeyIn(T, vars[i].key)
  BY DEF Variables
<1>2. ASSUME NEW i \in 1..n
      PROVE  /\ vars[i].key \in Seq(T) /\ vars[i].value \in Seq(T)
             /\ Pair(vars[i].key, vars[i].value) = vars[i]
  <2>1. vars[i] \in Pairs(T)
    BY <1>1, ElementOfSeq
  <2>2. QED
    BY <2>1 DEF Pairs, Pair
<1> HIDE DEF n
<1>3. items = [i \in 1..n |-> VariableItem(vars[i].key, vars[i].value)]
  BY <1>1 DEF ItemsOf
<1>4. ASSUME NEW i \in 1..n
      PROVE  /\ items[i] \in Seq(T)
             /\ items[i] # << >> /\ Guarded(items[i], Comma)
             /\ Ending(items[i]) <=> ~Swallows(vars[i].value)
             /\ Position(items[i], "=") # 0
             /\ \A u \in Seq(Pairs(T)) :
                    (\A j \in 1..Len(u) : u[j].key # vars[i].key) =>
                        TakePart(u, items[i]) = Append(u, vars[i])
  <2> DEFINE item == items[i]
             key == vars[i].key
             v == vars[i].value
  <2>1. item = VariableItem(key, v) /\ KeyIn(T, key) /\ v \in Seq(T)
    BY <1>1, <1>2, <1>3
  <2>2. Pair(key, v) = vars[i]
    BY <1>2
  <2> HIDE DEF item, key, v
  <2>3. /\ item \in Seq(T) /\ item # << >> /\ Guarded(item, Comma)
        /\ Ending(item) <=> ~Swallows(v)
        /\ Position(item, "=") # 0
        /\ \A u \in Seq(Pairs(T)) :
               (\A j \in 1..Len(u) : u[j].key # key) => TakePart(u, item) = Append(u, Pair(key, v))
    BY <2>1, ItemComesBack
  <2>4. QED
    BY <2>2, <2>3 DEF item, key, v
<1> HIDE DEF items
<1>5. items \in Seq(Seq(T)) /\ Len(items) = n
  BY <1>1, <1>3, <1>4
<1>6. QED
  BY <1>1, <1>4, <1>5 DEF items, n

LEMMA BlockComesBack ==
    ASSUME NEW T, Marked(T), NEW vars \in Variables(T)
    PROVE  ReadBlock(ItemsOf(vars)) = vars
<1> DEFINE items == ItemsOf(vars)
           n == Len(vars)
<1>1. /\ items \in Seq(Seq(T)) /\ Len(items) = n /\ n \in Nat
      /\ \A i \in 1..n : \A u \in Seq(Pairs(T)) :
             (\A j \in 1..Len(u) : u[j].key # vars[i].key) => TakePart(u, items[i]) = Append(u, vars[i])
  BY ItemsAre
<1>2. vars \in Seq(Pairs(T)) /\ \A i, j \in 1..n : vars[i].key = vars[j].key => i = j
  BY DEF Variables
<1> HIDE DEF items
<1>3. PICK g : BlockReads(g, T, items)
  BY <1>1, BlockSteps
<1>4. /\ g[0] = << >> /\ g[n] = ReadBlock(items)
      /\ \A k \in 1..n : g[k] = TakePart(g[k - 1], items[k])
  BY <1>1, <1>3 DEF BlockReads, PrefixValues
<1> DEFINE Done == {k \in Nat : g[k] = Upto(vars, k)}
<1>5. 0 \in Done
  BY <1>2, <1>4, UptoGrows
<1>6. ASSUME NEW k \in 1..n, k - 1 \in Done
      PROVE  k \in Done
  <2> DEFINE u == Upto(vars, k - 1)
  <2>1. k \in Nat /\ k - 1 \in 0..n /\ \A j \in 1..(k - 1) : j \in 1..n /\ j # k
    BY <1>1
  <2>2. u \in Seq(Pairs(T)) /\ Len(u) = k - 1 /\ \A j \in 1..(k - 1) : u[j] = vars[j]
    BY <1>2, <2>1, UptoGrows
  <2>3. Upto(vars, k) = Append(u, vars[k])
    BY <1>2, UptoGrows
  <2>4. g[k] = TakePart(u, items[k])
    BY <1>4, <1>6
  <2> HIDE DEF u
  <2>5. \A j \in 1..Len(u) : u[j].key # vars[k].key
    BY <1>2, <2>1, <2>2
  <2>6. TakePart(u, items[k]) = Append(u, vars[k])
    BY <1>1, <2>2, <2>5
  <2>7. QED
    BY <2>1, <2>3, <2>4, <2>6
<1> HIDE DEF Done
<1>7. \A k \in 0..n : k \in Done
  BY <1>1, <1>5, <1>6, CountingUp
<1>8. g[n] = Upto(vars, n)
  BY <1>1, <1>7 DEF Done
<1>9. QED
  BY <1>2, <1>4, <1>8, UptoGrows DEF items

LEMMA PartsOfBlock ==
    ASSUME NEW T, Marked(T), NEW vars \in Variables(T), vars # << >>,
           NEW inner, inner = Interleaved(ItemsOf(vars), Comma)
    PROVE  /\ inner \in Seq(T)
           /\ split_unescaped_commas(inner) \in Seq(Seq(T))
           /\ ~Swallowing(vars) => split_unescaped_commas(inner) = ItemsOf(vars)
           /\ Swallowing(vars) => Len(split_unescaped_commas(inner)) < Len(vars)
<1> DEFINE items == ItemsOf(vars)
           n == Len(vars)
           parts == split_unescaped_commas(inner)
<1>1. /\ items \in Seq(Seq(T)) /\ Len(items) = n /\ n \in Nat
      /\ \A i \in 1..n : items[i] # << >> /\ Guarded(items[i], Comma)
      /\ \A i \in 1..n : Ending(items[i]) <=> ~Swallows(vars[i].value)
  BY ItemsAre
<1>2. n # 0 /\ Comma \in T
  <2>1. vars \in Seq(Pairs(T))
    BY DEF Variables
  <2>2. QED
    BY <2>1, Ends DEF Marked
<1> HIDE DEF items, n
<1>3. items \in Pieces(T)
  <2>1. items # << >>
    BY <1>1, <1>2
  <2>2. QED
    BY <1>1, <2>1 DEF Pieces
<1>4. inner \in Seq(T) /\ PartsAt(items, n, parts)
  BY <1>1, <1>2, <1>3, InterleavedParts DEF items
<1>5. parts \in Seq(Seq(T))
  BY <1>4, CommasAppend DEF Pieces
<1>6. \A i \in 1..(n - 1) : i \in 1..n
  BY <1>1
<1>7. Swallowing(vars) <=> \E i \in 1..(n - 1) : ~Ending(items[i])
  BY <1>1, <1>6 DEF Swallowing, n
<1>8. Upto(items, n) = items
  BY <1>1, UptoGrows
<1>9. QED
  BY <1>4, <1>5, <1>7, <1>8 DEF PartsAt, items, n

LEMMA TrimmedText ==
    ASSUME NEW T, NEW s \in Seq(T), s # << >>, s[1] # Space, Last(s) # Space
    PROVE  Trimmed(s) = s
<1> DEFINE n == Len(s)
<1>1. n \in Nat /\ 1 \in 1..n /\ n \in 1..n /\ Last(s) = s[n]
  BY Ends
<1> DEFINE S == Solid(s)
<1>2. S \in SUBSET (1..n) /\ S \in SUBSET Nat /\ 1 \in S /\ n \in S
  <2>1. S = {i \in 1..n : s[i] # Space}
    BY DEF Solid, Space
  <2> HIDE DEF S, n
  <2>2. QED
    BY <1>1, <2>1
<1> HIDE DEF S, n
<1>3. Min(S) \in S /\ Min(S) <= 1
  BY <1>2, MinIsMember
<1>4. Max(S) \in S /\ n <= Max(S)
  BY <1>1, <1>2, MaxIsMember
<1>5. Min(S) = 1 /\ Max(S) = n
  <2>1. Min(S) \in 1..n /\ Max(S) \in 1..n
    BY <1>2, <1>3, <1>4
  <2>2. QED
    BY <1>1, <1>3, <1>4, <2>1
<1>6. SubSeq(s, 1, n) = s
  BY SubSeqFull DEF n
<1>7. QED
  BY <1>2, <1>5, <1>6 DEF Trimmed, S

Opening(t) == Delimiters[t][1]
Closing(t) == Delimiters[t][2]

LEMMA DelimitersDiffer ==
    /\ \A t \in DOMAIN Delimiters : Opening(t) # Space /\ Closing(t) # Space
    /\ \A t, u \in DOMAIN Delimiters : Opening(t) = Opening(u) => t = u
<1> DEFINE less == "<"
           greater == ">"
           open == "{"
           close == "}"
           left == "["
           right == "]"
           e == "Enterprise"
           d == "Default"
           c == "Channel"
<1>1. /\ less # Space /\ greater # Space /\ open # Space /\ close # Space
      /\ left # Space /\ right # Space
      /\ less # open /\ less # left /\ open # left
  BY DEF Space
<1> HIDE DEF less, greater, open, close, left, right
<1>2. Delimiters = [Enterprise |-> <<less, greater>>, Default |-> <<open, close>>,
                    Channel |-> <<left, right>>]
  BY DEF Delimiters, less, greater, open, close, left, right
<1>3. /\ DOMAIN Delimiters = {e, d, c}
      /\ Delimiters[e] = <<less, greater>>
      /\ Delimiters[d] = <<open, close>>
      /\ Delimiters[c] = <<left, right>>
  BY <1>2
<1> HIDE DEF e, d, c
<1>4. /\ Opening(e) = less /\ Closing(e) = greater
      /\ Opening(d) = open /\ Closing(d) = close
      /\ Opening(c) = left /\ Closing(c) = right
  BY <1>3 DEF Opening, Closing
<1>5. QED
  BY <1>1, <1>3, <1>4

Block(type, vars) == [type |-> type, vars |-> vars]

LEMMA ParsedText ==
    ASSUME NEW T, NEW type \in DOMAIN Delimiters, Opening(type) \in T, Closing(type) \in T,
           NEW inner \in Seq(T), NEW text, text = Enclosed(Opening(type), inner, Closing(type)),
           NEW parts, parts = split_unescaped_commas(inner)
    PROVE  ParseVariables(text) =
               IF \E i \in DOMAIN parts : Position(parts[i], "=") = 0 THEN << >>
               ELSE <<Block(type, ReadBlock(parts))>>
<1> DEFINE a == Opening(type)
           z == Closing(type)
           types == {t \in DOMAIN Delimiters : text[1] = Delimiters[t][1] /\ Last(text) = Delimiters[t][2]}
<1>1. /\ text \in Seq(T) /\ Len(text) = Len(inner) + 2 /\ Len(inner) \in Nat
      /\ text[1] = a /\ text[Len(inner) + 2] = z
      /\ SubSeq(text, 2, Len(inner) + 1) = inner
  <2> DEFINE q == Enclosed(a, inner, z)
  <2>1. a \in T /\ z \in T
    OBVIOUS
  <2> HIDE DEF a, z
  <2>2. /\ q \in Seq(T) /\ Len(q) = Len(inner) + 2 /\ Len(inner) \in Nat
        /\ q[1] = a /\ q[Len(inner) + 2] = z
        /\ SubSeq(q, 2, Len(inner) + 1) = inner
    BY <2>1, EnclosedText
  <2>3. text = q
    BY DEF a, z
  <2>4. QED
    BY <2>2, <2>3
<1>2. a # Space /\ z # Space
  BY DelimitersDiffer
<1>3. /\ ~(Len(text) < 2) /\ Len(text) - 1 = Len(inner) + 1 /\ Last(text) = z /\ text # << >>
  <2>1. ~(Len(text) < 2) /\ Len(text) - 1 = Len(inner) + 1 /\ Len(text) # 0
    BY <1>1
  <2>2. text # << >>
    BY <1>1, <2>1, Ends
  <2>3. QED
    BY <1>1, <2>1, <2>2, Ends
<1>4. Trimmed(text) = text
  BY <1>1, <1>2, <1>3, TrimmedText
<1>5. types = {type}
  <2>1. \A t \in DOMAIN Delimiters : Delimiters[t][1] = Opening(t) /\ Delimiters[t][2] = Closing(t)
    BY DEF Opening, Closing
  <2>2. type \in types
    BY <1>1, <1>3, <2>1
  <2>3. \A t \in types : t = type
    BY <1>1, <2>1, DelimitersDiffer
  <2>4. QED
    BY <2>2, <2>3
<1>6. types # {} /\ (CHOOSE t \in types : TRUE) = type
  BY <1>5
<1>7. SubSeq(text, 2, Len(text) - 1) = inner
  BY <1>1, <1>3
<1> HIDE DEF a, z, types
<1>8. ParseVariables(text) =
          IF Len(text) < 2 \/ types = {} \/ \E i \in DOMAIN parts : Position(parts[i], "=") = 0
            THEN << >>
            ELSE <<Block(CHOOSE t \in types : TRUE, ReadBlock(parts))>>
  <2> DEFINE Types(s) == {t \in DOMAIN Delimiters : s[1] = Delimiters[t][1] /\ Last(s) = Delimiters[t][2]}
             Parts(s) == split_unescaped_commas(SubSeq(s, 2, Len(s) - 1))
             Read(s) == IF Len(s) < 2 \/ Types(s) = {} \/ \E i \in DOMAIN Parts(s) : Position(Parts(s)[i], "=") = 0
                          THEN << >>
                          ELSE <<Block(CHOOSE t \in Types(s) : TRUE, ReadBlock(Parts(s)))>>
  <2>1. ParseVariables(text) = Read(Trimmed(text))
    BY DEF ParseVariables, ReadBlock, Block
  <2>2. Read(Trimmed(text)) = Read(text)
    BY <1>4
  <2>3. Types(text) = types /\ Parts(text) = parts
    BY <1>7 DEF types
  <2> HIDE DEF Types, Parts
  <2>4. QED
    BY <2>1, <2>2, <2>3
<1>9. QED
  BY <1>3, <1>6, <1>8

LEMMA EmptyBlock ==
    ASSUME NEW parts, parts = << << >> >>
    PROVE  \E i \in DOMAIN parts : Position(parts[i], "=") = 0
<1>1. 1 \in DOMAIN parts /\ parts[1] = << >>
  OBVIOUS
<1>2. Position(<< >>, "=") = 0
  BY DEF Position, SelectInSeq
<1>3. QED
  BY <1>1, <1>2

\* A block of variables, parsed, is the block, but for an empty one and one in
\* which a comma is swallowed.
LEMMA BlockReturns ==
    ASSUME NEW T, Marked(T), NEW type \in DOMAIN Delimiters, Opening(type) \in T, Closing(type) \in T,
           NEW vars \in Variables(T)
    PROVE  ParseVariables(VariablesText(type, vars)) = <<Block(type, vars)>>
             <=> vars # << >> /\ ~Swallowing(vars)
<1> DEFINE inner == Interleaved(ItemsOf(vars), Comma)
           text == VariablesText(type, vars)
           parts == split_unescaped_commas(inner)
           none == << >>
           good == <<Block(type, vars)>>
<1>1. text = Enclosed(Opening(type), inner, Closing(type))
  BY DEF VariablesText, Enclosed, Opening, Closing, ItemsOf, VariableItem, Comma
<1>2. none # good
  OBVIOUS
<1>3. vars \in Seq(Pairs(T)) /\ Len(vars) \in Nat
  BY DEF Variables
<1> HIDE DEF text, none, good
<1>4. CASE vars = << >>
  <2>1. inner = << >>
    <3>1. ItemsOf(vars) \in Seq(Seq(T)) /\ Len(ItemsOf(vars)) = Len(vars) /\ Len(vars) = 0
      BY <1>4, ItemsAre
    <3>2. ItemsOf(vars) = << >>
      BY <3>1, Ends
    <3>3. QED
      BY <3>2 DEF Interleaved
  <2>2. inner \in Seq(T)
    BY <2>1
  <2>3. parts = << << >> >>
    BY <2>1, CommasNothing
  <2> HIDE DEF inner, parts
  <2>4. ParseVariables(text) = none
    BY <1>1, <2>2, <2>3, EmptyBlock, ParsedText DEF none, parts
  <2>5. QED
    BY <1>2, <1>4, <2>4 DEF text, good
<1>5. CASE vars # << >>
  <2>1. /\ inner \in Seq(T) /\ parts \in Seq(Seq(T))
        /\ ~Swallowing(vars) => parts = ItemsOf(vars)
        /\ Swallowing(vars) => Len(parts) < Len(vars)
    BY <1>5, PartsOfBlock
  <2> HIDE DEF inner
  <2>2. ParseVariables(text) = IF \E i \in DOMAIN parts : Position(parts[i], "=") = 0 THEN none
                               ELSE <<Block(type, ReadBlock(parts))>>
    BY <1>1, <2>1, ParsedText DEF none
  <2> HIDE DEF parts
  <2>3. CASE ~Swallowing(vars)
    <3>1. parts = ItemsOf(vars) /\ ReadBlock(parts) = vars
      BY <2>1, <2>3, BlockComesBack
    <3>2. \A i \in DOMAIN parts : Position(parts[i], "=") # 0
      <4>1. DOMAIN parts = 1..Len(vars)
        BY <2>1, <3>1, ItemsAre
      <4>2. QED
        BY <3>1, <4>1, ItemsAre
    <3>3. ParseVariables(text) = good
      BY <2>2, <3>1, <3>2 DEF good
    <3>4. QED
      BY <1>5, <2>3, <3>3 DEF text, good
  <2>4. CASE Swallowing(vars)
    <3> DEFINE u == ReadBlock(parts)
    <3>1. u \in Seq(Pairs(T)) /\ Len(u) <= Len(parts)
      BY <2>1, BlockLength
    <3>2. Len(parts) \in Nat /\ Len(u) \in Nat
      BY <2>1, <3>1, Ends
    <3> HIDE DEF u
    <3>3. u # vars
      BY <1>3, <2>1, <2>4, <3>1, <3>2
    <3>4. <<Block(type, u)>> # good
      BY <3>3 DEF good, Block
    <3>5. ParseVariables(text) # good
      BY <1>2, <2>2, <3>4 DEF u
    <3>6. QED
      BY <2>4, <3>5 DEF text, good
  <2>5. QED
    BY <2>3, <2>4
<1>6. QED
  BY <1>4, <1>5

-----------------------------------------------------------------------------
(***************************************************************************)
(* The Originate the application builds.                                   *)
(***************************************************************************)

KeysDiffer(vars) == \A i, j \in DOMAIN vars : vars[i].key = vars[j].key => i = j

LEMMA InsertKeeps ==
    ASSUME NEW vars \in Seq(Variable), KeysDiffer(vars), NEW k \in Keys, NEW v \in VarValues
    PROVE  Insert(vars, k, v) \in Seq(Variable) /\ KeysDiffer(Insert(vars, k, v))
<1> DEFINE R == Variable
           x == [key |-> k, value |-> v]
           n == Len(vars)
           changed == [i \in DOMAIN vars |-> IF vars[i].key = k THEN x ELSE vars[i]]
           more == Append(vars, x)
<1>1. x \in R /\ x.key = k
  BY DEF Variable
<1>2. Insert(vars, k, v) = IF \E i \in DOMAIN vars : vars[i].key = k THEN changed ELSE more
  BY DEF Insert
<1> HIDE DEF x, R
<1>3. n \in Nat /\ DOMAIN vars = 1..n /\ \A i \in 1..n : vars[i] \in R
  BY Ends, ElementOfSeq DEF R
<1> HIDE DEF n
<1>4. CASE \E i \in DOMAIN vars : vars[i].key = k
  <2>1. changed \in Seq(R) /\ DOMAIN changed = DOMAIN vars
    BY <1>1, <1>3
  <2>2. \A i \in DOMAIN vars : changed[i].key = vars[i].key
    BY <1>1
  <2> HIDE DEF changed
  <2>3. KeysDiffer(changed)
    BY <2>1, <2>2 DEF KeysDiffer
  <2>4. QED
    BY <1>2, <1>4, <2>1, <2>3 DEF R
<1>5. CASE ~\E i \in DOMAIN vars : vars[i].key = k
  <2>1. /\ more \in Seq(R) /\ Len(more) = n + 1 /\ more[n + 1] = x
        /\ \A i \in 1..n : more[i] = vars[i]
    BY <1>1, AppendTokens DEF R, n
  <2> HIDE DEF more
  <2>2. DOMAIN more = 1..(n + 1) /\ \A i \in 1..(n + 1) : i = n + 1 \/ i \in 1..n
    BY <1>3, <2>1
  <2>3. \A i \in 1..n : more[i].key # k /\ more[i].key = vars[i].key
    BY <1>3, <1>5, <2>1
  <2>4. more[n + 1].key = k
    BY <1>1, <2>1
  <2>5. \A i, j \in 1..n : vars[i].key = vars[j].key => i = j
    BY <1>3 DEF KeysDiffer
  <2>6. KeysDiffer(more)
    BY <2>2, <2>3, <2>4, <2>5 DEF KeysDiffer
  <2>7. QED
    BY <1>2, <1>5, <2>1, <2>6 DEF R
<1>6. QED
  BY <1>4, <1>5

Endpoints == [scope : DOMAIN Delimiters, vars : Seq(Variable), path : Paths]

Originates ==
    [endpoint : Endpoints, apps : Seq(Application \cup {Park}), dialplan : Optional({XML, Inline}),
     context : Optional(Contexts), cid_name : Optional(Contexts),
     cid_num : Optional({<<n>> : n \in Numbers}), timeout : Optional({<<n>> : n \in Numbers})]

LEMMA DialTypes == DialTypeOK <=> dial \in Originates /\ KeysDiffer(dial.endpoint.vars)
  BY DEF DialTypeOK, Originates, Endpoints, KeysDiffer

LEMMA OptionalValue ==
    ASSUME NEW S, NEW x \in S
    PROVE  <<x>> \in Optional(S)
  BY DEF Optional

LEMMA DialInitially == DialInit => DialTypeOK
<1> SUFFICES ASSUME DialInit PROVE DialTypeOK
  OBVIOUS
<1> DEFINE e == [scope |-> "Default", vars |-> << >>, path |-> Generic("user/1")]
           none == << >>
           apps == <<Park>>
<1>1. "Default" \in DOMAIN Delimiters /\ Generic("user/1") \in Paths
  BY DEF Delimiters, Paths
<1>2. none \in Seq(Variable)
  OBVIOUS
<1>3. e \in Endpoints /\ e.vars = none
  BY <1>1, <1>2 DEF Endpoints
<1>4. \A S : none \in Optional(S)
  BY DEF Optional
<1>5. apps \in Seq(Application \cup {Park})
  OBVIOUS
<1>6. dial = [endpoint |-> e, apps |-> apps, dialplan |-> none, context |-> none,
              cid_name |-> none, cid_num |-> none, timeout |-> none]
  BY DEF DialInit
<1>7. KeysDiffer(none)
  BY DEF KeysDiffer
<1> HIDE DEF e, none, apps
<1>8. dial \in Originates /\ dial.endpoint = e
  BY <1>3, <1>4, <1>5, <1>6 DEF Originates
<1>9. QED
  BY <1>3, <1>7, <1>8, DialTypes

LEMMA DialSteps == DialTypeOK /\ [DialNext]_dial => DialTypeOK'
<1> SUFFICES ASSUME DialTypeOK, [DialNext]_dial
             PROVE  DialTypeOK'
  OBVIOUS
<1> DEFINE e == dial.endpoint
<1>1. dial \in Originates /\ KeysDiffer(e.vars)
  BY DialTypes
<1>2. e \in Endpoints /\ e.vars \in Seq(Variable)
  BY <1>1 DEF Originates, Endpoints
<1>3. DialTypeOK' <=> dial' \in Originates /\ KeysDiffer(dial'.endpoint.vars)
  BY DEF DialTypeOK, Originates, Endpoints, KeysDiffer
<1>4. ASSUME NEW new \in Endpoints, KeysDiffer(new.vars), dial' = [dial EXCEPT !.endpoint = new]
      PROVE  DialTypeOK'
  BY <1>1, <1>3, <1>4 DEF Originates
<1>5. CASE InsertVariable
  <2>1. PICK k \in Keys, v \in VarValues : dial' = [dial EXCEPT !.endpoint.vars = Insert(@, k, v)]
    BY <1>5 DEF InsertVariable
  <2> DEFINE u == Insert(e.vars, k, v)
             new == [e EXCEPT !.vars = u]
  <2>2. u \in Seq(Variable) /\ KeysDiffer(u)
    BY <1>1, <1>2, InsertKeeps
  <2>3. dial' = [dial EXCEPT !.endpoint = new]
    BY <2>1
  <2> HIDE DEF u
  <2>4. new \in Endpoints /\ new.vars = u
    BY <1>2, <2>2 DEF Endpoints
  <2> HIDE DEF new
  <2>5. QED
    BY <1>4, <2>2, <2>3, <2>4
<1>6. CASE SetScope
  <2>1. PICK t \in DOMAIN Delimiters : dial' = [dial EXCEPT !.endpoint.scope = t]
    BY <1>6 DEF SetScope
  <2> DEFINE new == [e EXCEPT !.scope = t]
  <2>2. new \in Endpoints /\ new.vars = e.vars
    BY <1>2 DEF Endpoints
  <2>3. dial' = [dial EXCEPT !.endpoint = new]
    BY <2>1
  <2> HIDE DEF new
  <2>4. QED
    BY <1>1, <1>4, <2>2, <2>3
<1>7. CASE SetPath
  <2>1. PICK p \in Paths : dial' = [dial EXCEPT !.endpoint.path = p]
    BY <1>7 DEF SetPath
  <2> DEFINE new == [e EXCEPT !.path = p]
  <2>2. new \in Endpoints /\ new.vars = e.vars
    BY <1>2 DEF Endpoints
  <2>3. dial' = [dial EXCEPT !.endpoint = new]
    BY <2>1
  <2> HIDE DEF new
  <2>4. QED
    BY <1>1, <1>4, <2>2, <2>3
<1>8. CASE SetApplication
  <2>1. PICK app \in Application : \/ dial' = [dial EXCEPT !.apps = <<app>>]
                                   \/ dial' = [dial EXCEPT !.apps = Append(@, app)]
    BY <1>8 DEF SetApplication
  <2>2. dial.apps \in Seq(Application \cup {Park})
    BY <1>1 DEF Originates
  <2>3. /\ <<app>> \in Seq(Application \cup {Park})
        /\ Append(dial.apps, app) \in Seq(Application \cup {Park})
    BY <2>2
  <2>4. PICK apps \in Seq(Application \cup {Park}) : dial' = [dial EXCEPT !.apps = apps]
    BY <2>1, <2>3
  <2>5. dial' \in Originates /\ dial'.endpoint = e
    BY <1>1, <2>4 DEF Originates
  <2>6. QED
    BY <1>1, <1>3, <2>5
<1>9. CASE SetField
  <2>1. CASE \E d \in {XML, Inline} : dial' = [dial EXCEPT !.dialplan = <<d>>]
    <3>1. PICK d \in {XML, Inline} : dial' = [dial EXCEPT !.dialplan = <<d>>]
      BY <2>1
    <3>2. <<d>> \in Optional({XML, Inline})
      BY OptionalValue
    <3>3. dial' \in Originates /\ dial'.endpoint = e
      BY <1>1, <3>1, <3>2 DEF Originates
    <3>4. QED
      BY <1>1, <1>3, <3>3
  <2>2. CASE \E c \in Contexts : \/ dial' = [dial EXCEPT !.context = <<c>>]
                                 \/ dial' = [dial EXCEPT !.cid_name = <<c>>]
    <3>1. PICK c \in Contexts : \/ dial' = [dial EXCEPT !.context = <<c>>]
                                \/ dial' = [dial EXCEPT !.cid_name = <<c>>]
      BY <2>2
    <3>2. <<c>> \in Optional(Contexts)
      BY OptionalValue
    <3>3. dial' \in Originates /\ dial'.endpoint = e
      BY <1>1, <3>1, <3>2 DEF Originates
    <3>4. QED
      BY <1>1, <1>3, <3>3
  <2>3. CASE \E n \in Numbers : \/ dial' = [dial EXCEPT !.cid_num = << <<n>> >>]
                                \/ dial' = [dial EXCEPT !.timeout = << <<n>> >>]
    <3>1. PICK n \in Numbers : \/ dial' = [dial EXCEPT !.cid_num = << <<n>> >>]
                               \/ dial' = [dial EXCEPT !.timeout = << <<n>> >>]
      BY <2>3
    <3> DEFINE t == <<n>>
    <3>2. t \in {<<m>> : m \in Numbers}
      OBVIOUS
    <3> HIDE DEF t
    <3>3. <<t>> \in Optional({<<m>> : m \in Numbers})
      BY <3>2, OptionalValue
    <3>4. dial' = [dial EXCEPT !.cid_num = <<t>>] \/ dial' = [dial EXCEPT !.timeout = <<t>>]
      BY <3>1 DEF t
    <3>5. dial' \in Originates /\ dial'.endpoint = e
      BY <1>1, <3>3, <3>4 DEF Originates
    <3>6. QED
      BY <1>1, <1>3, <3>5
  <2>4. QED
    BY <1>9, <2>1, <2>2, <2>3 DEF SetField
<1>10. CASE UNCHANGED dial
  BY <1>1, <1>3, <1>10
<1>11. QED
  BY <1>5, <1>6, <1>7, <1>8, <1>9, <1>10 DEF DialNext

\* An Originate has fields of their types and one value for each variable,
\* however it is built: IndexMap::insert replaces and never doubles a key.
THEOREM DialTypeCorrect == DialSpec => []DialTypeOK
  BY DialInitially, DialSteps, PTL DEF DialSpec

\* The tokens of variables and of their blocks.
DialTokens ==
    (UNION {Range(t) : t \in Keys \cup VarValues})
    \cup {Backslash, Quote, Comma, Equals}
    \cup {Opening(t) : t \in DOMAIN Delimiters} \cup {Closing(t) : t \in DOMAIN Delimiters}

LEMMA DialTokensAre ==
    /\ Marked(DialTokens)
    /\ \A t \in DOMAIN Delimiters : Opening(t) \in DialTokens /\ Closing(t) \in DialTokens
    /\ \A k \in Keys : k \in Seq(DialTokens)
    /\ \A v \in VarValues : v \in Seq(DialTokens)
<1>1. /\ Backslash \in DialTokens /\ Quote \in DialTokens /\ Comma \in DialTokens
      /\ Equals \in DialTokens
  BY DEF DialTokens
<1>2. \A t \in DOMAIN Delimiters : Opening(t) \in DialTokens /\ Closing(t) \in DialTokens
  BY DEF DialTokens
<1>3. ASSUME NEW t \in Keys \cup VarValues
      PROVE  t \in Seq(DialTokens)
  <2>1. t \in Seq(Range(t))
    BY OriginateAssumption
  <2>2. \A x \in Range(t) : x \in DialTokens
    BY DEF DialTokens
  <2>3. QED
    BY <2>1, <2>2, SeqOfMore
<1>4. QED
  BY <1>1, <1>2, <1>3 DEF Marked

LEMMA DialVariables ==
    ASSUME DialTypeOK, PlainKeys(dial.endpoint.vars)
    PROVE  dial.endpoint.scope \in DOMAIN Delimiters /\ dial.endpoint.vars \in Variables(DialTokens)
<1> DEFINE vars == dial.endpoint.vars
           R == Pairs(DialTokens)
<1>1. dial.endpoint.scope \in DOMAIN Delimiters /\ vars \in Seq(Variable) /\ KeysDiffer(vars)
  BY DialTypes DEF Originates, Endpoints
<1>2. \A x \in Variable : x \in R /\ x.key \in Seq(DialTokens)
  BY DialTokensAre DEF Variable, Pairs
<1>6. \A i \in DOMAIN vars : Equals \notin Range(vars[i].key) /\ Comma \notin Range(vars[i].key)
  BY DEF PlainKeys, Equals, Comma
<1> HIDE DEF vars
<1>3. vars \in Seq(R)
  BY <1>1, <1>2, SeqOfMore
<1>4. DOMAIN vars = 1..Len(vars) /\ \A i \in 1..Len(vars) : vars[i] \in Variable
  BY <1>1, ElementOfSeq
<1>5. QED
  BY <1>1, <1>2, <1>3, <1>4, <1>6 DEF Variables, KeysDiffer, KeyIn, vars

LEMMA DialKeeps == DialTypeOK => VariablesComeBack
<1> SUFFICES ASSUME DialTypeOK PROVE VariablesComeBack
  OBVIOUS
<1> DEFINE vars == dial.endpoint.vars
           scope == dial.endpoint.scope
           Good == ParseVariables(VariablesText(scope, vars)) = <<[type |-> scope, vars |-> vars]>>
<1>1. ASSUME PlainKeys(vars)
      PROVE  Good <=> vars # << >> /\ ~Swallowing(vars)
  BY <1>1, DialVariables, DialTokensAre, BlockReturns DEF Block
<1>2. VariablesComeBack <=>
          (PlainKeys(vars) =>
            (Good <=> vars # << >> /\ \A i \in 1..(Len(vars) - 1) : ~Swallows(vars[i].value)))
  BY DEF VariablesComeBack, Swallows, Some, Space, Backslash
<1> HIDE DEF Good, vars
<1>3. QED
  BY <1>1, <1>2 DEF Swallowing

\* A block of variables, parsed, is the block, for any plain keys and any values: all
\* quotes, commas and backslashes of the values come back, but for an empty
\* block and a backslash that swallows the comma behind an unquoted value.
THEOREM VariablesReturn == DialSpec => []VariablesComeBack
<1>1. DialTypeOK => VariablesComeBack
  BY DialKeeps
<1>2. QED
  BY <1>1, DialTypeCorrect, PTL

-----------------------------------------------------------------------------
(***************************************************************************)
(* What the splitter does with a character.                                *)
(***************************************************************************)

-----------------------------------------------------------------------------
(***************************************************************************)
(* originate_split, token by token.                                        *)
(***************************************************************************)

NoLast == ""

\* The tokens split off, the one that is read, whether inside quotes, and what
\* was read last.
Cut(tokens, token, quote, last) ==
    [tokens |-> tokens, token |-> token, quote |-> quote, last |-> last]

Uncut == Cut(<< >>, << >>, No, NoLast)

Cuts(T) == [tokens : Seq(Seq(T)), token : Seq(T), quote : BOOLEAN, last : T \cup {NoLast}]

SplitStep(f, x, at) ==
    IF x = at /\ ~f.quote /\ Trimmed(f.token) # << >>
      THEN [f EXCEPT !.tokens = Append(@, Trimmed(f.token)), !.token = << >>, !.last = x]
      ELSE [f EXCEPT !.quote = IF x = "'" /\ f.last # "\\" THEN ~@ ELSE @,
                     !.token = Append(@, x), !.last = x]

SplitEnd(s, at) == FoldLeft(LAMBDA f, x : SplitStep(f, x, at), Uncut, s)

LEMMA SplitIs ==
    ASSUME NEW s, NEW at
    PROVE  originate_split(s, at) =
               IF SplitEnd(s, at).quote THEN << >>
               ELSE <<SplitEnd(s, at).tokens \o Given(Trimmed(SplitEnd(s, at).token))>>
  BY DEF originate_split, SplitEnd, SplitStep, Uncut, Cut, No, NoLast

LEMMA TrimmedType ==
    ASSUME NEW T, NEW s \in Seq(T)
    PROVE  Trimmed(s) \in Seq(T)
<1>1. CASE Solid(s) = {}
  BY <1>1 DEF Trimmed
<1>2. CASE Solid(s) # {}
  <2> DEFINE S == Solid(s)
             a == Min(S)
             b == Max(S)
  <2>1. S \in SUBSET (1..Len(s)) /\ S \in SUBSET Nat /\ Len(s) \in Nat
    <3>1. S = {i \in 1..Len(s) : s[i] # Space}
      BY DEF Solid, Space
    <3> HIDE DEF S
    <3>2. QED
      BY <3>1
  <2>2. Min(S) \in S
    BY <1>2, <2>1, MinIsMember
  <2>3. Max(S) \in S
    BY <1>2, <2>1, MaxIsMember
  <2>4. Trimmed(s) = SubSeq(s, a, b)
    BY <1>2 DEF Trimmed
  <2>5. a \in 1..Len(s) /\ b \in 1..Len(s)
    BY <2>1, <2>2, <2>3
  <2> HIDE DEF a, b
  <2>6. QED
    BY <2>4, <2>5
<1>3. QED
  BY <1>1, <1>2

LEMMA CutFields ==
    ASSUME NEW T, NEW d \in Seq(Seq(T)), NEW p \in Seq(T), NEW q \in BOOLEAN, NEW l \in T \cup {NoLast}
    PROVE  /\ Cut(d, p, q, l) \in Cuts(T)
           /\ Cut(d, p, q, l).tokens = d /\ Cut(d, p, q, l).token = p
           /\ Cut(d, p, q, l).quote = q /\ Cut(d, p, q, l).last = l
  BY DEF Cut, Cuts

CutOff(f, a, b, c) == [f EXCEPT !.tokens = a, !.token = b, !.last = c]
CutOn(f, a, b, c) == [f EXCEPT !.quote = a, !.token = b, !.last = c]

LEMMA CutSet ==
    ASSUME NEW d, NEW p, NEW q, NEW l, NEW a, NEW b, NEW c
    PROVE  /\ CutOff(Cut(d, p, q, l), a, b, c) = Cut(a, b, q, c)
           /\ CutOn(Cut(d, p, q, l), a, b, c) = Cut(d, b, a, c)
<1>1. [Cut(d, p, q, l) EXCEPT !.tokens = a] = Cut(a, p, q, l)
  BY DEF Cut
<1>2. [Cut(d, p, q, l) EXCEPT !.quote = a] = Cut(d, p, a, l)
  BY DEF Cut
<1>3. [Cut(a, p, q, l) EXCEPT !.token = b] = Cut(a, b, q, l)
  BY DEF Cut
<1>4. [Cut(d, p, a, l) EXCEPT !.token = b] = Cut(d, b, a, l)
  BY DEF Cut
<1>5. [Cut(a, b, q, l) EXCEPT !.last = c] = Cut(a, b, q, c)
  BY DEF Cut
<1>6. [Cut(d, b, a, l) EXCEPT !.last = c] = Cut(d, b, a, c)
  BY DEF Cut
<1>7. [Cut(d, p, q, l) EXCEPT !.tokens = a, !.token = b, !.last = c] = Cut(a, b, q, c)
  BY <1>1, <1>3, <1>5, Zenon
<1>8. [Cut(d, p, q, l) EXCEPT !.quote = a, !.token = b, !.last = c] = Cut(d, b, a, c)
  BY <1>2, <1>4, <1>6, Zenon
<1>9. QED
  BY <1>7, <1>8, Zenon DEF CutOff, CutOn

\* What a step does with a character: a mark outside quotes behind a token ends
\* it, a quote with no backslash before it toggles, all else is kept.
EndsToken(x, p, q, at) == x = at /\ q = No /\ Trimmed(p) # << >>

Toggles(x, l) == x = Quote /\ l # Backslash

LEMMA StepIs ==
    ASSUME NEW T, NEW x \in T, NEW at, at # Quote,
           NEW d \in Seq(Seq(T)), NEW p \in Seq(T), NEW q \in BOOLEAN, NEW l \in T \cup {NoLast}
    PROVE  /\ EndsToken(x, p, q, at) =>
                 SplitStep(Cut(d, p, q, l), x, at) = Cut(Append(d, Trimmed(p)), << >>, No, x)
           /\ ~EndsToken(x, p, q, at) /\ Toggles(x, l) =>
                 SplitStep(Cut(d, p, q, l), x, at) = Cut(d, Append(p, x), ~q, x)
           /\ ~EndsToken(x, p, q, at) /\ ~Toggles(x, l) =>
                 SplitStep(Cut(d, p, q, l), x, at) = Cut(d, Append(p, x), q, x)
<1> DEFINE f == Cut(d, p, q, l)
           r == IF Toggles(x, l) THEN ~q ELSE q
<1>1. /\ f.tokens = d /\ f.token = p /\ f.quote = q /\ f.last = l
  BY CutFields
<1>2. No = FALSE
  BY YesAndNo
<1>3. SplitStep(f, x, at) =
        IF EndsToken(x, p, q, at) THEN [f EXCEPT !.tokens = Append(d, Trimmed(p)), !.token = << >>, !.last = x]
        ELSE [f EXCEPT !.quote = r, !.token = Append(p, x), !.last = x]
  <2> HIDE DEF f
  <2>1. (IF x = "'" /\ f.last # "\\" THEN ~f.quote ELSE f.quote) = r
    BY <1>1, Zenon DEF Toggles, Quote, Backslash
  <2>2. (x = at /\ ~f.quote /\ Trimmed(f.token) # << >>) <=> EndsToken(x, p, q, at)
    BY <1>1, <1>2, Zenon DEF EndsToken
  <2> HIDE DEF r
  <2>3. QED
    BY <1>1, <2>1, <2>2, Zenon DEF SplitStep
<1> HIDE DEF f, r
<1>4. SplitStep(f, x, at) = IF EndsToken(x, p, q, at) THEN CutOff(f, Append(d, Trimmed(p)), << >>, x)
                          ELSE CutOn(f, r, Append(p, x), x)
  BY <1>3, Zenon DEF CutOff, CutOn
<1>5. SplitStep(f, x, at) = IF EndsToken(x, p, q, at) THEN Cut(Append(d, Trimmed(p)), << >>, q, x)
                          ELSE Cut(d, Append(p, x), r, x)
  BY <1>4, CutSet DEF f
<1>6. r = IF Toggles(x, l) THEN ~q ELSE q
  BY DEF r
<1>7. QED
  BY <1>5, <1>6 DEF EndsToken, f

LEMMA YesOrNo ==
    /\ Yes \in BOOLEAN /\ No \in BOOLEAN /\ Yes # No
    /\ \A q \in BOOLEAN : q = Yes \/ q = No
    /\ (~No) = Yes /\ (~Yes) = No
    /\ \A q \in BOOLEAN : (~q) \in BOOLEAN
  BY Zenon DEF Yes, No

LEMMA CutIs ==
    ASSUME NEW T, NEW f \in Cuts(T)
    PROVE  /\ f = Cut(f.tokens, f.token, f.quote, f.last)
           /\ f.tokens \in Seq(Seq(T)) /\ f.token \in Seq(T) /\ f.quote \in BOOLEAN
           /\ f.last \in T \cup {NoLast}
  BY DEF Cut, Cuts

LEMMA CutType ==
    ASSUME NEW T, NEW d \in Seq(Seq(T)), NEW p \in Seq(T), NEW q \in BOOLEAN, NEW l \in T \cup {NoLast}
    PROVE  Cut(d, p, q, l) \in Cuts(T)
  BY CutFields

LEMMA StepType ==
    ASSUME NEW T, NEW at, at # Quote, NEW f \in Cuts(T), NEW x \in T
    PROVE  SplitStep(f, x, at) \in Cuts(T)
<1> DEFINE d == f.tokens
           p == f.token
           q == f.quote
           l == f.last
<1>1. /\ f = Cut(d, p, q, l)
      /\ d \in Seq(Seq(T)) /\ p \in Seq(T) /\ q \in BOOLEAN /\ l \in T \cup {NoLast}
  BY CutIs
<1> HIDE DEF d, p, q, l
<1>2. /\ Append(d, Trimmed(p)) \in Seq(Seq(T)) /\ << >> \in Seq(T) /\ Append(p, x) \in Seq(T)
      /\ (~q) \in BOOLEAN /\ No \in BOOLEAN /\ x \in T \cup {NoLast}
  <2>1. Trimmed(p) \in Seq(T)
    BY <1>1, TrimmedType
  <2>2. Append(d, Trimmed(p)) \in Seq(Seq(T)) /\ << >> \in Seq(T) /\ Append(p, x) \in Seq(T)
    BY <1>1, <2>1
  <2>3. (~q) \in BOOLEAN /\ No \in BOOLEAN
    BY <1>1, YesOrNo
  <2>4. QED
    BY <2>2, <2>3
<1>3. SplitStep(f, x, at) \in {Cut(Append(d, Trimmed(p)), << >>, No, x),
                               Cut(d, Append(p, x), ~q, x), Cut(d, Append(p, x), q, x)}
  BY <1>1, StepIs
<1>4. Cut(Append(d, Trimmed(p)), << >>, No, x) \in Cuts(T)
  BY <1>2, CutType
<1>5. Cut(d, Append(p, x), ~q, x) \in Cuts(T)
  BY <1>1, <1>2, CutType
<1>6. Cut(d, Append(p, x), q, x) \in Cuts(T)
  BY <1>1, <1>2, CutType
<1>7. QED
  BY <1>3, <1>4, <1>5, <1>6, Zenon

SplitReads(g, T, s, at) ==
    /\ PrefixValues(g, Cuts(T), s, Uncut, SplitEnd(s, at))
    /\ \A k \in 1..Len(s) : g[k] = SplitStep(g[k - 1], s[k], at)

LEMMA SplitSteps ==
    ASSUME NEW T, NEW at, at # Quote, NEW s \in Seq(T)
    PROVE  \E g : SplitReads(g, T, s, at)
<1> DEFINE X == Cuts(T)
           n == Len(s)
           step == [f \in X |-> [x \in T |-> SplitStep(f, x, at)]]
           Is(h) == h = [d \in SUBSET (DOMAIN s) |-> IF d = {} THEN Uncut ELSE
                           SplitStep(h[d \ {Max(d)}], s[Max(d)], at)]
           h == CHOOSE h : Is(h)
<1>1. n \in Nat /\ DOMAIN s = 1..n
  OBVIOUS
<1>2. Uncut \in X
  <2>1. << >> \in Seq(Seq(T)) /\ << >> \in Seq(T) /\ NoLast \in T \cup {NoLast}
    OBVIOUS
  <2>2. No \in BOOLEAN
    BY YesOrNo
  <2>3. QED
    BY <2>1, <2>2, CutType DEF Uncut
<1>3. /\ step \in [X -> [T -> X]]
      /\ \A f \in X, x \in T : step[f][x] = SplitStep(f, x, at)
  BY StepType
<1>4. SplitEnd(s, at) = h[DOMAIN s]
  BY DEF SplitEnd, FoldLeft, MapThenFoldSet
<1>5. PICK f \in [SUBSET (1..n) -> X] : Folded(f, s, Uncut, step, n)
  <2> HIDE DEF step, X
  <2>1. QED
    BY <1>1, <1>2, <1>3, FoldExists
<1>6. ASSUME NEW d \in SUBSET (1..n), d # {}
      PROVE  step[f[d \ {Max(d)}]][s[Max(d)]] = SplitStep(f[d \ {Max(d)}], s[Max(d)], at)
  <2>1. Max(d) \in 1..n
    BY <1>1, <1>6, MaxIsMember
  <2>2. s[Max(d)] \in T
    BY <1>1, <2>1, ElementOfSeq
  <2>3. f[d \ {Max(d)}] \in X
    <3>1. d \ {Max(d)} \in SUBSET (1..n)
      BY <1>6
    <3> HIDE DEF X, n
    <3>2. QED
      BY <1>5, <3>1
  <2> HIDE DEF X, step
  <2>4. QED
    BY <1>3, <2>2, <2>3
<1>7. Is(f)
  <2>1. f = [d \in SUBSET (1..n) |->
               IF d = {} THEN Uncut ELSE SplitStep(f[d \ {Max(d)}], s[Max(d)], at)]
    BY <1>5, <1>6 DEF Folded
  <2>2. QED
    BY <1>1, <2>1
<1>8. Is(h)
  BY <1>7
<1>9. h = [d \in SUBSET (1..n) |->
             IF d = {} THEN Uncut ELSE SplitStep(h[d \ {Max(d)}], s[Max(d)], at)]
  BY <1>1, <1>8
<1> HIDE DEF h, step, Is
<1>10. h[{}] = Uncut
  BY <1>9
<1>11. ASSUME NEW k \in 1..n
       PROVE  h[1..k] = SplitStep(h[1..(k - 1)], s[k], at)
  <2>1. k \in Nat \ {0} /\ 1..k \in SUBSET (1..n) /\ 1..k # {}
    <3> HIDE DEF n
    <3>1. k \in Nat \ {0} /\ k <= n /\ k \in 1..k
      BY <1>1
    <3>2. \A i \in 1..k : i \in 1..n
      BY <1>1, <3>1
    <3>3. QED
      BY <3>1, <3>2
  <2>2. Max(1..k) = k /\ (1..k) \ {k} = 1..(k - 1)
    BY <2>1, MaxOfPrefix
  <2>3. QED
    BY <1>9, <2>1, <2>2
<1>12. \A k \in 0..n : h[1..k] \in X
  <2>1. \A k \in 1..n : h[1..(k - 1)] \in X => h[1..k] \in X
    <3>1. \A k \in 1..n : s[k] \in T
      BY <1>1, ElementOfSeq
    <3> HIDE DEF X
    <3>2. QED
      BY <1>11, <3>1, StepType DEF X
  <2> HIDE DEF X
  <2>2. QED
    BY <1>1, <1>2, <1>10, <2>1, PrefixTypes
<1> DEFINE g == [k \in 0..n |-> h[1..k]]
<1>13. g \in [0..n -> X] /\ g[0] = Uncut /\ g[n] = SplitEnd(s, at)
  <2>1. 1..0 = {}
    OBVIOUS
  <2> HIDE DEF X
  <2>2. QED
    BY <1>1, <1>4, <1>10, <1>12, <2>1
<1>14. \A k \in 1..n : g[k] = SplitStep(g[k - 1], s[k], at)
  <2>1. \A k \in 1..n : k \in 0..n /\ k - 1 \in 0..n
    BY <1>1
  <2>2. QED
    BY <1>11, <2>1
<1>15. QED
  BY <1>13, <1>14 DEF PrefixValues, SplitReads

LEMMA SplitNothing ==
    ASSUME NEW at, at # Quote
    PROVE  SplitEnd(<< >>, at) = Uncut
<1>1. << >> \in Seq({}) /\ Len(<< >>) = 0
  OBVIOUS
<1>2. PICK g : SplitReads(g, {}, << >>, at)
  BY <1>1, SplitSteps
<1>3. QED
  BY <1>1, <1>2 DEF PrefixValues, SplitReads

LEMMA SplitAppend ==
    ASSUME NEW T, NEW at, at # Quote, NEW s \in Seq(T)
    PROVE  /\ SplitEnd(s, at) \in Cuts(T)
           /\ \A x \in T : SplitEnd(Append(s, x), at) = SplitStep(SplitEnd(s, at), x, at)
<1>1. PICK f : SplitReads(f, T, s, at)
  BY SplitSteps
<1>2. Len(s) \in Nat /\ f[Len(s)] = SplitEnd(s, at) /\ f[Len(s)] \in Cuts(T)
  BY <1>1 DEF PrefixValues, SplitReads
<1>3. ASSUME NEW x \in T
      PROVE  SplitEnd(Append(s, x), at) = SplitStep(SplitEnd(s, at), x, at)
  <2> DEFINE r == Append(s, x)
  <2>1. /\ r \in Seq(T) /\ Len(r) = Len(s) + 1
        /\ r[Len(s) + 1] = x /\ \A i \in 1..Len(s) : r[i] = s[i]
    BY AppendProperties
  <2> HIDE DEF r
  <2>2. PICK g : SplitReads(g, T, r, at)
    BY <2>1, SplitSteps
  <2>3. f[0] = g[0]
    BY <1>1, <2>2 DEF PrefixValues, SplitReads
  <2>4. \A k \in 1..Len(s) : f[k - 1] = g[k - 1] => f[k] = g[k]
    BY <1>1, <1>2, <2>1, <2>2 DEF SplitReads
  <2>5. \A k \in 0..Len(s) : f[k] = g[k]
    BY <1>2, <2>3, <2>4, PrefixesAgree
  <2>6. g[Len(s)] = SplitEnd(s, at)
    BY <1>2, <2>5
  <2>7. g[Len(s) + 1] = SplitStep(g[Len(s)], x, at)
    BY <1>2, <2>1, <2>2 DEF SplitReads
  <2>8. QED
    BY <2>1, <2>2, <2>6, <2>7 DEF PrefixValues, SplitReads, r
<1>4. QED
  BY <1>2, <1>3

-----------------------------------------------------------------------------
(***************************************************************************)
(* What is read does not depend on what was split off before: a text adds  *)
(* itself to the token, from one state of the quotes to another.           *)
(***************************************************************************)

\* What was read last, when s is read after l.
LastRead(s, l) == IF s = << >> THEN l ELSE Last(s)

\* Reading s behind a quote state q, with l read before it, adds s to the token
\* and ends in the quote state r.
AddsTo(T, u, s, at, q, l, r) ==
    \A d \in Seq(Seq(T)), p \in Seq(T) :
        SplitEnd(u, at) = Cut(d, p, q, l) =>
            SplitEnd(Then(u, s), at) = Cut(d, Then(p, s), r, LastRead(s, l))

Adds(T, s, at, q, l, r) == \A u \in Seq(T) : AddsTo(T, u, s, at, q, l, r)

LEMMA LastReadThen ==
    ASSUME NEW T, NEW a \in Seq(T), NEW b \in Seq(T), NEW l \in T \cup {NoLast}
    PROVE  /\ LastRead(a, l) \in T \cup {NoLast}
           /\ LastRead(Then(a, b), l) = LastRead(b, LastRead(a, l))
<1>1. LastRead(a, l) \in T \cup {NoLast}
  <2>1. CASE a = << >>
    BY <2>1 DEF LastRead
  <2>2. CASE a # << >>
    <3>1. Last(a) = a[Len(a)] /\ Len(a) \in 1..Len(a)
      BY <2>2, Ends
    <3>2. Last(a) \in T
      BY <3>1, ElementOfSeq
    <3>3. QED
      BY <2>2, <3>2 DEF LastRead
  <2>3. QED
    BY <2>1, <2>2
<1>2. CASE b = << >>
  <2>1. Then(a, b) = a
    BY <1>2 DEF Then
  <2>2. QED
    BY <1>1, <1>2, <2>1 DEF LastRead
<1>3. CASE b # << >>
  BY <1>1, <1>3, LastOfThen DEF LastRead
<1>4. QED
  BY <1>2, <1>3

\* Texts behind one another.
LEMMA AddsThen ==
    ASSUME NEW T, NEW at, NEW a \in Seq(T), NEW b \in Seq(T), NEW l \in T \cup {NoLast},
           NEW q, NEW r, NEW t,
           Adds(T, a, at, q, l, r), Adds(T, b, at, r, LastRead(a, l), t)
    PROVE  Adds(T, Then(a, b), at, q, l, t)
<1> SUFFICES ASSUME NEW u \in Seq(T), NEW d \in Seq(Seq(T)), NEW p \in Seq(T),
                    SplitEnd(u, at) = Cut(d, p, q, l)
             PROVE  SplitEnd(Then(u, Then(a, b)), at) =
                        Cut(d, Then(p, Then(a, b)), t, LastRead(Then(a, b), l))
  BY DEF Adds, AddsTo
<1>1. SplitEnd(Then(u, a), at) = Cut(d, Then(p, a), r, LastRead(a, l))
  BY DEF Adds, AddsTo
<1>2. Then(u, a) \in Seq(T) /\ Then(p, a) \in Seq(T)
  BY ThenTokens
<1>3. SplitEnd(Then(Then(u, a), b), at) = Cut(d, Then(Then(p, a), b), t, LastRead(b, LastRead(a, l)))
  BY <1>1, <1>2 DEF Adds, AddsTo
<1>4. Then(Then(u, a), b) = Then(u, Then(a, b)) /\ Then(Then(p, a), b) = Then(p, Then(a, b))
  BY ThenAssociative
<1>5. LastRead(Then(a, b), l) = LastRead(b, LastRead(a, l))
  BY LastReadThen
<1>6. QED
  BY <1>3, <1>4, <1>5

LEMMA AddsNothing ==
    ASSUME NEW T, NEW at, NEW q, NEW l
    PROVE  Adds(T, << >>, at, q, l, q)
<1>1. \A p \in Seq(T) : Then(p, << >>) = p
  BY DEF Then
<1>2. LastRead(<< >>, l) = l
  BY DEF LastRead
<1>3. QED
  BY <1>1, <1>2 DEF Adds, AddsTo

\* One token, and one more.
LEMMA AddsOne ==
    ASSUME NEW T, NEW at, at # Quote, NEW x \in T, NEW q \in BOOLEAN, NEW l \in T \cup {NoLast},
           x # at \/ q = Yes
    PROVE  Adds(T, <<x>>, at, q, l, IF Toggles(x, l) THEN ~q ELSE q)
<1> DEFINE s == <<x>>
           r == IF Toggles(x, l) THEN ~q ELSE q
<1>1. s \in Seq(T) /\ s # << >> /\ Last(s) = x /\ \A p \in Seq(T) : Then(p, s) = Append(p, x)
  BY DEF Then, Last
<1>2. LastRead(s, l) = x
  BY <1>1 DEF LastRead
<1> SUFFICES ASSUME NEW u \in Seq(T), NEW d \in Seq(Seq(T)), NEW p \in Seq(T),
                    SplitEnd(u, at) = Cut(d, p, q, l)
             PROVE  SplitEnd(Then(u, s), at) = Cut(d, Then(p, s), r, LastRead(s, l))
  BY DEF Adds, AddsTo
<1> HIDE DEF s, r
<1>3. SplitEnd(Append(u, x), at) = SplitStep(Cut(d, p, q, l), x, at)
  BY SplitAppend
<1>4. ~EndsToken(x, p, q, at)
  BY YesOrNo DEF EndsToken
<1>5. SplitStep(Cut(d, p, q, l), x, at) = IF Toggles(x, l) THEN Cut(d, Append(p, x), ~q, x)
                                            ELSE Cut(d, Append(p, x), q, x)
  BY <1>4, StepIs
<1>6. SplitStep(Cut(d, p, q, l), x, at) = Cut(d, Append(p, x), r, x)
  BY <1>5 DEF r
<1>7. QED
  BY <1>1, <1>2, <1>3, <1>6

LEMMA AddsAppend ==
    ASSUME NEW T, NEW at, at # Quote, NEW s \in Seq(T), NEW x \in T,
           NEW q \in BOOLEAN, NEW l \in T \cup {NoLast}, NEW r \in BOOLEAN,
           Adds(T, s, at, q, l, r), x # at \/ r = Yes
    PROVE  Adds(T, Append(s, x), at, q, l, IF Toggles(x, LastRead(s, l)) THEN ~r ELSE r)
<1> DEFINE e == <<x>>
           m == LastRead(s, l)
           t == IF Toggles(x, m) THEN ~r ELSE r
<1>1. e \in Seq(T) /\ Then(s, e) = Append(s, x)
  BY DEF Then
<1>2. m \in T \cup {NoLast}
  <2>1. << >> \in Seq(T)
    OBVIOUS
  <2>2. QED
    BY <2>1, LastReadThen
<1> HIDE DEF m
<1>3. Adds(T, e, at, r, m, t)
  BY <1>2, AddsOne
<1> HIDE DEF e, t
<1>4. Adds(T, Then(s, e), at, q, l, t)
  BY <1>1, <1>3, AddsThen DEF m
<1>5. QED
  BY <1>1, <1>4 DEF t, m

\* Reads through s outside quotes, whatever is before it, or anything but a backslash.
Through(T, s, at) == \A l \in T \cup {NoLast} : Adds(T, s, at, No, l, No)
ThroughBehind(T, s, at) == \A l \in T \cup {NoLast} : l # Backslash => Adds(T, s, at, No, l, No)

\* A text whose quotes all have a backslash before them.
LEMMA GuardedThrough ==
    ASSUME NEW T, NEW at, at # Quote, NEW q \in BOOLEAN
    PROVE  \A s \in Seq(T) : Guarded(s, Quote) /\ (at \notin Range(s) \/ q = Yes) =>
               \A l \in T \cup {NoLast} : Adds(T, s, at, q, l, q)
<1> DEFINE Good(s) == \A l \in T \cup {NoLast} : Adds(T, s, at, q, l, q)
           S == {s \in Seq(T) : Guarded(s, Quote) /\ (at \notin Range(s) \/ q = Yes) => Good(s)}
<1>1. << >> \in S
  <2>1. << >> \in Seq(T) /\ Good(<< >>)
    BY AddsNothing
  <2>2. QED
    BY <2>1
<1>2. ASSUME NEW s \in Seq(T), NEW x \in T, s \in S
      PROVE  Append(s, x) \in S
  <2> DEFINE r == Append(s, x)
  <2>1. /\ Len(s) \in Nat /\ r \in Seq(T) /\ Len(r) = Len(s) + 1
        /\ r[Len(s) + 1] = x /\ \A i \in 1..Len(s) : r[i] = s[i]
        /\ Range(r) = Range(s) \cup {x}
    BY AppendTokens
  <2> SUFFICES ASSUME Guarded(r, Quote), at \notin Range(r) \/ q = Yes
               PROVE  Good(r)
    BY <2>1
  <2> HIDE DEF r
  <2>2. Guarded(s, Quote)
    BY <2>1 DEF Guarded
  <2>3. at \notin Range(s) \/ q = Yes
    BY <2>1
  <2>4. Good(s)
    BY <1>2, <2>2, <2>3
  <2>5. x = Quote => s # << >> /\ Last(s) = Backslash
    <3>1. CASE x = Quote
      <4>1. Len(s) + 1 > 1 /\ r[Len(s) + 1 - 1] = Backslash
        BY <2>1, <3>1 DEF Guarded
      <4>2. Len(s) > 0 /\ Len(s) + 1 - 1 = Len(s) /\ Len(s) \in 1..Len(s)
        BY <2>1, <4>1
      <4>3. QED
        BY <2>1, <4>1, <4>2, Ends
    <3>2. QED
      BY <3>1
  <2>6. ASSUME NEW l \in T \cup {NoLast}
        PROVE  Adds(T, r, at, q, l, q)
    <3>1. Adds(T, s, at, q, l, q)
      BY <2>4
    <3>2. ~Toggles(x, LastRead(s, l))
      BY <2>5 DEF Toggles, LastRead
    <3>3. x # at \/ q = Yes
      BY <2>1
    <3> DEFINE t == IF Toggles(x, LastRead(s, l)) THEN ~q ELSE q
    <3>4. Adds(T, Append(s, x), at, q, l, t)
      BY <3>1, <3>3, AddsAppend
    <3>5. t = q
      BY <3>2
    <3> HIDE DEF t
    <3>6. QED
      BY <3>4, <3>5 DEF r
  <2>7. QED
    BY <2>6
<1> HIDE DEF S
<1>3. \A s \in Seq(T) : s \in S
  BY <1>1, <1>2, GrowingUp
<1>4. QED
  BY <1>3 DEF S

\* The quotes that open or close, of a text with one more token.
Opens(s, x) == x = Quote /\ (s = << >> \/ Last(s) # Backslash)

LEMMA OpenQuotesAppend ==
    ASSUME NEW T, NEW s \in Seq(T), NEW x \in T
    PROVE  /\ OpenQuotes(s) \in SUBSET (1..Len(s)) /\ Len(s) \in Nat
           /\ OpenQuotes(Append(s, x)) =
                  IF Opens(s, x) THEN OpenQuotes(s) \cup {Len(s) + 1} ELSE OpenQuotes(s)
<1> DEFINE n == Len(s)
           r == Append(s, x)
           Open(t, i) == t[i] = Quote /\ (i = 1 \/ t[i - 1] # Backslash)
<1>1. /\ n \in Nat /\ Len(r) = n + 1 /\ r[n + 1] = x /\ \A i \in 1..n : r[i] = s[i]
      /\ s = << >> <=> n = 0
      /\ s # << >> => Last(s) = s[n]
  BY AppendTokens, Ends
<1> HIDE DEF r, n
<1>2. /\ OpenQuotes(s) = {i \in 1..n : Open(s, i)}
      /\ OpenQuotes(r) = {i \in 1..(n + 1) : Open(r, i)}
  BY <1>1 DEF OpenQuotes, Quote, Backslash, n
<1>3. \A i \in 1..n : Open(r, i) <=> Open(s, i)
  BY <1>1
<1>4. Open(r, n + 1) <=> Opens(s, x)
  BY <1>1 DEF Opens
<1> HIDE DEF Open
<1>5. \A i \in 1..(n + 1) : i = n + 1 \/ i \in 1..n
  BY <1>1
<1>6. \A i \in 1..n : i \in 1..(n + 1) /\ i # n + 1
  BY <1>1
<1>7. n + 1 \in 1..(n + 1)
  BY <1>1
<1>8. QED
  BY <1>1, <1>2, <1>3, <1>4, <1>5, <1>6, <1>7 DEF n, r

Odd(s) == Cardinality(OpenQuotes(s)) % 2 # 0

LEMMA NothingOdd == ~Odd(<< >>)
<1>1. OpenQuotes(<< >>) = {}
  BY DEF OpenQuotes
<1>2. Cardinality({}) = 0
  BY FS_EmptySet
<1>3. QED
  BY <1>1, <1>2 DEF Odd

LEMMA OddAppend ==
    ASSUME NEW T, NEW s \in Seq(T), NEW x \in T
    PROVE  /\ Opens(s, x) => (Odd(Append(s, x)) <=> ~Odd(s))
           /\ ~Opens(s, x) => (Odd(Append(s, x)) <=> Odd(s))
<1> DEFINE C == OpenQuotes(s)
<1>3. C \in SUBSET (1..Len(s)) /\ Len(s) \in Nat
  BY OpenQuotesAppend
<1>4. OpenQuotes(Append(s, x)) = IF Opens(s, x) THEN C \cup {Len(s) + 1} ELSE C
  BY OpenQuotesAppend
<1> HIDE DEF C
<1>5. Len(s) + 1 \notin C
  BY <1>3
<1>6. IsFiniteSet(C) /\ Cardinality(C) \in Nat
  <2>1. IsFiniteSet(1..Len(s))
    BY <1>3, FS_Interval
  <2>2. QED
    BY <1>3, <2>1, FS_Subset, FS_CardinalityType
<1>7. Cardinality(C \cup {Len(s) + 1}) = Cardinality(C) + 1
  BY <1>5, <1>6, FS_AddElement
<1>8. \A c \in Nat : (c + 1) % 2 # 0 <=> c % 2 = 0
  OBVIOUS
<1>10. Odd(s) <=> Cardinality(C) % 2 # 0
  BY DEF Odd, C
<1>11. ASSUME Opens(s, x)
       PROVE  Odd(Append(s, x)) <=> ~Odd(s)
  <2>1. Odd(Append(s, x)) <=> (Cardinality(C) + 1) % 2 # 0
    BY <1>4, <1>7, <1>11, Zenon DEF Odd
  <2>2. QED
    BY <1>6, <1>8, <1>10, <2>1
<1>12. ASSUME ~Opens(s, x)
       PROVE  Odd(Append(s, x)) <=> Odd(s)
  BY <1>4, <1>10, <1>12, Zenon DEF Odd
<1>13. QED
  BY <1>11, <1>12

\* A text without the mark leaves the quotes as it found them, if an even
\* number of its own quotes count.
LEMMA EvenThrough ==
    ASSUME NEW T, NEW at, at # Quote
    PROVE  \A s \in Seq(T) : at \notin Range(s) /\ ~Odd(s) => ThroughBehind(T, s, at)
<1> DEFINE After2(s) == IF Odd(s) THEN Yes ELSE No
           Good(s) == \A l \in T \cup {NoLast} : l # Backslash => Adds(T, s, at, No, l, After2(s))
           S == {s \in Seq(T) : at \notin Range(s) => Good(s)}
<1>1. << >> \in S
  <2>1. << >> \in Seq(T) /\ ~Odd(<< >>)
    BY NothingOdd
  <2>2. After2(<< >>) = No
    BY <2>1
  <2> HIDE DEF After2
  <2>3. Good(<< >>)
    BY <2>2, AddsNothing
  <2>4. QED
    BY <2>1, <2>3
<1>2. ASSUME NEW s \in Seq(T), NEW x \in T, s \in S
      PROVE  Append(s, x) \in S
  <2> DEFINE r == Append(s, x)
  <2>1. r \in Seq(T) /\ Range(r) = Range(s) \cup {x}
    BY AppendTokens
  <2> SUFFICES ASSUME at \notin Range(r)
               PROVE  Good(r)
    BY <2>1
  <2>2. Good(s)
    BY <1>2, <2>1
  <2>3. x # at
    BY <2>1
  <2>4. After2(s) \in BOOLEAN
    BY YesOrNo
  <2>5. ASSUME NEW l \in T \cup {NoLast}, l # Backslash
        PROVE  Adds(T, r, at, No, l, After2(r))
    <3> DEFINE b == After2(s)
               t == IF Toggles(x, LastRead(s, l)) THEN ~b ELSE b
    <3>1. Adds(T, s, at, No, l, b)
      BY <2>2, <2>5
    <3>2. No \in BOOLEAN /\ b \in BOOLEAN
      BY <2>4, YesOrNo
    <3> HIDE DEF b
    <3>3. Adds(T, Append(s, x), at, No, l, t)
      BY <2>3, <2>5, <3>1, <3>2, AddsAppend
    <3>4. Toggles(x, LastRead(s, l)) <=> Opens(s, x)
      BY <2>5 DEF Toggles, Opens, LastRead
    <3>5. t = After2(r)
      <4>1. CASE Opens(s, x)
        <5>1. t = ~b /\ (Odd(r) <=> ~Odd(s))
          BY <3>4, <4>1, OddAppend
        <5>2. QED
          BY <5>1, YesOrNo DEF b
      <4>2. CASE ~Opens(s, x)
        <5>1. t = b /\ (Odd(r) <=> Odd(s))
          BY <3>4, <4>2, OddAppend
        <5>2. QED
          BY <5>1 DEF b
      <4>3. QED
        BY <4>1, <4>2
    <3>6. QED
      BY <3>3, <3>5
  <2>6. QED
    BY <2>5
<1> HIDE DEF S
<1>3. \A s \in Seq(T) : s \in S
  BY <1>1, <1>2, GrowingUp
<1>4. QED
  BY <1>3 DEF S, ThroughBehind

LEMMA ThroughTexts ==
    ASSUME NEW T, NEW at, NEW a \in Seq(T), NEW b \in Seq(T)
    PROVE  /\ Through(T, a, at) => ThroughBehind(T, a, at)
           /\ Through(T, a, at) /\ Through(T, b, at) => Through(T, Then(a, b), at)
           /\ ThroughBehind(T, a, at) /\ Through(T, b, at) => ThroughBehind(T, Then(a, b), at)
           /\ Through(T, a, at) /\ a # << >> /\ Last(a) # Backslash /\ ThroughBehind(T, b, at) =>
                  Through(T, Then(a, b), at)
<1>1. \A l \in T \cup {NoLast} : LastRead(a, l) \in T \cup {NoLast}
  BY LastReadThen
<1>2. a # << >> => \A l : LastRead(a, l) = Last(a)
  BY DEF LastRead
<1>3. ASSUME NEW l \in T \cup {NoLast}, Adds(T, a, at, No, l, No), Adds(T, b, at, No, LastRead(a, l), No)
      PROVE  Adds(T, Then(a, b), at, No, l, No)
  BY <1>3, AddsThen
<1>4. QED
  BY <1>1, <1>2, <1>3 DEF Through, ThroughBehind

\* A quoted text in which a backslash stands before every quote.
LEMMA QuotedThrough ==
    ASSUME NEW T, Quote \in T, NEW at, at # Quote, NEW s \in Seq(T),
           Guarded(s, Quote), s # << >>, Last(s) # Backslash
    PROVE  ThroughBehind(T, Quoted(s), at)
<1> DEFINE one == <<Quote>>
<1>1. one \in Seq(T) /\ one # << >> /\ Last(one) = Quote
  BY DEF Last
<1>2. Quoted(s) = Then(Then(one, s), one)
  BY DEF Quoted, Then, Quote
<1>3. Last(s) \in T
  <2>1. Last(s) = s[Len(s)] /\ Len(s) \in 1..Len(s)
    BY Ends
  <2>2. QED
    BY <2>1, ElementOfSeq
<1> HIDE DEF one
<1> SUFFICES ASSUME NEW l \in T \cup {NoLast}, l # Backslash
             PROVE  Adds(T, Quoted(s), at, No, l, No)
  BY DEF ThroughBehind
<1>4. Quote \in T \cup {NoLast} /\ Last(s) \in T \cup {NoLast}
  BY <1>3
<1>5. Adds(T, one, at, No, l, Yes)
  <2> DEFINE t == IF Toggles(Quote, l) THEN ~No ELSE No
  <2>1. Adds(T, <<Quote>>, at, No, l, t)
    BY YesOrNo, AddsOne
  <2>2. t = Yes
    BY YesOrNo DEF Toggles
  <2> HIDE DEF t
  <2>3. QED
    BY <2>1, <2>2 DEF one
<1>6. Adds(T, s, at, Yes, Quote, Yes)
  BY <1>4, YesOrNo, GuardedThrough
<1>7. Adds(T, one, at, Yes, Last(s), No)
  <2> DEFINE t == IF Toggles(Quote, Last(s)) THEN ~Yes ELSE Yes
  <2>1. Adds(T, <<Quote>>, at, Yes, Last(s), t)
    BY <1>4, YesOrNo, AddsOne
  <2>2. t = No
    BY YesOrNo DEF Toggles
  <2> HIDE DEF t
  <2>3. QED
    BY <2>1, <2>2 DEF one
<1>8. LastRead(one, l) = Quote
  BY <1>1 DEF LastRead
<1>9. Adds(T, Then(one, s), at, No, l, Yes)
  BY <1>1, <1>5, <1>6, <1>8, AddsThen
<1>10. Then(one, s) \in Seq(T) /\ LastRead(Then(one, s), l) = Last(s)
  <2>1. Then(one, s) # << >> /\ Last(Then(one, s)) = Last(s)
    BY <1>1, LastOfThen
  <2>2. QED
    BY <1>1, <2>1, ThenTokens DEF LastRead
<1>11. QED
  BY <1>1, <1>2, <1>7, <1>9, <1>10, AddsThen

\* Items with a mark between them, by their last one.
LEMMA InterleavedIs ==
    ASSUME NEW T, NEW sep \in T, NEW items \in Pieces(T)
    PROVE  /\ Interleaved(items, sep) = Joined(items, <<sep>>)
           /\ Interleaved(items, sep) \in Seq(T)
<1>1. items \in Seq(Seq(T)) /\ items # << >> /\ <<sep>> \in Seq(T)
  BY DEF Pieces
<1>2. Interleaved(items, sep) = Joined(items, <<sep>>)
  BY <1>1 DEF Interleaved, Joined, FoldLeft
<1>3. Joined(items, <<sep>>) \in Seq(T)
  <2>1. PICK g : Joins(g, T, items, <<sep>>)
    BY <1>1, JoinedSteps
  <2>2. Len(Tail(items)) \in 0..Len(Tail(items))
    BY <1>1
  <2>3. QED
    BY <2>1, <2>2 DEF Joins, PrefixValues
<1>4. QED
  BY <1>2, <1>3

LEMMA InterleavedOne ==
    ASSUME NEW T, NEW sep \in T, NEW x \in Seq(T)
    PROVE  /\ <<x>> \in Pieces(T) /\ Append(<< >>, x) = <<x>>
           /\ Interleaved(<<x>>, sep) = x
<1> DEFINE items == <<x>>
<1>1. items \in Pieces(T) /\ Append(<< >>, x) = items /\ Head(items) = x /\ Len(Tail(items)) = 0
  BY DEF Pieces
<1>2. <<sep>> \in Seq(T)
  OBVIOUS
<1> HIDE DEF items
<1>3. PICK g : Joins(g, T, items, <<sep>>)
  BY <1>1, <1>2, JoinedSteps
<1>4. Joined(items, <<sep>>) = x
  BY <1>1, <1>3 DEF Joins, PrefixValues
<1>5. QED
  BY <1>1, <1>4, InterleavedIs DEF items

LEMMA InterleavedAppend ==
    ASSUME NEW T, NEW sep \in T, NEW items \in Pieces(T), NEW x \in Seq(T)
    PROVE  /\ Append(items, x) \in Pieces(T)
           /\ Interleaved(Append(items, x), sep) = Then(Append(Interleaved(items, sep), sep), x)
<1> DEFINE r == Append(items, x)
           s == <<sep>>
           n == Len(Tail(items))
<1>1. items \in Seq(Seq(T)) /\ items # << >> /\ s \in Seq(T)
  BY DEF Pieces
<1>2. /\ r \in Pieces(T) /\ Head(r) = Head(items) /\ n \in Nat /\ Len(Tail(r)) = n + 1
      /\ Tail(r)[n + 1] = x /\ \A i \in 1..n : Tail(r)[i] = Tail(items)[i]
  <2>1. /\ Len(items) \in Nat /\ r \in Seq(Seq(T)) /\ r # << >> /\ Len(r) = Len(items) + 1
        /\ r[Len(items) + 1] = x /\ \A i \in 1..Len(items) : r[i] = items[i]
    BY <1>1, AppendTokens
  <2>2. Len(items) # 0
    BY <1>1, Ends
  <2> HIDE DEF r
  <2>3. /\ Head(items) = items[1] /\ n = Len(items) - 1
        /\ \A i \in 1..(Len(items) - 1) : Tail(items)[i] = items[i + 1]
    BY <1>1, HeadTailProperties
  <2>4. /\ Head(r) = r[1] /\ Len(Tail(r)) = Len(r) - 1
        /\ \A i \in 1..(Len(r) - 1) : Tail(r)[i] = r[i + 1]
    BY <2>1, HeadTailProperties
  <2>5. r \in Pieces(T)
    BY <2>1 DEF Pieces
  <2> HIDE DEF n
  <2>6. n \in Nat /\ Len(Tail(r)) = n + 1 /\ Head(r) = Head(items) /\ Tail(r)[n + 1] = x
    BY <2>1, <2>2, <2>3, <2>4
  <2>7. \A i \in 1..n : Tail(r)[i] = Tail(items)[i]
    BY <2>1, <2>2, <2>3, <2>4
  <2>8. QED
    BY <2>5, <2>6, <2>7
<1> HIDE DEF r, s
<1>3. PICK f : Joins(f, T, items, s)
  BY <1>1, JoinedSteps
<1>4. PICK g : Joins(g, T, r, s)
  BY <1>1, <1>2, JoinedSteps
<1>5. /\ f[0] = Head(items) /\ f[n] = Joined(items, s) /\ g[0] = Head(items) /\ g[n + 1] = Joined(r, s)
      /\ \A k \in 1..n : f[k] = Then(Then(f[k - 1], s), Tail(items)[k])
      /\ \A k \in 1..(n + 1) : g[k] = Then(Then(g[k - 1], s), Tail(r)[k])
  BY <1>2, <1>3, <1>4 DEF Joins, PrefixValues
<1> HIDE DEF n
<1>6. \A k \in 1..n : f[k - 1] = g[k - 1] => f[k] = g[k]
  <2>1. n \in Nat /\ \A k \in 1..n : Tail(r)[k] = Tail(items)[k]
    BY ONLY <1>2
  <2>2. \A k \in 1..n : k \in 1..(n + 1)
    BY ONLY <2>1
  <2>3. QED
    BY ONLY <1>5, <2>1, <2>2
<1>7. \A k \in 0..n : f[k] = g[k]
  <2>1. f[0] = g[0]
    BY <1>5
  <2>2. n \in Nat
    BY ONLY <1>2
  <2>3. QED
    BY ONLY <1>6, <2>1, <2>2, PrefixesAgree, ZenonT(30)
<1>8. g[n + 1] = Then(Then(g[n], s), x) /\ g[n] = f[n]
  BY <1>2, <1>5, <1>7
<1>9. Joined(r, s) = Then(Then(Joined(items, s), s), x)
  BY <1>5, <1>8
<1>10. /\ Interleaved(r, sep) = Joined(r, s) /\ Interleaved(items, sep) = Joined(items, s)
       /\ Interleaved(items, sep) \in Seq(T)
  BY <1>2, InterleavedIs DEF s
<1>11. Then(Interleaved(items, sep), s) = Append(Interleaved(items, sep), sep)
  BY <1>10 DEF Then, s
<1>12. QED
  BY <1>2, <1>9, <1>10, <1>11 DEF r

-----------------------------------------------------------------------------
(***************************************************************************)
(* Items with a mark between them come back from the splitter.             *)
(***************************************************************************)

\* A token that is split off as it is.
Item(T, s, at) == s \in Seq(T) /\ s # << >> /\ Trimmed(s) = s /\ ThroughBehind(T, s, at)

\* Items with the mark between them have been read, up to the last.
ReadTo(T, items, at) ==
    \E done \in Seq(Seq(T)), x \in Seq(T) :
        /\ items = Append(done, x)
        /\ SplitEnd(Interleaved(items, at), at) = Cut(done, x, No, Last(x))

LEMMA ItemRead ==
    ASSUME NEW T, NEW at \in T, at # Quote, at # Backslash, NEW x, Item(T, x, at),
           NEW u \in Seq(T), NEW done \in Seq(Seq(T)), NEW l \in T \cup {NoLast}, l # Backslash,
           NEW none, none = << >>, SplitEnd(u, at) = Cut(done, none, No, l)
    PROVE  SplitEnd(Then(u, x), at) = Cut(done, x, No, Last(x))
<1>1. x \in Seq(T) /\ x # << >> /\ Adds(T, x, at, No, l, No)
  BY DEF Item, ThroughBehind
<1>2. none \in Seq(T) /\ Then(none, x) = x /\ LastRead(x, l) = Last(x)
  BY <1>1 DEF Then, LastRead
<1>3. SplitEnd(Then(u, x), at) = Cut(done, Then(none, x), No, LastRead(x, l))
  BY <1>1, <1>2 DEF Adds, AddsTo
<1>4. QED
  BY <1>2, <1>3

LEMMA ItemsRead ==
    ASSUME NEW T, NEW at \in T, at # Quote, at # Backslash
    PROVE  \A items \in Seq(Seq(T)) :
               items # << >> /\ (\A i \in 1..Len(items) : Item(T, items[i], at)) => ReadTo(T, items, at)
<1> DEFINE Good(items) == \A i \in 1..Len(items) : Item(T, items[i], at)
           S == {items \in Seq(Seq(T)) : items # << >> /\ Good(items) => ReadTo(T, items, at)}
           none == << >>
<1>1. none \in S
  OBVIOUS
<1>2. ASSUME NEW items \in Seq(Seq(T)), NEW x \in Seq(T), items \in S
      PROVE  Append(items, x) \in S
  <2> DEFINE r == Append(items, x)
  <2>1. /\ Len(items) \in Nat /\ r \in Seq(Seq(T)) /\ Len(r) = Len(items) + 1
        /\ r[Len(items) + 1] = x /\ \A i \in 1..Len(items) : r[i] = items[i]
    BY AppendTokens
  <2> SUFFICES ASSUME Good(r) PROVE ReadTo(T, r, at)
    BY <2>1
  <2> HIDE DEF r
  <2>2. Item(T, x, at) /\ Good(items)
    <3>1. Len(items) + 1 \in 1..Len(r) /\ \A i \in 1..Len(items) : i \in 1..Len(r)
      BY <2>1
    <3>2. QED
      BY <2>1, <3>1
  <2> HIDE DEF Good
  <2>3. CASE items = none
    <3>1. r = <<x>> /\ Interleaved(r, at) = x /\ r = Append(none, x)
      BY <2>3, InterleavedOne DEF r
    <3>2. SplitEnd(none, at) = Cut(none, none, No, NoLast) /\ none \in Seq(T) /\ none \in Seq(Seq(T))
      BY SplitNothing DEF Uncut
    <3>3. NoLast \in T \cup {NoLast} /\ NoLast # Backslash
      BY DEF NoLast, Backslash
    <3>4. Then(none, x) = x
      BY DEF Then
    <3> HIDE DEF none
    <3>5. SplitEnd(Then(none, x), at) = Cut(none, x, No, Last(x))
      <4>1. none = << >>
        BY DEF none
      <4> DEFINE start == none
             u == none
             l == NoLast
      <4>2. /\ start \in Seq(Seq(T)) /\ u \in Seq(T)
            /\ l \in T \cup {NoLast} /\ l # Backslash
            /\ SplitEnd(u, at) = Cut(start, none, No, l)
        BY <3>2, <3>3
      <4> HIDE DEF start, u, l
      <4>3. SplitEnd(Then(u, x), at) = Cut(start, x, No, Last(x))
        BY <2>2, <4>1, <4>2, ItemRead
      <4>4. QED
        BY <4>3 DEF start, u
    <3>6. QED
      BY <3>1, <3>2, <3>4, <3>5 DEF ReadTo
  <2>4. CASE items # none
    <3> DEFINE text == Interleaved(items, at)
    <3>1. items \in Pieces(T) /\ ReadTo(T, items, at)
      BY <1>2, <2>2, <2>4 DEF Pieces
    <3>2. PICK done \in Seq(Seq(T)), y \in Seq(T) :
              items = Append(done, y) /\ SplitEnd(text, at) = Cut(done, y, No, Last(y))
      BY <3>1 DEF ReadTo
    <3>3. Item(T, y, at)
      <4>1. Len(done) + 1 \in 1..Len(items) /\ items[Len(done) + 1] = y
        BY <3>2, AppendTokens
      <4>2. QED
        BY <2>2, <4>1 DEF Good
    <3>4. Trimmed(y) = y /\ y # << >> /\ Last(y) \in T \cup {NoLast}
      <4>1. Trimmed(y) = y /\ y # << >>
        BY <3>3 DEF Item
      <4>2. Last(y) = y[Len(y)] /\ Len(y) \in 1..Len(y)
        BY <4>1, Ends
      <4>3. Last(y) \in T
        BY <4>2, ElementOfSeq
      <4>4. QED
        BY <4>1, <4>3
    <3>5. text \in Seq(T) /\ Interleaved(r, at) = Then(Append(text, at), x) /\ Append(text, at) \in Seq(T)
      <4>1. text \in Seq(T)
        BY <3>1, InterleavedIs
      <4>2. Interleaved(r, at) = Then(Append(text, at), x)
        BY <3>1, InterleavedAppend DEF r
      <4> HIDE DEF text
      <4>3. Append(text, at) \in Seq(T)
        BY <4>1
      <4>4. QED
        BY <4>1, <4>2, <4>3
    <3> HIDE DEF text
    <3>6. SplitEnd(Append(text, at), at) = SplitStep(Cut(done, y, No, Last(y)), at, at)
      BY <3>2, <3>5, SplitAppend
    <3>7. EndsToken(at, y, No, at)
      BY <3>4 DEF EndsToken
    <3>8. SplitStep(Cut(done, y, No, Last(y)), at, at) = Cut(Append(done, Trimmed(y)), << >>, No, at)
      BY <3>4, <3>7, StepIs, YesOrNo
    <3>9. SplitEnd(Append(text, at), at) = Cut(items, << >>, No, at)
      BY <3>2, <3>4, <3>6, <3>8
    <3>10. SplitEnd(Then(Append(text, at), x), at) = Cut(items, x, No, Last(x))
      <4> DEFINE u == Append(text, at)
      <4>1. u \in Seq(T) /\ SplitEnd(u, at) = Cut(items, none, No, at) /\ none = << >>
        BY <3>5, <3>9
      <4>2. at \in T \cup {NoLast}
        OBVIOUS
      <4> HIDE DEF u, none
      <4>3. SplitEnd(Then(u, x), at) = Cut(items, x, No, Last(x))
        BY <2>2, <4>1, <4>2, ItemRead
      <4>4. QED
        BY <4>3 DEF u
    <3>11. QED
      BY <3>5, <3>10 DEF ReadTo, r
  <2>5. QED
    BY <2>3, <2>4
<1> HIDE DEF S
<1>3. \A items \in Seq(Seq(T)) : items \in S
  <2>1. << >> \in S
    BY <1>1
  <2> HIDE DEF none
  <2>2. QED
    BY <1>2, <2>1, GrowingUp
<1>4. QED
  BY <1>3 DEF S

\* Items with the mark between them come back.
LEMMA ItemsSplitOff ==
    ASSUME NEW T, NEW at \in T, at # Quote, at # Backslash, NEW items \in Seq(Seq(T)), items # << >>,
           \A i \in 1..Len(items) : Item(T, items[i], at)
    PROVE  originate_split(Interleaved(items, at), at) = <<items>>
<1>1. PICK done \in Seq(Seq(T)), x \in Seq(T) :
        items = Append(done, x) /\ SplitEnd(Interleaved(items, at), at) = Cut(done, x, No, Last(x))
  BY ItemsRead DEF ReadTo
<1>2. Item(T, x, at)
  <2>1. Len(done) + 1 \in 1..Len(items) /\ items[Len(done) + 1] = x
    BY <1>1, AppendTokens
  <2>2. QED
    BY <2>1
<1>3. Trimmed(x) = x /\ x # << >>
  BY <1>2 DEF Item
<1> DEFINE f == SplitEnd(Interleaved(items, at), at)
<1>4. f.quote = No /\ f.tokens = done /\ f.token = x
  BY <1>1 DEF Cut
<1> HIDE DEF f
<1>5. originate_split(Interleaved(items, at), at) =
        IF f.quote THEN << >> ELSE <<f.tokens \o Given(Trimmed(f.token))>>
  BY SplitIs DEF f
<1>6. done \o Given(x) = items
  <2>1. Given(x) = <<x>>
    BY <1>3 DEF Given, Some
  <2>2. done \o <<x>> = Append(done, x)
    OBVIOUS
  <2>3. QED
    BY <1>1, <2>1, <2>2
<1>7. QED
  BY <1>3, <1>4, <1>5, <1>6, YesAndNo

\* The marks that no item may show outside quotes.
Unmarked(s) == Space \notin Range(s) /\ Quote \notin Range(s)

LEMMA FirstAndLast ==
    ASSUME NEW T, NEW s \in Seq(T), s # << >>
    PROVE  s[1] \in Range(s) /\ Last(s) \in Range(s) /\ Range(s) \in SUBSET T
<1>1. 1 \in 1..Len(s) /\ Len(s) \in 1..Len(s) /\ Last(s) = s[Len(s)] /\ DOMAIN s = 1..Len(s)
  BY Ends
<1>2. Range(s) = {s[i] : i \in 1..Len(s)}
  BY <1>1 DEF Range
<1>3. \A i \in 1..Len(s) : s[i] \in T
  BY ElementOfSeq
<1>4. QED
  BY <1>1, <1>2, <1>3

LEMMA WordThrough ==
    ASSUME NEW T, NEW at, at # Quote, NEW s \in Seq(T), at \notin Range(s), Quote \notin Range(s)
    PROVE  Through(T, s, at)
<1>1. Guarded(s, Quote)
  BY DEF Guarded, Range
<1>2. \A l \in T \cup {NoLast} : Adds(T, s, at, No, l, No)
  BY <1>1, GuardedThrough, YesOrNo
<1>3. QED
  BY <1>2 DEF Through

LEMMA OneThrough ==
    ASSUME NEW T, NEW at, at # Quote, NEW x \in T, x # at, x # Quote
    PROVE  /\ Through(T, <<x>>, at) /\ <<x>> \in Seq(T) /\ <<x>> # << >> /\ Last(<<x>>) = x
           /\ Range(<<x>>) = {x}
<1> DEFINE s == <<x>>
<1>1. s \in Seq(T) /\ Range(s) = {x} /\ s # << >> /\ Last(s) = x
  BY DEF Range, Last
<1> HIDE DEF s
<1>2. Through(T, s, at)
  BY <1>1, WordThrough
<1>3. QED
  BY <1>1, <1>2 DEF s

LEMMA ItemIs ==
    ASSUME NEW T, NEW at, NEW s \in Seq(T), s # << >>, s[1] # Space, Last(s) # Space,
           ThroughBehind(T, s, at)
    PROVE  Item(T, s, at)
  BY TrimmedText DEF Item

LEMMA WordItem ==
    ASSUME NEW T, NEW s \in Seq(T), s # << >>, Unmarked(s)
    PROVE  Item(T, s, Space)
<1>1. s[1] \in Range(s) /\ Last(s) \in Range(s)
  BY FirstAndLast
<1>2. Space # Quote
  BY DEF Space, Quote
<1>3. Through(T, s, Space)
  BY <1>2, WordThrough DEF Unmarked
<1>4. ThroughBehind(T, s, Space)
  BY <1>3 DEF Through, ThroughBehind
<1>5. QED
  BY <1>1, <1>4, ItemIs DEF Unmarked

\* Escaping another mark leaves the backslashes before the quotes.
LEMMA StaysGuarded ==
    ASSUME NEW T, NEW c \in T, Backslash \in T, c # Backslash, c # Quote
    PROVE  \A s \in Seq(T) : Guarded(s, Quote) => Guarded(Escape(s, c), Quote)
<1> DEFINE S == {s \in Seq(T) : Guarded(s, Quote) => Guarded(Escape(s, c), Quote)}
           b == Backslash
<1>1. << >> \in S
  <2>1. << >> \in Seq(T)
    OBVIOUS
  <2>2. Escape(<< >>, c) = << >>
    BY <2>1, EscapeAppend
  <2>3. QED
    BY <2>1, <2>2
<1>2. ASSUME NEW s \in Seq(T), NEW x \in T, s \in S
      PROVE  Append(s, x) \in S
  <2> DEFINE e == Escape(s, c)
             f == Escape(Append(s, x), c)
             r == Append(s, x)
             m == Append(e, b)
  <2>1. e \in Seq(T) /\ f = Then(e, Escaping(x, c))
    BY EscapeAppend
  <2>2. SameMarks(s, e)
    BY EscapedText
  <2>3. r \in Seq(T) /\ b \in T /\ b # c /\ b # Quote
    BY MarksDiffer
  <2> HIDE DEF e, f
  <2>4. f = IF x = c THEN Append(m, c) ELSE Append(e, x)
    BY <2>1, EscapingBehind
  <2>5. /\ Len(s) \in Nat /\ Len(r) = Len(s) + 1 /\ r[Len(s) + 1] = x
        /\ \A i \in 1..Len(s) : r[i] = s[i]
    BY AppendTokens
  <2> SUFFICES ASSUME Guarded(r, Quote) PROVE Guarded(f, Quote)
    BY <2>3 DEF f, r
  <2> HIDE DEF r
  <2>6. Guarded(s, Quote)
    BY <2>5 DEF Guarded
  <2>7. Guarded(e, Quote)
    BY <1>2, <2>6 DEF e
  <2>8. x = Quote => s # << >> /\ Last(s) = Backslash
    <3>1. CASE x = Quote
      <4>1. Len(s) + 1 > 1 /\ r[Len(s) + 1 - 1] = Backslash
        BY <2>5, <3>1 DEF Guarded
      <4>2. Len(s) > 0 /\ Len(s) + 1 - 1 = Len(s) /\ Len(s) \in 1..Len(s)
        BY <2>5, <4>1
      <4>3. QED
        BY <2>5, <4>1, <4>2, Ends
    <3>2. QED
      BY <3>1
  <2> HIDE DEF m, b
  <2>9. CASE x # c
    <3>1. /\ Len(e) \in Nat /\ Len(f) = Len(e) + 1 /\ f[Len(e) + 1] = x
          /\ \A i \in 1..Len(e) : f[i] = e[i]
      BY <2>1, <2>4, <2>9, AppendTokens
    <3>2. x = Quote => Len(e) \in 1..Len(e) /\ e[Len(e)] = Backslash
      BY <2>1, <2>2, <2>8, Ends DEF SameMarks
    <3>3. ASSUME NEW i \in 1..(Len(e) + 1), f[i] = Quote
          PROVE  i > 1 /\ f[i - 1] = Backslash
      <4>1. CASE i \in 1..Len(e)
        <5>1. i > 1 /\ e[i - 1] = Backslash /\ i - 1 \in 1..Len(e)
          BY <2>7, <3>1, <3>3, <4>1 DEF Guarded
        <5>2. QED
          BY <3>1, <5>1
      <4>2. CASE i = Len(e) + 1
        <5>1. Len(e) \in 1..Len(e) /\ e[Len(e)] = Backslash
          BY <3>1, <3>2, <3>3, <4>2
        <5>2. i - 1 = Len(e) /\ i > 1
          BY <3>1, <4>2, <5>1
        <5>3. QED
          BY <3>1, <5>1, <5>2
      <4>3. QED
        BY <3>1, <4>1, <4>2
    <3>4. QED
      BY <3>1, <3>3 DEF Guarded
  <2>10. CASE x = c
    <3>1. /\ Len(e) \in Nat /\ Len(m) = Len(e) + 1 /\ m \in Seq(T) /\ m[Len(e) + 1] = b
          /\ \A i \in 1..Len(e) : m[i] = e[i]
      BY <2>1, <2>3, AppendTokens DEF m
    <3>2. /\ Len(f) = Len(m) + 1 /\ f[Len(m) + 1] = c
          /\ \A i \in 1..Len(m) : f[i] = m[i]
      BY <2>4, <2>10, <3>1, AppendTokens
    <3>3. ASSUME NEW i \in 1..(Len(e) + 2), f[i] = Quote
          PROVE  i > 1 /\ f[i - 1] = Backslash
      <4>1. i # Len(e) + 2
        BY <3>1, <3>2, <3>3
      <4>2. i # Len(e) + 1
        <5>1. Len(e) + 1 \in 1..Len(m)
          BY <3>1
        <5>2. QED
          BY <2>3, <3>1, <3>2, <3>3, <5>1
      <4>3. i \in 1..Len(e) /\ i \in 1..Len(m)
        BY <3>1, <4>1, <4>2
      <4>4. i > 1 /\ e[i - 1] = Backslash /\ i - 1 \in 1..Len(e)
        BY <2>7, <3>1, <3>2, <3>3, <4>3 DEF Guarded
      <4>5. i - 1 \in 1..Len(m)
        BY <3>1, <4>4
      <4>6. QED
        BY <3>1, <3>2, <4>4, <4>5
    <3>4. QED
      BY <3>1, <3>2, <3>3 DEF Guarded
  <2>11. QED
    BY <2>9, <2>10
<1> HIDE DEF S
<1>3. \A s \in Seq(T) : s \in S
  BY <1>1, <1>2, GrowingUp
<1>4. QED
  BY <1>3 DEF S

-----------------------------------------------------------------------------
(***************************************************************************)
(* Variables and endpoints are items.                                      *)
(***************************************************************************)

LEMMA SpaceIsNone == Space # Quote /\ Space # Comma /\ Space # Equals /\ Space # Backslash
                     /\ Equals # Quote /\ Equals # Backslash /\ Comma # Quote
  BY DEF Space, Quote, Comma, Equals, Backslash

\* A value of a block is quoted if it has a space; its own quotes have
\* backslashes before them.
LEMMA ValueThrough ==
    ASSUME NEW T, Backslash \in T, Quote \in T, Comma \in T, NEW v \in Seq(T),
           v # << >> /\ Last(v) = Backslash => ~Contains(v, Space)
    PROVE  escape_value(v) \in Seq(T) /\ ThroughBehind(T, escape_value(v), Space)
<1> DEFINE t == Escape(v, Quote)
           e == Escape(t, Comma)
           r == escape_value(v)
<1>1. /\ Quote # Backslash /\ Comma # Backslash /\ Quote # Comma /\ Space # Backslash
  BY MarksDiffer
<1>2. t \in Seq(T)
  BY <1>1, EscapeAppend
<1>3. Guarded(t, Quote) /\ SameMarks(v, t)
  BY <1>1, EscapedText
<1>4. r = IF Contains(e, Space) THEN Quoted(e) ELSE e
  BY DEF escape_value, Space, Comma, Quote
<1>5. r \in Seq(T)
  BY ValueComesBack
<1> HIDE DEF t, r
<1>6. e \in Seq(T)
  BY <1>1, <1>2, EscapeAppend
<1>7. Guarded(e, Quote)
  BY <1>1, <1>2, <1>3, StaysGuarded
<1>8. SameMarks(t, e)
  BY <1>1, <1>2, EscapedText
<1> HIDE DEF e
<1>9. Contains(e, Space) <=> Contains(v, Space)
  <2>1. Range(e) \ {Backslash} = Range(v) \ {Backslash}
    BY <1>3, <1>8 DEF SameMarks
  <2>2. Space \in Range(e) <=> Space \in Range(v)
    BY <1>1, <2>1
  <2>3. QED
    BY <1>6, <2>2, ContainsRange
<1>10. CASE Contains(e, Space)
  <2>1. Space \in Range(v) /\ Space \in Range(e)
    BY <1>6, <1>9, <1>10, ContainsRange
  <2>2. v # << >> /\ t # << >> /\ e # << >>
    <3>1. v # << >>
      BY <2>1 DEF Range
    <3>2. QED
      BY <1>3, <1>8, <3>1 DEF SameMarks
  <2>3. Last(e) = Last(v)
    BY <1>3, <1>8, <2>2 DEF SameMarks
  <2>4. Last(e) # Backslash
    BY <1>9, <1>10, <2>2, <2>3
  <2>5. ThroughBehind(T, Quoted(e), Space)
    BY <1>1, <1>6, <1>7, <2>2, <2>4, SpaceIsNone, QuotedThrough
  <2>6. QED
    BY <1>4, <1>5, <1>10, <2>5 DEF r
<1>11. CASE ~Contains(e, Space)
  <2>1. Space \notin Range(e)
    BY <1>6, <1>11, ContainsRange
  <2>2. \A l \in T \cup {NoLast} : Adds(T, e, Space, No, l, No)
    BY <1>6, <1>7, <2>1, SpaceIsNone, YesOrNo, GuardedThrough
  <2>3. ThroughBehind(T, e, Space)
    BY <2>2 DEF ThroughBehind
  <2>4. QED
    BY <1>4, <1>5, <1>11, <2>3 DEF r
<1>12. QED
  BY <1>10, <1>11

LEMMA VariableThrough ==
    ASSUME NEW T, Marked(T), NEW key \in Seq(T), Unmarked(key), NEW v \in Seq(T),
           v # << >> /\ Last(v) = Backslash => ~Contains(v, Space)
    PROVE  VariableItem(key, v) \in Seq(T) /\ Through(T, VariableItem(key, v), Space)
<1> DEFINE e == escape_value(v)
           k == Then(key, <<Equals>>)
<1>1. Backslash \in T /\ Quote \in T /\ Comma \in T /\ Equals \in T
  BY DEF Marked
<1>2. e \in Seq(T) /\ ThroughBehind(T, e, Space)
  BY <1>1, ValueThrough
<1>3. VariableItem(key, v) = Then(k, e)
  BY DEF VariableItem, Then, Equals
<1>4. Through(T, key, Space)
  BY SpaceIsNone, WordThrough DEF Unmarked
<1> DEFINE one == <<Equals>>
<1>5. Through(T, one, Space) /\ one \in Seq(T) /\ one # << >> /\ Last(one) = Equals
  BY <1>1, SpaceIsNone, OneThrough
<1> HIDE DEF e, one
<1>6. k \in Seq(T) /\ Through(T, k, Space) /\ k # << >> /\ Last(k) = Equals
  <2>1. k = Then(key, one)
    BY DEF one
  <2> HIDE DEF k
  <2>2. Through(T, k, Space)
    BY <1>4, <1>5, <2>1, ThroughTexts
  <2>3. k \in Seq(T)
    BY <1>5, <2>1, ThenTokens
  <2>4. k # << >> /\ Last(k) = Equals
    BY <1>5, <2>1, LastOfThen
  <2>5. QED
    BY <2>2, <2>3, <2>4
<1> HIDE DEF k
<1>7. Then(k, e) \in Seq(T)
  BY <1>2, <1>6, ThenTokens
<1>8. Through(T, Then(k, e), Space)
  BY <1>2, <1>6, SpaceIsNone, ThroughTexts
<1>9. QED
  BY <1>3, <1>7, <1>8

\* Items with a mark between them that is not looked for.
LEMMA AllThrough ==
    ASSUME NEW T, NEW at, at # Quote, NEW sep \in T, sep # at, sep # Quote
    PROVE  \A items \in Seq(Seq(T)) :
               items # << >> /\ (\A i \in 1..Len(items) : Through(T, items[i], at)) =>
                   Interleaved(items, sep) \in Seq(T) /\ Through(T, Interleaved(items, sep), at)
<1> DEFINE Good(items) == \A i \in 1..Len(items) : Through(T, items[i], at)
           Is(text) == text \in Seq(T) /\ Through(T, text, at)
           S == {items \in Seq(Seq(T)) : items # << >> /\ Good(items) => Is(Interleaved(items, sep))}
           none == << >>
<1>1. none \in S
  OBVIOUS
<1>2. ASSUME NEW items \in Seq(Seq(T)), NEW x \in Seq(T), items \in S
      PROVE  Append(items, x) \in S
  <2> DEFINE r == Append(items, x)
  <2>1. /\ Len(items) \in Nat /\ r \in Seq(Seq(T)) /\ Len(r) = Len(items) + 1
        /\ r[Len(items) + 1] = x /\ \A i \in 1..Len(items) : r[i] = items[i]
    BY AppendTokens
  <2> SUFFICES ASSUME Good(r) PROVE Is(Interleaved(r, sep))
    BY <2>1
  <2> HIDE DEF r
  <2>2. Through(T, x, at) /\ Good(items)
    <3>1. Len(items) + 1 \in 1..Len(r) /\ \A i \in 1..Len(items) : i \in 1..Len(r)
      BY <2>1
    <3>2. QED
      BY <2>1, <3>1
  <2> HIDE DEF Good
  <2>3. CASE items = none
    <3>1. Interleaved(r, sep) = x
      BY <2>3, InterleavedOne DEF r
    <3>2. QED
      BY <2>2, <3>1
  <2>4. CASE items # none
    <3> DEFINE text == Interleaved(items, sep)
               one == <<sep>>
    <3>1. items \in Pieces(T) /\ Is(text)
      BY <1>2, <2>2, <2>4 DEF Pieces
    <3>2. Interleaved(r, sep) = Then(Append(text, sep), x)
      BY <3>1, InterleavedAppend DEF r
    <3>3. Through(T, one, at) /\ one \in Seq(T)
      BY OneThrough
    <3> HIDE DEF text
    <3>4. Append(text, sep) = Then(text, one)
      BY <3>1 DEF Then
    <3> HIDE DEF one
    <3>5. Then(text, one) \in Seq(T) /\ Through(T, Then(text, one), at)
      BY <3>1, <3>3, ThenTokens, ThroughTexts
    <3>6. Then(Then(text, one), x) \in Seq(T) /\ Through(T, Then(Then(text, one), x), at)
      BY <2>2, <3>5, ThenTokens, ThroughTexts
    <3>7. QED
      BY <3>2, <3>4, <3>6
  <2>5. QED
    BY <2>3, <2>4
<1> HIDE DEF S
<1>3. \A items \in Seq(Seq(T)) : items \in S
  <2>1. << >> \in S
    BY <1>1
  <2> HIDE DEF none
  <2>2. QED
    BY <1>2, <2>1, GrowingUp
<1>4. QED
  BY <1>3 DEF S

LeftBrace == "{"
RightBrace == "}"

PathTokens == {"user/1", "loopback/", "1", "/", "a", "sofia/gateway/", "gw", "p", "::"}

LEMMA PathTokensAre ==
    \A x \in PathTokens : x \notin {Space, Quote, Backslash, LeftBrace, RightBrace}
  BY DEF PathTokens, Space, Quote, Backslash, LeftBrace, RightBrace

LEMMA PathsAre == \A p \in Paths : p \in Seq(PathTokens) /\ p # << >>
<1>1. Paths = {Generic("user/1"), Loopback("1", "a"), SofiaGateway(<< >>, "gw", "1"),
               SofiaGateway(<<"p">>, "gw", "1")}
  BY DEF Paths
<1>2. Generic("user/1") \in Seq(PathTokens) /\ Generic("user/1") # << >>
  BY DEF Generic, PathTokens
<1>3. Loopback("1", "a") \in Seq(PathTokens) /\ Loopback("1", "a") # << >>
  BY DEF Loopback, PathTokens
<1>4. SofiaGateway(<< >>, "gw", "1") \in Seq(PathTokens) /\ SofiaGateway(<< >>, "gw", "1") # << >>
  BY DEF SofiaGateway, PathTokens, Some
<1>5. SofiaGateway(<<"p">>, "gw", "1") \in Seq(PathTokens) /\ SofiaGateway(<<"p">>, "gw", "1") # << >>
  BY DEF SofiaGateway, PathTokens, Some
<1>6. QED
  BY <1>1, <1>2, <1>3, <1>4, <1>5, Zenon

LEMMA DelimitersUnmarked ==
    \A t \in DOMAIN Delimiters : /\ Opening(t) \notin {Space, Quote, Backslash}
                                 /\ Closing(t) \notin {Space, Quote, Backslash}
<1> DEFINE less == "<"
           greater == ">"
           open == "{"
           close == "}"
           left == "["
           right == "]"
           e == "Enterprise"
           d == "Default"
           c == "Channel"
<1>1. \A x \in {less, greater, open, close, left, right} : x \notin {Space, Quote, Backslash}
  BY DEF Space, Quote, Backslash
<1> HIDE DEF less, greater, open, close, left, right
<1>2. Delimiters = [Enterprise |-> <<less, greater>>, Default |-> <<open, close>>,
                    Channel |-> <<left, right>>]
  BY DEF Delimiters, less, greater, open, close, left, right
<1>3. /\ DOMAIN Delimiters = {e, d, c}
      /\ Delimiters[e] = <<less, greater>>
      /\ Delimiters[d] = <<open, close>>
      /\ Delimiters[c] = <<left, right>>
  BY <1>2
<1> HIDE DEF e, d, c
<1>4. /\ Opening(e) = less /\ Closing(e) = greater
      /\ Opening(d) = open /\ Closing(d) = close
      /\ Opening(c) = left /\ Closing(c) = right
  BY <1>3 DEF Opening, Closing
<1>5. QED
  BY <1>1, <1>3, <1>4

\* An endpoint whose variables the format can carry, and its path.
Carriable(T, vars) ==
    /\ vars \in Seq(Pairs(T))
    /\ \A i \in 1..Len(vars) :
           /\ vars[i].key \in Seq(T) /\ vars[i].value \in Seq(T) /\ Unmarked(vars[i].key)
           /\ vars[i].value # << >> /\ Last(vars[i].value) = Backslash => ~Contains(vars[i].value, Space)

LEMMA VariablesThrough ==
    ASSUME NEW T, Marked(T), NEW type \in DOMAIN Delimiters, Opening(type) \in T, Closing(type) \in T,
           NEW vars, Carriable(T, vars), vars # << >>
    PROVE  /\ VariablesText(type, vars) \in Seq(T) /\ Through(T, VariablesText(type, vars), Space)
           /\ VariablesText(type, vars) # << >> /\ VariablesText(type, vars)[1] = Opening(type)
<1> DEFINE items == ItemsOf(vars)
           inner == Interleaved(items, Comma)
           text == VariablesText(type, vars)
           a == <<Opening(type)>>
           z == <<Closing(type)>>
<1>1. text = Enclosed(Opening(type), inner, Closing(type))
  BY DEF VariablesText, Enclosed, Opening, Closing, ItemsOf, VariableItem, Comma
<1>2. DOMAIN vars = 1..Len(vars) /\ Len(vars) \in Nat /\ Len(vars) # 0
  BY DEF Carriable
<1>3. /\ items \in Seq(Seq(T)) /\ items # << >>
      /\ \A i \in 1..Len(items) : Through(T, items[i], Space)
  <2>1. ASSUME NEW i \in 1..Len(vars)
        PROVE  /\ VariableItem(vars[i].key, vars[i].value) \in Seq(T)
               /\ Through(T, VariableItem(vars[i].key, vars[i].value), Space)
    <3>1. /\ vars[i].key \in Seq(T) /\ vars[i].value \in Seq(T) /\ Unmarked(vars[i].key)
          /\ vars[i].value # << >> /\ Last(vars[i].value) = Backslash => ~Contains(vars[i].value, Space)
      BY DEF Carriable
    <3>2. QED
      BY <3>1, VariableThrough
  <2>2. items = [i \in 1..Len(vars) |-> VariableItem(vars[i].key, vars[i].value)]
    BY <1>2 DEF ItemsOf
  <2> HIDE DEF items
  <2>3. items \in Seq(Seq(T)) /\ Len(items) = Len(vars)
    BY <1>2, <2>1, <2>2
  <2>4. items # << >>
    BY <1>2, <2>3, Ends
  <2>5. \A i \in 1..Len(items) : Through(T, items[i], Space)
    BY <2>1, <2>2, <2>3
  <2>6. QED
    BY <2>3, <2>4, <2>5
<1> HIDE DEF items
<1>4. inner \in Seq(T) /\ Through(T, inner, Space)
  <2>1. Comma \in T
    BY DEF Marked
  <2>2. QED
    BY <1>3, <2>1, SpaceIsNone, AllThrough
<1> HIDE DEF inner
<1>5. /\ Opening(type) # Space /\ Opening(type) # Quote
      /\ Closing(type) # Space /\ Closing(type) # Quote
  BY DelimitersUnmarked
<1>6. Through(T, a, Space) /\ a \in Seq(T)
  BY <1>5, SpaceIsNone, OneThrough
<1>7. Through(T, z, Space) /\ z \in Seq(T)
  BY <1>5, SpaceIsNone, OneThrough
<1>8. text = Then(Then(a, inner), z)
  BY <1>1 DEF Enclosed, Then
<1>9. /\ text \in Seq(T) /\ Len(text) = Len(inner) + 2 /\ Len(inner) \in Nat
      /\ text[1] = Opening(type)
  <2> DEFINE o == Opening(type)
             c == Closing(type)
             q == Enclosed(o, inner, c)
  <2>1. o \in T /\ c \in T
    OBVIOUS
  <2>2. text = q
    BY <1>1
  <2> HIDE DEF o, c
  <2>3. /\ q \in Seq(T) /\ Len(q) = Len(inner) + 2 /\ Len(inner) \in Nat /\ q[1] = o
    BY <1>4, <2>1, EnclosedText
  <2> HIDE DEF q, text
  <2>4. QED
    BY <2>2, <2>3 DEF o
<1> HIDE DEF text, a, z
<1>10. text # << >>
  BY <1>9, Ends
<1>11. Then(a, inner) \in Seq(T) /\ Through(T, Then(a, inner), Space)
  BY <1>4, <1>6, ThenTokens, ThroughTexts
<1>12. Through(T, text, Space)
  BY <1>7, <1>8, <1>11, ThroughTexts
<1>13. QED
  BY <1>9, <1>10, <1>12 DEF text

LEMMA EndpointItem ==
    ASSUME NEW T, Marked(T), NEW e \in Endpoints, Opening(e.scope) \in T, Closing(e.scope) \in T,
           \A x \in PathTokens : x \in T, Carriable(T, e.vars)
    PROVE  Item(T, EndpointText(e), Space)
<1> DEFINE path == e.path
           text == VariablesText(e.scope, e.vars)
<1>1. e.path \in Paths /\ e.scope \in DOMAIN Delimiters
  BY DEF Endpoints
<1>2. path \in Seq(PathTokens) /\ path # << >>
  BY <1>1, PathsAre
<1> HIDE DEF path
<1>3. path \in Seq(T)
  BY <1>2, SeqOfMore
<1>4. Unmarked(path) /\ Last(path) # Space /\ path[1] # Space
  <2>1. Range(path) \in SUBSET PathTokens /\ Last(path) \in Range(path) /\ path[1] \in Range(path)
    BY <1>2, FirstAndLast
  <2>2. QED
    BY <2>1, PathTokensAre DEF Unmarked
<1>5. CASE e.vars = << >>
  <2>1. EndpointText(e) = path
    BY <1>3, <1>5 DEF EndpointText, Some, path
  <2>2. QED
    BY <1>2, <1>3, <1>4, <2>1, WordItem
<1>6. CASE e.vars # << >>
  <2>1. EndpointText(e) = Then(text, path)
    BY <1>6 DEF EndpointText, Some, Then, path
  <2>2. /\ text \in Seq(T) /\ Through(T, text, Space) /\ text # << >> /\ text[1] = Opening(e.scope)
    BY <1>1, <1>6, VariablesThrough
  <2> HIDE DEF text
  <2>3. Through(T, path, Space)
    BY <1>3, <1>4, SpaceIsNone, WordThrough DEF Unmarked
  <2>4. ThroughBehind(T, Then(text, path), Space) /\ Then(text, path) \in Seq(T)
    <3>1. Then(text, path) \in Seq(T)
      BY <1>3, <2>2, ThenTokens
    <3>2. Through(T, Then(text, path), Space)
      BY <1>3, <2>2, <2>3, ThroughTexts
    <3>3. QED
      BY <3>1, <3>2 DEF Through, ThroughBehind
  <2>5. Then(text, path) # << >> /\ Last(Then(text, path)) = Last(path)
    BY <1>2, <1>3, <2>2, LastOfThen
  <2>6. Then(text, path)[1] = Opening(e.scope)
    <3>1. Len(text) \in Nat /\ 1 \in 1..Len(text) /\ Len(path) \in Nat
      BY <1>3, <2>2, Ends
    <3>2. 1 \in 1..(Len(text) + Len(path)) /\ 1 <= Len(text)
      BY <3>1
    <3>3. QED
      BY <1>3, <2>2, <3>2, ThenTokens
  <2>7. Opening(e.scope) # Space
    BY <1>1, DelimitersUnmarked
  <2>8. QED
    BY <1>4, <2>1, <2>4, <2>5, <2>6, <2>7, ItemIs
<1>7. QED
  BY <1>5, <1>6

-----------------------------------------------------------------------------
(***************************************************************************)
(* Applications are items.                                                 *)
(***************************************************************************)

\* Items with a mark between them: the first and the last token, and all between.
Shape(T, items, text) ==
    /\ text \in Seq(T) /\ text # << >>
    /\ text[1] = items[1][1] /\ Last(text) = Last(items[Len(items)])
    /\ \A i \in 1..Len(items) : Range(items[i]) \in SUBSET Range(text)

LEMMA RangeThen ==
    ASSUME NEW T, NEW a \in Seq(T), NEW b \in Seq(T)
    PROVE  Range(Then(a, b)) = Range(a) \cup Range(b)
<1>1. /\ Then(a, b) \in Seq(T) /\ Len(Then(a, b)) = Len(a) + Len(b)
      /\ \A i \in 1..(Len(a) + Len(b)) : Then(a, b)[i] = IF i <= Len(a) THEN a[i] ELSE b[i - Len(a)]
  BY ONLY ThenTokens, a \in Seq(T), b \in Seq(T)
<1>0. Len(a) \in Nat /\ Len(b) \in Nat
  OBVIOUS
<1> DEFINE r == Then(a, b)
           n == Len(a)
           m == Len(b)
<1>7. /\ n \in Nat /\ m \in Nat /\ r \in Seq(T) /\ Len(r) = n + m
      /\ \A i \in 1..(n + m) : r[i] = IF i <= n THEN a[i] ELSE b[i - n]
  BY ONLY <1>0, <1>1
<1>2. Range(r) = {r[i] : i \in 1..(n + m)} /\ Range(a) = {a[i] : i \in 1..n} /\ Range(b) = {b[i] : i \in 1..m}
  <2>1. DOMAIN r = 1..(n + m) /\ DOMAIN a = 1..n /\ DOMAIN b = 1..m
    BY <1>7
  <2>2. QED
    BY <2>1 DEF Range
<1> HIDE DEF r, n, m
<1>3. ASSUME NEW x \in Range(r) PROVE x \in Range(a) \cup Range(b)
  <2>1. PICK i \in 1..(n + m) : x = r[i]
    BY <1>2, <1>3
  <2>2. i <= n => i \in 1..n /\ x = a[i]
    BY <1>7, <2>1
  <2>3. ~(i <= n) => i - n \in 1..m /\ x = b[i - n]
    BY <1>7, <2>1
  <2>4. QED
    BY <1>2, <2>2, <2>3
<1>4. ASSUME NEW x \in Range(a) PROVE x \in Range(r)
  <2>1. PICK i \in 1..n : x = a[i]
    BY <1>2, <1>4
  <2>2. i \in 1..(n + m) /\ i <= n
    BY <1>7
  <2>3. QED
    BY <1>7, <1>2, <2>1, <2>2
<1>5. ASSUME NEW x \in Range(b) PROVE x \in Range(r)
  <2>1. PICK i \in 1..m : x = b[i]
    BY <1>2, <1>5
  <2>2. i + n \in 1..(n + m) /\ ~(i + n <= n) /\ (i + n) - n = i
    BY <1>7
  <2>3. r[i + n] = x
    BY <1>7, <2>1, <2>2
  <2>4. QED
    BY <1>2, <2>2, <2>3
<1>6. QED
  BY <1>3, <1>4, <1>5 DEF r

LEMMA FirstOfThen ==
    ASSUME NEW T, NEW a \in Seq(T), NEW b \in Seq(T), a # << >>
    PROVE  Then(a, b) # << >> /\ Then(a, b)[1] = a[1]
<1>1. Len(a) \in Nat /\ 1 \in 1..Len(a) /\ Len(b) \in Nat
  BY Ends
<1>2. 1 \in 1..(Len(a) + Len(b)) /\ 1 <= Len(a) /\ Len(a) + Len(b) # 0
  BY <1>1
<1>3. Then(a, b)[1] = a[1] /\ Then(a, b) \in Seq(T) /\ Len(Then(a, b)) = Len(a) + Len(b)
  BY <1>2, ThenTokens
<1>4. QED
  BY <1>2, <1>3, Ends

LEMMA InterleavedShape ==
    ASSUME NEW T, NEW sep \in T
    PROVE  \A items \in Seq(Seq(T)) :
               items # << >> /\ (\A i \in 1..Len(items) : items[i] # << >>) =>
                   Shape(T, items, Interleaved(items, sep))
<1> DEFINE Good(items) == \A i \in 1..Len(items) : items[i] # << >>
           S == {items \in Seq(Seq(T)) :
                   items # << >> /\ Good(items) => Shape(T, items, Interleaved(items, sep))}
           none == << >>
<1>1. none \in S
  OBVIOUS
<1>2. ASSUME NEW items \in Seq(Seq(T)), NEW x \in Seq(T), items \in S
      PROVE  Append(items, x) \in S
  <2> DEFINE r == Append(items, x)
             n == Len(items)
  <2>1. /\ n \in Nat /\ r \in Seq(Seq(T)) /\ Len(r) = n + 1
        /\ r[n + 1] = x /\ \A i \in 1..n : r[i] = items[i]
    BY AppendTokens
  <2> SUFFICES ASSUME Good(r) PROVE Shape(T, r, Interleaved(r, sep))
    BY <2>1
  <2> HIDE DEF r, n
  <2>2. x # << >> /\ Good(items)
    <3>1. n + 1 \in 1..Len(r) /\ \A i \in 1..n : i \in 1..Len(r)
      BY <2>1
    <3>2. QED
      BY <2>1, <3>1 DEF n
  <2> HIDE DEF Good
  <2>3. CASE items = none
    <3>1. r = <<x>> /\ Interleaved(r, sep) = x
      BY <2>3, InterleavedOne DEF r
    <3>2. n = 0 /\ \A i \in 1..Len(r) : i = 1
      BY <2>1, <2>3, Ends DEF n
    <3>3. r[1] = x /\ Len(r) = 1
      BY <2>1, <3>2
    <3>4. QED
      BY <2>2, <3>1, <3>2, <3>3 DEF Shape
  <2>4. CASE items # none
    <3> DEFINE text == Interleaved(items, sep)
               mid == Append(text, sep)
               all == Then(mid, x)
    <3>1. items \in Pieces(T) /\ Shape(T, items, text)
      BY <1>2, <2>2, <2>4 DEF Pieces
    <3>2. Interleaved(r, sep) = all
      BY <3>1, InterleavedAppend DEF r
    <3> HIDE DEF text
    <3>3. text \in Seq(T) /\ text # << >>
      BY <3>1 DEF Shape
    <3>4. mid \in Seq(T) /\ mid # << >> /\ mid[1] = text[1] /\ Range(mid) = Range(text) \cup {sep}
      BY <3>3, AppendTokens
    <3> HIDE DEF mid
    <3>5. all \in Seq(T) /\ all # << >> /\ all[1] = mid[1] /\ Last(all) = Last(x)
      BY <2>2, <3>4, ThenTokens, FirstOfThen, LastOfThen
    <3>6. Range(all) = Range(mid) \cup Range(x)
      BY <3>4, RangeThen
    <3> HIDE DEF all
    <3>7. 1 \in 1..n /\ r[1] = items[1]
      BY <2>1, <2>4, Ends DEF n
    <3>8. all[1] = r[1][1]
      BY <3>1, <3>4, <3>5, <3>7 DEF Shape
    <3>9. ASSUME NEW i \in 1..Len(r)
          PROVE  Range(r[i]) \in SUBSET Range(all)
      <4>1. CASE i \in 1..n
        <5>1. r[i] = items[i] /\ Range(items[i]) \in SUBSET Range(text)
          BY <2>1, <3>1, <4>1 DEF Shape, n
        <5>2. QED
          BY <3>4, <3>6, <5>1
      <4>2. CASE i = n + 1
        BY <2>1, <3>6, <4>2
      <4>3. QED
        BY <2>1, <4>1, <4>2
    <3>10. Last(all) = Last(r[Len(r)])
      BY <2>1, <3>5
    <3>11. QED
      BY <3>2, <3>5, <3>8, <3>9, <3>10 DEF Shape
  <2>5. QED
    BY <2>3, <2>4
<1> HIDE DEF S
<1>3. \A items \in Seq(Seq(T)) : items \in S
  <2>1. << >> \in S
    BY <1>1
  <2> HIDE DEF none
  <2>2. QED
    BY <1>2, <2>1, GrowingUp
<1>4. QED
  BY <1>3 DEF S

\* What originate_quote writes is one token.
LEMMA QuoteItem ==
    ASSUME NEW T, Quote \in T, Backslash \in T, NEW s \in Seq(T), s # << >>, Last(s) # Backslash,
           Space \notin Range(s) => ThroughBehind(T, s, Space)
    PROVE  Item(T, originate_quote(s), Space)
<1> DEFINE e == Escape(s, Quote)
<1>1. e \in Seq(T) /\ Guarded(e, Quote) /\ SameMarks(s, e)
  BY MarksDiffer, EscapeAppend, EscapedText
<1>2. originate_quote(s) = IF Contains(s, Space) THEN Quoted(e) ELSE s
  BY DEF originate_quote, Space, Quote
<1> HIDE DEF e
<1>3. CASE Space \in Range(s)
  <2>1. originate_quote(s) = Quoted(e)
    BY <1>2, <1>3, ContainsRange
  <2>2. e # << >> /\ Last(e) # Backslash
    BY <1>1 DEF SameMarks
  <2>3. ThroughBehind(T, Quoted(e), Space)
    BY <1>1, <2>2, SpaceIsNone, QuotedThrough
  <2> DEFINE q == Enclosed(Quote, e, Quote)
  <2>4. Quoted(e) = q
    BY DEF Quoted, Enclosed, Quote
  <2>5. q \in Seq(T) /\ Len(q) = Len(e) + 2 /\ Len(e) \in Nat /\ q[1] = Quote /\ q[Len(e) + 2] = Quote
    BY <1>1, EnclosedText
  <2> HIDE DEF q
  <2>6. q # << >> /\ Last(q) = Quote
    BY <2>5, Ends DEF Last
  <2>7. QED
    BY <2>1, <2>3, <2>4, <2>5, <2>6, SpaceIsNone, ItemIs
<1>4. CASE Space \notin Range(s)
  <2>1. originate_quote(s) = s
    BY <1>2, <1>4, ContainsRange
  <2>2. s[1] # Space /\ Last(s) # Space
    BY <1>4, FirstAndLast
  <2>3. QED
    BY <1>4, <2>1, <2>2, ItemIs
<1>5. QED
  BY <1>3, <1>4

\* The marks of applications, under names of their own.
Ampersand == "&"
LeftParen == "("
RightParen == ")"
NameMark == ":"

LEMMA AppMarksDiffer ==
    /\ Ampersand \notin {Space, Quote, Backslash, Comma, NameMark, LeftParen}
    /\ LeftParen \notin {Space, Quote, Backslash, Comma, NameMark}
    /\ RightParen \notin {Space, Quote, Backslash}
    /\ NameMark \notin {Space, Quote, Backslash, Comma}
  BY DEF Ampersand, LeftParen, RightParen, NameMark, Space, Quote, Backslash, Comma

\* An application: its name, a mark, and its arguments.
Call(name, mark, args) == Then(Then(name, <<mark>>), args)

LEMMA CallIs ==
    ASSUME NEW T, NEW mark \in T, NEW name \in Seq(T), name # << >>, NEW args \in Seq(T)
    PROVE  /\ Call(name, mark, args) \in Seq(T) /\ Call(name, mark, args) # << >>
           /\ Call(name, mark, args)[1] = name[1]
           /\ Range(Call(name, mark, args)) = (Range(name) \cup {mark}) \cup Range(args)
           /\ Last(Call(name, mark, args)) = IF args = << >> THEN mark ELSE Last(args)
<1> DEFINE m == <<mark>>
           a == Then(name, m)
           r == Then(a, args)
<1>1. m \in Seq(T) /\ m # << >> /\ Last(m) = mark /\ Range(m) = {mark}
  <2>1. \A i \in DOMAIN m : i = 1 /\ m[1] = mark
    OBVIOUS
  <2>2. QED
    BY <2>1 DEF Range, Last
<1> HIDE DEF m
<1>2. /\ a \in Seq(T) /\ a # << >> /\ Last(a) = mark /\ a[1] = name[1]
      /\ Range(a) = Range(name) \cup {mark}
  <2>1. a \in Seq(T)
    BY <1>1, ThenTokens
  <2>2. a # << >> /\ Last(a) = mark
    BY <1>1, LastOfThen
  <2>3. a[1] = name[1]
    BY <1>1, FirstOfThen
  <2>4. Range(a) = Range(name) \cup {mark}
    BY <1>1, RangeThen
  <2>5. QED
    BY <2>1, <2>2, <2>3, <2>4
<1> HIDE DEF a
<1>3. r \in Seq(T) /\ r # << >> /\ r[1] = a[1] /\ Range(r) = Range(a) \cup Range(args)
  <2>1. r \in Seq(T)
    BY <1>2, ThenTokens
  <2>2. r # << >> /\ r[1] = a[1]
    BY <1>2, FirstOfThen
  <2>3. Range(r) = Range(a) \cup Range(args)
    BY <1>2, RangeThen
  <2>4. QED
    BY <2>1, <2>2, <2>3
<1>4. Last(r) = IF args = << >> THEN mark ELSE Last(args)
  <2>1. CASE args = << >>
    <3>1. r = a
      BY <1>2, <2>1 DEF Then
    <3>2. QED
      BY <1>2, <2>1, <3>1
  <2>2. CASE args # << >>
    BY <1>2, <2>2, LastOfThen
  <2>3. QED
    BY <2>1, <2>2
<1> HIDE DEF r
<1>5. QED
  BY <1>2, <1>3, <1>4 DEF Call, r, a, m

\* A splitter reads through a call without its mark and with even quotes.
LEMMA CallThrough ==
    ASSUME NEW T, NEW mark \in T, NEW at, at # Quote, mark # at, mark # Quote, mark # Backslash,
           NEW name \in Seq(T), at \notin Range(name), Quote \notin Range(name),
           NEW args \in Seq(T), at \notin Range(args), ~Odd(args)
    PROVE  Through(T, Call(name, mark, args), at)
<1> DEFINE m == <<mark>>
           a == Then(name, m)
<1>1. m \in Seq(T) /\ m # << >> /\ Last(m) = mark /\ Through(T, m, at)
  BY OneThrough
<1>2. Through(T, name, at)
  BY WordThrough
<1> HIDE DEF m
<1>3. a \in Seq(T) /\ a # << >> /\ Last(a) = mark
  BY <1>1, ThenTokens, LastOfThen
<1>4. Through(T, a, at)
  BY <1>1, <1>2, ThroughTexts
<1>5. ThroughBehind(T, args, at)
  BY EvenThrough
<1> HIDE DEF a
<1>6. Through(T, Then(a, args), at)
  BY <1>3, <1>4, <1>5, ThroughTexts
<1>7. QED
  BY <1>6 DEF Call, a, m

\* Application::to_string_with_dialplan, in these terms.
XmlText(name, args) == Enclosed(Ampersand, Call(name, LeftParen, args), RightParen)

LEMMA ApplicationTextIs ==
    ASSUME NEW T, Ampersand \in T, LeftParen \in T, RightParen \in T,
           NEW app, app.name \in Seq(T), NEW args \in Seq(T), FlattenSeq(app.args) = args
    PROVE  /\ ApplicationText(app, Inline) = Call(app.name, NameMark, args)
           /\ \A d : d # Inline => ApplicationText(app, d) = XmlText(app.name, args)
<1>1. ApplicationText(app, Inline) = Call(app.name, NameMark, args)
  BY DEF ApplicationText, Call, Then, NameMark
<1>2. ASSUME NEW d, d # Inline PROVE ApplicationText(app, d) = XmlText(app.name, args)
  <2> DEFINE n == app.name
             a == <<Ampersand>>
             p == <<LeftParen>>
             z == <<RightParen>>
  <2>1. ApplicationText(app, d) = Then(Then(Then(Then(a, n), p), args), z)
    BY <1>2 DEF ApplicationText, Then, Ampersand, LeftParen, RightParen
  <2>2. a \in Seq(T) /\ p \in Seq(T) /\ z \in Seq(T) /\ n \in Seq(T)
    OBVIOUS
  <2>3. XmlText(n, args) = Then(Then(a, Call(n, LeftParen, args)), z)
    BY DEF XmlText, Enclosed, Then
  <2>4. Call(n, LeftParen, args) = Then(Then(n, p), args)
    BY DEF Call
  <2> HIDE DEF a, p, z, n
  <2>5. Then(n, p) \in Seq(T) /\ Then(a, n) \in Seq(T)
    BY <2>2, ThenTokens
  <2>6. Then(Then(a, n), p) = Then(a, Then(n, p))
    BY <2>2, ThenAssociative
  <2>7. Then(Then(a, Then(n, p)), args) = Then(a, Then(Then(n, p), args))
    BY <2>2, <2>5, ThenAssociative
  <2>8. QED
    BY <2>1, <2>3, <2>4, <2>6, <2>7 DEF n
<1>3. QED
  BY <1>1, <1>2

LEMMA XmlIs ==
    ASSUME NEW T, Ampersand \in T, LeftParen \in T, RightParen \in T,
           NEW name \in Seq(T), name # << >>, NEW args \in Seq(T)
    PROVE  /\ XmlText(name, args) \in Seq(T) /\ XmlText(name, args) # << >>
           /\ XmlText(name, args)[1] = Ampersand /\ Last(XmlText(name, args)) = RightParen
           /\ Range(args) \in SUBSET Range(XmlText(name, args))
           /\ Len(XmlText(name, args)) = Len(Call(name, LeftParen, args)) + 2
           /\ SubSeq(XmlText(name, args), 2, Len(XmlText(name, args)) - 1) = Call(name, LeftParen, args)
<1> DEFINE c == Call(name, LeftParen, args)
           q == Enclosed(Ampersand, c, RightParen)
<1>1. c \in Seq(T) /\ Range(args) \in SUBSET Range(c)
  BY CallIs
<1> HIDE DEF c
<1>2. /\ q \in Seq(T) /\ Len(q) = Len(c) + 2 /\ Len(c) \in Nat
      /\ q[1] = Ampersand /\ q[Len(c) + 2] = RightParen
      /\ SubSeq(q, 2, Len(c) + 1) = c
  <2> DEFINE a == Ampersand
             z == RightParen
  <2>0. a \in T /\ z \in T /\ c \in Seq(T)
    BY <1>1
  <2>1. q = Enclosed(a, c, z)
    OBVIOUS
  <2> HIDE DEF a, z
  <2>2. /\ Enclosed(a, c, z) \in Seq(T) /\ Len(Enclosed(a, c, z)) = Len(c) + 2 /\ Len(c) \in Nat
        /\ Enclosed(a, c, z)[1] = a /\ Enclosed(a, c, z)[Len(c) + 2] = z
        /\ SubSeq(Enclosed(a, c, z), 2, Len(c) + 1) = c
    BY <2>0, EnclosedText
  <2>3. a = Ampersand /\ z = RightParen
    BY DEF a, z
  <2> HIDE DEF q
  <2>4. QED
    BY <2>1, <2>2, <2>3
<1> HIDE DEF q
<1>3. q # << >> /\ Last(q) = RightParen
  <2>1. Len(q) # 0
    BY <1>2
  <2>2. q \in Seq(T)
    BY <1>2
  <2>3. q # << >> /\ Last(q) = q[Len(q)]
    BY ONLY <2>1, <2>2, Ends
  <2>4. QED
    BY <1>2, <2>3
<1>4. SubSeq(q, 2, Len(q) - 1) = c
  <2>1. Len(q) - 1 = Len(c) + 1
    BY <1>2
  <2>2. QED
    BY <1>2, <2>1
<1>5. Range(c) \in SUBSET Range(q)
  <2> DEFINE a == <<Ampersand>>
             z == <<RightParen>>
  <2>1. a \in Seq(T) /\ z \in Seq(T)
    OBVIOUS
  <2>2. q = Then(Then(a, c), z)
    BY DEF q, Enclosed, Then
  <2> HIDE DEF a, z
  <2>3. Then(a, c) \in Seq(T) /\ Range(Then(a, c)) = Range(a) \cup Range(c)
    BY <1>1, <2>1, ThenTokens, RangeThen
  <2>4. Range(Then(Then(a, c), z)) = Range(Then(a, c)) \cup Range(z)
    BY <2>1, <2>3, RangeThen
  <2>5. QED
    BY <2>2, <2>3, <2>4
<1>6. QED
  BY <1>1, <1>2, <1>3, <1>4, <1>5 DEF XmlText, q, c

LEMMA XmlThrough ==
    ASSUME NEW T, Ampersand \in T, LeftParen \in T, RightParen \in T,
           NEW name \in Seq(T), Unmarked(name),
           NEW args \in Seq(T), Space \notin Range(args), ~Odd(args)
    PROVE  Through(T, XmlText(name, args), Space)
<1> DEFINE c == Call(name, LeftParen, args)
           a == <<Ampersand>>
           z == <<RightParen>>
<1>1. Through(T, c, Space)
  BY SpaceIsNone, AppMarksDiffer, CallThrough DEF Unmarked
<1>2. c \in Seq(T)
  <2>1. <<LeftParen>> \in Seq(T)
    OBVIOUS
  <2>2. QED
    BY <2>1, ThenTokens DEF Call
<1>3. /\ Through(T, a, Space) /\ a \in Seq(T)
      /\ Through(T, z, Space) /\ z \in Seq(T)
  BY SpaceIsNone, AppMarksDiffer, OneThrough
<1>4. XmlText(name, args) = Then(Then(a, c), z)
  BY DEF XmlText, Enclosed, Then
<1> HIDE DEF a, c, z
<1>5. Then(a, c) \in Seq(T) /\ Through(T, Then(a, c), Space)
  BY <1>1, <1>2, <1>3, ThenTokens, ThroughTexts
<1>6. QED
  BY <1>3, <1>4, <1>5, ThroughTexts

Args(app) == FlattenSeq(app.args)

\* An application with a plain name, and arguments an inline list can carry.
Callable(T, app) ==
    /\ app.name \in Seq(T) /\ app.name # << >> /\ Unmarked(app.name)
    /\ Comma \notin Range(app.name) /\ NameMark \notin Range(app.name) /\ LeftParen \notin Range(app.name)
    /\ Args(app) \in Seq(T)

Listable(args) == Comma \notin Range(args) /\ Backslash \notin Range(args) /\ ~Odd(args)

AppMarks == {Ampersand, LeftParen, RightParen, NameMark, Comma, Quote, Backslash}

InlineItems(apps) == [i \in 1..Len(apps) |-> Call(apps[i].name, NameMark, Args(apps[i]))]

LEMMA XmlApps ==
    ASSUME NEW T, \A x \in AppMarks : x \in T, NEW A, NEW apps \in Seq(A), Len(apps) = 1,
           Callable(T, apps[1]), NEW d, d # Inline,
           Space \notin Range(Args(apps[1])) => ~Odd(Args(apps[1]))
    PROVE  /\ ApplicationsText(apps, d) = <<XmlText(apps[1].name, Args(apps[1]))>>
           /\ Item(T, originate_quote(XmlText(apps[1].name, Args(apps[1]))), Space)
<1> DEFINE app == apps[1]
           args == Args(app)
           name == app.name
           text == XmlText(name, args)
<1>1. /\ name \in Seq(T) /\ name # << >> /\ Unmarked(name) /\ args \in Seq(T)
      /\ FlattenSeq(app.args) = args
  BY DEF Callable, Args
<1>2. /\ Ampersand \in T /\ LeftParen \in T /\ RightParen \in T /\ Comma \in T
      /\ Quote \in T /\ Backslash \in T
  BY DEF AppMarks
<1>3. ApplicationText(app, d) = text
  BY <1>1, <1>2, ApplicationTextIs
<1>4. text \in Seq(T) /\ text # << >> /\ Last(text) = RightParen /\ Range(args) \in SUBSET Range(text)
  BY <1>1, <1>2, XmlIs
<1>5. ApplicationsText(apps, d) = <<text>>
  <2> DEFINE items == [i \in DOMAIN apps |-> ApplicationText(apps[i], d)]
  <2>1. ApplicationsText(apps, d) = <<Interleaved(items, Comma)>>
    BY DEF ApplicationsText, Comma
  <2>2. items = <<text>>
    <3>1. DOMAIN apps = 1..1
      OBVIOUS
    <3>2. items = [i \in 1..1 |-> text]
      BY <1>3, <3>1
    <3> HIDE DEF text
    <3>3. [i \in 1..1 |-> text] = <<text>>
      OBVIOUS
    <3>4. QED
      BY <3>2, <3>3
  <2> HIDE DEF items, text
  <2>3. Interleaved(<<text>>, Comma) = text
    BY <1>2, <1>4, InterleavedOne
  <2>4. QED
    BY <2>1, <2>2, <2>3
<1>6. Space \notin Range(text) => ThroughBehind(T, text, Space)
  <2> SUFFICES ASSUME Space \notin Range(text) PROVE ThroughBehind(T, text, Space)
    OBVIOUS
  <2>1. Space \notin Range(args)
    BY <1>4
  <2>2. Through(T, text, Space)
    BY <1>1, <1>2, <2>1, XmlThrough
  <2>3. QED
    BY <2>2 DEF Through, ThroughBehind
<1>7. RightParen # Backslash
  BY AppMarksDiffer
<1> HIDE DEF text
<1>8. Item(T, originate_quote(text), Space)
  BY <1>2, <1>4, <1>6, <1>7, QuoteItem
<1>9. QED
  BY <1>5, <1>8 DEF text

LEMMA InlineItemsAre ==
    ASSUME NEW T, NameMark \in T, NEW A, NEW apps \in Seq(A), apps # << >>,
           \A i \in 1..Len(apps) : Callable(T, apps[i])
    PROVE  /\ InlineItems(apps) \in Seq(Seq(T)) /\ InlineItems(apps) # << >>
           /\ Len(InlineItems(apps)) = Len(apps)
           /\ \A i \in 1..Len(apps) :
                  /\ InlineItems(apps)[i] = Call(apps[i].name, NameMark, Args(apps[i]))
                  /\ InlineItems(apps)[i] # << >>
                  /\ Last(InlineItems(apps)[i]) = IF Args(apps[i]) = << >> THEN NameMark
                                                  ELSE Last(Args(apps[i]))
                  /\ Range(Args(apps[i])) \in SUBSET Range(InlineItems(apps)[i])
           /\ ApplicationsText(apps, Inline) = <<Interleaved(InlineItems(apps), Comma)>>
<1> DEFINE items == InlineItems(apps)
           Is(i, c) == /\ c \in Seq(T) /\ c # << >>
                       /\ Last(c) = IF Args(apps[i]) = << >> THEN NameMark ELSE Last(Args(apps[i]))
                       /\ Range(Args(apps[i])) \in SUBSET Range(c)
           n == Len(apps)
<1>1. n \in Nat /\ n # 0 /\ DOMAIN apps = 1..n
  BY Ends
<1>2. ASSUME NEW i \in 1..n
      PROVE  Is(i, Call(apps[i].name, NameMark, Args(apps[i])))
  <2>1. apps[i].name \in Seq(T) /\ apps[i].name # << >> /\ Args(apps[i]) \in Seq(T)
    BY DEF Callable
  <2> DEFINE c == Call(apps[i].name, NameMark, Args(apps[i]))
  <2>2. /\ c \in Seq(T) /\ c # << >>
        /\ Range(c) = (Range(apps[i].name) \cup {NameMark}) \cup Range(Args(apps[i]))
        /\ Last(c) = IF Args(apps[i]) = << >> THEN NameMark ELSE Last(Args(apps[i]))
    BY <2>1, CallIs
  <2> HIDE DEF c
  <2>3. QED
    BY <2>2 DEF c
<1>3. ApplicationsText(apps, Inline) = <<Interleaved(items, Comma)>>
  <2>1. Inline # XML
    BY DEF Inline, XML
  <2> DEFINE texts == [i \in DOMAIN apps |-> ApplicationText(apps[i], Inline)]
  <2>2. ApplicationsText(apps, Inline) = <<Interleaved(texts, Comma)>>
    BY <2>1 DEF ApplicationsText, Comma
  <2>3. \A app : ApplicationText(app, Inline) = Call(app.name, NameMark, Args(app))
    BY DEF ApplicationText, Call, Then, NameMark, Args
  <2>4. texts = items
    BY <1>1, <2>3 DEF InlineItems
  <2>5. QED
    BY <2>2, <2>4
<1>4. items = [i \in 1..n |-> Call(apps[i].name, NameMark, Args(apps[i]))]
  BY DEF InlineItems
<1>5. \A i \in 1..n : Call(apps[i].name, NameMark, Args(apps[i])) \in Seq(T)
  BY <1>2
<1> HIDE DEF items, n, Is
<1>6. items \in Seq(Seq(T)) /\ Len(items) = n
  BY <1>1, <1>4, <1>5
<1>7. items # << >>
  BY <1>1, <1>6, Ends
<1>8. \A i \in 1..n : items[i] = Call(apps[i].name, NameMark, Args(apps[i])) /\ Is(i, items[i])
  BY <1>2, <1>4
<1>9. QED
  BY <1>3, <1>6, <1>7, <1>8 DEF n, items, Is

LEMMA InlineApps ==
    ASSUME NEW T, \A x \in AppMarks : x \in T, NEW A, NEW apps \in Seq(A), apps # << >>,
           \A i \in 1..Len(apps) : Callable(T, apps[i]) /\ Listable(Args(apps[i]))
    PROVE  Item(T, originate_quote(Interleaved(InlineItems(apps), Comma)), Space)
<1> DEFINE items == InlineItems(apps)
           text == Interleaved(items, Comma)
           n == Len(apps)
<1>1. NameMark \in T /\ Comma \in T /\ Quote \in T /\ Backslash \in T
  BY DEF AppMarks
<1>2. n \in Nat /\ n \in 1..n
  BY Ends
<1>3. /\ items \in Seq(Seq(T)) /\ items # << >> /\ Len(items) = n
      /\ \A i \in 1..n : /\ items[i] = Call(apps[i].name, NameMark, Args(apps[i]))
                         /\ items[i] # << >>
                         /\ Last(items[i]) = IF Args(apps[i]) = << >> THEN NameMark ELSE Last(Args(apps[i]))
                         /\ Range(Args(apps[i])) \in SUBSET Range(items[i])
  BY <1>1, InlineItemsAre
<1> HIDE DEF items
<1>4. Shape(T, items, text)
  BY <1>1, <1>3, InterleavedShape
<1>5. Last(text) # Backslash
  <2>1. Last(text) = Last(items[n])
    BY <1>3, <1>4 DEF Shape
  <2>2. CASE Args(apps[n]) = << >>
    BY <1>2, <1>3, <2>1, <2>2, AppMarksDiffer
  <2>3. CASE Args(apps[n]) # << >>
    <3>1. Args(apps[n]) \in Seq(T) /\ Backslash \notin Range(Args(apps[n]))
      BY <1>2 DEF Callable, Listable
    <3>2. Last(Args(apps[n])) # Backslash
      BY <2>3, <3>1, FirstAndLast
    <3>3. QED
      BY <1>2, <1>3, <2>1, <2>3, <3>2
  <2>4. QED
    BY <2>2, <2>3
<1>6. Space \notin Range(text) => ThroughBehind(T, text, Space)
  <2> SUFFICES ASSUME Space \notin Range(text) PROVE ThroughBehind(T, text, Space)
    OBVIOUS
  <2>1. ASSUME NEW i \in 1..Len(items)
        PROVE  Through(T, items[i], Space)
    <3>1. i \in 1..n /\ Space \notin Range(items[i])
      BY <1>3, <1>4 DEF Shape
    <3>2. /\ apps[i].name \in Seq(T) /\ Unmarked(apps[i].name)
          /\ Args(apps[i]) \in Seq(T) /\ ~Odd(Args(apps[i]))
      BY <3>1 DEF Callable, Listable
    <3>3. Space \notin Range(Args(apps[i]))
      BY <1>3, <3>1
    <3>4. Through(T, Call(apps[i].name, NameMark, Args(apps[i])), Space)
      BY <1>1, <3>2, <3>3, SpaceIsNone, AppMarksDiffer, CallThrough DEF Unmarked
    <3>5. QED
      BY <1>3, <3>1, <3>4
  <2>2. Through(T, text, Space)
    BY <1>1, <1>3, <2>1, SpaceIsNone, AllThrough
  <2>3. QED
    BY <2>2 DEF Through, ThroughBehind
<1>7. text \in Seq(T) /\ text # << >>
  BY <1>4 DEF Shape
<1> HIDE DEF text
<1>8. Item(T, originate_quote(text), Space)
  BY <1>1, <1>5, <1>6, <1>7, QuoteItem
<1>9. QED
  BY <1>8 DEF text, items

-----------------------------------------------------------------------------
(***************************************************************************)
(* Fields behind one another, given or not.                                *)
(***************************************************************************)

\* Fields behind other words: each adds itself, or nothing.
Size(f) == IF Some(f) THEN 1 ELSE 0

LEMMA Sizes ==
    ASSUME NEW S, NEW f \in Optional(S)
    PROVE  /\ f \in Seq(S) /\ Len(f) = Size(f) /\ Size(f) \in {0, 1}
           /\ Some(f) <=> Size(f) = 1
           /\ Some(f) => f = <<f[1]>> /\ f[1] \in S
<1>1. CASE f = << >>
  BY <1>1 DEF Size, Some
<1>2. CASE \E x \in S : f = <<x>>
  BY <1>2 DEF Size, Some
<1>3. QED
  BY <1>1, <1>2 DEF Optional

LEMMA FieldAdded ==
    ASSUME NEW S, NEW a \in Seq(S), NEW f \in Optional(S)
    PROVE  /\ Then(a, f) \in Seq(S) /\ Len(Then(a, f)) = Len(a) + Size(f) /\ Len(a) \in Nat
           /\ Some(f) => At(Then(a, f), Len(a) + 1) = f
           /\ \A k \in 1..Len(a) : At(Then(a, f), k) = At(a, k)
<1>1. f \in Seq(S) /\ Len(f) = Size(f) /\ Size(f) \in {0, 1}
  BY Sizes
<1>2. /\ Then(a, f) \in Seq(S) /\ Len(Then(a, f)) = Len(a) + Len(f) /\ Len(a) \in Nat
      /\ \A i \in 1..(Len(a) + Len(f)) : Then(a, f)[i] = IF i <= Len(a) THEN a[i] ELSE f[i - Len(a)]
  <2>1. f \in Seq(S)
    BY <1>1
  <2>2. Len(a) \in Nat
    OBVIOUS
  <2>3. /\ Then(a, f) \in Seq(S) /\ Len(Then(a, f)) = Len(a) + Len(f)
        /\ \A i \in 1..(Len(a) + Len(f)) : Then(a, f)[i] = IF i <= Len(a) THEN a[i] ELSE f[i - Len(a)]
    BY ONLY <2>1, a \in Seq(S), ThenTokens
  <2>4. QED
    BY <2>2, <2>3
<1>3. ASSUME Some(f) PROVE At(Then(a, f), Len(a) + 1) = f
  <2>1. Len(f) = 1 /\ f = <<f[1]>>
    BY <1>1, <1>3, Sizes
  <2>2. Then(a, f)[Len(a) + 1] = f[1]
    <3>1. Len(a) + 1 \in 1..(Len(a) + Len(f)) /\ ~(Len(a) + 1 <= Len(a)) /\ (Len(a) + 1) - Len(a) = 1
      BY <1>2, <2>1
    <3>2. QED
      BY <1>2, <3>1
  <2>3. QED
    BY <1>2, <2>1, <2>2 DEF At
<1>4. ASSUME NEW k \in 1..Len(a) PROVE At(Then(a, f), k) = At(a, k)
  <2>1. k \in 1..(Len(a) + Len(f)) /\ k <= Len(a) /\ k <= Len(a) + Len(f)
    BY <1>1, <1>2
  <2>2. QED
    BY <1>2, <2>1 DEF At
<1>5. QED
  BY <1>1, <1>2, <1>3, <1>4

\* Behind n words, five fields: what is given stands where the given ones
\* before it leave it.
WithFields(a, f, g, h, i, j) == Then(Then(Then(Then(Then(a, f), g), h), i), j)

Placed(words, a, n, f, g, h, i, j) ==
    /\ n \in Nat /\ Len(words) = n + Size(f) + Size(g) + Size(h) + Size(i) + Size(j)
    /\ \A k \in 1..n : At(words, k) = At(a, k)
    /\ Some(f) => At(words, n + 1) = f
    /\ Some(g) => At(words, n + Size(f) + 1) = g
    /\ Some(h) => At(words, n + Size(f) + Size(g) + 1) = h
    /\ Some(i) => At(words, n + Size(f) + Size(g) + Size(h) + 1) = i
    /\ Some(j) => At(words, n + Size(f) + Size(g) + Size(h) + Size(i) + 1) = j

LEMMA Places ==
    ASSUME NEW S, NEW a \in Seq(S), NEW f \in Optional(S), NEW g \in Optional(S), NEW h \in Optional(S),
           NEW i \in Optional(S), NEW j \in Optional(S)
    PROVE  /\ WithFields(a, f, g, h, i, j) \in Seq(S)
           /\ Placed(WithFields(a, f, g, h, i, j), a, Len(a), f, g, h, i, j)
<1> DEFINE n == Len(a)
           words == WithFields(a, f, g, h, i, j)
<1> DEFINE p == Then(a, f)
           q == Then(p, g)
           r == Then(q, h)
           s == Then(r, i)
           t == Then(s, j)
<1>1. /\ p \in Seq(S) /\ Len(p) = n + Size(f) /\ n \in Nat
      /\ Some(f) => At(p, n + 1) = f
      /\ \A k \in 1..n : At(p, k) = At(a, k)
  BY FieldAdded
<1> HIDE DEF p
<1>2. /\ q \in Seq(S) /\ Len(q) = Len(p) + Size(g)
      /\ Some(g) => At(q, Len(p) + 1) = g
      /\ \A k \in 1..Len(p) : At(q, k) = At(p, k)
  BY <1>1, FieldAdded
<1> HIDE DEF q
<1>3. /\ r \in Seq(S) /\ Len(r) = Len(q) + Size(h)
      /\ Some(h) => At(r, Len(q) + 1) = h
      /\ \A k \in 1..Len(q) : At(r, k) = At(q, k)
  BY <1>2, FieldAdded
<1> HIDE DEF r
<1>4. /\ s \in Seq(S) /\ Len(s) = Len(r) + Size(i)
      /\ Some(i) => At(s, Len(r) + 1) = i
      /\ \A k \in 1..Len(r) : At(s, k) = At(r, k)
  BY <1>3, FieldAdded
<1> HIDE DEF s
<1>5. /\ t \in Seq(S) /\ Len(t) = Len(s) + Size(j)
      /\ Some(j) => At(t, Len(s) + 1) = j
      /\ \A k \in 1..Len(s) : At(t, k) = At(s, k)
  BY <1>4, FieldAdded
<1> HIDE DEF t
<1>6. words = t
  BY DEF WithFields, t, s, r, q, p
<1> DEFINE u == Size(f)
           v == Size(g)
           w == Size(h)
           x == Size(i)
           y == Size(j)
<1>7. /\ u \in {0, 1} /\ v \in {0, 1} /\ w \in {0, 1} /\ x \in {0, 1} /\ y \in {0, 1}
      /\ Some(f) => u = 1
      /\ Some(g) => v = 1
      /\ Some(h) => w = 1
      /\ Some(i) => x = 1
      /\ Some(j) => y = 1
  BY Sizes
<1> HIDE DEF u, v, w, x, y
<1>8. /\ Len(p) = n + u /\ Len(q) = n + u + v /\ Len(r) = n + u + v + w /\ Len(s) = n + u + v + w + x
      /\ Len(t) = n + u + v + w + x + y
  BY <1>1, <1>2, <1>3, <1>4, <1>5, <1>7 DEF u, v, w, x, y
<1>9. \A k \in 1..n : At(t, k) = At(a, k)
  <2> TAKE k \in 1..n
  <2>1. k \in 1..Len(p) /\ k \in 1..Len(q) /\ k \in 1..Len(r) /\ k \in 1..Len(s)
    BY <1>1, <1>7, <1>8
  <2>2. At(t, k) = At(s, k) /\ At(s, k) = At(r, k)
    BY <1>4, <1>5, <2>1
  <2>3. At(r, k) = At(q, k) /\ At(q, k) = At(p, k) /\ At(p, k) = At(a, k)
    BY <1>1, <1>2, <1>3, <2>1
  <2>4. QED
    BY <2>2, <2>3
<1>10. Some(f) => At(t, n + 1) = f
  <2> SUFFICES ASSUME Some(f) PROVE At(t, n + 1) = f
    OBVIOUS
  <2>1. n + 1 \in 1..Len(p) /\ n + 1 \in 1..Len(q) /\ n + 1 \in 1..Len(r) /\ n + 1 \in 1..Len(s)
    BY <1>1, <1>7, <1>8
  <2>2. QED
    BY <1>1, <1>2, <1>3, <1>4, <1>5, <2>1
<1>11. Some(g) => At(t, n + u + 1) = g
  <2> SUFFICES ASSUME Some(g) PROVE At(t, n + u + 1) = g
    OBVIOUS
  <2>1. n + u + 1 \in 1..Len(q) /\ n + u + 1 \in 1..Len(r) /\ n + u + 1 \in 1..Len(s)
    BY <1>1, <1>7, <1>8
  <2>2. QED
    BY <1>2, <1>3, <1>4, <1>5, <1>8, <2>1
<1>12. Some(h) => At(t, n + u + v + 1) = h
  <2> SUFFICES ASSUME Some(h) PROVE At(t, n + u + v + 1) = h
    OBVIOUS
  <2>1. n + u + v + 1 \in 1..Len(r) /\ n + u + v + 1 \in 1..Len(s)
    BY <1>1, <1>7, <1>8
  <2>2. QED
    BY <1>3, <1>4, <1>5, <1>8, <2>1
<1>13. Some(i) => At(t, n + u + v + w + 1) = i
  <2> SUFFICES ASSUME Some(i) PROVE At(t, n + u + v + w + 1) = i
    OBVIOUS
  <2>1. n + u + v + w + 1 \in 1..Len(s)
    BY <1>1, <1>7, <1>8
  <2>2. QED
    BY <1>4, <1>5, <1>8, <2>1
<1>14. Some(j) => At(t, n + u + v + w + x + 1) = j
  BY <1>5, <1>8
<1> HIDE DEF n, words
<1>15. Placed(t, a, n, f, g, h, i, j)
  BY <1>1, <1>8, <1>9, <1>10, <1>11, <1>12, <1>13, <1>14 DEF u, v, w, x, y, Placed
<1>16. QED
  BY <1>5, <1>6, <1>15 DEF n, words

\* All given fields are in their places exactly if there is no gap before one.
Gapless(f, g, h, i, j) ==
    /\ Some(j) => Some(i)
    /\ Some(i) => Some(h)
    /\ Some(h) => Some(g)
    /\ Some(g) => Some(f)

FieldsInPlace(words, n, f, g, h, i, j) ==
    /\ Some(f) => At(words, n + 1) = f
    /\ Some(g) => At(words, n + 2) = g
    /\ Some(h) => At(words, n + 3) = h
    /\ Some(i) => At(words, n + 4) = i
    /\ Some(j) => At(words, n + 5) = j

LEMMA PlacesOfFields ==
    ASSUME NEW S, NEW a \in Seq(S), NEW f \in Optional(S), NEW g \in Optional(S), NEW h \in Optional(S),
           NEW i \in Optional(S), NEW j \in Optional(S)
    PROVE  FieldsInPlace(WithFields(a, f, g, h, i, j), Len(a), f, g, h, i, j) <=> Gapless(f, g, h, i, j)
<1> DEFINE n == Len(a)
           words == WithFields(a, f, g, h, i, j)
<1> DEFINE u == Size(f)
           v == Size(g)
           w == Size(h)
           x == Size(i)
           y == Size(j)
<1>1. /\ u \in {0, 1} /\ v \in {0, 1} /\ w \in {0, 1} /\ x \in {0, 1} /\ y \in {0, 1}
      /\ Some(f) <=> u = 1
      /\ Some(g) <=> v = 1
      /\ Some(h) <=> w = 1
      /\ Some(i) <=> x = 1
      /\ Some(j) <=> y = 1
  BY Sizes
<1>7. words \in Seq(S) /\ Placed(words, a, n, f, g, h, i, j)
  BY Places
<1>2. /\ n \in Nat /\ words \in Seq(S) /\ Len(words) = n + u + v + w + x + y
      /\ Some(f) => At(words, n + 1) = f
      /\ Some(g) => At(words, n + u + 1) = g
      /\ Some(h) => At(words, n + u + v + 1) = h
      /\ Some(i) => At(words, n + u + v + w + 1) = i
      /\ Some(j) => At(words, n + u + v + w + x + 1) = j
  BY <1>7 DEF Placed
<1>3. \A k \in Nat : k > Len(words) => ~Some(At(words, k))
  <2>1. Len(words) \in Nat
    BY <1>2
  <2>2. QED
    BY ONLY <2>1 DEF At, Some
<1> HIDE DEF u, v, w, x, y, n, words
<1>4. ASSUME Gapless(f, g, h, i, j)
      PROVE  /\ Some(f) => At(words, n + 1) = f
             /\ Some(g) => At(words, n + 2) = g
             /\ Some(h) => At(words, n + 3) = h
             /\ Some(i) => At(words, n + 4) = i
             /\ Some(j) => At(words, n + 5) = j
  <2>1. /\ Some(g) => n + u + 1 = n + 2
        /\ Some(h) => n + u + v + 1 = n + 3
        /\ Some(i) => n + u + v + w + 1 = n + 4
        /\ Some(j) => n + u + v + w + x + 1 = n + 5
    BY <1>1, <1>2, <1>4 DEF Gapless
  <2>2. QED
    BY <1>2, <2>1
<1>5. ASSUME /\ Some(f) => At(words, n + 1) = f
             /\ Some(g) => At(words, n + 2) = g
             /\ Some(h) => At(words, n + 3) = h
             /\ Some(i) => At(words, n + 4) = i
             /\ Some(j) => At(words, n + 5) = j
      PROVE  Gapless(f, g, h, i, j)
  <2>1. /\ Some(g) => n + 2 <= Len(words)
        /\ Some(h) => n + 3 <= Len(words)
        /\ Some(i) => n + 4 <= Len(words)
        /\ Some(j) => n + 5 <= Len(words)
    <3>1. Len(words) \in Nat
      BY <1>2
    <3>2. QED
      BY <1>2, <1>3, <1>5, <3>1
  <2>2. QED
    BY <1>1, <1>2, <2>1 DEF Gapless
<1>6. QED
  BY <1>4, <1>5 DEF FieldsInPlace, n, words

LEMMA GapOfFive ==
    ASSUME NEW f, NEW g, NEW h, NEW i, NEW j
    PROVE  Gap(<<f, g, h, i, j>>) <=> ~Gapless(f, g, h, i, j)
<1> DEFINE fields == <<f, g, h, i, j>>
           G(m) == Some(fields[m])
<1>1. DOMAIN fields = 1..5 /\ 1..5 = {1, 2, 3, 4, 5}
  OBVIOUS
<1>2. G(1) = Some(f) /\ G(2) = Some(g) /\ G(3) = Some(h) /\ G(4) = Some(i) /\ G(5) = Some(j)
  OBVIOUS
<1>3. Gap(fields) <=> \E m, k \in {1, 2, 3, 4, 5} : m < k /\ ~G(m) /\ G(k)
  BY <1>1 DEF Gap
<1> HIDE DEF G, fields
<1>4. Gapless(f, g, h, i, j) <=> (G(5) => G(4)) /\ (G(4) => G(3)) /\ (G(3) => G(2)) /\ (G(2) => G(1))
  BY <1>2 DEF Gapless
<1>5. (\E m, k \in {1, 2, 3, 4, 5} : m < k /\ ~G(m) /\ G(k))
         <=> ~((G(5) => G(4)) /\ (G(4) => G(3)) /\ (G(3) => G(2)) /\ (G(2) => G(1)))
  OBVIOUS
<1>6. QED
  BY <1>3, <1>4, <1>5 DEF fields

-----------------------------------------------------------------------------
(***************************************************************************)
(* The Originate an application builds, and its parts.                     *)
(***************************************************************************)

DialStart == "originate"
ParkName == "park"
XmlName == "XML"
InlineName == "inline"

\* All tokens of the texts of an Originate.
OriginateTokens ==
    DialTokens \cup (UNION {Range(t) : t \in AppArgs \cup Contexts})
    \cup PathTokens \cup AppNames \cup Numbers \cup AppMarks
    \cup {Space, DialStart, ParkName, XmlName, InlineName}

LEMMA OriginateTokensAre ==
    /\ Marked(OriginateTokens) /\ Space \in OriginateTokens
    /\ \A x \in AppMarks \cup PathTokens \cup AppNames \cup Numbers : x \in OriginateTokens
    /\ {DialStart, ParkName, XmlName, InlineName} \in SUBSET OriginateTokens
    /\ \A t \in DOMAIN Delimiters : Opening(t) \in OriginateTokens /\ Closing(t) \in OriginateTokens
    /\ \A t \in Keys \cup VarValues \cup AppArgs \cup Contexts : t \in Seq(OriginateTokens)
<1>1. \A x \in DialTokens : x \in OriginateTokens
  BY DEF OriginateTokens
<1>2. Marked(OriginateTokens)
  BY <1>1, DialTokensAre DEF Marked
<1>3. \A t \in DOMAIN Delimiters : Opening(t) \in OriginateTokens /\ Closing(t) \in OriginateTokens
  BY <1>1, DialTokensAre
<1>4. ASSUME NEW t \in AppArgs \cup Contexts
      PROVE  t \in Seq(OriginateTokens)
  <2>1. t \in Seq(Range(t))
    BY OriginateAssumption
  <2>2. \A x \in Range(t) : x \in OriginateTokens
    BY DEF OriginateTokens
  <2>3. QED
    BY <2>1, <2>2, SeqOfMore
<1>5. \A t \in Keys \cup VarValues : t \in Seq(OriginateTokens)
  BY <1>1, DialTokensAre, SeqOfMore
<1>6. /\ \A x \in AppMarks \cup PathTokens \cup AppNames \cup Numbers : x \in OriginateTokens
      /\ {DialStart, ParkName, XmlName, InlineName} \in SUBSET OriginateTokens
      /\ Space \in OriginateTokens
  BY DEF OriginateTokens
<1>7. QED
  BY <1>2, <1>3, <1>4, <1>5, <1>6

\* One token that is no mark.
LEMMA OneWord ==
    ASSUME NEW T, NEW x \in T, x # Space, x # Quote
    PROVE  <<x>> \in Seq(T) /\ <<x>> # << >> /\ Unmarked(<<x>>) /\ Item(T, <<x>>, Space)
<1> DEFINE w == <<x>>
<1>1. w \in Seq(T) /\ w # << >> /\ Range(w) = {x}
  BY OneThrough, SpaceIsNone
<1> HIDE DEF w
<1>2. Unmarked(w)
  BY <1>1 DEF Unmarked
<1>3. QED
  BY <1>1, <1>2, WordItem DEF w

LEMMA NamesUnmarked ==
    /\ DialStart \notin {Space, Quote} /\ XmlName \notin {Space, Quote} /\ InlineName \notin {Space, Quote}
    /\ ParkName \notin {Space, Quote, Comma, NameMark, LeftParen}
    /\ \A n \in Numbers : n \notin {Space, Quote}
  BY DEF DialStart, XmlName, InlineName, ParkName, Numbers, Space, Quote, Comma, NameMark, LeftParen

\* The items an Originate may be made of.
DialItems == {x \in Seq(OriginateTokens) : Item(OriginateTokens, x, Space)}

LEMMA WordsAreItems ==
    /\ <<DialStart>> \in DialItems /\ XML \in DialItems /\ Inline \in DialItems
    /\ \A n \in Numbers : <<n>> \in DialItems
    /\ \A t \in Contexts : Word(t) => t \in DialItems
<1>1. \A x \in OriginateTokens : x # Space /\ x # Quote => <<x>> \in DialItems
  BY OneWord DEF DialItems
<1>2. XML = <<XmlName>> /\ Inline = <<InlineName>>
  BY DEF XML, Inline, XmlName, InlineName
<1>3. <<DialStart>> \in DialItems /\ <<XmlName>> \in DialItems /\ <<InlineName>> \in DialItems
  <2>1. DialStart \in OriginateTokens /\ XmlName \in OriginateTokens /\ InlineName \in OriginateTokens
    BY OriginateTokensAre
  <2>2. QED
    BY <1>1, <2>1, NamesUnmarked
<1>4. ASSUME NEW n \in Numbers PROVE <<n>> \in DialItems
  BY <1>1, OriginateTokensAre, NamesUnmarked
<1>5. ASSUME NEW t \in Contexts, Word(t) PROVE t \in DialItems
  <2>1. t \in Seq(OriginateTokens)
    BY OriginateTokensAre
  <2>2. t # << >> /\ ~Contains(t, Space) /\ ~Contains(t, Quote)
    BY <1>5 DEF Word, Some, Space, Quote
  <2>3. Unmarked(t)
    BY <2>1, <2>2, ContainsRange DEF Unmarked
  <2>4. QED
    BY <2>1, <2>2, <2>3, WordItem DEF DialItems
<1>6. QED
  BY <1>2, <1>3, <1>4, <1>5

-----------------------------------------------------------------------------
\* Arguments are a text, or none.
LEMMA ArgsAre ==
    ASSUME NEW app \in Application \cup {Park}
    PROVE  /\ \E n \in AppNames \cup {ParkName} : app.name = <<n>>
           /\ Args(app) \in Seq(OriginateTokens)
           /\ app.args = << >> => Args(app) = << >>
           /\ app.args # << >> => app.args = <<Args(app)>>
<1>1. /\ \E n \in AppNames \cup {ParkName} : app.name = <<n>>
      /\ app.args = << >> \/ \E a \in AppArgs : app.args = <<a>>
  <2>1. CASE app \in Application
    BY <2>1 DEF Application, Optional
  <2>2. CASE app = Park
    BY <2>2 DEF Park, ParkName
  <2>3. QED
    BY <2>1, <2>2
<1>2. CASE app.args = << >>
  <2>1. Args(app) = << >>
    BY <1>2, FlattenNothing DEF Args
  <2>2. << >> \in Seq(OriginateTokens)
    OBVIOUS
  <2>3. QED
    BY <1>1, <1>2, <2>1, <2>2
<1>3. CASE \E a \in AppArgs : app.args = <<a>>
  <2>1. PICK a \in AppArgs : app.args = <<a>>
    BY <1>3
  <2>2. a \in Seq(OriginateTokens)
    BY OriginateTokensAre
  <2>3. Args(app) = a
    <3> DEFINE none == << >>
    <3>1. Append(none, a) = <<a>> /\ none \in Seq(Seq(OriginateTokens))
      BY <2>2
    <3>2. FlattenSeq(none) = none
      BY FlattenNothing
    <3>3. FlattenSeq(Append(none, a)) = Then(FlattenSeq(none), a)
      <4> HIDE DEF none
      <4>1. QED
        BY <2>2, <3>1, FlattenAppend
    <3>4. Then(none, a) = a
      BY <2>2 DEF Then
    <3>5. QED
      BY <2>1, <3>1, <3>2, <3>3, <3>4 DEF Args
  <2>4. <<a>> # << >>
    OBVIOUS
  <2>5. QED
    BY <1>1, <2>1, <2>2, <2>3, <2>4
<1>4. QED
  BY <1>1, <1>2, <1>3

\* An Originate always has an application.
DialInv == DialTypeOK /\ dial.apps # << >>

LEMMA DialInvInitially == DialInit => DialInv
<1> SUFFICES ASSUME DialInit PROVE DialInv
  OBVIOUS
<1>1. dial.apps = <<Park>>
  BY DEF DialInit
<1>2. <<Park>> # << >>
  OBVIOUS
<1>3. QED
  BY <1>1, <1>2, DialInitially DEF DialInv

LEMMA DialInvSteps == DialInv /\ [DialNext]_dial => DialInv'
<1> SUFFICES ASSUME DialInv, [DialNext]_dial PROVE DialInv'
  OBVIOUS
<1>1. DialTypeOK' /\ DialTypeOK
  BY DialSteps DEF DialInv
<1>2. dial \in Originates /\ dial.apps # << >>
  BY <1>1, DialTypes DEF DialInv
<1>3. DialInv' <=> DialTypeOK' /\ dial'.apps # << >>
  BY DEF DialInv
<1>4. SUFFICES dial'.apps # << >>
  BY <1>1, <1>3
<1>5. CASE InsertVariable
  BY <1>2, <1>5 DEF InsertVariable, Originates
<1>6. CASE SetScope
  BY <1>2, <1>6 DEF SetScope, Originates
<1>7. CASE SetPath
  BY <1>2, <1>7 DEF SetPath, Originates
<1>8. CASE SetApplication
  <2>1. PICK app \in Application : \/ dial' = [dial EXCEPT !.apps = <<app>>]
                                   \/ dial' = [dial EXCEPT !.apps = Append(@, app)]
    BY <1>8 DEF SetApplication
  <2>2. /\ dial.apps \in Seq(Application \cup {Park}) /\ DOMAIN dial = DOMAIN [dial EXCEPT !.apps = <<app>>]
        /\ app \in Application \cup {Park}
    BY <1>2 DEF Originates
  <2>3. Append(dial.apps, app) # << >>
    BY <2>2, AppendTokens
  <2>4. <<app>> # << >>
    OBVIOUS
  <2>5. dial'.apps = <<app>> \/ dial'.apps = Append(dial.apps, app)
    BY <1>2, <2>1 DEF Originates
  <2>6. QED
    BY <2>3, <2>4, <2>5
<1>9. CASE SetField
  BY <1>2, <1>9 DEF SetField, Originates
<1>10. CASE UNCHANGED dial
  BY <1>2, <1>10
<1>11. QED
  BY <1>5, <1>6, <1>7, <1>8, <1>9, <1>10 DEF DialNext

LEMMA DialInvariant == DialSpec => []DialInv
  BY DialInvInitially, DialInvSteps, PTL DEF DialSpec

\* What the parts of an Originate the format can carry are.
PartsAre(o) ==
    /\ o.endpoint \in Endpoints /\ Carriable(OriginateTokens, o.endpoint.vars)
    /\ o.apps \in Seq(Application \cup {Park}) /\ o.apps # << >>
    /\ \A i \in 1..Len(o.apps) : Callable(OriginateTokens, o.apps[i])
    /\ o.dialplan = <<Inline>> =>
           \A i \in 1..Len(o.apps) : Listable(Args(o.apps[i])) /\ Trimmed(Args(o.apps[i])) = Args(o.apps[i])
    /\ o.dialplan # <<Inline>> =>
           /\ Len(o.apps) = 1
           /\ Space \notin Range(Args(o.apps[1])) => ~Odd(Args(o.apps[1]))
    /\ o.dialplan \in Optional(DialItems) /\ o.context \in Optional(DialItems) /\ o.cid_name \in Optional(DialItems)
    /\ o.cid_num \in Optional(DialItems) /\ o.timeout \in Optional(DialItems)

LEMMA OriginateFields ==
    ASSUME NEW o \in Originates
    PROVE  /\ o.endpoint \in Endpoints /\ o.apps \in Seq(Application \cup {Park})
           /\ o.dialplan \in Optional({XML, Inline})
           /\ o.context \in Optional(Contexts) /\ o.cid_name \in Optional(Contexts)
           /\ o.cid_num \in Optional({<<n>> : n \in Numbers})
           /\ o.timeout \in Optional({<<n>> : n \in Numbers})
  BY DEF Originates

LEMMA CarriedVariables ==
    ASSUME NEW o \in Originates, Carried(o)
    PROVE  Carriable(OriginateTokens, o.endpoint.vars)
<1> DEFINE vars == o.endpoint.vars
           R == Pairs(OriginateTokens)
<1>1. vars \in Seq(Variable)
  BY OriginateFields DEF Endpoints
<1>2. \A x \in Variable : x \in R /\ x.key \in Seq(OriginateTokens) /\ x.value \in Seq(OriginateTokens)
  BY OriginateTokensAre DEF Variable, Pairs
<1>3. /\ \A i \in DOMAIN vars : Range(vars[i].key) \cap {Space, Quote} = {}
      /\ \A i \in DOMAIN vars : vars[i].value # << >> /\ Last(vars[i].value) = Backslash =>
             ~Contains(vars[i].value, Space)
  BY DEF Carried, PlainNames, Some, Space, Quote, Backslash
<1> HIDE DEF vars
<1>4. vars \in Seq(R)
  BY <1>1, <1>2, SeqOfMore
<1>5. DOMAIN vars = 1..Len(vars) /\ \A i \in 1..Len(vars) : vars[i] \in Variable
  BY <1>1, ElementOfSeq
<1>6. \A i \in 1..Len(vars) : Unmarked(vars[i].key)
  BY <1>3, <1>5 DEF Unmarked
<1>7. QED
  BY <1>2, <1>3, <1>4, <1>5, <1>6 DEF Carriable, vars

LEMMA CarriedApplications ==
    ASSUME NEW o \in Originates, Carried(o)
    PROVE  \A i \in 1..Len(o.apps) :
               /\ Callable(OriginateTokens, o.apps[i])
               /\ o.dialplan = <<Inline>> => Listable(Args(o.apps[i])) /\ Trimmed(Args(o.apps[i])) = Args(o.apps[i])
               /\ o.dialplan # <<Inline>> /\ i = 1 =>
                      (Space \notin Range(Args(o.apps[1])) => ~Odd(Args(o.apps[1])))
<1> DEFINE apps == o.apps
           inline == o.dialplan = <<Inline>>
           spaced == \E i \in DOMAIN apps : Contains(Args(apps[i]), Space)
<1>1. apps \in Seq(Application \cup {Park})
  BY OriginateFields
<1>2. DOMAIN apps = 1..Len(apps) /\ \A i \in 1..Len(apps) : apps[i] \in Application \cup {Park}
  BY <1>1, ElementOfSeq
<1>3. \A i \in DOMAIN apps : Range(apps[i].name) \cap {Space, Quote, Comma, NameMark, LeftParen} = {}
  BY DEF Carried, PlainNames, Space, Quote, Comma, NameMark, LeftParen
<1>4. /\ Len(apps) = 1 \/ inline
      /\ \A i \in DOMAIN apps :
             /\ ~spaced \/ inline => ~Odd(Args(apps[i]))
             /\ inline => /\ ~Contains(Args(apps[i]), Comma) /\ ~Contains(Args(apps[i]), Backslash)
                          /\ Trimmed(Args(apps[i])) = Args(apps[i])
  BY DEF Carried, Odd, Args, Space, Comma, Backslash
<1> HIDE DEF apps
<1>5. ASSUME NEW i \in 1..Len(apps)
      PROVE  /\ Callable(OriginateTokens, apps[i])
             /\ inline => Listable(Args(apps[i])) /\ Trimmed(Args(apps[i])) = Args(apps[i])
             /\ ~inline /\ i = 1 => (Space \notin Range(Args(apps[1])) => ~Odd(Args(apps[1])))
  <2>1. PICK n \in AppNames \cup {ParkName} : apps[i].name = <<n>>
    BY <1>2, ArgsAre
  <2>2. Args(apps[i]) \in Seq(OriginateTokens)
    BY <1>2, ArgsAre
  <2>3. n \in OriginateTokens
    BY OriginateTokensAre
  <2>4. <<n>> \in Seq(OriginateTokens) /\ <<n>> # << >>
    BY <2>3
  <2>5. Callable(OriginateTokens, apps[i])
    BY <1>2, <1>3, <2>1, <2>2, <2>4 DEF Callable, Unmarked
  <2>6. inline => Listable(Args(apps[i])) /\ Trimmed(Args(apps[i])) = Args(apps[i])
    BY <1>2, <1>4, <2>2, ContainsRange DEF Listable
  <2>7. ASSUME ~inline, i = 1, Space \notin Range(Args(apps[1])) PROVE ~Odd(Args(apps[1]))
    <3>1. Len(apps) = 1 /\ 1 \in DOMAIN apps
      BY <1>2, <1>4, <2>7
    <3>2. ~Contains(Args(apps[1]), Space)
      BY <2>2, <2>7, ContainsRange
    <3>3. ~spaced
      <4>1. \A j \in DOMAIN apps : j = 1
        BY <1>2, <3>1
      <4>2. QED
        BY <3>2, <4>1
    <3>4. QED
      BY <1>4, <3>1, <3>3
  <2>8. QED
    BY <2>5, <2>6, <2>7
<1>6. QED
  BY <1>5 DEF apps

LEMMA OptionalOfMore ==
    ASSUME NEW S, NEW R, NEW f \in Optional(S), \A x \in S : f = <<x>> => x \in R
    PROVE  f \in Optional(R)
  BY DEF Optional

LEMMA CarriedParts ==
    ASSUME NEW o \in Originates, Carried(o), o.apps # << >>
    PROVE  PartsAre(o)
<1>1. /\ o.endpoint \in Endpoints /\ o.apps \in Seq(Application \cup {Park})
      /\ o.dialplan \in Optional({XML, Inline})
      /\ o.context \in Optional(Contexts) /\ o.cid_name \in Optional(Contexts)
      /\ o.cid_num \in Optional({<<n>> : n \in Numbers})
      /\ o.timeout \in Optional({<<n>> : n \in Numbers})
  BY OriginateFields
<1>2. Carriable(OriginateTokens, o.endpoint.vars)
  BY CarriedVariables
<1>3. \A i \in 1..Len(o.apps) :
          /\ Callable(OriginateTokens, o.apps[i])
          /\ o.dialplan = <<Inline>> => Listable(Args(o.apps[i])) /\ Trimmed(Args(o.apps[i])) = Args(o.apps[i])
          /\ o.dialplan # <<Inline>> /\ i = 1 =>
                 (Space \notin Range(Args(o.apps[1])) => ~Odd(Args(o.apps[1])))
  BY CarriedApplications
<1>4. Len(o.apps) = 1 \/ o.dialplan = <<Inline>>
  BY DEF Carried
<1>5. o.dialplan # <<Inline>> =>
          /\ Len(o.apps) = 1
          /\ Space \notin Range(Args(o.apps[1])) => ~Odd(Args(o.apps[1]))
  <2>1. 1 \in 1..Len(o.apps)
    BY <1>1, Ends
  <2>2. QED
    BY <1>3, <1>4, <2>1
<1>6. o.dialplan \in Optional(DialItems)
  BY <1>1, WordsAreItems, OptionalOfMore
<1>7. o.cid_num \in Optional(DialItems) /\ o.timeout \in Optional(DialItems)
  <2>1. \A x \in {<<n>> : n \in Numbers} : x \in DialItems
    BY WordsAreItems
  <2>2. QED
    BY <1>1, <2>1, OptionalOfMore
<1>8. o.context \in Optional(DialItems) /\ o.cid_name \in Optional(DialItems)
  <2> DEFINE f == o.context
             g == o.cid_name
  <2>1. f \in Seq(Contexts) /\ g \in Seq(Contexts)
    BY <1>1, Sizes
  <2>2. \A t \in Range(Then(f, g)) : Word(t)
    BY DEF Carried, Then
  <2> HIDE DEF f, g
  <2>3. \A t \in Range(f) \cup Range(g) : Word(t)
    BY <2>1, <2>2, RangeThen
  <2>4. \A x \in Contexts : f = <<x>> => x \in Range(f)
    BY DEF Range
  <2>5. \A x \in Contexts : g = <<x>> => x \in Range(g)
    BY DEF Range
  <2>6. f \in Optional(Contexts) /\ g \in Optional(Contexts)
    BY <1>1 DEF f, g
  <2>7. \A x \in Contexts : (f = <<x>> => x \in DialItems) /\ (g = <<x>> => x \in DialItems)
    BY <2>3, <2>4, <2>5, WordsAreItems
  <2>8. f \in Optional(DialItems) /\ g \in Optional(DialItems)
    BY <2>6, <2>7, OptionalOfMore
  <2>9. QED
    BY <2>8 DEF f, g
<1>9. QED
  BY <1>1, <1>2, <1>3, <1>5, <1>6, <1>7, <1>8 DEF PartsAre

-----------------------------------------------------------------------------
(***************************************************************************)
(* Its text, and what the server reads in it.                              *)
(***************************************************************************)

\* The text of the applications, and the three words every Originate has.
AppsText(o) ==
    IF o.dialplan = <<Inline>> THEN Interleaved(InlineItems(o.apps), Comma)
    ELSE XmlText(o.apps[1].name, Args(o.apps[1]))

Heading(o) == << <<DialStart>>, EndpointText(o.endpoint), originate_quote(AppsText(o)) >>

WordsOf(o) == WithFields(Heading(o), o.dialplan, o.context, o.cid_name, o.cid_num, o.timeout)

LEMMA FieldsBehind ==
    ASSUME NEW S, NEW a \in Seq(S), NEW f \in Seq(S), NEW g \in Seq(S), NEW h \in Seq(S),
           NEW i \in Seq(S), NEW j \in Seq(S)
    PROVE  Then(a, Then(Then(Then(Then(f, g), h), i), j)) = WithFields(a, f, g, h, i, j)
<1> DEFINE p == Then(f, g)
           q == Then(p, h)
           r == Then(q, i)
<1>1. p \in Seq(S) /\ Then(Then(a, f), g) = Then(a, p)
  BY ThenTokens, ThenAssociative
<1> HIDE DEF p
<1>2. q \in Seq(S) /\ Then(Then(a, p), h) = Then(a, q)
  BY <1>1, ThenTokens, ThenAssociative
<1> HIDE DEF q
<1>3. r \in Seq(S) /\ Then(Then(a, q), i) = Then(a, r)
  BY <1>2, ThenTokens, ThenAssociative
<1> HIDE DEF r
<1>4. Then(Then(a, r), j) = Then(a, Then(r, j))
  BY <1>3, ThenAssociative
<1>5. QED
  BY <1>1, <1>2, <1>3, <1>4 DEF WithFields, p, q, r

LEMMA DialplanOf ==
    ASSUME NEW d \in Optional({XML, Inline})
    PROVE  /\ d = <<Inline>> => (IF Some(d) THEN d[1] ELSE XML) = Inline
           /\ d # <<Inline>> => (IF Some(d) THEN d[1] ELSE XML) # Inline
<1>1. XML # Inline
  BY DEF XML, Inline
<1>2. CASE d = << >>
  BY <1>1, <1>2 DEF Some
<1>3. CASE d = <<XML>>
  BY <1>1, <1>3 DEF Some
<1>4. CASE d = <<Inline>>
  BY <1>4 DEF Some
<1>5. QED
  BY <1>2, <1>3, <1>4 DEF Optional

LEMMA AppsTextIs ==
    ASSUME NEW o \in Originates, PartsAre(o)
    PROVE  /\ ApplicationsText(o.apps, IF Some(o.dialplan) THEN o.dialplan[1] ELSE XML) = <<AppsText(o)>>
           /\ originate_quote(AppsText(o)) \in DialItems
<1> DEFINE A == Application \cup {Park}
           apps == o.apps
           d == IF Some(o.dialplan) THEN o.dialplan[1] ELSE XML
<1>1. /\ apps \in Seq(A) /\ apps # << >>
      /\ \A i \in 1..Len(apps) : Callable(OriginateTokens, apps[i])
      /\ o.dialplan = <<Inline>> => \A i \in 1..Len(apps) : Listable(Args(apps[i]))
      /\ o.dialplan # <<Inline>> =>
           /\ Len(apps) = 1
           /\ Space \notin Range(Args(apps[1])) => ~Odd(Args(apps[1]))
  BY DEF PartsAre
<1>2. (o.dialplan = <<Inline>> => d = Inline) /\ (o.dialplan # <<Inline>> => d # Inline)
  BY OriginateFields, DialplanOf
<1>3. \A x \in AppMarks : x \in OriginateTokens
  BY OriginateTokensAre
<1>4. \A q : Item(OriginateTokens, q, Space) => q \in DialItems
  BY DEF DialItems, Item
<1> HIDE DEF d, A, apps
<1>5. CASE o.dialplan = <<Inline>>
  <2>1. NameMark \in OriginateTokens
    BY <1>3 DEF AppMarks
  <2>2. ApplicationsText(apps, Inline) = <<Interleaved(InlineItems(apps), Comma)>>
    BY <1>1, <2>1, InlineItemsAre
  <2>3. Item(OriginateTokens, originate_quote(Interleaved(InlineItems(apps), Comma)), Space)
    BY <1>1, <1>3, <1>5, InlineApps
  <2>4. AppsText(o) = Interleaved(InlineItems(apps), Comma) /\ d = Inline
    BY <1>2, <1>5 DEF AppsText, apps
  <2>5. QED
    BY <1>4, <2>2, <2>3, <2>4 DEF apps, d
<1>6. CASE o.dialplan # <<Inline>>
  <2>1. Len(apps) = 1 /\ Callable(OriginateTokens, apps[1]) /\ (Space \notin Range(Args(apps[1])) => ~Odd(Args(apps[1])))
    <3>1. 1 \in 1..Len(apps)
      BY <1>1, Ends
    <3>2. QED
      BY <1>1, <1>6, <3>1
  <2>2. /\ ApplicationsText(apps, d) = <<XmlText(apps[1].name, Args(apps[1]))>>
        /\ Item(OriginateTokens, originate_quote(XmlText(apps[1].name, Args(apps[1]))), Space)
    BY <1>1, <1>2, <1>3, <1>6, <2>1, XmlApps
  <2>3. AppsText(o) = XmlText(apps[1].name, Args(apps[1]))
    BY <1>6 DEF AppsText, apps
  <2>4. QED
    BY <1>4, <2>2, <2>3 DEF apps, d
<1>7. QED
  BY <1>5, <1>6

LEMMA HeadingIs ==
    ASSUME NEW o \in Originates, PartsAre(o)
    PROVE  /\ Heading(o) \in Seq(DialItems) /\ Len(Heading(o)) = 3
           /\ EndpointText(o.endpoint) \in DialItems
           /\ originate_quote(AppsText(o)) \in DialItems
<1> DEFINE e == EndpointText(o.endpoint)
           a == <<DialStart>>
           q == originate_quote(AppsText(o))
<1>1. a \in DialItems /\ q \in DialItems
  BY WordsAreItems, AppsTextIs
<1>2. e \in DialItems
  <2>1. o.endpoint \in Endpoints /\ Carriable(OriginateTokens, o.endpoint.vars)
    BY DEF PartsAre
  <2>2. o.endpoint.scope \in DOMAIN Delimiters
    BY <2>1 DEF Endpoints
  <2>3. /\ Marked(OriginateTokens) /\ Opening(o.endpoint.scope) \in OriginateTokens /\ Closing(o.endpoint.scope) \in OriginateTokens
        /\ \A x \in PathTokens : x \in OriginateTokens
    BY <2>2, OriginateTokensAre
  <2>4. Item(OriginateTokens, e, Space)
    BY <2>1, <2>3, EndpointItem
  <2>5. QED
    BY <2>4 DEF DialItems, Item
<1> HIDE DEF a, q, e
<1>3. <<a, e, q>> \in Seq(DialItems) /\ Len(<<a, e, q>>) = 3
  BY <1>1, <1>2
<1>4. QED
  BY <1>1, <1>2, <1>3 DEF Heading, a, e, q

\* The text of an Originate is its words with spaces between them, and comes
\* apart into them.
LEMMA WordsComeApart ==
    ASSUME NEW o \in Originates, PartsAre(o)
    PROVE  /\ WordsOf(o) \in Seq(DialItems) /\ WordsOf(o) # << >>
           /\ OriginateText(o) = <<Interleaved(WordsOf(o), Space)>>
           /\ originate_split(Interleaved(WordsOf(o), Space), Space) = <<WordsOf(o)>>
<1> DEFINE a == Heading(o)
           f == o.dialplan
           g == o.context
           h == o.cid_name
           i == o.cid_num
           j == o.timeout
           words == WordsOf(o)
<1>1. a \in Seq(DialItems) /\ Len(a) = 3
  BY HeadingIs
<1>2. /\ f \in Optional(DialItems) /\ g \in Optional(DialItems) /\ h \in Optional(DialItems)
      /\ i \in Optional(DialItems) /\ j \in Optional(DialItems)
  BY DEF PartsAre
<1>3. /\ f \in Seq(DialItems) /\ g \in Seq(DialItems) /\ h \in Seq(DialItems)
      /\ i \in Seq(DialItems) /\ j \in Seq(DialItems)
  BY <1>2, Sizes
<1>4. words = WithFields(a, f, g, h, i, j)
  BY DEF WordsOf
<1>5. OriginateText(o) = <<Interleaved(Then(a, Then(Then(Then(Then(f, g), h), i), j)), Space)>>
  <2>1. ApplicationsText(o.apps, IF Some(o.dialplan) THEN o.dialplan[1] ELSE XML) = <<AppsText(o)>>
    BY AppsTextIs
  <2> DEFINE t == AppsText(o)
             apps == ApplicationsText(o.apps, IF Some(o.dialplan) THEN o.dialplan[1] ELSE XML)
  <2>2. Some(apps) /\ apps[1] = t
    BY <2>1 DEF Some
  <2>3. OriginateText(o) =
            IF ~Some(apps) THEN << >>
            ELSE <<Interleaved(<< <<"originate">>, EndpointText(o.endpoint), originate_quote(apps[1]) >>
                                 \o OptionalFields(o), " ")>>
    BY DEF OriginateText
  <2> HIDE DEF apps, t
  <2>4. OriginateText(o) = <<Interleaved(<< <<DialStart>>, EndpointText(o.endpoint), originate_quote(t) >>
                                           \o OptionalFields(o), Space)>>
    BY <2>2, <2>3 DEF DialStart, Space
  <2>5. << <<DialStart>>, EndpointText(o.endpoint), originate_quote(t) >> = a
    BY DEF Heading, t
  <2>6. OptionalFields(o) = Then(Then(Then(Then(f, g), h), i), j)
    BY DEF OptionalFields, Then
  <2> HIDE DEF a, f, g, h, i, j
  <2>7. QED
    BY <2>4, <2>5, <2>6 DEF Then
<1> HIDE DEF a, f, g, h, i, j, words
<1>6. Then(a, Then(Then(Then(Then(f, g), h), i), j)) = words
  BY <1>1, <1>3, <1>4, FieldsBehind
<1>7. words \in Seq(DialItems) /\ Placed(words, a, Len(a), f, g, h, i, j)
  BY <1>1, <1>2, <1>4, Places
<1>8. words # << >>
  <2>1. Len(words) # 0
    <3>1. Len(words) = 3 + Size(f) + Size(g) + Size(h) + Size(i) + Size(j)
      BY <1>1, <1>7 DEF Placed
    <3>2. /\ Size(f) \in {0, 1} /\ Size(g) \in {0, 1} /\ Size(h) \in {0, 1}
          /\ Size(i) \in {0, 1} /\ Size(j) \in {0, 1}
      BY <1>2, Sizes
    <3>3. QED
      BY <3>1, <3>2
  <2>2. QED
    BY <1>7, <2>1, Ends
<1>9. words \in Seq(Seq(OriginateTokens)) /\ \A k \in 1..Len(words) : Item(OriginateTokens, words[k], Space)
  <2>1. \A x \in DialItems : x \in Seq(OriginateTokens)
    BY DEF DialItems
  <2>2. words \in Seq(Seq(OriginateTokens))
    BY <1>7, <2>1, SeqOfMore
  <2>3. \A k \in 1..Len(words) : words[k] \in DialItems
    BY <1>7, ElementOfSeq
  <2>4. QED
    BY <2>2, <2>3 DEF DialItems
<1>10. originate_split(Interleaved(words, Space), Space) = <<words>>
  BY <1>8, <1>9, SpaceIsNone, OriginateTokensAre, ItemsSplitOff
<1>11. QED
  BY <1>5, <1>6, <1>7, <1>8, <1>10 DEF words

LEMMA FieldsPlaced == DialInv => FieldsReachTheirPlace
<1> SUFFICES ASSUME DialInv, Carried(dial)
             PROVE  LET fields == <<dial.dialplan, dial.context, dial.cid_name, dial.cid_num, dial.timeout>>
                        words == originate_split(OriginateText(dial)[1], " ")[1]
                    IN  (\A i \in DOMAIN fields : Some(fields[i]) => At(words, i + 3) = fields[i])
                           <=> ~Gap(fields)
  BY DEF FieldsReachTheirPlace
<1> DEFINE f == dial.dialplan
           g == dial.context
           h == dial.cid_name
           i == dial.cid_num
           j == dial.timeout
           fields == <<f, g, h, i, j>>
           words == originate_split(OriginateText(dial)[1], " ")[1]
           a == Heading(dial)
<1>1. dial \in Originates /\ dial.apps # << >>
  BY DialTypes DEF DialInv
<1>2. PartsAre(dial)
  BY <1>1, CarriedParts
<1>3. words = WithFields(a, f, g, h, i, j)
  <2>1. /\ OriginateText(dial) = <<Interleaved(WordsOf(dial), Space)>>
        /\ originate_split(Interleaved(WordsOf(dial), Space), Space) = <<WordsOf(dial)>>
    BY <1>1, <1>2, WordsComeApart
  <2>2. OriginateText(dial)[1] = Interleaved(WordsOf(dial), Space)
    BY <2>1
  <2>3. originate_split(OriginateText(dial)[1], Space) = <<WordsOf(dial)>>
    BY <2>1, <2>2
  <2> DEFINE split == originate_split(OriginateText(dial)[1], " ")
  <2>4. split = <<WordsOf(dial)>> /\ words = split[1]
    BY <2>3 DEF Space
  <2> HIDE DEF split, words
  <2>5. words = WordsOf(dial)
    BY <2>4
  <2>6. QED
    BY <2>5 DEF WordsOf
<1>4. a \in Seq(DialItems) /\ Len(a) = 3
  BY <1>1, <1>2, HeadingIs
<1>5. /\ f \in Optional(DialItems) /\ g \in Optional(DialItems) /\ h \in Optional(DialItems)
      /\ i \in Optional(DialItems) /\ j \in Optional(DialItems)
  BY <1>2 DEF PartsAre
<1> HIDE DEF a, f, g, h, i, j, words
<1>6. FieldsInPlace(words, 3, f, g, h, i, j) <=> Gapless(f, g, h, i, j)
  <2>1. FieldsInPlace(words, Len(a), f, g, h, i, j) <=> Gapless(f, g, h, i, j)
    BY <1>3, <1>4, <1>5, PlacesOfFields
  <2>2. QED
    BY <1>4, <2>1
<1>7. Gap(fields) <=> ~Gapless(f, g, h, i, j)
  BY GapOfFive
<1>8. (\A k \in DOMAIN fields : Some(fields[k]) => At(words, k + 3) = fields[k])
        <=> FieldsInPlace(words, 3, f, g, h, i, j)
  <2> DEFINE P(k) == Some(fields[k]) => At(words, k + 3) = fields[k]
  <2>1. DOMAIN fields = {1, 2, 3, 4, 5}
    OBVIOUS
  <2>2. /\ P(1) <=> (Some(f) => At(words, 3 + 1) = f)
        /\ P(2) <=> (Some(g) => At(words, 3 + 2) = g)
        /\ P(3) <=> (Some(h) => At(words, 3 + 3) = h)
        /\ P(4) <=> (Some(i) => At(words, 3 + 4) = i)
        /\ P(5) <=> (Some(j) => At(words, 3 + 5) = j)
    <3>1. /\ fields[1] = f /\ fields[2] = g /\ fields[3] = h /\ fields[4] = i /\ fields[5] = j
          /\ 1 + 3 = 3 + 1 /\ 2 + 3 = 3 + 2 /\ 3 + 3 = 3 + 3 /\ 4 + 3 = 3 + 4 /\ 5 + 3 = 3 + 5
      OBVIOUS
    <3> HIDE DEF fields
    <3>2. QED
      BY <3>1, Zenon
  <2>3. (\A k \in DOMAIN fields : P(k)) <=> P(1) /\ P(2) /\ P(3) /\ P(4) /\ P(5)
    <3> HIDE DEF P
    <3>1. QED
      BY <2>1
  <2> HIDE DEF P
  <2>4. QED
    BY <2>2, <2>3 DEF FieldsInPlace, P
<1>9. QED
  BY <1>6, <1>7, <1>8 DEF f, g, h, i, j, words

\* The server finds every given field at its place, exactly when no field is
\* left out before a given one: whatever the keys, values, applications and
\* arguments are, as long as the formats can carry them.
THEOREM FieldsArrive == DialSpec => []FieldsReachTheirPlace
  BY DialInvariant, FieldsPlaced, PTL

-----------------------------------------------------------------------------
(***************************************************************************)
(* Its words, as the parser finds them.                                    *)
(***************************************************************************)

LEMMA MarkParts ==
    ASSUME NEW T, NEW c \in T, NEW key \in Seq(T), c \notin Range(key), NEW w \in Seq(T),
           NEW item, item = Then(Append(key, c), w)
    PROVE  /\ item \in Seq(T) /\ item # << >>
           /\ Position(item, c) = Len(key) + 1 /\ Position(item, c) # 0
           /\ Before(item, Position(item, c)) = key
           /\ After(item, Position(item, c)) = w
<1> DEFINE k == Len(key)
           r == Append(key, c)
<1>1. /\ k \in Nat /\ r \in Seq(T) /\ Len(r) = k + 1 /\ r[k + 1] = c
      /\ \A i \in 1..k : r[i] = key[i]
  BY AppendTokens
<1>2. \A i \in 1..k : key[i] \in T /\ key[i] # c
  BY DEF Range
<1> HIDE DEF r, k
<1>3. /\ item \in Seq(T) /\ Len(item) = (k + 1) + Len(w) /\ Len(w) \in Nat
      /\ item[k + 1] = c /\ \A i \in 1..k : item[i] = key[i]
      /\ \A i \in 1..Len(w) : item[(k + 1) + i] = w[i]
  <2>1. /\ item \in Seq(T) /\ Len(item) = Len(r) + Len(w) /\ Len(w) \in Nat
        /\ \A i \in 1..(Len(r) + Len(w)) : item[i] = IF i <= Len(r) THEN r[i] ELSE w[i - Len(r)]
    <3>1. item = Then(r, w)
      BY DEF r
    <3>2. /\ Then(r, w) \in Seq(T) /\ Len(Then(r, w)) = Len(r) + Len(w)
          /\ \A i \in 1..(Len(r) + Len(w)) : Then(r, w)[i] = IF i <= Len(r) THEN r[i] ELSE w[i - Len(r)]
      BY <1>1, ThenTokens
    <3>3. Len(w) \in Nat
      OBVIOUS
    <3>4. QED
      BY <3>1, <3>2, <3>3
  <2>2. \A i \in 1..(k + 1) : item[i] = r[i]
    BY <1>1, <2>1
  <2>3. \A i \in 1..Len(w) : item[(k + 1) + i] = w[i]
    BY <1>1, <2>1
  <2>4. QED
    BY <1>1, <2>1, <2>2, <2>3
<1>4. Position(item, c) = k + 1
  <2> DEFINE I == {i \in 1..Len(item) : item[i] = c}
  <2>1. Position(item, c) = IF I # {} THEN Min(I) ELSE 0
    BY DEF Position, SelectInSeq
  <2>2. k + 1 \in I /\ I \in SUBSET Nat /\ \A i \in I : ~(i \in 1..k)
    BY <1>1, <1>2, <1>3
  <2>3. Min(I) \in I /\ Min(I) <= k + 1
    BY <2>2, MinIsMember
  <2>4. Min(I) \in Nat /\ Min(I) # 0 /\ ~(Min(I) \in 1..k)
    BY <2>2, <2>3
  <2> HIDE DEF I
  <2>5. QED
    BY <1>1, <2>1, <2>2, <2>3, <2>4
<1>5. SubSeq(item, 1, k) = key
  <2>1. \A i \in 1..k : item[i] \in T
    BY <1>2, <1>3
  <2>2. /\ SubSeq(item, 1, k) \in Seq(T) /\ Len(SubSeq(item, 1, k)) = k
        /\ \A i \in 1..k : SubSeq(item, 1, k)[i] = item[i]
    BY <1>1, <2>1, SubSeqProperties
  <2>3. QED
    BY <1>3, <2>2, SeqEqual DEF k
<1>6. SubSeq(item, k + 2, Len(item)) = w
  <2> DEFINE n == Len(item)
  <2>1. n \in Int /\ k + 2 \in Int /\ n - (k + 2) + 1 = Len(w) /\ (k + 2 <= n <=> Len(w) # 0)
    BY <1>1, <1>3
  <2>2. \A i \in (k + 2)..n : item[i] \in T
    BY <1>1, <1>3, ElementOfSeq
  <2>3. /\ SubSeq(item, k + 2, n) \in Seq(T)
        /\ Len(SubSeq(item, k + 2, n)) = IF k + 2 <= n THEN n - (k + 2) + 1 ELSE 0
        /\ \A i \in 1..(n - (k + 2) + 1) : SubSeq(item, k + 2, n)[i] = item[(k + 2) + i - 1]
    BY <2>1, <2>2, SubSeqProperties
  <2>4. \A i \in 1..Len(w) : (k + 2) + i - 1 = (k + 1) + i
    BY <1>1
  <2> HIDE DEF n
  <2>5. Len(SubSeq(item, k + 2, n)) = Len(w) /\ \A i \in 1..Len(w) : SubSeq(item, k + 2, n)[i] = w[i]
    BY <1>3, <2>1, <2>3, <2>4
  <2>6. SubSeq(item, k + 2, n) = w
    BY <2>3, <2>5, SeqEqual
  <2>7. QED
    BY <2>6 DEF n
<1>7. item # << >> /\ k + 1 # 0 /\ (k + 1) - 1 = k /\ (k + 1) + 1 = k + 2
  <2>1. Len(item) # 0 /\ k + 1 # 0 /\ (k + 1) - 1 = k /\ (k + 1) + 1 = k + 2
    BY <1>1, <1>3
  <2>2. QED
    BY <1>3, <2>1, Ends
<1>8. QED
  BY <1>3, <1>4, <1>5, <1>6, <1>7 DEF Before, After, k


LEMMA FrontOfThen ==
    ASSUME NEW T, NEW a \in Seq(T), NEW b \in Seq(T)
    PROVE  SubSeq(Then(a, b), 1, Len(a)) = a
<1> DEFINE r == Then(a, b)
           n == Len(a)
<1>1. n \in Nat /\ Len(b) \in Nat
  OBVIOUS
<1>2. /\ Then(a, b) \in Seq(T) /\ Len(Then(a, b)) = Len(a) + Len(b)
      /\ \A i \in 1..(Len(a) + Len(b)) : Then(a, b)[i] = IF i <= Len(a) THEN a[i] ELSE b[i - Len(a)]
  BY ONLY ThenTokens, a \in Seq(T), b \in Seq(T)
<1>3. \A i \in 1..n : r[i] = a[i] /\ r[i] \in T
  <2> SUFFICES ASSUME NEW i \in 1..n PROVE r[i] = a[i] /\ r[i] \in T
    OBVIOUS
  <2>1. i \in 1..(Len(a) + Len(b)) /\ i <= Len(a)
    BY <1>1
  <2>2. r[i] = a[i]
    BY <1>2, <2>1
  <2>3. a[i] \in T
    BY ElementOfSeq
  <2>4. QED
    BY <2>2, <2>3
<1> HIDE DEF r
<1>4. /\ SubSeq(r, 1, n) \in Seq(T) /\ Len(SubSeq(r, 1, n)) = n
      /\ \A i \in 1..n : SubSeq(r, 1, n)[i] = r[i]
  BY <1>1, <1>3, SubSeqProperties
<1>5. SubSeq(r, 1, n) = a
  BY <1>3, <1>4, SeqEqual
<1>6. QED
  BY <1>5 DEF r

\* What str::trim takes away in front.
LEMMA TrimmedBehindSpace ==
    ASSUME NEW T, Space \in T, NEW s \in Seq(T), s # << >>, s[1] # Space, Last(s) # Space
    PROVE  Trimmed(Then(<<Space>>, s)) = s
<1> DEFINE m == <<Space>>
           r == Then(m, s)
           n == Len(s)
           S == Solid(r)
<1>1. n \in Nat /\ 1 \in 1..n /\ n \in 1..n /\ Last(s) = s[n] /\ m \in Seq(T) /\ Len(m) = 1 /\ m[1] = Space
  BY Ends
<1> HIDE DEF m
<1>2. /\ Then(m, s) \in Seq(T) /\ Len(Then(m, s)) = Len(m) + Len(s)
      /\ \A i \in 1..(Len(m) + Len(s)) : Then(m, s)[i] = IF i <= Len(m) THEN m[i] ELSE s[i - Len(m)]
  BY ONLY ThenTokens, <1>1, s \in Seq(T)
<1>3. r \in Seq(T) /\ Len(r) = n + 1 /\ r[1] = Space /\ \A i \in 1..n : r[i + 1] = s[i]
  <2>1. 1 \in 1..(Len(m) + Len(s)) /\ 1 <= Len(m)
    BY <1>1
  <2>2. ASSUME NEW i \in 1..n PROVE r[i + 1] = s[i]
    <3>1. i + 1 \in 1..(Len(m) + Len(s)) /\ ~(i + 1 <= Len(m)) /\ (i + 1) - Len(m) = i
      BY <1>1
    <3>2. QED
      BY <1>2, <3>1
  <2>3. QED
    BY <1>1, <1>2, <2>1, <2>2
<1> HIDE DEF r, n
<1>4. S \in SUBSET (1..(n + 1)) /\ S \in SUBSET Nat /\ 2 \in S /\ n + 1 \in S /\ 1 \notin S
  <2>1. S = {i \in 1..(n + 1) : r[i] # Space}
    BY <1>3 DEF Solid, Space
  <2>2. r[1 + 1] = s[1] /\ r[n + 1] = s[n]
    BY <1>1, <1>3
  <2> HIDE DEF S
  <2>3. r[2] # Space /\ r[n + 1] # Space
    BY <1>1, <2>2
  <2>4. QED
    BY <1>1, <1>3, <2>1, <2>3
<1> HIDE DEF S
<1>5. Min(S) = 2 /\ Max(S) = n + 1
  <2>1. Min(S) \in S /\ Min(S) <= 2
    BY <1>4, MinIsMember
  <2>2. Min(S) \in 1..(n + 1) /\ Min(S) # 1
    BY <1>4, <2>1
  <2>3. Max(S) \in S /\ n + 1 <= Max(S)
    <3>1. n + 1 \in Nat /\ S # {}
      BY <1>1, <1>4
    <3>2. QED
      BY <1>4, <3>1, MaxIsMember
  <2>4. Max(S) \in 1..(n + 1)
    BY <1>4, <2>3
  <2> HIDE DEF S
  <2>5. QED
    BY <1>1, <2>1, <2>2, <2>3, <2>4
<1> DEFINE e == n + 1
<1>9. e = n + 1
  OBVIOUS
<1> HIDE DEF e
<1>6. SubSeq(r, 2, e) = s
  <2>1. 2 \in Int /\ e \in Int /\ e - 2 + 1 = n /\ 2 <= e
    BY <1>1, <1>9
  <2>2. \A i \in 2..e : r[i] \in T
    BY <1>1, <1>3, <1>9, ElementOfSeq
  <2>3. /\ SubSeq(r, 2, e) \in Seq(T)
        /\ Len(SubSeq(r, 2, e)) = IF 2 <= e THEN e - 2 + 1 ELSE 0
        /\ \A i \in 1..(e - 2 + 1) : SubSeq(r, 2, e)[i] = r[2 + i - 1]
    BY <2>1, <2>2, SubSeqProperties
  <2>4. \A i \in 1..n : 2 + i - 1 = i + 1
    BY <1>1
  <2>5. \A i \in 1..n : SubSeq(r, 2, e)[i] = s[i]
    BY <1>3, <2>1, <2>3, <2>4
  <2>6. Len(SubSeq(r, 2, e)) = n
    BY <2>1, <2>3
  <2>7. QED
    BY <2>3, <2>5, <2>6, SeqEqual DEF n
<1>7. Trimmed(r) = s
  BY <1>4, <1>5, <1>6, <1>9 DEF Trimmed, S
<1>8. QED
  BY <1>7 DEF r, m

LEMMA ThenAppend ==
    ASSUME NEW T, NEW a \in Seq(T), NEW b \in Seq(T), NEW x \in T
    PROVE  Then(a, Append(b, x)) = Append(Then(a, b), x)
  BY DEF Then

\* DialItems with a mark between them, by their first one.
LEMMA InterleavedHead ==
    ASSUME NEW T, NEW sep \in T, NEW x \in Seq(T)
    PROVE  \A items \in Seq(Seq(T)) :
               items # << >> =>
                   Interleaved(Then(<<x>>, items), sep) = Then(Append(x, sep), Interleaved(items, sep))
<1> DEFINE first == <<x>>
           X == Append(x, sep)
           Good(items) == Interleaved(Then(first, items), sep) = Then(X, Interleaved(items, sep))
           S == {items \in Seq(Seq(T)) : items # << >> => Good(items)}
           none == << >>
<1>1. none \in S
  OBVIOUS
<1>2. ASSUME NEW items \in Seq(Seq(T)), NEW y \in Seq(T), items \in S
      PROVE  Append(items, y) \in S
  <2> DEFINE r == Append(items, y)
  <2>1. r \in Seq(Seq(T))
    BY AppendTokens
  <2>2. /\ first \in Pieces(T) /\ first \in Seq(Seq(T)) /\ Interleaved(first, sep) = x
        /\ X \in Seq(T)
    <3>1. first \in Pieces(T) /\ Interleaved(first, sep) = x
      BY InterleavedOne
    <3>2. QED
      BY <3>1 DEF Pieces
  <2>3. Then(first, r) = Append(Then(first, items), y)
    <3> HIDE DEF first
    <3>1. QED
      BY <2>2, ThenAppend
  <2> HIDE DEF r, X
  <2>4. CASE items = none
    <3>1. Then(first, items) = first
      <4> HIDE DEF first
      <4>1. QED
        BY <2>2, <2>4 DEF Then
    <3>2. r = <<y>> /\ Interleaved(r, sep) = y
      BY <2>4, InterleavedOne DEF r
    <3> HIDE DEF first, none
    <3>3. Interleaved(Append(first, y), sep) = Then(Append(x, sep), y)
      BY <2>2, InterleavedAppend
    <3>4. Interleaved(Then(first, r), sep) = Then(X, Interleaved(r, sep))
      BY <2>3, <3>1, <3>2, <3>3 DEF X
    <3>5. QED
      BY <2>1, <3>4 DEF r
  <2>5. CASE items # none
    <3> DEFINE I == Interleaved(items, sep)
               f == Then(first, items)
    <3>1. items \in Pieces(T) /\ Good(items)
      BY <1>2, <2>5 DEF Pieces
    <3>2. I \in Seq(T) /\ Interleaved(Append(items, y), sep) = Then(Append(I, sep), y)
      BY <3>1, InterleavedIs, InterleavedAppend
    <3> HIDE DEF first, none
    <3>3. f \in Pieces(T)
      <4>1. f \in Seq(Seq(T)) /\ f # << >>
        BY <2>2, <2>5, ThenTokens, LastOfThen DEF none
      <4>2. QED
        BY <4>1 DEF Pieces
    <3>4. Interleaved(f, sep) = Then(X, I)
      BY <3>1
    <3> HIDE DEF f, I
    <3>5. Interleaved(Append(f, y), sep) = Then(Append(Then(X, I), sep), y)
      BY <3>3, <3>4, InterleavedAppend
    <3>6. Append(Then(X, I), sep) = Then(X, Append(I, sep)) /\ Append(I, sep) \in Seq(T)
      <4>1. X \in Seq(T) /\ I \in Seq(T)
        BY <2>2, <3>2
      <4>2. Append(Then(X, I), sep) = Then(X, Append(I, sep))
        BY <4>1, ThenAppend
      <4>3. Append(I, sep) \in Seq(T)
        BY <4>1, AppendTokens
      <4>4. QED
        BY <4>2, <4>3
    <3>7. Then(Then(X, Append(I, sep)), y) = Then(X, Then(Append(I, sep), y))
      <4>1. X \in Seq(T) /\ Append(I, sep) \in Seq(T)
        BY <2>2, <3>6
      <4> DEFINE z == Append(I, sep)
      <4>2. z \in Seq(T)
        BY <4>1
      <4> HIDE DEF z
      <4>3. Then(Then(X, z), y) = Then(X, Then(z, y))
        BY <4>1, <4>2, ThenAssociative
      <4>4. QED
        BY <4>3 DEF z
    <3>8. Interleaved(Then(first, r), sep) = Then(X, Interleaved(r, sep))
      <4>1. Then(first, r) = Append(f, y)
        BY <2>3 DEF f
      <4>2. Interleaved(r, sep) = Then(Append(I, sep), y)
        BY <3>2 DEF r
      <4>3. Interleaved(Append(f, y), sep) = Then(X, Then(Append(I, sep), y))
        BY <3>5, <3>6, <3>7
      <4>4. QED
        BY <4>1, <4>2, <4>3
    <3>9. QED
      BY <2>1, <3>8 DEF r
  <2>6. QED
    BY <2>4, <2>5
<1> HIDE DEF S
<1>3. \A items \in Seq(Seq(T)) : items \in S
  <2>1. << >> \in S
    BY <1>1
  <2> HIDE DEF none
  <2>2. QED
    BY <1>2, <2>1, GrowingUp
<1>4. QED
  BY <1>3 DEF S

LEMMA TrimmedEnds ==
    ASSUME NEW T, NEW s \in Seq(T), s # << >>, Trimmed(s) = s
    PROVE  s[1] # Space /\ Last(s) # Space
<1> DEFINE n == Len(s)
           S == Solid(s)
<1>1. n \in Nat /\ n # 0 /\ Last(s) = s[n]
  BY Ends
<1>2. S = {i \in 1..n : s[i] # Space}
  BY DEF Solid, Space
<1>3. S # {} /\ SubSeq(s, Min(S), Max(S)) = s
  BY DEF Trimmed
<1> HIDE DEF S
<1>4. S \in SUBSET (1..n) /\ S \in SUBSET Nat
  BY <1>1, <1>2
<1>5. Min(S) \in S
  BY <1>3, <1>4, MinIsMember
<1>6. Max(S) \in S
  BY <1>1, <1>3, <1>4, MaxIsMember
<1> DEFINE lo == Min(S)
           hi == Max(S)
<1>7. lo \in 1..n /\ hi \in 1..n /\ s[lo] # Space /\ s[hi] # Space
  BY <1>2, <1>4, <1>5, <1>6
<1>8. SubSeq(s, lo, hi) = s
  BY <1>3
<1> HIDE DEF lo, hi
<1>9. Len(SubSeq(s, lo, hi)) = IF lo <= hi THEN hi - lo + 1 ELSE 0
  <2>1. lo \in Int /\ hi \in Int /\ \A i \in lo..hi : s[i] \in T
    BY <1>1, <1>7, ElementOfSeq
  <2>2. QED
    BY <2>1, SubSeqProperties
<1>10. n = IF lo <= hi THEN hi - lo + 1 ELSE 0
  BY <1>8, <1>9
<1> HIDE DEF n
<1>11. lo = 1 /\ hi = n
  BY <1>1, <1>7, <1>10
<1>12. QED
  BY <1>1, <1>7, <1>11

LEMMA HeadAndTail ==
    ASSUME NEW T, NEW x \in T, NEW s \in Seq(T)
    PROVE  Head(Then(<<x>>, s)) = x /\ Tail(Then(<<x>>, s)) = s
<1> DEFINE m == <<x>>
           r == Then(m, s)
           n == Len(s)
<1>1. n \in Nat /\ m \in Seq(T) /\ Len(m) = 1 /\ m[1] = x
  OBVIOUS
<1> HIDE DEF m
<1>2. /\ Then(m, s) \in Seq(T) /\ Len(Then(m, s)) = Len(m) + Len(s)
      /\ \A i \in 1..(Len(m) + Len(s)) : Then(m, s)[i] = IF i <= Len(m) THEN m[i] ELSE s[i - Len(m)]
  BY ONLY ThenTokens, <1>1, s \in Seq(T)
<1>3. r \in Seq(T) /\ Len(r) = n + 1 /\ r[1] = x /\ \A i \in 1..n : r[i + 1] = s[i]
  <2>1. 1 \in 1..(Len(m) + Len(s)) /\ 1 <= Len(m)
    BY <1>1
  <2>2. ASSUME NEW i \in 1..n PROVE r[i + 1] = s[i]
    <3>1. i + 1 \in 1..(Len(m) + Len(s)) /\ ~(i + 1 <= Len(m)) /\ (i + 1) - Len(m) = i
      BY <1>1
    <3>2. QED
      BY <1>2, <3>1
  <2>3. QED
    BY <1>1, <1>2, <2>1, <2>2
<1> HIDE DEF r, n
<1>4. r # << >>
  <2>1. Len(r) # 0
    BY <1>1, <1>3
  <2>2. QED
    BY <1>3, <2>1, Ends
<1>5. Head(r) = x
  BY <1>3, <1>4, Ends
<1>6. Tail(r) \in Seq(T) /\ Len(Tail(r)) = n /\ \A i \in 1..n : Tail(r)[i] = r[i + 1]
  BY <1>1, <1>3, <1>4
<1>7. Tail(r) = s
  BY <1>3, <1>6, SeqEqual DEF n
<1>8. QED
  BY <1>5, <1>7 DEF r, m

\* The words behind the first: what the parser reads.
Pair2(o) == << EndpointText(o.endpoint), originate_quote(AppsText(o)) >>

RestOf(o) == WithFields(Pair2(o), o.dialplan, o.context, o.cid_name, o.cid_num, o.timeout)

LEMMA RestIs ==
    ASSUME NEW o \in Originates, PartsAre(o)
    PROVE  /\ Pair2(o) \in Seq(DialItems) /\ Len(Pair2(o)) = 2
           /\ RestOf(o) \in Seq(DialItems) /\ RestOf(o) # << >>
           /\ WordsOf(o) = Then(<< <<DialStart>> >>, RestOf(o))
<1> DEFINE e == EndpointText(o.endpoint)
           q == originate_quote(AppsText(o))
           w == <<DialStart>>
           one == <<w>>
           two == <<e, q>>
           f == o.dialplan
           g == o.context
           h == o.cid_name
           i == o.cid_num
           j == o.timeout
<1>1. w \in DialItems /\ e \in DialItems /\ q \in DialItems
  BY WordsAreItems, HeadingIs
<1> HIDE DEF w, e, q
<1>2. one \in Seq(DialItems) /\ two \in Seq(DialItems) /\ Len(two) = 2 /\ Then(one, two) = <<w, e, q>>
  <2>1. one \in Seq(DialItems) /\ two \in Seq(DialItems) /\ Len(two) = 2
    BY <1>1
  <2> DEFINE three == <<w, e, q>>
  <2>2. /\ three \in Seq(DialItems) /\ Len(three) = 3 /\ three[1] = w /\ three[2] = e /\ three[3] = q
        /\ Len(one) = 1 /\ one[1] = w /\ two[1] = e /\ two[2] = q
    BY <1>1
  <2> HIDE DEF one, two, three
  <2>3. /\ Then(one, two) \in Seq(DialItems) /\ Len(Then(one, two)) = Len(one) + Len(two)
        /\ \A k \in 1..(Len(one) + Len(two)) :
               Then(one, two)[k] = IF k <= Len(one) THEN one[k] ELSE two[k - Len(one)]
    BY ONLY <2>1, ThenTokens
  <2>4. Then(one, two) \in Seq(DialItems) /\ Len(Then(one, two)) = Len(three)
    BY <2>1, <2>2, <2>3
  <2>5. \A k \in 1..Len(three) : Then(one, two)[k] = three[k]
    <3>1. /\ 1 \in 1..(Len(one) + Len(two)) /\ 2 \in 1..(Len(one) + Len(two)) /\ 3 \in 1..(Len(one) + Len(two))
          /\ 1 <= Len(one) /\ ~(2 <= Len(one)) /\ ~(3 <= Len(one)) /\ 2 - Len(one) = 1 /\ 3 - Len(one) = 2
          /\ \A k \in 1..Len(three) : k = 1 \/ k = 2 \/ k = 3
      BY <2>1, <2>2
    <3>2. Then(one, two)[1] = w /\ Then(one, two)[2] = e /\ Then(one, two)[3] = q
      BY <2>2, <2>3, <3>1
    <3>3. QED
      BY <2>2, <3>1, <3>2
  <2>6. Then(one, two) = three
    BY <2>2, <2>4, <2>5, SeqEqual
  <2>7. QED
    BY <2>1, <2>6 DEF three
<1>3. /\ f \in Optional(DialItems) /\ g \in Optional(DialItems) /\ h \in Optional(DialItems)
      /\ i \in Optional(DialItems) /\ j \in Optional(DialItems)
  BY DEF PartsAre
<1> HIDE DEF f, g, h, i, j
<1>4. /\ f \in Seq(DialItems) /\ g \in Seq(DialItems) /\ h \in Seq(DialItems)
      /\ i \in Seq(DialItems) /\ j \in Seq(DialItems)
  BY <1>3, Sizes
<1>5. Pair2(o) = two /\ Heading(o) = Then(one, two)
  BY <1>2 DEF Pair2, Heading, w, e, q
<1> HIDE DEF one, two
<1>6. WithFields(Then(one, two), f, g, h, i, j) = Then(one, WithFields(two, f, g, h, i, j))
  <2> DEFINE all == Then(Then(Then(Then(f, g), h), i), j)
             three == Then(one, two)
  <2>1. one \in Seq(DialItems) /\ two \in Seq(DialItems) /\ three \in Seq(DialItems)
    BY <1>2, ThenTokens
  <2> HIDE DEF three
  <2>2. Then(three, all) = WithFields(three, f, g, h, i, j) /\ Then(two, all) = WithFields(two, f, g, h, i, j)
    <3>1. Then(three, all) = WithFields(three, f, g, h, i, j)
      BY <1>4, <2>1, FieldsBehind, SMTT(40)
    <3>2. Then(two, all) = WithFields(two, f, g, h, i, j)
      BY <1>4, <2>1, FieldsBehind, SMTT(40)
    <3>3. QED
      BY <3>1, <3>2
  <2>3. all \in Seq(DialItems)
    BY <1>4, ThenTokens
  <2> HIDE DEF all
  <2>4. Then(Then(one, two), all) = Then(one, Then(two, all))
    BY <2>1, <2>3, ThenAssociative
  <2>5. QED
    BY <2>2, <2>4 DEF three
<1> DEFINE rest == WithFields(two, f, g, h, i, j)
<1>7. rest \in Seq(DialItems) /\ Placed(rest, two, Len(two), f, g, h, i, j)
  BY <1>2, <1>3, Places
<1> HIDE DEF rest
<1>8. rest # << >>
  <2>1. Len(rest) = 2 + Size(f) + Size(g) + Size(h) + Size(i) + Size(j)
    BY <1>2, <1>7 DEF Placed
  <2>2. /\ Size(f) \in {0, 1} /\ Size(g) \in {0, 1} /\ Size(h) \in {0, 1}
        /\ Size(i) \in {0, 1} /\ Size(j) \in {0, 1}
    BY <1>3, Sizes
  <2>3. Len(rest) # 0
    BY <2>1, <2>2
  <2>4. QED
    BY <1>7, <2>3, Ends
<1>9. RestOf(o) = rest /\ WordsOf(o) = WithFields(Then(one, two), f, g, h, i, j)
  BY <1>5 DEF RestOf, WordsOf, f, g, h, i, j, rest
<1>10. one = << <<DialStart>> >>
  BY DEF one, w
<1>11. QED
  BY <1>2, <1>5, <1>6, <1>7, <1>8, <1>9, <1>10 DEF rest

\* The parser reads these words behind the command's name.
LEMMA TextRead ==
    ASSUME NEW o \in Originates, PartsAre(o)
    PROVE  /\ Head(OriginateText(o)[1]) = DialStart
           /\ originate_split(Trimmed(Tail(OriginateText(o)[1])), Space) = <<RestOf(o)>>
<1> DEFINE T == OriginateTokens
           rest == RestOf(o)
           w == <<DialStart>>
           R == Interleaved(rest, Space)
           m == <<Space>>
           behind == Then(m, R)
<1>1. rest \in Seq(DialItems) /\ rest # << >> /\ WordsOf(o) = Then(<<w>>, rest)
  BY RestIs
<1>2. rest \in Seq(Seq(T)) /\ \A k \in 1..Len(rest) : Item(T, rest[k], Space)
  <2>1. \A x \in DialItems : x \in Seq(T)
    BY DEF DialItems
  <2>2. rest \in Seq(Seq(T))
    BY <1>1, <2>1, SeqOfMore
  <2>3. \A k \in 1..Len(rest) : rest[k] \in DialItems
    BY <1>1, ElementOfSeq
  <2>4. QED
    BY <2>2, <2>3 DEF DialItems
<1>3. OriginateText(o) = <<Interleaved(Then(<<w>>, rest), Space)>>
  BY <1>1, WordsComeApart
<1>4. DialStart \in T /\ Space \in T /\ w \in Seq(T)
  BY OriginateTokensAre
<1> HIDE DEF rest
<1>5. Interleaved(Then(<<w>>, rest), Space) = Then(Append(w, Space), R)
  <2> HIDE DEF w, T
  <2>1. QED
    BY <1>1, <1>2, <1>4, InterleavedHead
<1>6. originate_split(R, Space) = <<rest>>
  BY <1>1, <1>2, <1>4, SpaceIsNone, ItemsSplitOff
<1>7. Shape(T, rest, R)
  <2>1. \A k \in 1..Len(rest) : rest[k] # << >>
    BY <1>2 DEF Item
  <2>2. QED
    BY <1>1, <1>2, <1>4, <2>1, InterleavedShape
<1> HIDE DEF R
<1>8. R \in Seq(T) /\ R # << >> /\ R[1] # Space /\ Last(R) # Space
  <2>1. R \in Seq(T) /\ R # << >> /\ R[1] = rest[1][1] /\ Last(R) = Last(rest[Len(rest)])
    BY <1>7 DEF Shape
  <2>2. 1 \in 1..Len(rest) /\ Len(rest) \in 1..Len(rest)
    BY <1>1, <1>2, Ends
  <2>3. Item(T, rest[1], Space) /\ Item(T, rest[Len(rest)], Space)
    BY <1>2, <2>2
  <2>4. rest[1][1] # Space /\ Last(rest[Len(rest)]) # Space
    <3>1. /\ rest[1] \in Seq(T) /\ rest[1] # << >> /\ Trimmed(rest[1]) = rest[1]
          /\ rest[Len(rest)] \in Seq(T) /\ rest[Len(rest)] # << >>
          /\ Trimmed(rest[Len(rest)]) = rest[Len(rest)]
      BY <2>3 DEF Item
    <3>2. QED
      BY <3>1, TrimmedEnds
  <2>5. QED
    BY <2>1, <2>4
<1>9. Trimmed(behind) = R
  BY <1>4, <1>8, TrimmedBehindSpace
<1>10. Then(Append(w, Space), R) = Then(w, behind) /\ behind \in Seq(T)
  <2>1. m \in Seq(T)
    BY <1>4
  <2>2. Append(w, Space) = Then(w, m)
    BY <1>4 DEF Then
  <2> HIDE DEF m, w
  <2>3. Then(Then(w, m), R) = Then(w, Then(m, R))
    BY <1>4, <1>8, <2>1, ThenAssociative
  <2>4. behind \in Seq(T)
    BY <1>8, <2>1, ThenTokens
  <2>5. QED
    BY <2>2, <2>3, <2>4
<1> HIDE DEF behind
<1>11. Head(Then(w, behind)) = DialStart /\ Tail(Then(w, behind)) = behind
  BY <1>4, <1>10, HeadAndTail
<1>12. OriginateText(o)[1] = Then(w, behind)
  BY <1>3, <1>5, <1>10
<1>13. QED
  BY <1>6, <1>9, <1>11, <1>12 DEF rest

-----------------------------------------------------------------------------
(***************************************************************************)
(* Its endpoint, parsed.                                                   *)
(***************************************************************************)

DefaultScope == "Default"

LEMMA BracesOf ==
    \A t \in DOMAIN Delimiters :
        /\ t = DefaultScope => Opening(t) = LeftBrace /\ Closing(t) = RightBrace
        /\ t # DefaultScope => Opening(t) \notin {LeftBrace, RightBrace} /\ Closing(t) \notin {LeftBrace, RightBrace}
<1> DEFINE less == "<"
           greater == ">"
           left == "["
           right == "]"
           e == "Enterprise"
           c == "Channel"
<1>1. /\ {less, greater, left, right} \cap {LeftBrace, RightBrace} = {}
      /\ e # DefaultScope /\ c # DefaultScope
  BY DEF LeftBrace, RightBrace, DefaultScope
<1> HIDE DEF less, greater, left, right
<1>2. Delimiters = [Enterprise |-> <<less, greater>>, Default |-> <<LeftBrace, RightBrace>>,
                    Channel |-> <<left, right>>]
  BY DEF Delimiters, less, greater, left, right, LeftBrace, RightBrace
<1>3. /\ DOMAIN Delimiters = {e, DefaultScope, c}
      /\ Delimiters[e] = <<less, greater>>
      /\ Delimiters[DefaultScope] = <<LeftBrace, RightBrace>>
      /\ Delimiters[c] = <<left, right>>
  BY <1>2 DEF DefaultScope
<1> HIDE DEF e, c
<1>4. /\ Opening(e) = less /\ Closing(e) = greater
      /\ Opening(DefaultScope) = LeftBrace /\ Closing(DefaultScope) = RightBrace
      /\ Opening(c) = left /\ Closing(c) = right
  BY <1>3 DEF Opening, Closing
<1>5. QED
  BY <1>1, <1>3, <1>4

\* The tokens of an Originate without braces.
NoBraces == OriginateTokens \ {LeftBrace, RightBrace}

LEMMA NoBracesAre ==
    /\ Marked(NoBraces) /\ \A x \in PathTokens : x \in NoBraces
    /\ \A t \in DOMAIN Delimiters : t # DefaultScope => Opening(t) \in NoBraces /\ Closing(t) \in NoBraces
<1>1. {Space, Quote, Comma, Equals, Backslash} \cap {LeftBrace, RightBrace} = {}
  BY DEF Space, Quote, Comma, Equals, Backslash, LeftBrace, RightBrace
<1>2. Marked(NoBraces)
  BY <1>1, OriginateTokensAre DEF Marked, NoBraces
<1>3. \A x \in PathTokens : x \in NoBraces
  BY OriginateTokensAre, PathTokensAre DEF NoBraces
<1>4. \A t \in DOMAIN Delimiters : t # DefaultScope => Opening(t) \in NoBraces /\ Closing(t) \in NoBraces
  BY OriginateTokensAre, BracesOf DEF NoBraces
<1>5. QED
  BY <1>2, <1>3, <1>4

LEMMA SeqOfFewer ==
    ASSUME NEW T, NEW S, NEW s \in Seq(T), \A x \in Range(s) : x \in S
    PROVE  s \in Seq(S)
<1>1. \A i \in 1..Len(s) : s[i] \in S
  BY DEF Range
<1>2. QED
  BY <1>1

LEMMA BracelessVariables ==
    ASSUME NEW vars, Carriable(OriginateTokens, vars), Braceless(vars)
    PROVE  Carriable(NoBraces, vars)
<1>1. /\ vars \in Seq(Pairs(OriginateTokens))
      /\ \A i \in 1..Len(vars) :
             /\ vars[i].key \in Seq(OriginateTokens) /\ vars[i].value \in Seq(OriginateTokens) /\ Unmarked(vars[i].key)
             /\ vars[i].value # << >> /\ Last(vars[i].value) = Backslash => ~Contains(vars[i].value, Space)
  BY DEF Carriable
<1>2. DOMAIN vars = 1..Len(vars) /\ Len(vars) \in Nat /\ \A i \in 1..Len(vars) : vars[i] \in Pairs(OriginateTokens)
  BY <1>1, ElementOfSeq
<1>3. ASSUME NEW i \in 1..Len(vars)
      PROVE  vars[i].key \in Seq(NoBraces) /\ vars[i].value \in Seq(NoBraces)
  <2> DEFINE k == vars[i].key
             v == vars[i].value
  <2>1. (Range(k) \cup Range(v)) \cap {LeftBrace, RightBrace} = {}
    BY <1>2 DEF Braceless, LeftBrace, RightBrace
  <2>2. k \in Seq(OriginateTokens) /\ v \in Seq(OriginateTokens)
    BY <1>1
  <2> HIDE DEF k, v
  <2>3. Range(k) \in SUBSET OriginateTokens /\ Range(v) \in SUBSET OriginateTokens
    BY <2>2 DEF Range
  <2>4. (\A x \in Range(k) : x \in NoBraces) /\ (\A x \in Range(v) : x \in NoBraces)
    BY <2>1, <2>3 DEF NoBraces
  <2>5. k \in Seq(NoBraces) /\ v \in Seq(NoBraces)
    BY <2>2, <2>4, SeqOfFewer
  <2>6. QED
    BY <2>5 DEF k, v
<1>4. \A i \in 1..Len(vars) : vars[i] \in Pairs(NoBraces)
  BY <1>2, <1>3 DEF Pairs
<1>5. vars \in Seq(Pairs(NoBraces))
  BY <1>1, <1>2, <1>4
<1>6. QED
  BY <1>1, <1>3, <1>5 DEF Carriable

\* Blocks whose variables can be carried, and have plain keys that differ.
LEMMA VariablesIn ==
    ASSUME NEW T, NEW vars, Carriable(T, vars), PlainKeys(vars), KeysDiffer(vars)
    PROVE  vars \in Variables(T)
<1>1. \A i \in DOMAIN vars : Equals \notin Range(vars[i].key) /\ Comma \notin Range(vars[i].key)
  BY DEF PlainKeys, Equals, Comma
<1>2. /\ vars \in Seq(Pairs(T)) /\ DOMAIN vars = 1..Len(vars)
      /\ \A i \in 1..Len(vars) : vars[i].key \in Seq(T)
  BY DEF Carriable
<1>3. QED
  BY <1>1, <1>2 DEF Variables, KeysDiffer, KeyIn

\* An endpoint without variables, as the parser builds it from any text.
Bare(s) == [scope |-> DefaultScope, vars |-> << >>, path |-> s]

NormalEndpoint(e) == IF e.vars # << >> /\ e.scope = DefaultScope THEN e ELSE Bare(EndpointText(e))

LEMMA ParseEndpointIs ==
    ASSUME NEW s
    PROVE  /\ ~Contains(s, LeftBrace) => ParseEndpoint(s) = <<Bare(s)>>
           /\ \A vars, path, close :
                  /\ Contains(s, LeftBrace) /\ close = Position(s, RightBrace) /\ close # 0
                  /\ ParseVariables(SubSeq(s, 1, close)) = <<Block(DefaultScope, vars)>>
                  /\ Trimmed(After(s, close)) = path
                  => ParseEndpoint(s) = <<[scope |-> DefaultScope, vars |-> vars, path |-> path]>>
<1>1. ~Contains(s, LeftBrace) => ParseEndpoint(s) = <<Bare(s)>>
  BY DEF ParseEndpoint, Bare, LeftBrace, DefaultScope
<1>2. ASSUME NEW vars, NEW path, NEW close,
             Contains(s, LeftBrace), close = Position(s, RightBrace), close # 0,
             ParseVariables(SubSeq(s, 1, close)) = <<Block(DefaultScope, vars)>>,
             Trimmed(After(s, close)) = path
      PROVE  ParseEndpoint(s) = <<[scope |-> DefaultScope, vars |-> vars, path |-> path]>>
  <2> DEFINE parsed == ParseVariables(SubSeq(s, 1, close))
             b == Block(DefaultScope, vars)
             scope == DefaultScope
  <2>1. b.vars = vars
    BY DEF Block
  <2>2. parsed[1] = b /\ Some(parsed)
    BY <1>2 DEF Some
  <2>3. ParseEndpoint(s) =
            IF ~Contains(s, LeftBrace) THEN <<[scope |-> scope, vars |-> << >>, path |-> s]>>
            ELSE IF close = 0 \/ ~Some(parsed) THEN << >>
            ELSE <<[scope |-> scope, vars |-> parsed[1].vars, path |-> Trimmed(After(s, close))]>>
    BY <1>2 DEF ParseEndpoint, LeftBrace, RightBrace, DefaultScope
  <2> HIDE DEF parsed, b, scope
  <2>4. ParseEndpoint(s) = <<[scope |-> scope, vars |-> vars, path |-> path]>>
    BY <1>2, <2>1, <2>2, <2>3
  <2>5. QED
    BY <2>4 DEF scope
<1>3. QED
  BY <1>1, <1>2

LEMMA SimplePaths ==
    ASSUME NEW T, \A x \in PathTokens : x \in T, NEW path \in Paths
    PROVE  path \in Seq(T) /\ path # << >> /\ Trimmed(path) = path /\ Range(path) \in SUBSET PathTokens
<1>1. path \in Seq(PathTokens) /\ path # << >>
  BY PathsAre
<1>2. path \in Seq(T)
  BY <1>1, SeqOfMore
<1>3. Range(path) \in SUBSET PathTokens /\ path[1] \in Range(path) /\ Last(path) \in Range(path)
  BY <1>1, FirstAndLast
<1>4. path[1] # Space /\ Last(path) # Space
  BY <1>3, PathTokensAre
<1>5. QED
  BY <1>1, <1>2, <1>3, <1>4, TrimmedText

\* What the parser makes of an endpoint's text.
LEMMA EndpointReturns ==
    ASSUME NEW e \in Endpoints, Carriable(OriginateTokens, e.vars), Braceless(e.vars),
           PlainKeys(e.vars), KeysDiffer(e.vars), ~Swallowing(e.vars)
    PROVE  ParseEndpoint(EndpointText(e)) = <<NormalEndpoint(e)>>
<1> DEFINE vars == e.vars
           path == e.path
           text == EndpointText(e)
           block == VariablesText(e.scope, vars)
<1>1. /\ e.scope \in DOMAIN Delimiters /\ path \in Paths
      /\ e = [scope |-> e.scope, vars |-> e.vars, path |-> e.path]
  BY DEF Endpoints
<1>2. Carriable(NoBraces, vars)
  BY BracelessVariables
<1>3. /\ Marked(NoBraces) /\ (\A x \in PathTokens : x \in NoBraces)
      /\ e.scope # DefaultScope => Opening(e.scope) \in NoBraces /\ Closing(e.scope) \in NoBraces
  BY <1>1, NoBracesAre
<1>4. path \in Seq(NoBraces) /\ path # << >> /\ Trimmed(path) = path
  BY <1>1, <1>3, SimplePaths
<1>5. \A s \in Seq(NoBraces) : ~Contains(s, LeftBrace)
  <2>1. \A s \in Seq(NoBraces) : LeftBrace \notin Range(s)
    BY DEF Range, NoBraces
  <2>2. QED
    BY <2>1, ContainsRange
<1>6. text = IF vars # << >> THEN Then(block, path) ELSE path
  <2>1. << >> \o path = path
    BY <1>4
  <2>2. QED
    BY <2>1 DEF EndpointText, Some, Then
<1>7. CASE ~(vars # << >> /\ e.scope = DefaultScope)
  <2>1. text \in Seq(NoBraces)
    <3>1. CASE vars = << >>
      BY <1>4, <1>6, <3>1
    <3>2. CASE vars # << >>
      <4>1. block \in Seq(NoBraces)
        <5>1. e.scope # DefaultScope
          BY <1>7, <3>2
        <5>2. QED
          BY <1>1, <1>2, <1>3, <3>2, <5>1, VariablesThrough
      <4> HIDE DEF block, path
      <4>2. QED
        BY <1>4, <1>6, <3>2, <4>1, ThenTokens
    <3>3. QED
      BY <3>1, <3>2
  <2> HIDE DEF text
  <2>2. ParseEndpoint(text) = <<Bare(text)>>
    BY <1>5, <2>1, ParseEndpointIs
  <2>3. NormalEndpoint(e) = Bare(text)
    BY <1>7 DEF NormalEndpoint, text
  <2>4. QED
    BY <2>2, <2>3 DEF text
<1>8. CASE vars # << >> /\ e.scope = DefaultScope
  <2> DEFINE inner == Interleaved(ItemsOf(vars), Comma)
             a == <<LeftBrace>>
             k == Then(a, inner)
  <2>1. Opening(e.scope) = LeftBrace /\ Closing(e.scope) = RightBrace
    BY <1>1, <1>8, BracesOf
  <2>2. LeftBrace \in OriginateTokens /\ RightBrace \in OriginateTokens /\ Marked(OriginateTokens)
    BY <1>1, <2>1, OriginateTokensAre
  <2>3. vars \in Variables(NoBraces) /\ vars \in Variables(OriginateTokens)
    BY <1>2, VariablesIn
  <2>4. inner \in Seq(NoBraces)
    BY <1>3, <1>8, <2>3, PartsOfBlock
  <2>5. ParseVariables(block) = <<Block(DefaultScope, vars)>>
    <3>1. ParseVariables(block) = <<Block(e.scope, vars)>>
      BY <1>1, <1>8, <2>1, <2>2, <2>3, BlockReturns
    <3>2. QED
      BY <1>8, <3>1
  <2>6. block = Enclosed(LeftBrace, inner, RightBrace)
    BY <2>1 DEF VariablesText, Enclosed, Opening, Closing, ItemsOf, VariableItem, Comma
  <2>7. \A x \in NoBraces : x \in OriginateTokens
    BY DEF NoBraces
  <2> HIDE DEF inner
  <2>8. inner \in Seq(OriginateTokens) /\ path \in Seq(OriginateTokens)
    BY <1>4, <2>4, <2>7, SeqOfMore
  <2>9. a \in Seq(OriginateTokens) /\ Range(a) = {LeftBrace} /\ a # << >> /\ a[1] = LeftBrace
    <3>1. a \in Seq(OriginateTokens)
      BY <2>2
    <3>2. DOMAIN a = {1} /\ a[1] = LeftBrace
      OBVIOUS
    <3>3. QED
      BY <3>1, <3>2 DEF Range
  <2>10. block = Append(k, RightBrace)
    <3>1. block = Then(k, <<RightBrace>>)
      BY <2>6 DEF Enclosed, Then
    <3>2. k \in Seq(OriginateTokens)
      <4> HIDE DEF a
      <4>1. QED
        BY <2>8, <2>9, ThenTokens
    <3> HIDE DEF k, block
    <3>3. Then(k, <<RightBrace>>) = Append(k, RightBrace)
      BY <2>2, <3>2 DEF Then
    <3>4. QED
      BY <3>1, <3>3
  <2> HIDE DEF a
  <2>11. k \in Seq(OriginateTokens) /\ Range(k) = {LeftBrace} \cup Range(inner) /\ k[1] = LeftBrace /\ k # << >>
    <3>1. k \in Seq(OriginateTokens)
      BY <2>8, <2>9, ThenTokens
    <3>2. Range(k) = Range(a) \cup Range(inner)
      BY <2>8, <2>9, RangeThen
    <3>3. k # << >> /\ k[1] = a[1]
      BY <2>8, <2>9, FirstOfThen
    <3>4. QED
      BY <2>9, <3>1, <3>2, <3>3
  <2>12. RightBrace \notin Range(k)
    <3>1. RightBrace \notin Range(inner)
      BY <2>4 DEF Range, NoBraces
    <3>2. LeftBrace # RightBrace
      BY DEF LeftBrace, RightBrace
    <3>3. QED
      BY <2>11, <3>1, <3>2
  <2> HIDE DEF k, block, path, text
  <2>13. text = Then(Append(k, RightBrace), path)
    BY <1>6, <1>8, <2>10
  <2>14. Position(text, RightBrace) = Len(k) + 1 /\ After(text, Len(k) + 1) = path /\ text \in Seq(OriginateTokens)
    BY <2>2, <2>8, <2>11, <2>12, <2>13, MarkParts
  <2>15. block \in Seq(OriginateTokens) /\ Len(block) = Len(k) + 1 /\ Len(k) \in Nat
         /\ Range(block) = Range(k) \cup {RightBrace}
    BY <2>2, <2>10, <2>11, AppendTokens
  <2>16. SubSeq(text, 1, Len(k) + 1) = block
    <3>1. text = Then(block, path)
      BY <2>10, <2>13
    <3>2. SubSeq(Then(block, path), 1, Len(block)) = block
      BY <2>8, <2>15, FrontOfThen
    <3>3. QED
      BY <2>15, <3>1, <3>2
  <2>17. Contains(text, LeftBrace)
    <3>1. Range(text) = Range(block) \cup Range(path)
      <4>1. text = Then(block, path)
        BY <2>10, <2>13
      <4>2. QED
        BY <2>8, <2>15, <4>1, RangeThen
    <3>2. LeftBrace \in Range(text)
      BY <2>11, <2>15, <3>1
    <3>3. QED
      BY <2>14, <3>2, ContainsRange
  <2> DEFINE close == Len(k) + 1
  <2>18. /\ close # 0 /\ Position(text, RightBrace) = close
         /\ ParseVariables(SubSeq(text, 1, close)) = <<Block(DefaultScope, vars)>>
         /\ Trimmed(After(text, close)) = path
    <3>1. close # 0
      BY <2>15
    <3>2. Position(text, RightBrace) = close /\ After(text, close) = path /\ SubSeq(text, 1, close) = block
      BY <2>14, <2>16
    <3> HIDE DEF close
    <3>3. ParseVariables(SubSeq(text, 1, close)) = <<Block(DefaultScope, vars)>>
      BY <2>5, <3>2
    <3>4. Trimmed(After(text, close)) = path
      BY <1>4, <3>2
    <3>5. QED
      BY <3>1, <3>2, <3>3, <3>4
  <2> HIDE DEF close, vars
  <2>19. ParseEndpoint(text) = <<[scope |-> DefaultScope, vars |-> vars, path |-> path]>>
    BY <2>17, <2>18, ParseEndpointIs, ZenonT(60)
  <2>20. NormalEndpoint(e) = [scope |-> DefaultScope, vars |-> vars, path |-> path]
    BY <1>1, <1>8 DEF NormalEndpoint, vars, path
  <2>21. QED
    BY <2>19, <2>20 DEF text
<1>9. QED
  BY <1>7, <1>8

-----------------------------------------------------------------------------
(***************************************************************************)
(* Its applications, parsed.                                               *)
(***************************************************************************)

LEMMA UnquoteReturns ==
    ASSUME NEW T, Quote \in T, Backslash \in T, NEW t \in Seq(T), t # << >>, t[1] # Quote
    PROVE  originate_unquote(originate_quote(t)) = t
<1> DEFINE e == Escape(t, Quote)
<1>1. e \in Seq(T) /\ Unescape(e, Quote) = t
  <2>1. Quote # Backslash
    BY MarksDiffer
  <2>2. e \in Seq(T)
    BY EscapeAppend
  <2>3. QED
    BY <2>1, <2>2, EscapedComesBack
<1>2. originate_quote(t) = IF Contains(t, Space) THEN Quoted(e) ELSE t
  BY DEF originate_quote, Space, Quote
<1> HIDE DEF e
<1>3. CASE Contains(t, Space)
  <2>1. Unquoted(Quoted(e)) = e /\ Quoted(e) = Enclosed(Quote, e, Quote)
    BY <1>1, QuotedText
  <2>2. Len(Quoted(e)) = Len(e) + 2 /\ Len(e) \in Nat
    BY <1>1, <2>1, EnclosedText
  <2>3. e # Quoted(e)
    BY <2>2
  <2>4. originate_unquote(Quoted(e)) = Unescape(e, Quote)
    BY <2>1, <2>3 DEF originate_unquote, Quote
  <2>5. QED
    BY <1>1, <1>2, <1>3, <2>4
<1>4. CASE ~Contains(t, Space)
  <2>1. Head(t) # Quote
    BY Ends
  <2>2. Unquoted(t) = t
    BY <2>1 DEF Unquoted, Quote
  <2>3. QED
    BY <1>2, <1>4, <2>2 DEF originate_unquote
<1>5. QED
  BY <1>3, <1>4

\* An application read back from its name, a mark, and its arguments.
LEMMA CallParts ==
    ASSUME NEW T, NEW mark \in T, NEW name \in Seq(T), mark \notin Range(name), NEW args \in Seq(T),
           NEW call, call = Call(name, mark, args)
    PROVE  /\ Position(call, mark) # 0
           /\ Before(call, Position(call, mark)) = name
           /\ After(call, Position(call, mark)) = args
<1> DEFINE item == Then(Append(name, mark), args)
<1>1. call = item
  <2>1. Then(name, <<mark>>) = Append(name, mark)
    BY DEF Then
  <2>2. QED
    BY <2>1 DEF Call
<1>2. /\ Position(item, mark) # 0
      /\ Before(item, Position(item, mark)) = name
      /\ After(item, Position(item, mark)) = args
  <2> HIDE DEF item
  <2>1. item = Then(Append(name, mark), args)
    BY DEF item
  <2>2. QED
    BY <2>1, MarkParts
<1>3. QED
  BY <1>1, <1>2

App(name, args) == [name |-> name, args |-> args]

LEMMA XmlReturns ==
    ASSUME NEW T, \A x \in AppMarks : x \in T, NEW name \in Seq(T), name # << >>, LeftParen \notin Range(name),
           NEW args \in Seq(T), NEW d, d # <<Inline>>
    PROVE  /\ ParseApplications(XmlText(name, args), d) = << <<App(name, Given(args))>> >>
           /\ XmlText(name, args) \in Seq(T) /\ XmlText(name, args) # << >> /\ XmlText(name, args)[1] # Quote
<1> DEFINE s == XmlText(name, args)
           c == Call(name, LeftParen, args)
<1>1. Ampersand \in T /\ LeftParen \in T /\ RightParen \in T
  BY DEF AppMarks
<1>2. /\ s \in Seq(T) /\ s # << >> /\ s[1] = Ampersand /\ Last(s) = RightParen
      /\ SubSeq(s, 2, Len(s) - 1) = c
  BY <1>1, XmlIs
<1>3. /\ Position(c, LeftParen) # 0
      /\ Before(c, Position(c, LeftParen)) = name
      /\ After(c, Position(c, LeftParen)) = args
  <2> HIDE DEF c
  <2>1. c = Call(name, LeftParen, args)
    BY DEF c
  <2>2. QED
    BY <1>1, <2>1, CallParts
<1> HIDE DEF s, c
<1>4. Head(s) = Ampersand
  BY <1>2, Ends
<1>5. ParseApplications(s, d) =
          IF d = <<Inline>> THEN ParseInline(s)
          ELSE IF ~Some(s) \/ Head(s) # Ampersand THEN << << [name |-> s, args |-> << >>] >> >>
          ELSE IF Last(s) # RightParen \/ Position(SubSeq(s, 2, Len(s) - 1), LeftParen) = 0 THEN << >>
          ELSE << <<App(Before(SubSeq(s, 2, Len(s) - 1), Position(SubSeq(s, 2, Len(s) - 1), LeftParen)),
                        Given(After(SubSeq(s, 2, Len(s) - 1), Position(SubSeq(s, 2, Len(s) - 1), LeftParen))))>> >>
  BY DEF ParseApplications, Ampersand, LeftParen, RightParen, App
<1>6. ParseApplications(s, d) = << <<App(name, Given(args))>> >>
  <2> DEFINE p == Position(c, LeftParen)
             a == App(Before(c, p), Given(After(c, p)))
  <2>1. ParseApplications(s, d) = << <<a>> >>
    BY <1>2, <1>3, <1>4, <1>5 DEF Some
  <2>2. a = App(name, Given(args))
    BY <1>3
  <2> HIDE DEF a
  <2>3. QED
    BY <2>1, <2>2
<1>7. s[1] # Quote
  BY <1>2, AppMarksDiffer
<1>8. QED
  BY <1>2, <1>6, <1>7 DEF s

LEMMA CallItem ==
    ASSUME NEW T, \A x \in AppMarks : x \in T, NEW app, Callable(T, app),
           Listable(Args(app)), Trimmed(Args(app)) = Args(app)
    PROVE  Item(T, Call(app.name, NameMark, Args(app)), Comma)
<1> DEFINE name == app.name
           args == Args(app)
           c == Call(name, NameMark, args)
<1>1. NameMark \in T
  BY DEF AppMarks
<1>2. /\ name \in Seq(T) /\ name # << >> /\ Unmarked(name) /\ Comma \notin Range(name) /\ args \in Seq(T)
      /\ Comma \notin Range(args) /\ ~Odd(args) /\ Trimmed(args) = args
  BY DEF Callable, Listable
<1> HIDE DEF name, args
<1>3. /\ c \in Seq(T) /\ c # << >> /\ c[1] = name[1]
      /\ Last(c) = IF args = << >> THEN NameMark ELSE Last(args)
  BY <1>1, <1>2, CallIs
<1>4. c[1] # Space
  <2>1. name[1] \in Range(name)
    BY <1>2, FirstAndLast
  <2>2. QED
    BY <1>2, <1>3, <2>1 DEF Unmarked
<1>5. Last(c) # Space
  <2>1. args # << >> => Last(args) # Space
    BY <1>2, TrimmedEnds
  <2>2. QED
    BY <1>3, <2>1, AppMarksDiffer
<1>6. Through(T, c, Comma)
  BY <1>1, <1>2, SpaceIsNone, AppMarksDiffer, CallThrough DEF Unmarked
<1> HIDE DEF c
<1>7. ThroughBehind(T, c, Comma)
  BY <1>6 DEF Through, ThroughBehind
<1>8. Item(T, c, Comma)
  BY <1>3, <1>4, <1>5, <1>7, ItemIs
<1>9. QED
  BY <1>8 DEF c, name, args

LEMMA InlineReturns ==
    ASSUME NEW T, \A x \in AppMarks : x \in T, NEW A, NEW apps \in Seq(A), apps # << >>,
           \A i \in 1..Len(apps) : /\ Callable(T, apps[i]) /\ Listable(Args(apps[i]))
                                   /\ Trimmed(Args(apps[i])) = Args(apps[i])
    PROVE  /\ ParseInline(Interleaved(InlineItems(apps), Comma))
                = <<[i \in 1..Len(apps) |-> App(apps[i].name, <<Args(apps[i])>>)]>>
           /\ Interleaved(InlineItems(apps), Comma) \in Seq(T) /\ Interleaved(InlineItems(apps), Comma) # << >>
           /\ Interleaved(InlineItems(apps), Comma)[1] # Quote
<1> DEFINE items == InlineItems(apps)
           n == Len(apps)
           text == Interleaved(items, Comma)
<1>1. NameMark \in T /\ Comma \in T /\ n \in Nat /\ 1 \in 1..n
  BY Ends DEF AppMarks
<1>2. /\ items \in Seq(Seq(T)) /\ items # << >> /\ Len(items) = n
      /\ \A i \in 1..n : /\ items[i] = Call(apps[i].name, NameMark, Args(apps[i]))
                         /\ items[i] # << >>
  BY <1>1, InlineItemsAre
<1>3. \A i \in 1..n : Item(T, Call(apps[i].name, NameMark, Args(apps[i])), Comma)
  BY CallItem
<1> HIDE DEF items, n
<1>4. originate_split(text, Comma) = <<items>>
  <2>1. \A i \in 1..Len(items) : Item(T, items[i], Comma)
    BY <1>2, <1>3
  <2>2. Comma # Quote /\ Comma # Backslash
    BY SpaceIsNone, MarksDiffer
  <2>3. QED
    BY <1>1, <1>2, <2>1, <2>2, ItemsSplitOff
<1>5. Shape(T, items, text)
  BY <1>1, <1>2, InterleavedShape
<1> HIDE DEF text
<1>6. text \in Seq(T) /\ text # << >> /\ text[1] # Quote
  <2>1. text \in Seq(T) /\ text # << >> /\ text[1] = items[1][1]
    BY <1>5 DEF Shape
  <2> DEFINE app == apps[1]
  <2>2. app.name \in Seq(T) /\ app.name # << >> /\ Unmarked(app.name) /\ Args(app) \in Seq(T)
    BY <1>1 DEF Callable, n
  <2>3. items[1] = Call(app.name, NameMark, Args(app))
    BY <1>1, <1>2
  <2> HIDE DEF app
  <2>4. items[1][1] = app.name[1]
    BY <1>1, <2>2, <2>3, CallIs
  <2>5. app.name[1] \in Range(app.name)
    BY <2>2, FirstAndLast
  <2>6. QED
    BY <2>1, <2>2, <2>4, <2>5 DEF Unmarked
<1>7. \A i \in 1..n : /\ Position(items[i], NameMark) # 0
                      /\ Before(items[i], Position(items[i], NameMark)) = apps[i].name
                      /\ After(items[i], Position(items[i], NameMark)) = Args(apps[i])
  <2> SUFFICES ASSUME NEW i \in 1..n
               PROVE  /\ Position(items[i], NameMark) # 0
                      /\ Before(items[i], Position(items[i], NameMark)) = apps[i].name
                      /\ After(items[i], Position(items[i], NameMark)) = Args(apps[i])
    OBVIOUS
  <2> DEFINE name == apps[i].name
             args == Args(apps[i])
             c == items[i]
  <2>1. name \in Seq(T) /\ NameMark \notin Range(name) /\ args \in Seq(T)
    BY DEF Callable, n
  <2>2. c = Call(name, NameMark, args)
    BY <1>2
  <2> HIDE DEF name, args, c
  <2>3. /\ Position(c, NameMark) # 0 /\ Before(c, Position(c, NameMark)) = name
        /\ After(c, Position(c, NameMark)) = args
    BY <1>1, <2>1, <2>2, CallParts
  <2>4. QED
    BY <2>3 DEF name, args, c
<1>8. ParseInline(text) = <<[i \in 1..n |-> App(apps[i].name, <<Args(apps[i])>>)]>>
  <2> DEFINE parts == originate_split(text, Comma)
             Read(p) == App(Before(p, Position(p, NameMark)), <<After(p, Position(p, NameMark))>>)
  <2>1. ParseInline(text) =
            IF ~Some(parts) \/ \E i \in DOMAIN parts[1] : Position(parts[1][i], NameMark) = 0
              THEN << >>
              ELSE <<[i \in DOMAIN parts[1] |-> Read(parts[1][i])]>>
    BY DEF ParseInline, Comma, NameMark, App
  <2>2. parts[1] = items /\ Some(parts)
    BY <1>4 DEF Some
  <2>3. DOMAIN items = 1..n
    BY <1>2
  <2>4. \A i \in 1..n : Read(items[i]) = App(apps[i].name, <<Args(apps[i])>>)
    BY <1>7
  <2> HIDE DEF parts, Read
  <2>5. ParseInline(text) = <<[i \in 1..n |-> Read(items[i])]>>
    BY <1>7, <2>1, <2>2, <2>3
  <2>6. [i \in 1..n |-> Read(items[i])] = [i \in 1..n |-> App(apps[i].name, <<Args(apps[i])>>)]
    BY <2>4
  <2>7. QED
    BY <2>5, <2>6
<1>9. QED
  BY <1>6, <1>8 DEF text, items, n

\* The applications as the parser reads them.
NormalApp(o, app) ==
    App(app.name, IF o.dialplan = <<Inline>> THEN <<Args(app)>> ELSE Given(Args(app)))

NormalApps(o) == [i \in 1..Len(o.apps) |-> NormalApp(o, o.apps[i])]

LEMMA AppsReturn ==
    ASSUME NEW o \in Originates, PartsAre(o), NEW d, d = <<Inline>> <=> o.dialplan = <<Inline>>
    PROVE  ParseApplications(originate_unquote(originate_quote(AppsText(o))), d) = <<NormalApps(o)>>
<1> DEFINE T == OriginateTokens
           t == AppsText(o)
           apps == o.apps
           A == Application \cup {Park}
<1>1. \A x \in AppMarks : x \in T
  BY OriginateTokensAre
<1>2. Quote \in T /\ Backslash \in T
  BY <1>1 DEF AppMarks
<1>3. apps \in Seq(A) /\ apps # << >> /\ \A i \in 1..Len(apps) : Callable(T, apps[i])
  BY DEF PartsAre
<1> HIDE DEF T
<1>4. CASE o.dialplan = <<Inline>>
  <2>1. t = Interleaved(InlineItems(apps), Comma)
    BY <1>4 DEF AppsText
  <2>2. \A i \in 1..Len(apps) : /\ Callable(T, apps[i]) /\ Listable(Args(apps[i]))
                                /\ Trimmed(Args(apps[i])) = Args(apps[i])
    BY <1>3, <1>4 DEF PartsAre
  <2> HIDE DEF A, apps
  <2>3. /\ ParseInline(Interleaved(InlineItems(apps), Comma))
             = <<[i \in 1..Len(apps) |-> App(apps[i].name, <<Args(apps[i])>>)]>>
        /\ Interleaved(InlineItems(apps), Comma) \in Seq(T) /\ Interleaved(InlineItems(apps), Comma) # << >>
        /\ Interleaved(InlineItems(apps), Comma)[1] # Quote
    BY <1>1, <1>3, <2>2, InlineReturns
  <2> HIDE DEF t
  <2>4. originate_unquote(originate_quote(t)) = t
    BY <1>2, <2>1, <2>3, UnquoteReturns
  <2>5. ParseApplications(t, d) = ParseInline(t)
    BY <1>4 DEF ParseApplications
  <2>6. NormalApps(o) = [i \in 1..Len(apps) |-> App(apps[i].name, <<Args(apps[i])>>)]
    BY <1>4 DEF NormalApps, NormalApp, apps
  <2>7. QED
    BY <2>1, <2>3, <2>4, <2>5, <2>6 DEF t
<1>5. CASE o.dialplan # <<Inline>>
  <2> DEFINE app == apps[1]
             name == app.name
             args == Args(app)
  <2>1. Len(apps) = 1 /\ t = XmlText(name, args)
    BY <1>5 DEF PartsAre, AppsText
  <2>2. Callable(T, app)
    BY <1>3, <2>1
  <2>3. name \in Seq(T) /\ name # << >> /\ LeftParen \notin Range(name) /\ args \in Seq(T)
    BY <2>2 DEF Callable
  <2>4. d # <<Inline>>
    BY <1>5
  <2>5. NormalApps(o) = <<App(name, Given(args))>>
    <3>1. NormalApp(o, app) = App(name, Given(args))
      BY <1>5 DEF NormalApp
    <3> HIDE DEF app, name, args
    <3>2. NormalApps(o) = [i \in 1..1 |-> NormalApp(o, apps[i])]
      BY <2>1 DEF NormalApps
    <3>3. \A i \in 1..1 : apps[i] = app
      BY DEF app
    <3>4. NormalApps(o) = [i \in 1..1 |-> App(name, Given(args))]
      BY <3>1, <3>2, <3>3
    <3>5. QED
      BY <3>4
  <2> HIDE DEF app, name, args, apps, A, t
  <2>6. /\ ParseApplications(XmlText(name, args), d) = << <<App(name, Given(args))>> >>
        /\ XmlText(name, args) \in Seq(T) /\ XmlText(name, args) # << >> /\ XmlText(name, args)[1] # Quote
    BY <1>1, <2>3, <2>4, XmlReturns
  <2>7. originate_unquote(originate_quote(t)) = t
    BY <1>2, <2>1, <2>6, UnquoteReturns
  <2>8. QED
    BY <2>1, <2>5, <2>6, <2>7 DEF t
<1>6. QED
  BY <1>4, <1>5

\* The fields of an Originate, and what a text cannot tell of them.
Fields(e, apps, d, c, name, num, timeout) ==
    [endpoint |-> e, apps |-> apps, dialplan |-> d, context |-> c,
     cid_name |-> name, cid_num |-> num, timeout |-> timeout]

LEMMA FieldsTell ==
    ASSUME NEW e, NEW a, NEW d, NEW c, NEW n, NEW u, NEW t, NEW d2, NEW c2, NEW n2, NEW u2, NEW t2
    PROVE  <<Fields(e, a, d, c, n, u, t)>> = <<Fields(e, a, d2, c2, n2, u2, t2)>>
             <=> d = d2 /\ c = c2 /\ n = n2 /\ u = u2 /\ t = t2
<1> DEFINE x == Fields(e, a, d, c, n, u, t)
           y == Fields(e, a, d2, c2, n2, u2, t2)
<1>1. <<x>> = <<y>> <=> x = y
  <2> HIDE DEF x, y
  <2>1. <<x>>[1] = x /\ <<y>>[1] = y
    OBVIOUS
  <2>2. QED
    BY <2>1
<1>2. x = y <=> d = d2 /\ c = c2 /\ n = n2 /\ u = u2 /\ t = t2
  <2>1. /\ x.dialplan = d /\ x.context = c /\ x.cid_name = n /\ x.cid_num = u /\ x.timeout = t
        /\ y.dialplan = d2 /\ y.context = c2 /\ y.cid_name = n2 /\ y.cid_num = u2 /\ y.timeout = t2
    BY DEF Fields
  <2>2. QED
    BY <2>1
<1>3. QED
  BY <1>1, <1>2

Changed(x, e, apps) == [x EXCEPT !.endpoint = e, !.apps = apps]

LEMMA FieldsChanged ==
    ASSUME NEW e, NEW a, NEW d, NEW c, NEW n, NEW u, NEW t, NEW e2, NEW a2
    PROVE  Changed(Fields(e, a, d, c, n, u, t), e2, a2) = Fields(e2, a2, d, c, n, u, t)
<1> DEFINE x == Fields(e, a, d, c, n, u, t)
           y == Fields(e2, a, d, c, n, u, t)
<1>1. [x EXCEPT !.endpoint = e2] = y
  BY DEF Fields
<1>2. [y EXCEPT !.apps = a2] = Fields(e2, a2, d, c, n, u, t)
  BY DEF Fields
<1> HIDE DEF x, y
<1>3. [x EXCEPT !.endpoint = e2, !.apps = a2] = [[x EXCEPT !.endpoint = e2] EXCEPT !.apps = a2]
  OBVIOUS
<1>4. QED
  BY <1>1, <1>2, <1>3 DEF x, Changed

LEMMA NormalIs ==
    ASSUME NEW o \in Originates
    PROVE  Normal(o) = Fields(NormalEndpoint(o.endpoint), NormalApps(o), o.dialplan, o.context,
                              o.cid_name, o.cid_num, o.timeout)
<1> DEFINE E(e) == IF Some(e.vars) /\ e.scope = "Default" THEN e
                   ELSE [scope |-> "Default", vars |-> << >>, path |-> EndpointText(e)]
           A(apps) == [i \in DOMAIN apps |-> NormalApplication(apps[i], o.dialplan)]
<1>1. Normal(o) = [o EXCEPT !.endpoint = E(o.endpoint), !.apps = A(o.apps)]
  BY DEF Normal
<1>2. E(o.endpoint) = NormalEndpoint(o.endpoint)
  BY DEF NormalEndpoint, Bare, DefaultScope, Some
<1>3. o.apps \in Seq(Application \cup {Park})
  BY OriginateFields
<1>4. \A app \in Application \cup {Park} : NormalApplication(app, o.dialplan) = NormalApp(o, app)
  <2> TAKE app \in Application \cup {Park}
  <2>1. app = [name |-> app.name, args |-> app.args]
    BY DEF Application, Park
  <2> DEFINE y == IF o.dialplan = <<Inline>> THEN <<Args(app)>> ELSE Given(Args(app))
  <2>2. NormalApplication(app, o.dialplan) = [app EXCEPT !.args = y]
    BY DEF NormalApplication, Args
  <2>3. NormalApp(o, app) = App(app.name, y)
    BY DEF NormalApp
  <2> HIDE DEF y
  <2>4. [app EXCEPT !.args = y] = [name |-> app.name, args |-> y]
    BY <2>1
  <2>5. QED
    BY <2>2, <2>3, <2>4 DEF App
<1>5. A(o.apps) = NormalApps(o)
  <2>1. DOMAIN o.apps = 1..Len(o.apps) /\ \A i \in 1..Len(o.apps) : o.apps[i] \in Application \cup {Park}
    BY <1>3, ElementOfSeq
  <2>2. \A i \in 1..Len(o.apps) : NormalApplication(o.apps[i], o.dialplan) = NormalApp(o, o.apps[i])
    BY <1>4, <2>1
  <2>3. QED
    BY <2>1, <2>2 DEF NormalApps
<1>6. o = Fields(o.endpoint, o.apps, o.dialplan, o.context, o.cid_name, o.cid_num, o.timeout)
  BY DEF Originates, Fields
<1> DEFINE e == o.endpoint
           a == o.apps
           d == o.dialplan
           c == o.context
           n == o.cid_name
           u == o.cid_num
           t == o.timeout
           e2 == NormalEndpoint(o.endpoint)
           a2 == NormalApps(o)
<1>7. Changed(Fields(e, a, d, c, n, u, t), e2, a2) = Fields(e2, a2, d, c, n, u, t)
  BY FieldsChanged
<1> HIDE DEF E, A
<1>8. Normal(o) = Changed(o, e2, a2)
  BY <1>1, <1>2, <1>5 DEF Changed
<1>9. QED
  BY <1>6, <1>7, <1>8

-----------------------------------------------------------------------------
(***************************************************************************)
(* Its fields, parsed.                                                     *)
(***************************************************************************)

\* The dialplan the parser finds, and what is left behind it.
DialplanRead(args) == IF Len(args) > 2 /\ args[3] \in {XML, Inline} THEN <<args[3]>> ELSE << >>

WordsAfter(args, m) == SubSeq(args, m + 1, Len(args))

Given4(g, h, i, j) == (Some(j) => Some(i)) /\ (Some(i) => Some(h)) /\ (Some(h) => Some(g))

LEMMA GapOfFour ==
    ASSUME NEW g, NEW h, NEW i, NEW j
    PROVE  Gap(<<g, h, i, j>>) <=> ~Given4(g, h, i, j)
<1> DEFINE fields == <<g, h, i, j>>
           G(m) == Some(fields[m])
<1>1. DOMAIN fields = 1..4 /\ 1..4 = {1, 2, 3, 4}
  OBVIOUS
<1>2. G(1) = Some(g) /\ G(2) = Some(h) /\ G(3) = Some(i) /\ G(4) = Some(j)
  OBVIOUS
<1>3. Gap(fields) <=> \E m, k \in {1, 2, 3, 4} : m < k /\ ~G(m) /\ G(k)
  BY <1>1 DEF Gap
<1> HIDE DEF G, fields
<1>4. Given4(g, h, i, j) <=> (G(4) => G(3)) /\ (G(3) => G(2)) /\ (G(2) => G(1))
  BY <1>2 DEF Given4
<1>5. (\E m, k \in {1, 2, 3, 4} : m < k /\ ~G(m) /\ G(k))
         <=> ~((G(4) => G(3)) /\ (G(3) => G(2)) /\ (G(2) => G(1)))
  OBVIOUS
<1>6. QED
  BY <1>3, <1>4, <1>5 DEF fields

\* What is behind place m of a text's words, place by place.
LEMMA BehindPlaces ==
    ASSUME NEW S, NEW args \in Seq(S), NEW m \in Nat, m <= Len(args)
    PROVE  /\ WordsAfter(args, m) \in Seq(S) /\ Len(WordsAfter(args, m)) = Len(args) - m
           /\ \A k \in Nat \ {0} : At(WordsAfter(args, m), k) = At(args, m + k)
<1> DEFINE rest == WordsAfter(args, m)
<1>1. Len(args) \in Nat
  OBVIOUS
<1>2. /\ rest \in Seq(S) /\ Len(rest) = Len(args) - m
      /\ \A k \in 1..(Len(args) - m) : rest[k] = args[m + k]
  BY <1>1 DEF WordsAfter
<1> HIDE DEF rest
<1>3. \A k \in Nat \ {0} : At(rest, k) = At(args, m + k)
  <2> TAKE k \in Nat \ {0}
  <2>1. CASE m + k <= Len(args)
    <3>1. k \in 1..(Len(args) - m) /\ k <= Len(rest)
      BY <1>1, <1>2, <2>1
    <3>2. rest[k] = args[m + k]
      BY <1>2, <3>1
    <3>3. QED
      BY <2>1, <3>1, <3>2 DEF At
  <2>2. CASE ~(m + k <= Len(args))
    <3>1. ~(k <= Len(rest))
      BY <1>1, <1>2, <2>2
    <3>2. QED
      BY <2>2, <3>1 DEF At
  <2>3. QED
    BY <2>1, <2>2
<1>4. QED
  BY <1>2, <1>3 DEF rest

FourIn(rest, g, h, i, j) == At(rest, 1) = g /\ At(rest, 2) = h /\ At(rest, 3) = i /\ At(rest, 4) = j

\* Four fields are in the first four places exactly when none is left out
\* before one that is given.
LEMMA FourPlaces ==
    ASSUME NEW S, NEW args \in Seq(S), NEW n \in Nat,
           NEW g \in Optional(S), NEW h \in Optional(S), NEW i \in Optional(S), NEW j \in Optional(S),
           Len(args) = n + Size(g) + Size(h) + Size(i) + Size(j),
           Some(g) => At(args, n + 1) = g,
           Some(h) => At(args, n + Size(g) + 1) = h,
           Some(i) => At(args, n + Size(g) + Size(h) + 1) = i,
           Some(j) => At(args, n + Size(g) + Size(h) + Size(i) + 1) = j
    PROVE  /\ n <= Len(args)
           /\ FourIn(WordsAfter(args, n), g, h, i, j) <=> Given4(g, h, i, j)
           /\ Len(WordsAfter(args, n)) > 3 => j = <<WordsAfter(args, n)[4]>>
<1> DEFINE v == Size(g)
           w == Size(h)
           x == Size(i)
           y == Size(j)
           rest == WordsAfter(args, n)
<1>1. /\ v \in {0, 1} /\ w \in {0, 1} /\ x \in {0, 1} /\ y \in {0, 1}
      /\ Some(g) <=> v = 1
      /\ Some(h) <=> w = 1
      /\ Some(i) <=> x = 1
      /\ Some(j) <=> y = 1
  BY Sizes
<1>2. Len(args) = n + v + w + x + y
  OBVIOUS
<1>3. /\ Some(g) => At(args, n + 1) = g
      /\ Some(h) => At(args, n + v + 1) = h
      /\ Some(i) => At(args, n + v + w + 1) = i
      /\ Some(j) => At(args, n + v + w + x + 1) = j
  OBVIOUS
<1> HIDE DEF v, w, x, y
<1>4. n <= Len(args)
  BY <1>1, <1>2
<1>5. rest \in Seq(S) /\ Len(rest) = Len(args) - n /\ \A k \in Nat \ {0} : At(rest, k) = At(args, n + k)
  BY <1>4, BehindPlaces
<1> HIDE DEF rest
<1>6. Len(rest) = v + w + x + y
  BY <1>1, <1>2, <1>5
<1>7. /\ Some(g) => At(rest, 1) = g
      /\ Some(h) => At(rest, v + 1) = h
      /\ Some(i) => At(rest, v + w + 1) = i
      /\ Some(j) => At(rest, v + w + x + 1) = j
  <2>1. /\ At(rest, 1) = At(args, n + 1) /\ At(rest, v + 1) = At(args, n + (v + 1))
        /\ At(rest, v + w + 1) = At(args, n + (v + w + 1))
        /\ At(rest, v + w + x + 1) = At(args, n + (v + w + x + 1))
    <3>1. /\ 1 \in Nat \ {0} /\ v + 1 \in Nat \ {0} /\ v + w + 1 \in Nat \ {0} /\ v + w + x + 1 \in Nat \ {0}
      BY <1>1
    <3>2. QED
      BY <1>5, <3>1
  <2>2. /\ n + (v + 1) = n + v + 1 /\ n + (v + w + 1) = n + v + w + 1
        /\ n + (v + w + x + 1) = n + v + w + x + 1
    BY <1>1
  <2>3. QED
    BY <1>3, <2>1, <2>2
<1>8. \A k \in Nat \ {0} : Some(At(rest, k)) <=> k <= v + w + x + y
  <2>1. \A k \in Nat \ {0} : Some(At(rest, k)) <=> k <= Len(rest)
    BY ONLY TRUE DEF At, Some
  <2>2. QED
    BY <1>6, <2>1
<1>9. Given4(g, h, i, j) => FourIn(rest, g, h, i, j)
  <2> SUFFICES ASSUME Given4(g, h, i, j)
               PROVE  FourIn(rest, g, h, i, j)
    OBVIOUS
  <2>1. /\ y = 1 => x = 1
        /\ x = 1 => w = 1
        /\ w = 1 => v = 1
    BY <1>1 DEF Given4
  <2>2. /\ w = 1 => v + 1 = 2
        /\ x = 1 => v + w + 1 = 3
        /\ y = 1 => v + w + x + 1 = 4
    BY <1>1, <2>1
  <2>3. /\ w = 1 => At(rest, 2) = h
        /\ x = 1 => At(rest, 3) = i
        /\ y = 1 => At(rest, 4) = j
        /\ v = 1 => At(rest, 1) = g
    BY <1>1, <1>7, <2>2
  <2>4. /\ v # 1 => ~(1 <= v + w + x + y)
        /\ w # 1 => ~(2 <= v + w + x + y)
        /\ x # 1 => ~(3 <= v + w + x + y)
        /\ y # 1 => ~(4 <= v + w + x + y)
    BY <1>1, <2>1
  <2>5. /\ v # 1 => At(rest, 1) = << >> /\ g = << >>
        /\ w # 1 => At(rest, 2) = << >> /\ h = << >>
        /\ x # 1 => At(rest, 3) = << >> /\ i = << >>
        /\ y # 1 => At(rest, 4) = << >> /\ j = << >>
    <3>1. 1 \in Nat \ {0} /\ 2 \in Nat \ {0} /\ 3 \in Nat \ {0} /\ 4 \in Nat \ {0}
      OBVIOUS
    <3>2. /\ v # 1 => ~Some(At(rest, 1)) /\ ~Some(g)
          /\ w # 1 => ~Some(At(rest, 2)) /\ ~Some(h)
          /\ x # 1 => ~Some(At(rest, 3)) /\ ~Some(i)
          /\ y # 1 => ~Some(At(rest, 4)) /\ ~Some(j)
      BY <1>1, <1>8, <2>4, <3>1
    <3>3. QED
      BY <3>2 DEF Some
  <2>6. QED
    BY <2>3, <2>5 DEF FourIn
<1>10. FourIn(rest, g, h, i, j) => Given4(g, h, i, j)
  <2> SUFFICES ASSUME FourIn(rest, g, h, i, j)
               PROVE  Given4(g, h, i, j)
    OBVIOUS
  <2>1. /\ Some(g) <=> 1 <= v + w + x + y
        /\ Some(h) <=> 2 <= v + w + x + y
        /\ Some(i) <=> 3 <= v + w + x + y
        /\ Some(j) <=> 4 <= v + w + x + y
    <3>1. 1 \in Nat \ {0} /\ 2 \in Nat \ {0} /\ 3 \in Nat \ {0} /\ 4 \in Nat \ {0}
      OBVIOUS
    <3>2. QED
      BY <1>8, <3>1 DEF FourIn
  <2>2. QED
    BY <1>1, <2>1 DEF Given4
<1>11. Len(rest) > 3 => j = <<rest[4]>>
  <2> SUFFICES ASSUME Len(rest) > 3
               PROVE  j = <<rest[4]>>
    OBVIOUS
  <2>1. v = 1 /\ w = 1 /\ x = 1 /\ y = 1 /\ v + w + x + 1 = 4 /\ 4 <= Len(rest)
    BY <1>1, <1>6
  <2>2. At(rest, 4) = j
    BY <1>1, <1>7, <2>1
  <2>3. QED
    BY <2>1, <2>2 DEF At
<1>12. QED
  BY <1>4, <1>9, <1>10, <1>11 DEF rest

NumberTexts == {<<n>> : n \in Numbers}

\* What the parser makes of its words.
ReadWords(args) ==
    LET d == DialplanRead(args)
        rest == SubSeq(args, 3 + Len(d), Len(args))
        e == ParseEndpoint(args[1])
        apps == ParseApplications(originate_unquote(args[2]), d)
    IN  IF ~Some(e) \/ ~Some(apps) \/ (Len(rest) > 3 /\ rest[4] \notin NumberTexts) THEN << >>
        ELSE <<Fields(e[1], apps[1], d, At(rest, 1), At(rest, 2), At(rest, 3), At(rest, 4))>>

LEMMA ParserReadsWords ==
    ASSUME NEW t, Head(t) = DialStart, NEW args, originate_split(Trimmed(Tail(t)), Space) = <<args>>,
           ~(Len(args) < 2)
    PROVE  ParseOriginate(t) = ReadWords(args)
<1> DEFINE words == originate_split(Trimmed(IF Head(t) = "originate" THEN Tail(t) ELSE t), " ")
           all == words[1]
           d == DialplanRead(all)
           rest == SubSeq(all, 3 + Len(d), Len(all))
           e == ParseEndpoint(all[1])
           apps == ParseApplications(originate_unquote(all[2]), d)
           found == Fields(e[1], apps[1], d, At(rest, 1), At(rest, 2), At(rest, 3), At(rest, 4))
<1>1. ParseOriginate(t) =
          IF \/ ~Some(words) \/ Len(all) < 2
             \/ ~Some(e) \/ ~Some(apps)
             \/ Len(rest) > 3 /\ rest[4] \notin NumberTexts
            THEN << >>
            ELSE <<found>>
  BY DEF ParseOriginate, DialplanRead, NumberTexts, Fields
<1>2. words = <<args>>
  BY DEF DialStart, Space
<1>3. ReadWords(all) =
          IF ~Some(e) \/ ~Some(apps) \/ (Len(rest) > 3 /\ rest[4] \notin NumberTexts) THEN << >> ELSE <<found>>
  BY DEF ReadWords
<1> HIDE DEF e, apps, found, d, rest
<1>4. Some(words) /\ ~(Len(all) < 2)
  <2> HIDE DEF words
  <2>1. words[1] = args
    BY <1>2
  <2>2. QED
    BY <1>2, <2>1 DEF Some
<1>5. ParseOriginate(t) = ReadWords(all)
  BY <1>1, <1>3, <1>4
<1>6. all = args
  <2> HIDE DEF words
  <2>1. QED
    BY <1>2
<1>7. QED
  BY <1>5, <1>6

\* With an endpoint and applications that are read, and the dialplan given,
\* the rest decides.
LEMMA WordsRead ==
    ASSUME NEW args, NEW e, NEW a, NEW d, DialplanRead(args) = d, ParseEndpoint(args[1]) = <<e>>,
           ParseApplications(originate_unquote(args[2]), d) = <<a>>,
           NEW rest, SubSeq(args, 3 + Len(d), Len(args)) = rest,
           Len(rest) > 3 => rest[4] \in NumberTexts
    PROVE  ReadWords(args) = <<Fields(e, a, d, At(rest, 1), At(rest, 2), At(rest, 3), At(rest, 4))>>
<1> DEFINE end == ParseEndpoint(args[1])
           apps == ParseApplications(originate_unquote(args[2]), d)
           found == Fields(end[1], apps[1], d, At(rest, 1), At(rest, 2), At(rest, 3), At(rest, 4))
<1>1. ReadWords(args) =
          IF ~Some(end) \/ ~Some(apps) \/ (Len(rest) > 3 /\ rest[4] \notin NumberTexts) THEN << >> ELSE <<found>>
  BY DEF ReadWords
<1>2. Some(end) /\ Some(apps) /\ end[1] = e /\ apps[1] = a
  <2> DEFINE one == <<e>>
             two == <<a>>
  <2>1. Some(one) /\ Some(two) /\ one[1] = e /\ two[1] = a
    BY DEF Some
  <2> HIDE DEF one, two
  <2>2. end = one /\ apps = two
    BY DEF one, two
  <2> HIDE DEF end, apps
  <2>3. QED
    BY <2>1, <2>2
<1>3. found = Fields(e, a, d, At(rest, 1), At(rest, 2), At(rest, 3), At(rest, 4))
  <2> HIDE DEF end, apps
  <2>1. QED
    BY <1>2
<1> HIDE DEF end, apps, found
<1>4. ReadWords(args) = <<found>>
  BY <1>1, <1>2
<1>5. QED
  BY <1>3, <1>4

\* A parser that finds another dialplan reads another Originate.
LEMMA OtherDialplan ==
    ASSUME NEW args, NEW e, NEW a, NEW f, NEW g, NEW h, NEW i, NEW j, DialplanRead(args) # f
    PROVE  ReadWords(args) # <<Fields(e, a, f, g, h, i, j)>>
<1> DEFINE d == DialplanRead(args)
           rest == SubSeq(args, 3 + Len(d), Len(args))
           end == ParseEndpoint(args[1])
           apps == ParseApplications(originate_unquote(args[2]), d)
           found == Fields(end[1], apps[1], d, At(rest, 1), At(rest, 2), At(rest, 3), At(rest, 4))
           wanted == Fields(e, a, f, g, h, i, j)
<1>1. ReadWords(args) \in {<< >>, <<found>>}
  BY DEF ReadWords
<1>2. found.dialplan = d /\ wanted.dialplan = f
  BY DEF Fields
<1>3. found # wanted
  <2> HIDE DEF found, wanted, d
  <2>1. d # f
    BY DEF d
  <2>2. QED
    BY <1>2, <2>1
<1> HIDE DEF found, wanted
<1>4. << >> # <<wanted>> /\ <<found>>[1] = found /\ <<wanted>>[1] = wanted
  OBVIOUS
<1>5. ReadWords(args) # <<wanted>>
  <2> DEFINE one == <<found>>
             two == <<wanted>>
  <2>1. one # two /\ << >> # two
    BY <1>3, <1>4
  <2> HIDE DEF one, two
  <2>2. ReadWords(args) \in {<< >>, one}
    BY <1>1 DEF one
  <2>3. ReadWords(args) # two
    BY <2>1, <2>2
  <2>4. QED
    BY <2>3 DEF two
<1>6. QED
  BY <1>5 DEF wanted

DialplanTexts == {<<XML>>, <<Inline>>}

\* The word behind two, if there is one, decides the dialplan.
LEMMA ThirdWord ==
    ASSUME NEW S, NEW args \in Seq(S), NEW f, At(args, 3) = f
    PROVE  DialplanRead(args) = IF f \in DialplanTexts THEN f ELSE << >>
<1>1. Len(args) \in Nat
  OBVIOUS
<1>2. CASE 3 <= Len(args)
  <2> DEFINE x == args[3]
  <2>1. f = <<x>> /\ Len(args) > 2
    BY <1>1, <1>2 DEF At
  <2>2. DialplanRead(args) = IF x \in {XML, Inline} THEN <<x>> ELSE << >>
    BY <2>1 DEF DialplanRead
  <2> HIDE DEF x
  <2>3. f \in DialplanTexts <=> x \in {XML, Inline}
    <3>1. \A y : <<x>> = <<y>> <=> x = y
      <4> TAKE y
      <4>1. <<x>>[1] = x /\ <<y>>[1] = y
        OBVIOUS
      <4>2. QED
        BY <4>1
    <3> DEFINE one == <<x>>
    <3>2. one \in {<<XML>>, <<Inline>>} <=> x \in {XML, Inline}
      BY <3>1
    <3>3. QED
      BY <2>1, <3>2 DEF DialplanTexts
  <2>4. QED
    BY <2>1, <2>2, <2>3
<1>3. CASE ~(3 <= Len(args))
  <2>1. f = << >> /\ ~(Len(args) > 2)
    BY <1>1, <1>3 DEF At
  <2>2. DialplanRead(args) = << >>
    BY <2>1 DEF DialplanRead
  <2>3. QED
    BY <2>1, <2>2
<1>4. QED
  BY <1>2, <1>3

LEMMA DialplanFound ==
    ASSUME NEW S, NEW args \in Seq(S), NEW a, NEW f \in Optional({XML, Inline}), NEW g \in Optional(S),
           NEW h \in Optional(S), NEW i \in Optional(S), NEW j \in Optional(S),
           Placed(args, a, 2, f, g, h, i, j)
    PROVE  /\ Some(f) => DialplanRead(args) = f
           /\ ~Some(f) /\ DialplanRead(args) = << >> => g \notin DialplanTexts
           /\ ~Some(f) /\ DialplanRead(args) # << >> /\ Given4(g, h, i, j) => g \in DialplanTexts
<1>1. /\ Some(f) => At(args, 2 + 1) = f
      /\ Some(g) => At(args, 2 + Size(f) + 1) = g
      /\ Len(args) = 2 + Size(f) + Size(g) + Size(h) + Size(i) + Size(j)
  BY DEF Placed
<1>2. 2 + 1 = 3 /\ (~Some(f) => 2 + Size(f) + 1 = 3)
  BY DEF Size
<1>3. Some(f) => At(args, 3) = f
  BY <1>1, <1>2
<1>4. ~Some(f) /\ Some(g) => At(args, 3) = g
  BY <1>1, <1>2
<1>5. Some(f) => f \in DialplanTexts
  BY DEF Optional, Some, DialplanTexts
<1>6. Some(f) => DialplanRead(args) = f
  BY <1>3, <1>5, ThirdWord
<1>7. ~Some(f) /\ Some(g) => DialplanRead(args) = IF g \in DialplanTexts THEN g ELSE << >>
  BY <1>4, ThirdWord
<1>8. \A x \in DialplanTexts : Some(x)
  <2>1. \A x : <<x>> # << >>
    OBVIOUS
  <2>2. QED
    BY <2>1 DEF DialplanTexts, Some
<1>9. ~Some(f) /\ DialplanRead(args) = << >> => g \notin DialplanTexts
  BY <1>7, <1>8 DEF Some
<1>10. ~Some(f) /\ DialplanRead(args) # << >> /\ Given4(g, h, i, j) => g \in DialplanTexts
  <2> SUFFICES ASSUME ~Some(f), DialplanRead(args) # << >>, Given4(g, h, i, j), ~Some(g)
               PROVE  FALSE
    BY <1>7
  <2>1. ~Some(h) /\ ~Some(i) /\ ~Some(j)
    BY DEF Given4
  <2>2. Size(f) = 0 /\ Size(g) = 0 /\ Size(h) = 0 /\ Size(i) = 0 /\ Size(j) = 0
    BY <2>1 DEF Size
  <2>3. ~(Len(args) > 2)
    BY <1>1, <2>2
  <2>4. QED
    BY <2>3 DEF DialplanRead
<1>11. QED
  BY <1>6, <1>9, <1>10

LEMMA CarriedEndpoint ==
    ASSUME NEW o \in Originates, Carried(o), Braceless(o.endpoint.vars), KeysDiffer(o.endpoint.vars)
    PROVE  ParseEndpoint(EndpointText(o.endpoint)) = <<NormalEndpoint(o.endpoint)>>
<1> DEFINE vars == o.endpoint.vars
<1>1. o.endpoint \in Endpoints /\ vars \in Seq(Variable)
  BY OriginateFields DEF Endpoints
<1>2. Carriable(OriginateTokens, vars)
  BY CarriedVariables
<1>3. PlainKeys(vars)
  BY DEF Carried, PlainNames
<1>4. ~Swallowing(vars)
  <2>1. \A i \in DOMAIN vars : vars[i].value # << >> /\ Last(vars[i].value) = Backslash => i = Len(vars)
    BY DEF Carried, Some, Backslash
  <2> HIDE DEF vars
  <2>2. DOMAIN vars = 1..Len(vars) /\ Len(vars) \in Nat
    BY <1>1
  <2>3. QED
    BY <2>1, <2>2 DEF Swallowing, Swallows
<1>5. QED
  BY <1>1, <1>2, <1>3, <1>4, EndpointReturns

LEMMA OriginateReturns ==
    ASSUME NEW o \in Originates, PartsAre(o),
           ParseEndpoint(EndpointText(o.endpoint)) = <<NormalEndpoint(o.endpoint)>>
    PROVE  ParseOriginate(OriginateText(o)[1]) = <<Normal(o)>>
             <=> /\ Given4(o.context, o.cid_name, o.cid_num, o.timeout)
                 /\ ~Some(o.dialplan) => o.context \notin DialplanTexts
<1> DEFINE f == o.dialplan
           g == o.context
           h == o.cid_name
           i == o.cid_num
           j == o.timeout
           args == RestOf(o)
           pair == Pair2(o)
           text == OriginateText(o)[1]
           e == NormalEndpoint(o.endpoint)
           a == NormalApps(o)
           d == DialplanRead(args)
           rest == SubSeq(args, 3 + Len(d), Len(args))
<1>1. pair \in Seq(DialItems) /\ Len(pair) = 2 /\ args \in Seq(DialItems)
  BY RestIs
<1>2. /\ f \in Optional(DialItems) /\ g \in Optional(DialItems) /\ h \in Optional(DialItems)
      /\ i \in Optional(DialItems) /\ j \in Optional(DialItems)
  BY DEF PartsAre
<1>3. f \in Optional({XML, Inline}) /\ j \in Optional(NumberTexts)
  BY OriginateFields DEF NumberTexts
<1>4. Placed(args, pair, 2, f, g, h, i, j)
  <2>1. args = WithFields(pair, f, g, h, i, j)
    BY DEF RestOf
  <2> HIDE DEF args, pair, f, g, h, i, j
  <2>2. Placed(args, pair, Len(pair), f, g, h, i, j)
    BY <1>1, <1>2, <2>1, Places
  <2>3. QED
    BY <1>1, <2>2
<1>5. pair[1] = EndpointText(o.endpoint) /\ pair[2] = originate_quote(AppsText(o))
  BY DEF Pair2
<1>6. Normal(o) = Fields(e, a, f, g, h, i, j)
  BY NormalIs
<1>7. Head(text) = DialStart /\ originate_split(Trimmed(Tail(text)), Space) = <<args>>
  BY TextRead
<1>8. d = <<Inline>> <=> f = <<Inline>>
      => ParseApplications(originate_unquote(originate_quote(AppsText(o))), d) = <<a>>
  BY AppsReturn
<1> HIDE DEF f, g, h, i, j, args, pair, text, e, a
<1>9. args[1] = pair[1] /\ args[2] = pair[2] /\ ~(Len(args) < 2)
  <2>1. At(args, 1) = At(pair, 1) /\ At(args, 2) = At(pair, 2)
    BY <1>4 DEF Placed
  <2>2. Len(args) >= 2
    <3>1. Size(f) \in {0, 1} /\ Size(g) \in {0, 1} /\ Size(h) \in {0, 1} /\ Size(i) \in {0, 1} /\ Size(j) \in {0, 1}
      BY <1>2, Sizes
    <3>2. QED
      BY <1>4, <3>1 DEF Placed
  <2>3. Len(args) \in Nat
    BY <1>1
  <2>4. /\ At(args, 1) = <<args[1]>> /\ At(args, 2) = <<args[2]>>
        /\ At(pair, 1) = <<pair[1]>> /\ At(pair, 2) = <<pair[2]>>
    BY <1>1, <2>2, <2>3 DEF At
  <2> DEFINE p == args[1]
             q == args[2]
             r == pair[1]
             s == pair[2]
  <2>5. <<p>> = <<r>> /\ <<q>> = <<s>>
    BY <2>1, <2>4
  <2> HIDE DEF p, q, r, s
  <2>6. <<p>>[1] = p /\ <<q>>[1] = q /\ <<r>>[1] = r /\ <<s>>[1] = s
    OBVIOUS
  <2>7. p = r /\ q = s
    BY <2>5, <2>6
  <2>8. QED
    BY <2>2, <2>3, <2>7 DEF p, q, r, s
<1>10. ParseOriginate(text) = ReadWords(args)
  BY <1>7, <1>9, ParserReadsWords
<1>11. /\ Some(f) => d = f
       /\ ~Some(f) /\ d = << >> => g \notin DialplanTexts
       /\ ~Some(f) /\ d # << >> /\ Given4(g, h, i, j) => g \in DialplanTexts
  BY <1>1, <1>2, <1>3, <1>4, DialplanFound
<1>12. CASE d = f
  <2>1. Len(d) = Size(f) /\ Size(f) \in {0, 1}
    BY <1>2, <1>12, Sizes
  <2> DEFINE n == 2 + Size(f)
             found == Fields(e, a, f, At(rest, 1), At(rest, 2), At(rest, 3), At(rest, 4))
  <2>2. rest = WordsAfter(args, n)
    <3>1. 3 + Len(d) = n + 1
      BY <2>1
    <3> HIDE DEF n, d
    <3>2. QED
      BY <3>1 DEF WordsAfter
  <2>3. /\ FourIn(rest, g, h, i, j) <=> Given4(g, h, i, j)
        /\ Len(rest) > 3 => j = <<rest[4]>>
    <3>1. n \in Nat
      BY <2>1
    <3>2. /\ Len(args) = n + Size(g) + Size(h) + Size(i) + Size(j)
          /\ Some(g) => At(args, n + 1) = g
          /\ Some(h) => At(args, n + Size(g) + 1) = h
          /\ Some(i) => At(args, n + Size(g) + Size(h) + 1) = i
          /\ Some(j) => At(args, n + Size(g) + Size(h) + Size(i) + 1) = j
      BY <1>4 DEF Placed
    <3> HIDE DEF n, rest
    <3>3. /\ FourIn(WordsAfter(args, n), g, h, i, j) <=> Given4(g, h, i, j)
          /\ Len(WordsAfter(args, n)) > 3 => j = <<WordsAfter(args, n)[4]>>
      BY <1>1, <1>2, <3>1, <3>2, FourPlaces
    <3>4. QED
      BY <2>2, <3>3
  <2>4. ParseApplications(originate_unquote(args[2]), d) = <<a>>
    BY <1>5, <1>8, <1>9, <1>12
  <2>5. ParseEndpoint(args[1]) = <<e>>
    BY <1>5, <1>9 DEF e
  <2>6. Len(rest) > 3 => rest[4] \in NumberTexts
    <3> DEFINE last == rest[4]
    <3> HIDE DEF rest
    <3>1. \A x : j = <<x>> => x \in NumberTexts
      <4> SUFFICES ASSUME NEW x, j = <<x>> PROVE x \in NumberTexts
        OBVIOUS
      <4>1. <<x>> # << >> /\ <<x>>[1] = x
        OBVIOUS
      <4>2. PICK y \in NumberTexts : j = <<y>>
        BY <1>3, <4>1 DEF Optional
      <4>3. <<y>>[1] = y
        OBVIOUS
      <4>4. QED
        BY <4>1, <4>2, <4>3
    <3>2. QED
      BY <2>3, <3>1
  <2> HIDE DEF n
  <2>7. ReadWords(args) = <<found>>
    <3>1. ReadWords(args) = <<Fields(e, a, d, At(rest, 1), At(rest, 2), At(rest, 3), At(rest, 4))>>
      <4> DEFINE r == rest
                 c == d
      <4>1. SubSeq(args, 3 + Len(c), Len(args)) = r /\ DialplanRead(args) = c
        OBVIOUS
      <4>2. /\ Len(r) > 3 => r[4] \in NumberTexts
            /\ ParseApplications(originate_unquote(args[2]), c) = <<a>>
        BY <2>4, <2>6
      <4> HIDE DEF r, c
      <4>3. ReadWords(args) = <<Fields(e, a, c, At(r, 1), At(r, 2), At(r, 3), At(r, 4))>>
        BY <2>5, <4>1, <4>2, WordsRead
      <4>4. QED
        BY <4>3 DEF r, c
    <3>2. QED
      BY <1>12, <3>1
  <2>8. <<found>> = <<Fields(e, a, f, g, h, i, j)>> <=> FourIn(rest, g, h, i, j)
    <3> HIDE DEF rest
    <3>1. <<found>> = <<Fields(e, a, f, g, h, i, j)>>
            <=> /\ f = f /\ At(rest, 1) = g /\ At(rest, 2) = h /\ At(rest, 3) = i /\ At(rest, 4) = j
      BY FieldsTell
    <3>2. QED
      BY <3>1 DEF FourIn
  <2>9. ReadWords(args) = <<Fields(e, a, f, g, h, i, j)>> <=> Given4(g, h, i, j)
    <3> HIDE DEF rest, found
    <3>1. QED
      BY <2>3, <2>7, <2>8
  <2>10. ~Some(f) => g \notin DialplanTexts
    BY <1>11, <1>12 DEF Some
  <2>11. QED
    BY <1>6, <1>10, <2>9, <2>10 DEF f, g, h, i, j, text
<1>13. CASE d # f
  <2>1. ~Some(f) /\ d # << >>
    BY <1>11, <1>13 DEF Some
  <2>2. ReadWords(args) # <<Fields(e, a, f, g, h, i, j)>>
    BY <1>13, OtherDialplan
  <2>3. ~(Given4(g, h, i, j) /\ g \notin DialplanTexts)
    BY <1>11, <2>1
  <2>4. QED
    BY <1>6, <1>10, <2>1, <2>2, <2>3 DEF f, g, h, i, j, text
<1>14. QED
  BY <1>12, <1>13

LEMMA OriginatesReturn == DialInv => OriginateComesBack
<1> SUFFICES ASSUME DialInv, Carried(dial), Braceless(dial.endpoint.vars)
             PROVE  ParseOriginate(OriginateText(dial)[1]) = <<Normal(dial)>>
                      <=> /\ ~Gap(<<dial.context, dial.cid_name, dial.cid_num, dial.timeout>>)
                          /\ ~Some(dial.dialplan) => dial.context \notin {<<XML>>, <<Inline>>}
  BY DEF OriginateComesBack
<1>1. dial \in Originates /\ KeysDiffer(dial.endpoint.vars) /\ dial.apps # << >>
  BY DialTypes DEF DialInv
<1>2. PartsAre(dial)
  BY <1>1, CarriedParts
<1>3. ParseEndpoint(EndpointText(dial.endpoint)) = <<NormalEndpoint(dial.endpoint)>>
  BY <1>1, CarriedEndpoint
<1>4. ParseOriginate(OriginateText(dial)[1]) = <<Normal(dial)>>
        <=> /\ Given4(dial.context, dial.cid_name, dial.cid_num, dial.timeout)
            /\ ~Some(dial.dialplan) => dial.context \notin DialplanTexts
  BY <1>1, <1>2, <1>3, OriginateReturns
<1>5. Gap(<<dial.context, dial.cid_name, dial.cid_num, dial.timeout>>)
        <=> ~Given4(dial.context, dial.cid_name, dial.cid_num, dial.timeout)
  BY GapOfFour
<1>6. QED
  BY <1>4, <1>5 DEF DialplanTexts

\* The text of an Originate, parsed, is the Originate, wherever the formats
\* can carry it, exactly when no field is left out before one that is given
\* and no context reads like a dialplan.
THEOREM OriginatesComeBack == DialSpec => []OriginateComesBack
  BY DialInvariant, OriginatesReturn, PTL

=============================================================================
