----------------------------- MODULE TextProofs -----------------------------
(***************************************************************************)
(* Proofs about the texts of EslEvents and EslCommands, for all values,    *)
(* bodies, names and fields and any number of commands: a stack of values  *)
(* comes back from its array and an event from its plain text, the three   *)
(* formats say the same, every method of EslClient makes a well-formed     *)
(* command, the server finds in the bytes that were written the commands   *)
(* that were sent, and different commands are other bytes.  The folds of the *)
(* models are taken apart by the prefixes of what they fold over.          *)
(***************************************************************************)
EXTENDS EslCommands, FiniteSetTheorems, SequenceTheorems, WellFoundedInduction, TLAPS

-----------------------------------------------------------------------------
(***************************************************************************)
(* Numbers.                                                                *)
(***************************************************************************)

\* A set of numbers has a smallest one, and what is smallest or largest is in it.
LEMMA SmallestExists ==
    ASSUME NEW S \in SUBSET Nat, S # {}
    PROVE  \E n \in S : \A m \in S : n <= m
<1> DEFINE R == OpToRel(<, Nat)
<1>1. IsWellFoundedOn(R, Nat)
  BY NatLessThanWellFounded
<1>2. \A n, m \in Nat : <<m, n>> \in R <=> m < n
  BY DEF OpToRel
<1> HIDE DEF R
<1>3. PICK n \in S : \A m \in S : ~(<<m, n>> \in R)
  BY <1>1, WFMin
<1>4. ASSUME NEW m \in S
      PROVE  n <= m
  <2>1. n \in Nat /\ m \in Nat /\ ~(m < n)
    BY <1>2, <1>3
  <2>2. QED
    BY <2>1
<1>5. QED
  BY <1>4

LEMMA MinIsMember ==
    ASSUME NEW S \in SUBSET Nat, S # {}
    PROVE  Min(S) \in S /\ \A m \in S : Min(S) <= m
  BY SmallestExists DEF Min

\* What holds of 0, and of each number that follows one it holds of, holds up to n.
LEMMA CountingUp ==
    ASSUME NEW n \in Nat, NEW S, 0 \in S, \A k \in 1..n : k - 1 \in S => k \in S
    PROVE  \A k \in 0..n : k \in S
<1> DEFINE Others == {k \in 0..n : k \notin S}
<1>1. SUFFICES ASSUME Others # {} PROVE FALSE
  OBVIOUS
<1>2. Others \in SUBSET Nat
  OBVIOUS
<1>3. PICK k \in Others : \A m \in Others : k <= m
  BY <1>1, <1>2, SmallestExists
<1>4. k # 0 /\ k \in 1..n /\ k - 1 \in 0..n
  BY <1>3
<1>5. k - 1 \notin Others
  BY <1>3, <1>4
<1>6. QED
  BY <1>3, <1>4, <1>5

LEMMA MaxIsMember ==
    ASSUME NEW n \in Nat, NEW S \in SUBSET (1..n), S # {}
    PROVE  Max(S) \in S /\ \A m \in S : m <= Max(S)
<1> DEFINE T == {n - i : i \in S}
<1>1. T \in SUBSET Nat /\ T # {}
  <2>1. \A i \in S : n - i \in Nat
    OBVIOUS
  <2>2. QED
    BY <2>1
<1>2. PICK t \in T : \A u \in T : t <= u
  BY <1>1, SmallestExists
<1>3. PICK i \in S : t = n - i
  BY <1>2
<1>4. \A j \in S : i >= j
  <2>1. TAKE j \in S
  <2>2. n - j \in T /\ n - i <= n - j
    BY <1>2, <1>3
  <2>3. QED
    BY <2>2
<1>5. QED
  BY <1>4 DEF Max

LEMMA MaxOfPrefix ==
    ASSUME NEW k \in Nat \ {0}
    PROVE  Max(1..k) = k /\ (1..k) \ {k} = 1..(k - 1)
<1>1. 1..k \in SUBSET (1..k) /\ k \in 1..k
  OBVIOUS
<1>2. Max(1..k) \in 1..k /\ k <= Max(1..k)
  BY <1>1, MaxIsMember
<1>3. QED
  BY <1>2

-----------------------------------------------------------------------------
(***************************************************************************)
(* Folds.  FoldLeft is a function of sets of positions that is defined by  *)
(* recursion: it exists, and at the sets 1..k it is the fold of a prefix.  *)
(***************************************************************************)

Folded(h, s, base, step, n) ==
    h = [d \in SUBSET (1..n) |-> IF d = {} THEN base ELSE step[h[d \ {Max(d)}]][s[Max(d)]]]

LEMMA FoldGrows ==
    ASSUME NEW X, NEW T, NEW base \in X, NEW step \in [X -> [T -> X]], NEW s \in Seq(T),
           NEW k \in 1..Len(s),
           NEW h \in [SUBSET (1..(k - 1)) -> X], Folded(h, s, base, step, k - 1)
    PROVE  \E g \in [SUBSET (1..k) -> X] : Folded(g, s, base, step, k)
<1> DEFINE g == [d \in SUBSET (1..k) |-> IF k \in d THEN step[h[d \ {k}]][s[k]] ELSE h[d]]
<1>1. k \in Nat /\ s[k] \in T /\ 1..(k - 1) = (1..k) \ {k}
  BY SMTT(30)
<1>2. ASSUME NEW d \in SUBSET (1..k)
      PROVE  /\ g[d] \in X
             /\ g[d] = IF d = {} THEN base ELSE step[g[d \ {Max(d)}]][s[Max(d)]]
  <2>1. CASE k \in d
    <3>1. d # {} /\ d \ {k} \in SUBSET (1..(k - 1)) /\ d \ {k} \in SUBSET (1..k)
      BY <1>1, <2>1
    <3>2. Max(d) = k
      <4>1. Max(d) \in d /\ \A m \in d : m <= Max(d)
        BY <1>1, <3>1, MaxIsMember
      <4>2. Max(d) \in 1..k /\ k <= Max(d)
        BY <2>1, <4>1
      <4>3. QED
        BY <1>1, <4>2
    <3>3. g[d] = step[h[d \ {k}]][s[k]] /\ g[d \ {k}] = h[d \ {k}]
      BY <2>1, <3>1
    <3>4. h[d \ {k}] \in X
      BY <3>1
    <3> HIDE DEF g
    <3>5. step[h[d \ {k}]] \in [T -> X]
      BY <3>4
    <3>6. step[h[d \ {k}]][s[k]] \in X
      BY <1>1, <3>5
    <3>7. step[g[d \ {Max(d)}]][s[Max(d)]] = g[d]
      BY <3>2, <3>3
    <3>8. QED
      BY <3>1, <3>3, <3>6, <3>7
  <2>2. CASE k \notin d
    <3>1. d \in SUBSET (1..(k - 1))
      BY <1>1, <2>2
    <3>2. g[d] = h[d]
      BY <2>2
    <3>3. h[d] = IF d = {} THEN base ELSE step[h[d \ {Max(d)}]][s[Max(d)]]
      BY <3>1 DEF Folded
    <3>4. k \notin d \ {Max(d)} /\ d \ {Max(d)} \in SUBSET (1..k)
      BY <2>2
    <3>5. g[d \ {Max(d)}] = h[d \ {Max(d)}]
      BY <3>4
    <3>6. QED
      BY <3>1, <3>2, <3>3, <3>5
  <2>3. QED
    BY <2>1, <2>2
<1>3. g \in [SUBSET (1..k) -> X]
  BY <1>2
<1>4. Folded(g, s, base, step, k)
  BY <1>2 DEF Folded
<1>5. QED
  BY <1>3, <1>4

LEMMA FoldExists ==
    ASSUME NEW X, NEW T, NEW base \in X, NEW step \in [X -> [T -> X]], NEW s \in Seq(T)
    PROVE  \E h \in [SUBSET (1..Len(s)) -> X] : Folded(h, s, base, step, Len(s))
<1> DEFINE Sizes == {k \in Nat : \E h \in [SUBSET (1..k) -> X] : Folded(h, s, base, step, k)}
<1>1. 0 \in Sizes
  <2> DEFINE h == [d \in SUBSET (1..0) |-> base]
  <2>1. h \in [SUBSET (1..0) -> X] /\ \A d \in SUBSET (1..0) : d = {}
    OBVIOUS
  <2>2. Folded(h, s, base, step, 0)
    BY <2>1 DEF Folded
  <2>3. QED
    BY <2>1, <2>2
<1>2. \A k \in 1..Len(s) : k - 1 \in Sizes => k \in Sizes
  <2>1. SUFFICES ASSUME NEW k \in 1..Len(s), k - 1 \in Sizes
                 PROVE  k \in Sizes
    OBVIOUS
  <2>2. PICK h \in [SUBSET (1..(k - 1)) -> X] : Folded(h, s, base, step, k - 1)
    BY <2>1
  <2>3. \E g \in [SUBSET (1..k) -> X] : Folded(g, s, base, step, k)
    BY <2>2, FoldGrows
  <2>4. QED
    BY <2>3
<1>3. Len(s) \in Nat /\ Len(s) \in 0..Len(s)
  OBVIOUS
<1> HIDE DEF Sizes
<1>4. Len(s) \in Sizes
  <2>1. \A k \in 0..Len(s) : k \in Sizes
    BY <1>1, <1>2, <1>3, CountingUp
  <2>2. QED
    BY <1>3, <2>1
<1>5. QED
  BY <1>4 DEF Sizes

\* A fold, from its values at the prefixes of the sequence.
PrefixValues(g, X, s, base, result) ==
    /\ g \in [0..Len(s) -> X]
    /\ g[0] = base
    /\ g[Len(s)] = result

\* The values at the prefixes have the type they are given, one after the other.
LEMMA PrefixTypes ==
    ASSUME NEW X, NEW n \in Nat, NEW h, h[{}] \in X,
           \A k \in 1..n : h[1..(k - 1)] \in X => h[1..k] \in X
    PROVE  \A k \in 0..n : h[1..k] \in X
<1> DEFINE Good == {k \in Nat : h[1..k] \in X}
<1>1. 0 \in Good
  <2>1. 1..0 = {}
    OBVIOUS
  <2>2. QED
    BY <2>1
<1>2. \A k \in 1..n : k - 1 \in Good => k \in Good
  OBVIOUS
<1> HIDE DEF Good
<1>3. \A k \in 0..n : k \in Good
  BY <1>1, <1>2, CountingUp
<1>4. QED
  BY <1>3 DEF Good

\* Two folds that start alike and go on alike are alike.
LEMMA PrefixesAgree ==
    ASSUME NEW n \in Nat, NEW f, NEW g, f[0] = g[0],
           \A k \in 1..n : f[k - 1] = g[k - 1] => f[k] = g[k]
    PROVE  \A k \in 0..n : f[k] = g[k]
<1> DEFINE Same == {k \in Nat : f[k] = g[k]}
<1>1. 0 \in Same /\ \A k \in 1..n : k - 1 \in Same => k \in Same
  OBVIOUS
<1> HIDE DEF Same
<1>2. \A k \in 0..n : k \in Same
  BY <1>1, CountingUp
<1>3. QED
  BY <1>2 DEF Same

-----------------------------------------------------------------------------
(***************************************************************************)
(* SplitAt, by the last token of the text.                                 *)
(***************************************************************************)

Pieces(T) == Seq(Seq(T)) \ {<< >>}

Split(done, t, sep) ==
    IF t = sep THEN Append(done, << >>) ELSE [done EXCEPT ![Len(done)] = Append(@, t)]

LEMMA SplitType ==
    ASSUME NEW T, NEW sep, NEW done \in Pieces(T), NEW t \in T
    PROVE  Split(done, t, sep) \in Pieces(T)
<1>1. done \in Seq(Seq(T)) /\ Len(done) \in Nat /\ Len(done) \in 1..Len(done)
  BY EmptySeq DEF Pieces
<1>2. Append(done[Len(done)], t) \in Seq(T)
  BY <1>1
<1>3. CASE t = sep
  <2>1. << >> \in Seq(T)
    OBVIOUS
  <2>2. Append(done, << >>) \in Seq(Seq(T)) /\ Len(Append(done, << >>)) = Len(done) + 1
    BY <1>1, <2>1, AppendProperties
  <2>3. QED
    BY <1>1, <1>3, <2>2 DEF Pieces, Split
<1>4. CASE t # sep
  <2> DEFINE changed == [done EXCEPT ![Len(done)] = Append(@, t)]
  <2>1. changed \in Seq(Seq(T)) /\ Len(changed) = Len(done)
    BY <1>1, <1>2, ExceptSeq
  <2>2. QED
    BY <1>1, <1>4, <2>1 DEF Pieces, Split
<1>5. QED
  BY <1>3, <1>4

LEMMA SplitAtSteps ==
    ASSUME NEW T, NEW sep, NEW s \in Seq(T)
    PROVE  \E g : /\ PrefixValues(g, Pieces(T), s, << << >> >>, SplitAt(s, sep))
                  /\ \A k \in 1..Len(s) : g[k] = Split(g[k - 1], s[k], sep)
<1> DEFINE X == Pieces(T)
           base == << << >> >>
           Step(done, t) == Split(done, t, sep)
           step == [done \in X |-> [t \in T |-> Step(done, t)]]
           n == Len(s)
           Is(h) == h = [d \in SUBSET (DOMAIN s) |-> IF d = {} THEN << << >> >> ELSE
                           (LET done == h[d \ {Max(d)}]
                                t == s[Max(d)]
                            IN  IF t = sep THEN Append(done, << >>)
                                ELSE [done EXCEPT ![Len(done)] = Append(@, t)])]
           h == CHOOSE h : Is(h)
<1>1. n \in Nat /\ DOMAIN s = 1..n
  OBVIOUS
<1>2. base \in X
  <2>1. << >> \in Seq(T)
    OBVIOUS
  <2>2. << << >> >> \in Seq(Seq(T))
    BY <2>1
  <2>3. QED
    BY <2>2 DEF Pieces
<1>3. \A done \in X, t \in T : Step(done, t) \in X
  BY SplitType
<1>4. /\ step \in [X -> [T -> X]]
      /\ \A done \in X, t \in T : step[done][t] = Split(done, t, sep)
  BY <1>3
<1>5. SplitAt(s, sep) = h[DOMAIN s]
  BY DEF SplitAt, FoldLeft, MapThenFoldSet
<1>6. \E f \in [SUBSET (1..n) -> X] : Folded(f, s, base, step, n)
  BY <1>2, <1>4, FoldExists
<1>7. \E f : Is(f)
  <2>1. PICK f \in [SUBSET (1..n) -> X] : Folded(f, s, base, step, n)
    BY <1>6
  <2>2. ASSUME NEW d \in SUBSET (1..n), d # {}
        PROVE  step[f[d \ {Max(d)}]][s[Max(d)]] = Split(f[d \ {Max(d)}], s[Max(d)], sep)
    <3>1. Max(d) \in 1..n
      BY <1>1, <2>2, MaxIsMember
    <3>2. s[Max(d)] \in T
      BY <3>1, ElementOfSeq
    <3>3. f[d \ {Max(d)}] \in X
      <4>1. d \ {Max(d)} \in SUBSET (1..n)
        BY <2>2
      <4> HIDE DEF X, n
      <4>2. QED
        BY <2>1, <4>1
    <3>4. QED
      BY <1>4, <3>2, <3>3
  <2>3. f = [d \in SUBSET (1..n) |-> IF d = {} THEN base ELSE Split(f[d \ {Max(d)}], s[Max(d)], sep)]
    BY <2>1, <2>2 DEF Folded
  <2>4. Is(f)
    BY <1>1, <2>3 DEF Split
  <2>5. QED
    BY <2>4
<1>8. Is(h)
  BY <1>7
<1>9. h = [d \in SUBSET (1..n) |-> IF d = {} THEN base ELSE Split(h[d \ {Max(d)}], s[Max(d)], sep)]
  BY <1>1, <1>8 DEF Split
<1> HIDE DEF h, step, Is
<1>10. h[{}] = base
  BY <1>9
<1>11. ASSUME NEW k \in 1..n
       PROVE  h[1..k] = Split(h[1..(k - 1)], s[k], sep)
  <2>1. 1..k \in SUBSET (1..n) /\ 1..k # {} /\ k \in Nat \ {0}
    BY <1>1
  <2>2. Max(1..k) = k /\ (1..k) \ {k} = 1..(k - 1)
    BY <2>1, MaxOfPrefix
  <2>3. QED
    BY <1>9, <2>1, <2>2
<1>12. \A k \in 0..n : h[1..k] \in X
  <2>1. \A k \in 1..n : h[1..(k - 1)] \in X => h[1..k] \in X
    BY <1>3, <1>11
  <2>2. QED
    BY <1>1, <1>2, <1>10, <2>1, PrefixTypes
<1> DEFINE g == [k \in 0..n |-> h[1..k]]
<1>13. g \in [0..n -> X] /\ g[0] = base /\ g[n] = SplitAt(s, sep)
  <2>1. 1..0 = {}
    OBVIOUS
  <2>2. QED
    BY <1>1, <1>5, <1>10, <1>12, <2>1
<1>14. \A k \in 1..n : g[k] = Split(g[k - 1], s[k], sep)
  BY <1>1, <1>11
<1>15. QED
  BY <1>13, <1>14 DEF PrefixValues

LEMMA SplitAtType ==
    ASSUME NEW T, NEW sep, NEW s \in Seq(T)
    PROVE  SplitAt(s, sep) \in Pieces(T)
<1>1. PICK g : PrefixValues(g, Pieces(T), s, << << >> >>, SplitAt(s, sep))
  BY SplitAtSteps
<1>2. Len(s) \in 0..Len(s)
  OBVIOUS
<1>3. QED
  BY <1>1, <1>2 DEF PrefixValues

LEMMA SplitAtNothing ==
    ASSUME NEW sep
    PROVE  SplitAt(<< >>, sep) = << << >> >>
<1>1. << >> \in Seq({}) /\ Len(<< >>) = 0
  OBVIOUS
<1>2. PICK g : PrefixValues(g, Pieces({}), << >>, << << >> >>, SplitAt(<< >>, sep))
  BY <1>1, SplitAtSteps
<1>3. QED
  BY <1>1, <1>2 DEF PrefixValues

LEMMA SplitAtAppend ==
    ASSUME NEW T, NEW sep, NEW s \in Seq(T), NEW t \in T
    PROVE  SplitAt(Append(s, t), sep) = Split(SplitAt(s, sep), t, sep)
<1> DEFINE r == Append(s, t)
<1>1. /\ Len(s) \in Nat /\ r \in Seq(T) /\ Len(r) = Len(s) + 1
      /\ r[Len(s) + 1] = t /\ \A i \in 1..Len(s) : r[i] = s[i]
  BY AppendProperties
<1>2. PICK f : /\ PrefixValues(f, Pieces(T), s, << << >> >>, SplitAt(s, sep))
               /\ \A k \in 1..Len(s) : f[k] = Split(f[k - 1], s[k], sep)
  BY SplitAtSteps
<1> HIDE DEF r
<1>3. PICK g : /\ PrefixValues(g, Pieces(T), r, << << >> >>, SplitAt(r, sep))
               /\ \A k \in 1..Len(r) : g[k] = Split(g[k - 1], r[k], sep)
  BY <1>1, SplitAtSteps
<1>4. f[0] = g[0]
  BY <1>2, <1>3 DEF PrefixValues
<1>5. \A k \in 1..Len(s) : f[k - 1] = g[k - 1] => f[k] = g[k]
  BY <1>1, <1>2, <1>3
<1>6. \A k \in 0..Len(s) : f[k] = g[k]
  BY <1>1, <1>4, <1>5, PrefixesAgree, ZenonT(30)
<1>7. g[Len(s)] = SplitAt(s, sep)
  BY <1>1, <1>2, <1>6 DEF PrefixValues
<1>8. g[Len(s) + 1] = Split(g[Len(s)], t, sep)
  BY <1>1, <1>3
<1>9. QED
  BY <1>1, <1>3, <1>7, <1>8 DEF PrefixValues, r

\* Texts or pieces behind one another, under a name the provers do not look into.
Then(a, b) == a \o b

LEMMA ThenAssociative ==
    ASSUME NEW T, NEW a \in Seq(T), NEW b \in Seq(T), NEW c \in Seq(T)
    PROVE  Then(Then(a, b), c) = Then(a, Then(b, c))
  BY ConcatAssociative DEF Then

LEMMA SeqOfMore ==
    ASSUME NEW S, NEW T, \A x \in S : x \in T, NEW s \in Seq(S)
    PROVE  s \in Seq(T)
  OBVIOUS

\* What is split does not depend on what was split before it.
LEMMA SplitBehind ==
    ASSUME NEW T, NEW sep, NEW a \in Seq(Seq(T)), NEW b \in Pieces(T), NEW t \in T
    PROVE  Split(Then(a, b), t, sep) = Then(a, Split(b, t, sep))
<1>1. /\ b \in Seq(Seq(T)) /\ Len(b) \in Nat /\ Len(b) \in 1..Len(b) /\ Len(a) \in Nat
      /\ << >> \in Seq(T)
  BY EmptySeq DEF Pieces
<1>2. /\ a \o b \in Seq(Seq(T)) /\ Len(a \o b) = Len(a) + Len(b)
      /\ \A i \in 1..(Len(a) + Len(b)) :
             (a \o b)[i] = IF i <= Len(a) THEN a[i] ELSE b[i - Len(a)]
  BY <1>1, ConcatProperties
<1>3. CASE t = sep
  <2>1. Append(a \o b, << >>) = (a \o b) \o << << >> >>
    BY <1>1, <1>2
  <2>2. Append(b, << >>) = b \o << << >> >>
    BY <1>1
  <2>3. << << >> >> \in Seq(Seq(T))
    BY <1>1
  <2>4. (a \o b) \o << << >> >> = a \o (b \o << << >> >>)
    BY <1>1, <2>3, ConcatAssociative
  <2>5. QED
    BY <1>3, <2>1, <2>2, <2>4 DEF Split, Then
<1>4. CASE t # sep
  <2> DEFINE w == Append(b[Len(b)], t)
             left == [a \o b EXCEPT ![Len(a \o b)] = w]
             right == [b EXCEPT ![Len(b)] = w]
  <2>1. w \in Seq(T) /\ (a \o b)[Len(a \o b)] = b[Len(b)]
    BY <1>1, <1>2
  <2>2. Len(a \o b) \in 1..Len(a \o b)
    BY <1>1, <1>2
  <2>3. /\ left \in Seq(Seq(T)) /\ Len(left) = Len(a) + Len(b)
        /\ \A i \in 1..(Len(a) + Len(b)) :
               left[i] = IF i = Len(a) + Len(b) THEN w ELSE (a \o b)[i]
    <3> DEFINE u == a \o b
    <3>1. u \in Seq(Seq(T)) /\ Len(u) \in 1..Len(u) /\ Len(u) = Len(a) + Len(b)
      BY <1>2, <2>2
    <3> HIDE DEF w, u
    <3>2. /\ [u EXCEPT ![Len(u)] = w] \in Seq(Seq(T))
          /\ Len([u EXCEPT ![Len(u)] = w]) = Len(u)
          /\ \A i \in 1..Len(u) : [u EXCEPT ![Len(u)] = w][i] = IF i = Len(u) THEN w ELSE u[i]
      BY <2>1, <3>1, ExceptSeq
    <3>3. QED
      BY <3>1, <3>2 DEF u
  <2>4. /\ right \in Seq(Seq(T)) /\ Len(right) = Len(b)
        /\ \A i \in 1..Len(b) : right[i] = IF i = Len(b) THEN w ELSE b[i]
    <3> HIDE DEF w
    <3>1. QED
      BY <1>1, <2>1, ExceptSeq
  <2>5. Split(a \o b, t, sep) = left /\ Split(b, t, sep) = right
    BY <1>4, <2>1 DEF Split
  <2> HIDE DEF w, left, right
  <2>6. /\ a \o right \in Seq(Seq(T)) /\ Len(a \o right) = Len(a) + Len(b)
        /\ \A i \in 1..(Len(a) + Len(b)) :
               (a \o right)[i] = IF i <= Len(a) THEN a[i] ELSE right[i - Len(a)]
    <3>1. /\ a \o right \in Seq(Seq(T)) /\ Len(a \o right) = Len(a) + Len(right)
          /\ \A i \in 1..(Len(a) + Len(right)) :
                 (a \o right)[i] = IF i <= Len(a) THEN a[i] ELSE right[i - Len(a)]
      BY <2>4, ConcatProperties
    <3>2. QED
      BY <2>4, <3>1
  <2>7. \A i \in 1..(Len(a) + Len(b)) : left[i] = (a \o right)[i]
    <3>1. TAKE i \in 1..(Len(a) + Len(b))
    <3>2. CASE i <= Len(a)
      BY <1>1, <1>2, <2>3, <2>6, <3>2
    <3>3. CASE ~(i <= Len(a))
      <4>1. i - Len(a) \in 1..Len(b) /\ (i - Len(a) = Len(b) <=> i = Len(a) + Len(b))
        BY <1>1, <3>3
      <4>2. QED
        BY <1>1, <1>2, <2>3, <2>4, <2>6, <3>3, <4>1
    <3>4. QED
      BY <3>2, <3>3
  <2>8. left = a \o right
    BY <2>3, <2>6, <2>7, SeqEqual
  <2>9. QED
    BY <2>5, <2>8 DEF Then
<1>5. QED
  BY <1>3, <1>4

\* The first k tokens, one after the other.
LEMMA Fronts ==
    ASSUME NEW T, NEW s \in Seq(T)
    PROVE  /\ SubSeq(s, 1, 0) = << >> /\ SubSeq(s, 1, Len(s)) = s
           /\ \A k \in 1..Len(s) :
                  /\ SubSeq(s, 1, k - 1) \in Seq(T) /\ s[k] \in T
                  /\ SubSeq(s, 1, k) = Append(SubSeq(s, 1, k - 1), s[k])
<1>1. SubSeq(s, 1, 0) = << >>
  BY SubSeqEmpty
<1>2. SubSeq(s, 1, Len(s)) = s
  BY SubSeqFull
<1>3. ASSUME NEW k \in 1..Len(s)
      PROVE  /\ SubSeq(s, 1, k - 1) \in Seq(T) /\ s[k] \in T
             /\ SubSeq(s, 1, k) = Append(SubSeq(s, 1, k - 1), s[k])
  <2>1. /\ s[k] \in T /\ 1 \in 1..Len(s) /\ k \in 1..Len(s) /\ k - 1 \in Int
        /\ \A i \in 1..(k - 1) : s[i] \in T
    OBVIOUS
  <2>2. SubSeq(s, 1, k - 1) \in Seq(T)
    BY <2>1, SubSeqProperties
  <2>3. SubSeq(s, 1, k) = SubSeq(s, 1, k - 1) \o <<s[k]>>
    BY <2>1, SubSeqRecursiveSecond
  <2>4. QED
    BY <2>1, <2>2, <2>3, AppendIsConcat
<1>4. QED
  BY <1>1, <1>2, <1>3

\* A separator ends a piece.
LEMMA SplitAtSeparator ==
    ASSUME NEW T, NEW sep \in T, NEW s \in Seq(T), NEW x \in Seq(T)
    PROVE  SplitAt(Then(Append(s, sep), x), sep) = Then(SplitAt(s, sep), SplitAt(x, sep))
<1> DEFINE a == SplitAt(s, sep)
           r == Append(s, sep)
           x_(k) == SubSeq(x, 1, k)
           Done == {k \in Nat : SplitAt(Then(r, x_(k)), sep) = Then(a, SplitAt(x_(k), sep))}
<1>1. r \in Seq(T) /\ a \in Pieces(T) /\ a \in Seq(Seq(T)) /\ Len(x) \in Nat
  BY SplitAtType DEF Pieces
<1>2. 0 \in Done
  <2>1. x_(0) = << >> /\ Then(r, << >>) = r
    BY <1>1, Fronts DEF Then
  <2>2. SplitAt(r, sep) = Append(a, << >>)
    BY SplitAtAppend DEF Split
  <2>3. Append(a, << >>) = Then(a, << << >> >>)
    <3>1. << >> \in Seq(T)
      OBVIOUS
    <3>2. QED
      BY <1>1, <3>1 DEF Then
  <2> HIDE DEF a, r
  <2>4. SplitAt(Then(r, x_(0)), sep) = Then(a, SplitAt(x_(0), sep))
    BY <2>1, <2>2, <2>3, SplitAtNothing
  <2>5. QED
    BY <2>4
<1>3. ASSUME NEW k \in 1..Len(x), k - 1 \in Done
      PROVE  k \in Done
  <2>1. /\ x_(k - 1) \in Seq(T) /\ x[k] \in T /\ x_(k) = Append(x_(k - 1), x[k])
    BY Fronts
  <2>2. Then(r, x_(k)) = Append(Then(r, x_(k - 1)), x[k]) /\ Then(r, x_(k - 1)) \in Seq(T)
    <3> HIDE DEF x_, r
    <3>1. QED
      BY <1>1, <2>1 DEF Then
  <2>3. SplitAt(Then(r, x_(k - 1)), sep) = Then(a, SplitAt(x_(k - 1), sep))
    BY <1>3
  <2> HIDE DEF x_, a, r, Done
  <2>4. SplitAt(Then(r, x_(k)), sep) = Split(Then(a, SplitAt(x_(k - 1), sep)), x[k], sep)
    BY <2>1, <2>2, <2>3, SplitAtAppend
  <2>5. SplitAt(x_(k - 1), sep) \in Pieces(T)
    BY <2>1, SplitAtType
  <2>6. Split(Then(a, SplitAt(x_(k - 1), sep)), x[k], sep)
          = Then(a, Split(SplitAt(x_(k - 1), sep), x[k], sep))
    BY <1>1, <2>1, <2>5, SplitBehind
  <2>7. SplitAt(x_(k), sep) = Split(SplitAt(x_(k - 1), sep), x[k], sep)
    BY <2>1, SplitAtAppend
  <2>8. SplitAt(Then(r, x_(k)), sep) = Then(a, SplitAt(x_(k), sep)) /\ k \in Nat
    BY <2>4, <2>6, <2>7
  <2>9. QED
    BY <2>8 DEF Done
<1>4. x_(Len(x)) = x
  BY Fronts
<1> HIDE DEF Done
<1>5. Len(x) \in Done
  <2>1. \A k \in 0..Len(x) : k \in Done
    BY <1>1, <1>2, <1>3, CountingUp
  <2>2. QED
    BY <1>1, <2>1
<1>6. QED
  BY <1>4, <1>5 DEF Done

\* A text without separators is one piece.
LEMMA SplitAtNowhere ==
    ASSUME NEW T, NEW sep, NEW x \in Seq(T), \A i \in 1..Len(x) : x[i] # sep
    PROVE  SplitAt(x, sep) = <<x>>
<1> DEFINE x_(k) == SubSeq(x, 1, k)
           Done == {k \in Nat : SplitAt(x_(k), sep) = <<x_(k)>>}
<1>1. 0 \in Done
  BY Fronts, SplitAtNothing
<1>2. ASSUME NEW k \in 1..Len(x), k - 1 \in Done
      PROVE  k \in Done
  <2>1. x_(k - 1) \in Seq(T) /\ x[k] \in T /\ x_(k) = Append(x_(k - 1), x[k])
    BY Fronts
  <2>2. SplitAt(x_(k - 1), sep) = <<x_(k - 1)>> /\ x[k] # sep /\ k \in Nat
    BY <1>2
  <2> HIDE DEF x_
  <2>3. SplitAt(x_(k), sep) = Split(<<x_(k - 1)>>, x[k], sep)
    BY <2>1, <2>2, SplitAtAppend
  <2>4. Split(<<x_(k - 1)>>, x[k], sep) = <<Append(x_(k - 1), x[k])>>
    BY <2>2 DEF Split
  <2>5. QED
    BY <2>1, <2>2, <2>3, <2>4
<1>3. x_(Len(x)) = x /\ Len(x) \in Nat
  BY Fronts
<1> HIDE DEF Done
<1>4. Len(x) \in Done
  <2>1. \A k \in 0..Len(x) : k \in Done
    BY <1>1, <1>2, <1>3, CountingUp
  <2>2. QED
    BY <1>3, <2>1
<1>5. QED
  BY <1>3, <1>4 DEF Done

-----------------------------------------------------------------------------
(***************************************************************************)
(* FlattenSeq and Joined, by their last item.                              *)
(***************************************************************************)

\* A fold by a function, from its values at the prefixes.
Steps(g, X, s, base, step) ==
    /\ g \in [0..Len(s) -> X]
    /\ g[0] = base
    /\ \A k \in 1..Len(s) : g[k] = step[g[k - 1]][s[k]]

LEMMA StepsExist ==
    ASSUME NEW X, NEW T, NEW base \in X, NEW step \in [X -> [T -> X]], NEW s \in Seq(T)
    PROVE  \E g : Steps(g, X, s, base, step)
<1> DEFINE n == Len(s)
<1>1. n \in Nat
  OBVIOUS
<1>2. PICK h \in [SUBSET (1..n) -> X] : Folded(h, s, base, step, n)
  BY FoldExists
<1> DEFINE g == [k \in 0..n |-> h[1..k]]
<1> HIDE DEF n
<1>3. g \in [0..n -> X]
  <2>1. \A k \in 0..n : 1..k \in SUBSET (1..n)
    BY <1>1
  <2>2. QED
    BY <1>2, <2>1
<1>4. g[0] = base
  <2>1. 1..0 = {} /\ 0 \in 0..n
    BY <1>1
  <2>2. h[{}] = base
    BY <1>2 DEF Folded
  <2>3. QED
    BY <2>1, <2>2
<1>5. ASSUME NEW k \in 1..n
      PROVE  g[k] = step[g[k - 1]][s[k]]
  <2>1. 1..k \in SUBSET (1..n) /\ 1..k # {} /\ k \in Nat \ {0}
    <3>1. k \in Nat \ {0} /\ k <= n
      BY <1>1
    <3>2. \A i \in 1..k : i \in 1..n
      BY <1>1, <3>1
    <3>3. k \in 1..k
      BY <3>1
    <3>4. QED
      BY <3>1, <3>2, <3>3
  <2>2. Max(1..k) = k /\ (1..k) \ {k} = 1..(k - 1)
    BY <2>1, MaxOfPrefix
  <2>3. h[1..k] = step[h[1..(k - 1)]][s[k]]
    BY <1>2, <2>1, <2>2, ZenonT(30) DEF Folded
  <2>4. k \in 0..n /\ k - 1 \in 0..n
    BY <1>1
  <2>5. QED
    BY <2>3, <2>4
<1>6. Steps(g, X, s, base, step)
  BY <1>3, <1>4, <1>5 DEF n, Steps
<1>7. QED
  BY <1>6

LEMMA FlattenSteps ==
    ASSUME NEW T, NEW seqs \in Seq(Seq(T))
    PROVE  \E g : /\ PrefixValues(g, Seq(T), seqs, << >>, FlattenSeq(seqs))
                  /\ \A k \in 1..Len(seqs) : g[k] = Then(g[k - 1], seqs[k])
<1> DEFINE X == Seq(T)
           n == Len(seqs)
           step == [a \in X |-> [b \in X |-> Then(a, b)]]
<1>1. n \in Nat /\ << >> \in X
  OBVIOUS
<1>2. \A a \in X, b \in X : Then(a, b) \in X
  BY ConcatProperties DEF Then
<1>3. step \in [X -> [X -> X]] /\ \A a \in X, b \in X : step[a][b] = Then(a, b)
  BY <1>2
<1>4. PICK g : Steps(g, X, seqs, << >>, step)
  <2> DEFINE base == << >>
  <2>1. base \in X /\ step \in [X -> [X -> X]] /\ seqs \in Seq(X)
    BY <1>1, <1>3
  <2> HIDE DEF base, step, X
  <2>2. \E g : Steps(g, X, seqs, base, step)
    BY <2>1, StepsExist
  <2>3. QED
    BY <2>2 DEF base
<1>5. /\ g \in [0..n -> X] /\ g[0] = << >>
      /\ \A k \in 1..n : g[k] = step[g[k - 1]][seqs[k]]
  BY <1>4 DEF Steps
<1>6. ASSUME NEW k \in 1..n
      PROVE  g[k] = Then(g[k - 1], seqs[k]) /\ g[k] \in X
  <2>1. seqs[k] \in X
    BY ElementOfSeq
  <2>2. k \in 0..n /\ k - 1 \in 0..n
    BY <1>1
  <2> HIDE DEF step, X, n
  <2>3. g[k - 1] \in X /\ g[k] \in X
    BY <1>5, <2>2
  <2>4. QED
    BY <1>3, <1>5, <2>1, <2>3
<1>7. FlattenSeq(seqs) = g[n]
  <2>1. CASE n = 0
    <3>1. seqs = << >>
      BY <2>1
    <3>2. QED
      BY <1>5, <2>1, <3>1 DEF FlattenSeq
  <2>2. CASE n # 0
    <3> DEFINE Is(f) == f = [i \in 1..Len(seqs) |-> IF i = 1 THEN seqs[i] ELSE f[i - 1] \o seqs[i]]
               f == CHOOSE f : Is(f)
               h == [i \in 1..n |-> g[i]]
    <3>1. FlattenSeq(seqs) = f[n]
      BY <2>2 DEF FlattenSeq
    <3>2. Is(h)
      <4>1. ASSUME NEW i \in 1..n
            PROVE  h[i] = IF i = 1 THEN seqs[i] ELSE h[i - 1] \o seqs[i]
        <5>1. CASE i = 1
          <6>1. g[1] = Then(<< >>, seqs[1]) /\ seqs[1] \in X
            BY <1>5, <1>6, <5>1, ElementOfSeq
          <6>2. QED
            BY <5>1, <6>1, ConcatEmptySeq DEF Then
        <5>2. CASE i # 1
          <6>1. i - 1 \in 1..n
            BY <1>1, <5>2
          <6>2. QED
            BY <1>6, <5>2, <6>1 DEF Then
        <5>3. QED
          BY <5>1, <5>2
      <4>2. QED
        BY <4>1
    <3>3. Is(f)
      BY <3>2
    <3> HIDE DEF f
    <3> DEFINE Same == {k \in Nat : k # 0 => f[k] = g[k]}
    <3>4. 0 \in Same
      OBVIOUS
    <3>5. ASSUME NEW k \in 1..n, k - 1 \in Same
          PROVE  k \in Same
      <4>1. f[k] = IF k = 1 THEN seqs[k] ELSE f[k - 1] \o seqs[k]
        BY <3>3
      <4>2. CASE k = 1
        BY <3>2, <4>1, <4>2
      <4>3. CASE k # 1
        <5>1. f[k - 1] = g[k - 1] /\ k \in Nat
          BY <1>1, <3>5, <4>3
        <5>2. g[k] = g[k - 1] \o seqs[k]
          BY <1>6 DEF Then
        <5>3. f[k] = g[k]
          BY <4>1, <4>3, <5>1, <5>2
        <5>4. QED
          BY <5>1, <5>3
      <4>4. QED
        BY <4>2, <4>3
    <3> HIDE DEF Same
    <3>6. \A k \in 0..n : k \in Same
      BY <1>1, <3>4, <3>5, CountingUp
    <3>7. n \in 0..n
      BY <1>1
    <3>8. QED
      BY <2>2, <3>1, <3>6, <3>7 DEF Same
  <2>3. QED
    BY <2>1, <2>2
<1>8. QED
  BY <1>5, <1>6, <1>7 DEF PrefixValues

LEMMA FlattenType ==
    ASSUME NEW T, NEW seqs \in Seq(Seq(T))
    PROVE  FlattenSeq(seqs) \in Seq(T)
<1>1. PICK g : PrefixValues(g, Seq(T), seqs, << >>, FlattenSeq(seqs))
  BY FlattenSteps
<1>2. Len(seqs) \in 0..Len(seqs)
  OBVIOUS
<1>3. QED
  BY <1>1, <1>2 DEF PrefixValues

LEMMA FlattenNothing == FlattenSeq(<< >>) = << >>
  BY DEF FlattenSeq

LEMMA FlattenAppend ==
    ASSUME NEW T, NEW seqs \in Seq(Seq(T)), NEW a \in Seq(T)
    PROVE  FlattenSeq(Append(seqs, a)) = Then(FlattenSeq(seqs), a)
<1> DEFINE r == Append(seqs, a)
<1>1. /\ Len(seqs) \in Nat /\ r \in Seq(Seq(T)) /\ Len(r) = Len(seqs) + 1
      /\ r[Len(seqs) + 1] = a /\ \A i \in 1..Len(seqs) : r[i] = seqs[i]
  BY AppendProperties
<1>2. PICK f : /\ PrefixValues(f, Seq(T), seqs, << >>, FlattenSeq(seqs))
               /\ \A k \in 1..Len(seqs) : f[k] = Then(f[k - 1], seqs[k])
  BY FlattenSteps
<1> HIDE DEF r
<1>3. PICK g : /\ PrefixValues(g, Seq(T), r, << >>, FlattenSeq(r))
               /\ \A k \in 1..Len(r) : g[k] = Then(g[k - 1], r[k])
  BY <1>1, FlattenSteps
<1>4. f[0] = g[0]
  BY <1>2, <1>3 DEF PrefixValues
<1>5. \A k \in 1..Len(seqs) : f[k - 1] = g[k - 1] => f[k] = g[k]
  BY <1>1, <1>2, <1>3
<1>6. \A k \in 0..Len(seqs) : f[k] = g[k]
  BY <1>1, <1>4, <1>5, PrefixesAgree, ZenonT(30)
<1>7. g[Len(seqs)] = FlattenSeq(seqs)
  BY <1>1, <1>2, <1>6 DEF PrefixValues
<1>8. g[Len(seqs) + 1] = Then(g[Len(seqs)], a)
  BY <1>1, <1>3
<1>9. QED
  BY <1>1, <1>3, <1>7, <1>8 DEF PrefixValues, r

\* The texts of the first item, of the first two, and so on.
Joins(g, T, items, sep) ==
    /\ PrefixValues(g, Seq(T), Tail(items), Head(items), Joined(items, sep))
    /\ \A k \in 1..Len(Tail(items)) : g[k] = Then(Then(g[k - 1], sep), Tail(items)[k])

LEMMA JoinedSteps ==
    ASSUME NEW T, NEW sep \in Seq(T), NEW items \in Pieces(T)
    PROVE  \E g : Joins(g, T, items, sep)
<1> DEFINE X == Seq(T)
           s == Tail(items)
           base == Head(items)
           n == Len(s)
           Step(text, item) == Then(Then(text, sep), item)
           step == [text \in X |-> [item \in X |-> Step(text, item)]]
           Is(h) == h = [d \in SUBSET (DOMAIN s) |-> IF d = {} THEN base ELSE
                           h[d \ {Max(d)}] \o sep \o s[Max(d)]]
           h == CHOOSE h : Is(h)
<1>1. s \in Seq(X) /\ base \in X /\ n \in Nat /\ DOMAIN s = 1..n
  <2>1. items \in Seq(X) /\ items # << >>
    BY DEF Pieces
  <2>2. s \in Seq(X) /\ base \in X
    BY <2>1, HeadTailProperties
  <2> HIDE DEF s
  <2>3. QED
    BY <2>2, LenProperties
<1>2. \A text \in X, item \in X : Step(text, item) \in X
  BY ConcatProperties DEF Then
<1>3. /\ step \in [X -> [X -> X]]
      /\ \A text \in X, item \in X : step[text][item] = Step(text, item)
  BY <1>2
<1>4. Joined(items, sep) = h[DOMAIN s]
  BY DEF Joined, FoldLeft, MapThenFoldSet
<1> HIDE DEF s, base
<1>5. PICK f \in [SUBSET (1..n) -> X] : Folded(f, s, base, step, n)
  <2> HIDE DEF step, X
  <2>1. QED
    BY <1>1, <1>3, FoldExists
<1>6. ASSUME NEW d \in SUBSET (1..n), d # {}
      PROVE  step[f[d \ {Max(d)}]][s[Max(d)]] = Step(f[d \ {Max(d)}], s[Max(d)])
  <2>1. Max(d) \in 1..n
    BY <1>1, <1>6, MaxIsMember
  <2>2. s[Max(d)] \in X
    BY <1>1, <2>1, ElementOfSeq
  <2>3. f[d \ {Max(d)}] \in X
    <3>1. d \ {Max(d)} \in SUBSET (1..n)
      BY <1>6
    <3> HIDE DEF X, n
    <3>2. QED
      BY <1>5, <3>1
  <2> HIDE DEF X, step
  <2>4. QED
    BY <1>3, <2>2, <2>3
<1>7. Is(f)
  <2>1. f = [d \in SUBSET (1..n) |-> IF d = {} THEN base ELSE Step(f[d \ {Max(d)}], s[Max(d)])]
    BY <1>5, <1>6 DEF Folded
  <2>2. QED
    BY <1>1, <2>1 DEF Then
<1>8. Is(h)
  BY <1>7
<1>9. h = [d \in SUBSET (1..n) |-> IF d = {} THEN base ELSE Step(h[d \ {Max(d)}], s[Max(d)])]
  BY <1>1, <1>8 DEF Then
<1> HIDE DEF h, step, Is, n
<1>10. h[{}] = base
  BY <1>9
<1>11. ASSUME NEW k \in 1..n
       PROVE  h[1..k] = Step(h[1..(k - 1)], s[k])
  <2>1. k \in Nat \ {0} /\ 1..k \in SUBSET (1..n) /\ k \in 1..k
    BY <1>1
  <2>2. Max(1..k) = k /\ (1..k) \ {k} = 1..(k - 1)
    BY <2>1, MaxOfPrefix
  <2>3. QED
    BY <1>9, <2>1, <2>2
<1>12. \A k \in 0..n : h[1..k] \in X
  <2>1. \A k \in 1..n : h[1..(k - 1)] \in X => h[1..k] \in X
    <3>1. \A k \in 1..n : s[k] \in X
      BY <1>1, ElementOfSeq DEF n
    <3> HIDE DEF X, Step
    <3>2. QED
      BY <1>2, <1>11, <3>1
  <2>2. QED
    BY <1>1, <1>10, <2>1, PrefixTypes
<1> DEFINE g == [k \in 0..n |-> h[1..k]]
<1>13. g \in [0..n -> X] /\ g[0] = base /\ g[n] = Joined(items, sep)
  <2>1. 1..0 = {}
    OBVIOUS
  <2>2. QED
    BY <1>1, <1>4, <1>10, <1>12, <2>1
<1>14. \A k \in 1..n : g[k] = Step(g[k - 1], s[k])
  <2>1. \A k \in 1..n : k \in 0..n /\ k - 1 \in 0..n
    BY <1>1
  <2> HIDE DEF Step
  <2>2. QED
    BY <1>11, <2>1
<1>15. QED
  BY <1>13, <1>14 DEF PrefixValues, Joins, n, s, base

\* The pieces of each item, one after the other.
PiecesOf(items, mark) == [i \in 1..Len(items) |-> SplitAt(items[i], mark)]

Flat(items, mark) == FlattenSeq(PiecesOf(items, mark))

LEMMA ItemsSplit ==
    ASSUME NEW T, NEW mark, NEW items \in Seq(Seq(T))
    PROVE  /\ PiecesOf(items, mark) \in Seq(Seq(Seq(T)))
           /\ Len(PiecesOf(items, mark)) = Len(items)
           /\ \A i \in 1..Len(items) : PiecesOf(items, mark)[i] = SplitAt(items[i], mark)
<1>1. \A i \in 1..Len(items) : SplitAt(items[i], mark) \in Seq(Seq(T))
  <2>1. TAKE i \in 1..Len(items)
  <2>2. items[i] \in Seq(T)
    BY ElementOfSeq
  <2>3. SplitAt(items[i], mark) \in Pieces(T)
    BY <2>2, SplitAtType
  <2>4. QED
    BY <2>3 DEF Pieces
<1>2. Len(items) \in Nat
  OBVIOUS
<1>3. QED
  BY <1>1, <1>2 DEF PiecesOf

\* What an array's text says is its items, but for the marks in these.
LEMMA ArrayComesBack ==
    ASSUME NEW T, NEW mark \in T, NEW items \in Pieces(T)
    PROVE  SplitAt(Joined(items, <<mark>>), mark) = Flat(items, mark)
<1> DEFINE n == Len(items)
           split == PiecesOf(items, mark)
           sep == <<mark>>
<1>1. /\ items \in Seq(Seq(T)) /\ n \in Nat /\ n # 0 /\ sep \in Seq(T)
      /\ \A i \in 1..n : items[i] \in Seq(T)
  BY EmptySeq, ElementOfSeq DEF Pieces
<1>2. /\ Head(items) = items[1] /\ Len(Tail(items)) = n - 1
      /\ \A i \in 1..(n - 1) : Tail(items)[i] = items[i + 1]
  <2>1. items # << >>
    BY DEF Pieces
  <2>2. QED
    BY <1>1, <2>1, HeadTailProperties
<1>3. split \in Seq(Seq(Seq(T))) /\ Len(split) = n /\ \A i \in 1..n : split[i] = SplitAt(items[i], mark)
  BY <1>1, ItemsSplit
<1> HIDE DEF split, sep
<1>4. PICK g : Joins(g, T, items, sep)
  BY <1>1, JoinedSteps
<1>5. PICK f : /\ PrefixValues(f, Seq(Seq(T)), split, << >>, FlattenSeq(split))
               /\ \A k \in 1..Len(split) : f[k] = Then(f[k - 1], split[k])
  BY <1>3, FlattenSteps
<1> HIDE DEF n
<1>6. /\ g \in [0..(n - 1) -> Seq(T)] /\ g[0] = items[1] /\ g[n - 1] = Joined(items, sep)
      /\ \A k \in 1..(n - 1) : g[k] = Then(Then(g[k - 1], sep), items[k + 1])
  BY <1>2, <1>4 DEF PrefixValues, Joins
<1>7. /\ f[0] = << >> /\ f[n] = FlattenSeq(split)
      /\ \A k \in 1..n : f[k] = Then(f[k - 1], split[k])
  BY <1>3, <1>5 DEF PrefixValues
<1> DEFINE Done == {k \in Nat : SplitAt(g[k], mark) = f[k + 1]}
<1>8. 0 \in Done
  <2>1. f[1] = Then(<< >>, split[1]) /\ split[1] \in Seq(Seq(T)) /\ 1 \in 1..n
    <3>1. 1 \in 1..n
      BY <1>1
    <3>2. split[1] \in Seq(Seq(T))
      BY <1>3, <3>1, ElementOfSeq
    <3>3. QED
      BY <1>7, <3>1, <3>2
  <2>2. Then(<< >>, split[1]) = split[1]
    BY <2>1, ConcatEmptySeq DEF Then
  <2>3. SplitAt(g[0], mark) = f[0 + 1]
    BY <1>3, <1>6, <2>1, <2>2
  <2>4. QED
    BY <2>3
<1>9. ASSUME NEW k \in 1..(n - 1), k - 1 \in Done
      PROVE  k \in Done
  <2>1. k \in Nat /\ k - 1 \in 0..(n - 1) /\ k + 1 \in 1..n /\ (k - 1) + 1 = k /\ (k + 1) - 1 = k
    BY <1>1
  <2>2. g[k - 1] \in Seq(T) /\ items[k + 1] \in Seq(T)
    BY <1>1, <1>6, <2>1
  <2>3. Then(g[k - 1], sep) = Append(g[k - 1], mark)
    BY <2>2, AppendIsConcat DEF Then, sep
  <2>4. SplitAt(g[k], mark) = Then(SplitAt(g[k - 1], mark), SplitAt(items[k + 1], mark))
    <3>1. g[k] = Then(Append(g[k - 1], mark), items[k + 1])
      BY <1>6, <2>3
    <3> DEFINE s == g[k - 1]
               x == items[k + 1]
    <3>2. s \in Seq(T) /\ x \in Seq(T)
      BY <2>2
    <3> HIDE DEF s, x
    <3>3. SplitAt(Then(Append(s, mark), x), mark) = Then(SplitAt(s, mark), SplitAt(x, mark))
      BY <3>2, SplitAtSeparator
    <3>4. QED
      BY <3>1, <3>3 DEF s, x
  <2>5. SplitAt(g[k - 1], mark) = f[k]
    BY <1>9, <2>1
  <2>6. f[k + 1] = Then(f[k], split[k + 1])
    BY <1>7, <2>1
  <2>7. split[k + 1] = SplitAt(items[k + 1], mark)
    BY <1>3, <2>1
  <2>8. QED
    BY <2>1, <2>4, <2>5, <2>6, <2>7
<1> HIDE DEF Done
<1>10. n - 1 \in Done
  <2>1. n - 1 \in Nat /\ n - 1 \in 0..(n - 1)
    BY <1>1
  <2>2. \A k \in 0..(n - 1) : k \in Done
    BY <1>8, <1>9, <2>1, CountingUp
  <2>3. QED
    BY <2>1, <2>2
<1>11. (n - 1) + 1 = n
  BY <1>1
<1>12. QED
  BY <1>6, <1>7, <1>10, <1>11 DEF Done, Flat, split, sep

-----------------------------------------------------------------------------
(***************************************************************************)
(* Headers, by the last line.                                              *)
(***************************************************************************)

\* All that can be in a text.
Symbols ==
    Tokens \cup {Percent(t) : t \in Escaped} \cup HeaderNames \cup UNION {Range(b) : b \in Bodies}

\* What Headers can find.
Finds == UNION {[D -> Seq(Symbols)] : D \in SUBSET Symbols}

Colon(line) == SelectInSeq(line, LAMBDA t : t = ":")

HeaderStep(found, line) ==
    IF Colon(line) < 2 THEN found
    ELSE Put(found, line[Colon(line) - 1],
             Decoded(Trim(SubSeq(line, Colon(line) + 1, Len(line)))))

LEMMA ColonType ==
    ASSUME NEW T, NEW line \in Seq(T)
    PROVE  Colon(line) \in 0..Len(line)
<1> DEFINE I == {i \in 1..Len(line) : line[i] = ":"}
<1>1. Len(line) \in Nat /\ I \in SUBSET Nat
  OBVIOUS
<1>2. Colon(line) = IF I # {} THEN Min(I) ELSE 0
  BY DEF Colon, SelectInSeq
<1>3. I # {} => Min(I) \in I
  <2> HIDE DEF I
  <2>1. QED
    BY <1>1, MinIsMember
<1>4. QED
  BY <1>1, <1>2, <1>3

LEMMA TrimType ==
    ASSUME NEW T, NEW s \in Seq(T)
    PROVE  Trim(s) \in Seq(T)
<1> DEFINE solid == {i \in 1..Len(s) : s[i] \notin {" ", "lf"}}
<1>1. Len(s) \in Nat /\ solid \in SUBSET Nat /\ solid \in SUBSET (1..Len(s)) /\ << >> \in Seq(T)
  <2>1. solid \in SUBSET (1..Len(s))
    OBVIOUS
  <2> HIDE DEF solid
  <2>2. QED
    BY <2>1
<1>2. Trim(s) = IF solid = {} THEN << >> ELSE SubSeq(s, Min(solid), Max(solid))
  BY DEF Trim
<1>3. CASE solid # {}
  <2> HIDE DEF solid
  <2>1. Min(solid) \in 1..Len(s) /\ Max(solid) \in 1..Len(s)
    <3>1. Min(solid) \in solid
      BY <1>1, <1>3, MinIsMember
    <3>2. Max(solid) \in solid
      BY <1>1, <1>3, MaxIsMember
    <3>3. QED
      BY <1>1, <3>1, <3>2
  <2> DEFINE a == Min(solid)
             b == Max(solid)
  <2>2. a \in Int /\ b \in Int /\ \A i \in a..b : s[i] \in T
    BY <1>1, <2>1
  <2> HIDE DEF a, b
  <2>3. SubSeq(s, a, b) \in Seq(T)
    BY <2>2, SubSeqProperties
  <2>4. QED
    BY <1>2, <1>3, <2>3 DEF a, b
<1>4. QED
  BY <1>1, <1>2, <1>3

LEMMA UnescapedType ==
    ASSUME NEW x \in Symbols
    PROVE  Unescaped(x) \in Symbols
  BY DEF Unescaped, Symbols, Tokens

LEMMA DecodedType ==
    ASSUME NEW s \in Seq(Symbols)
    PROVE  Decoded(s) \in Seq(Symbols)
<1>1. Len(s) \in Nat /\ \A i \in 1..Len(s) : s[i] \in Symbols
  OBVIOUS
<1>2. \A i \in 1..Len(s) : Unescaped(s[i]) \in Symbols
  BY <1>1, UnescapedType
<1>3. QED
  BY <1>1, <1>2 DEF Decoded

LEMMA PutType ==
    ASSUME NEW f \in Finds, NEW n \in Symbols, NEW v \in Seq(Symbols)
    PROVE  Put(f, n, v) \in Finds
<1>1. PICK D \in SUBSET Symbols : f \in [D -> Seq(Symbols)]
  BY DEF Finds
<1>2. Put(f, n, v) \in [D \cup {n} -> Seq(Symbols)]
  BY <1>1 DEF Put
<1>3. D \cup {n} \in SUBSET Symbols
  OBVIOUS
<1>4. QED
  BY <1>2, <1>3 DEF Finds

LEMMA HeaderStepType ==
    ASSUME NEW found \in Finds, NEW line \in Seq(Symbols)
    PROVE  HeaderStep(found, line) \in Finds
<1> DEFINE c == Colon(line)
           rest == SubSeq(line, c + 1, Len(line))
<1>1. c \in 0..Len(line) /\ Len(line) \in Nat
  BY ColonType
<1>2. rest \in Seq(Symbols)
  <2>1. c + 1 \in Int /\ Len(line) \in Int /\ \A i \in (c + 1)..Len(line) : line[i] \in Symbols
    BY <1>1
  <2> HIDE DEF c
  <2>2. QED
    BY <2>1, SubSeqProperties
<1>3. Decoded(Trim(rest)) \in Seq(Symbols)
  BY <1>2, TrimType, DecodedType
<1>4. HeaderStep(found, line) = IF c < 2 THEN found ELSE Put(found, line[c - 1], Decoded(Trim(rest)))
  BY DEF HeaderStep
<1> HIDE DEF c, rest
<1>5. CASE ~(c < 2)
  <2>1. line[c - 1] \in Symbols
    BY <1>1, <1>5
  <2>2. QED
    BY <1>3, <1>4, <1>5, <2>1, PutType
<1>6. QED
  BY <1>4, <1>5

LEMMA NothingFound == << >> \in Finds
<1>1. << >> \in [{} -> Seq(Symbols)] /\ {} \in SUBSET Symbols
  OBVIOUS
<1>2. QED
  BY <1>1 DEF Finds

\* What was found in the first line, in the first two, and so on.
HeadersReadBy(g, lines) ==
    /\ PrefixValues(g, Finds, lines, << >>, Headers(lines))
    /\ \A k \in 1..Len(lines) : g[k] = HeaderStep(g[k - 1], lines[k])

LEMMA HeadersSteps ==
    ASSUME NEW lines \in Seq(Seq(Symbols))
    PROVE  \E g : HeadersReadBy(g, lines)
<1> DEFINE X == Finds
           T == Seq(Symbols)
           s == lines
           base == << >>
           n == Len(s)
           step == [found \in X |-> [line \in T |-> HeaderStep(found, line)]]
           Is(h) == h = [d \in SUBSET (DOMAIN s) |-> IF d = {} THEN base ELSE
                           LET colon == SelectInSeq(s[Max(d)], LAMBDA t : t = ":")
                               rest == Trim(SubSeq(s[Max(d)], colon + 1, Len(s[Max(d)])))
                           IN  IF colon < 2 THEN h[d \ {Max(d)}]
                               ELSE Put(h[d \ {Max(d)}], s[Max(d)][colon - 1], Decoded(rest))]
           h == CHOOSE h : Is(h)
<1>1. s \in Seq(T) /\ n \in Nat /\ DOMAIN s = 1..n
  OBVIOUS
<1>2. base \in X
  BY NothingFound
<1>3. /\ step \in [X -> [T -> X]]
      /\ \A found \in X, line \in T : step[found][line] = HeaderStep(found, line)
  BY HeaderStepType
<1>4. Headers(s) = h[DOMAIN s]
  BY DEF Headers, FoldLeft, MapThenFoldSet
<1> HIDE DEF base
<1>5. PICK f \in [SUBSET (1..n) -> X] : Folded(f, s, base, step, n)
  <2> HIDE DEF step, X, T
  <2>1. QED
    BY <1>1, <1>2, <1>3, FoldExists
<1>6. ASSUME NEW d \in SUBSET (1..n), d # {}
      PROVE  step[f[d \ {Max(d)}]][s[Max(d)]] = HeaderStep(f[d \ {Max(d)}], s[Max(d)])
  <2>1. Max(d) \in 1..n
    BY <1>1, <1>6, MaxIsMember
  <2>2. s[Max(d)] \in T
    BY <1>1, <2>1, ElementOfSeq
  <2>3. f[d \ {Max(d)}] \in X
    <3>1. d \ {Max(d)} \in SUBSET (1..n)
      BY <1>6
    <3> HIDE DEF X, n
    <3>2. QED
      BY <1>5, <3>1
  <2> HIDE DEF X, T, step
  <2>4. QED
    BY <1>3, <2>2, <2>3
<1>7. Is(f)
  <2>1. f = [d \in SUBSET (1..n) |-> IF d = {} THEN base ELSE HeaderStep(f[d \ {Max(d)}], s[Max(d)])]
    BY <1>5, <1>6 DEF Folded
  <2>2. QED
    BY <1>1, <2>1 DEF HeaderStep, Colon
<1>8. Is(h)
  BY <1>7
<1>9. h = [d \in SUBSET (1..n) |-> IF d = {} THEN base ELSE HeaderStep(h[d \ {Max(d)}], s[Max(d)])]
  BY <1>1, <1>8 DEF HeaderStep, Colon
<1> HIDE DEF h, step, Is, n
<1>10. h[{}] = base
  BY <1>9
<1>11. ASSUME NEW k \in 1..n
       PROVE  h[1..k] = HeaderStep(h[1..(k - 1)], s[k])
  <2>1. k \in Nat \ {0} /\ 1..k \in SUBSET (1..n) /\ k \in 1..k
    BY <1>1
  <2>2. Max(1..k) = k /\ (1..k) \ {k} = 1..(k - 1)
    BY <2>1, MaxOfPrefix
  <2>3. QED
    BY <1>9, <2>1, <2>2
<1>12. \A k \in 0..n : h[1..k] \in X
  <2>1. \A k \in 1..n : h[1..(k - 1)] \in X => h[1..k] \in X
    <3>1. \A k \in 1..n : s[k] \in T
      BY <1>1, ElementOfSeq DEF n
    <3>2. QED
      BY <1>11, <3>1, HeaderStepType
  <2>2. QED
    BY <1>1, <1>2, <1>10, <2>1, PrefixTypes
<1> DEFINE g == [k \in 0..n |-> h[1..k]]
<1>13. g \in [0..n -> X] /\ g[0] = base /\ g[n] = Headers(s)
  <2>1. 1..0 = {}
    OBVIOUS
  <2>2. QED
    BY <1>1, <1>4, <1>10, <1>12, <2>1
<1>14. \A k \in 1..n : g[k] = HeaderStep(g[k - 1], s[k])
  <2>1. \A k \in 1..n : k \in 0..n /\ k - 1 \in 0..n
    BY <1>1
  <2>2. QED
    BY <1>11, <2>1
<1>15. QED
  BY <1>13, <1>14 DEF PrefixValues, HeadersReadBy, n, base

LEMMA HeadersNothing == Headers(<< >>) = << >>
<1>1. << >> \in Seq(Seq(Symbols)) /\ Len(<< >>) = 0
  OBVIOUS
<1>2. PICK g : HeadersReadBy(g, << >>)
  BY <1>1, HeadersSteps
<1>3. QED
  BY <1>1, <1>2 DEF PrefixValues, HeadersReadBy

LEMMA HeadersAppend ==
    ASSUME NEW lines \in Seq(Seq(Symbols)), NEW line \in Seq(Symbols)
    PROVE  Headers(Append(lines, line)) = HeaderStep(Headers(lines), line)
<1> DEFINE r == Append(lines, line)
<1>1. /\ Len(lines) \in Nat /\ r \in Seq(Seq(Symbols)) /\ Len(r) = Len(lines) + 1
      /\ r[Len(lines) + 1] = line /\ \A i \in 1..Len(lines) : r[i] = lines[i]
  BY AppendProperties
<1>2. PICK f : HeadersReadBy(f, lines)
  BY HeadersSteps
<1> HIDE DEF r
<1>3. PICK g : HeadersReadBy(g, r)
  BY <1>1, HeadersSteps
<1>4. f[0] = g[0]
  BY <1>2, <1>3 DEF PrefixValues, HeadersReadBy
<1>5. \A k \in 1..Len(lines) : f[k - 1] = g[k - 1] => f[k] = g[k]
  BY <1>1, <1>2, <1>3 DEF HeadersReadBy
<1>6. \A k \in 0..Len(lines) : f[k] = g[k]
  BY <1>1, <1>4, <1>5, PrefixesAgree, ZenonT(30)
<1>7. g[Len(lines)] = Headers(lines)
  BY <1>1, <1>2, <1>6 DEF PrefixValues, HeadersReadBy
<1>8. g[Len(lines) + 1] = HeaderStep(g[Len(lines)], line)
  BY <1>1, <1>3 DEF HeadersReadBy
<1>9. QED
  BY <1>1, <1>3, <1>7, <1>8 DEF PrefixValues, HeadersReadBy, r

-----------------------------------------------------------------------------
(***************************************************************************)
(* A header line, written and read.                                        *)
(***************************************************************************)

LEMMA EscapesDiffer ==
    /\ \A t \in Escaped : Percent(t) \notin Tokens /\ Percent(t) \notin Escaped
    /\ \A t \in Escaped : Unescaped(Percent(t)) = t
    /\ \A x \in Tokens : Unescaped(x) = x
<1>1. \A t \in Escaped : Percent(t) \notin Tokens /\ Percent(t) \notin Escaped
  BY EventAssumption DEF Tokens
<1>2. ASSUME NEW t \in Escaped
      PROVE  Unescaped(Percent(t)) = t
  <2> DEFINE c == CHOOSE s \in Escaped : Percent(s) = Percent(t)
  <2>1. c \in Escaped /\ Percent(c) = Percent(t)
    OBVIOUS
  <2>2. Unescaped(Percent(t)) = c
    BY DEF Unescaped
  <2> HIDE DEF c
  <2>3. c = t
    BY <2>1, EventAssumption
  <2>4. QED
    BY <2>2, <2>3
<1>3. ASSUME NEW x \in Tokens
      PROVE  Unescaped(x) = x
  <2>1. ~ \E t \in Escaped : Percent(t) = x
    BY <1>1
  <2>2. QED
    BY <2>1 DEF Unescaped
<1>4. QED
  BY <1>1, <1>2, <1>3

\* A text, encoded, has none of the marks of the formats, and comes back.
LEMMA EncodedComesBack ==
    ASSUME NEW v \in Phrases
    PROVE  /\ Encode(v) \in Seq(Symbols)
           /\ \A i \in 1..Len(Encode(v)) : Encode(v)[i] \notin Escaped
           /\ Decoded(Encode(v)) = v
<1> DEFINE e == Encode(v)
           Enc(x) == IF x \in Escaped THEN Percent(x) ELSE x
<1>1. v \in Seq(Tokens) /\ Len(v) \in Nat /\ \A i \in 1..Len(v) : v[i] \in Tokens
  BY DEF Phrases
<1>2. ASSUME NEW x \in Tokens
      PROVE  Enc(x) \in Symbols /\ Enc(x) \notin Escaped /\ Unescaped(Enc(x)) = x
  <2>1. CASE x \in Escaped
    <3>1. Enc(x) = Percent(x)
      BY <2>1
    <3>2. Percent(x) \in Symbols
      BY <2>1 DEF Symbols
    <3> HIDE DEF Enc
    <3>3. QED
      BY <2>1, <3>1, <3>2, EscapesDiffer
  <2>2. CASE x \notin Escaped
    <3>1. Enc(x) = x
      BY <2>2
    <3>2. x \in Symbols
      BY DEF Symbols
    <3> HIDE DEF Enc
    <3>3. QED
      BY <2>2, <3>1, <3>2, EscapesDiffer
  <2>3. QED
    BY <2>1, <2>2
<1>3. e = [i \in 1..Len(v) |-> Enc(v[i])]
  BY DEF Encode
<1> HIDE DEF e, Enc
<1>4. \A i \in 1..Len(v) : Enc(v[i]) \in Symbols
  BY <1>1, <1>2
<1>5. e \in Seq(Symbols) /\ Len(e) = Len(v) /\ \A i \in 1..Len(v) : e[i] = Enc(v[i])
  BY <1>1, <1>3, <1>4
<1>6. \A i \in 1..Len(e) : e[i] \notin Escaped
  BY <1>1, <1>2, <1>5
<1>7. \A i \in 1..Len(v) : Unescaped(e[i]) = v[i]
  BY <1>1, <1>2, <1>5
<1>8. Decoded(e) = [i \in 1..Len(v) |-> v[i]]
  BY <1>5, <1>7 DEF Decoded
<1>9. v = [i \in 1..Len(v) |-> v[i]]
  BY <1>1
<1>10. QED
  BY <1>5, <1>6, <1>8, <1>9 DEF e

\* Three tokens and a text.
Preceded(a, b, c, e) == <<a, b, c>> \o e

IsBehind(line, a, b, c, e) == line = Preceded(a, b, c, e)

LEMMA BehindTokens ==
    ASSUME NEW T, NEW a \in T, NEW b \in T, NEW c \in T, NEW e \in Seq(T),
           NEW line, IsBehind(line, a, b, c, e)
    PROVE  /\ line \in Seq(T) /\ Len(line) = Len(e) + 3 /\ Len(e) \in Nat
           /\ line[1] = a /\ line[2] = b /\ line[3] = c
           /\ \A i \in 1..Len(e) : line[i + 3] = e[i]
<1> DEFINE start == <<a, b, c>>
<1>1. start \in Seq(T) /\ Len(start) = 3 /\ start[1] = a /\ start[2] = b /\ start[3] = c
  OBVIOUS
<1>2. line = start \o e
  BY DEF IsBehind, Preceded
<1> HIDE DEF start
<1>3. /\ start \o e \in Seq(T) /\ Len(start \o e) = Len(start) + Len(e)
      /\ \A i \in 1..(Len(start) + Len(e)) :
             (start \o e)[i] = IF i <= Len(start) THEN start[i] ELSE e[i - Len(start)]
  BY <1>1, ConcatProperties
<1>4. Len(e) \in Nat /\ Len(start \o e) = Len(e) + 3
  BY <1>1, <1>3
<1>5. \A i \in 1..(Len(e) + 3) : (start \o e)[i] = IF i <= 3 THEN start[i] ELSE e[i - 3]
  BY <1>1, <1>3, <1>4
<1>6. \A i \in 1..3 : (start \o e)[i] = start[i]
  BY <1>4, <1>5
<1>7. (start \o e)[1] = a /\ (start \o e)[2] = b /\ (start \o e)[3] = c
  <2>1. 1 \in 1..3 /\ 2 \in 1..3 /\ 3 \in 1..3
    OBVIOUS
  <2> DEFINE r == start \o e
  <2> HIDE DEF r
  <2>2. \A i \in 1..3 : r[i] = start[i]
    BY <1>6 DEF r
  <2>3. r[1] = start[1] /\ r[2] = start[2] /\ r[3] = start[3]
    BY <2>1, <2>2
  <2>4. QED
    BY <1>1, <2>3 DEF r
<1>8. \A i \in 1..Len(e) : (start \o e)[i + 3] = e[i]
  <2>1. \A i \in 1..Len(e) : i + 3 \in 1..(Len(e) + 3) /\ ~(i + 3 <= 3) /\ (i + 3) - 3 = i
    BY <1>4
  <2>2. QED
    BY <1>5, <2>1
<1>9. QED
  BY <1>2, <1>3, <1>4, <1>7, <1>8

\* What a name and a value make of a line.
LineOf(name, e) == Preceded(name, ":", " ", e)

LEMMA MarksAreSymbols == ":" \in Symbols /\ " " \in Symbols /\ "lf" \in Symbols
  BY DEF Symbols, Tokens, Escaped

LEMMA NamesAreSymbols ==
    ASSUME NEW n \in HeaderNames
    PROVE  n \in Symbols /\ n \notin Escaped
  BY EventAssumption DEF Symbols, HeaderNames, Escaped

LEMMA FieldIsLine ==
    ASSUME NEW n \in HeaderNames, NEW e \in Seq(Symbols)
    PROVE  /\ LineOf(n, e) \in Seq(Symbols)
           /\ Field(n, e) = Append(LineOf(n, e), "lf")
<1>1. LineOf(n, e) \in Seq(Symbols)
  <2> DEFINE b == ":"
             c == " "
             line == LineOf(n, e)
  <2>1. IsBehind(line, n, b, c, e)
    BY DEF LineOf, IsBehind
  <2>2. n \in Symbols /\ b \in Symbols /\ c \in Symbols
    BY MarksAreSymbols, NamesAreSymbols
  <2> HIDE DEF b, c, line
  <2>3. line \in Seq(Symbols)
    BY <2>1, <2>2, BehindTokens
  <2>4. QED
    BY <2>3 DEF line
<1>2. Field(n, e) = LineOf(n, e) \o <<"lf">>
  BY DEF Field, LineOf, Preceded
<1>3. QED
  BY <1>1, <1>2, MarksAreSymbols, AppendIsConcat

\* The blanks before a value go, and nothing else.
Blank(t) == t \in {" ", "lf"}

LEMMA TrimValue ==
    ASSUME NEW T, NEW s \in Seq(T), NEW e \in Seq(T), Len(s) = Len(e) + 1, Blank(s[1]),
           \A i \in 1..Len(e) : s[i + 1] = e[i] /\ ~Blank(e[i])
    PROVE  Trim(s) = e
<1> DEFINE solid == {i \in 1..Len(s) : ~Blank(s[i])}
<1>1. Len(e) \in Nat /\ Len(s) \in Nat
  OBVIOUS
<1>2. Trim(s) = IF solid = {} THEN << >> ELSE SubSeq(s, Min(solid), Max(solid))
  BY DEF Trim, Blank
<1>3. solid = 2..Len(s)
  <2>1. ASSUME NEW i \in 1..Len(s)
        PROVE  i \in solid <=> i \in 2..Len(s)
    <3>1. CASE i = 1
      BY <3>1
    <3>2. CASE i # 1
      <4>1. i - 1 \in 1..Len(e) /\ (i - 1) + 1 = i
        BY <1>1, <3>2
      <4>2. ~Blank(s[i])
        BY <4>1
      <4>3. QED
        BY <1>1, <3>2, <4>2
    <3>3. QED
      BY <3>1, <3>2
  <2>2. \A i \in solid : i \in 1..Len(s)
    OBVIOUS
  <2>3. \A i \in 2..Len(s) : i \in 1..Len(s)
    BY <1>1
  <2> HIDE DEF solid
  <2>4. QED
    BY <2>1, <2>2, <2>3
<1> HIDE DEF solid
<1>4. CASE Len(e) = 0
  <2>1. solid = {} /\ e = << >>
    BY <1>1, <1>3, <1>4
  <2>2. QED
    BY <1>2, <2>1
<1>5. CASE Len(e) # 0
  <2>1. solid \in SUBSET Nat /\ solid \in SUBSET (1..Len(s)) /\ 2 \in solid /\ Len(s) \in solid
    BY <1>1, <1>3, <1>5
  <2>2. Min(solid) = 2
    <3>1. Min(solid) \in solid /\ Min(solid) <= 2
      BY <2>1, MinIsMember
    <3>2. QED
      BY <1>3, <3>1
  <2>3. Max(solid) = Len(s)
    <3>1. Max(solid) \in solid /\ Len(s) <= Max(solid)
      BY <1>1, <2>1, MaxIsMember
    <3>2. QED
      BY <1>1, <1>3, <3>1
  <2>4. Trim(s) = SubSeq(s, 2, Len(s))
    BY <1>2, <2>1, <2>2, <2>3
  <2> DEFINE r == SubSeq(s, 2, Len(s))
             m == 2
             n == Len(s)
  <2>5. m \in Int /\ n \in Int /\ (\A i \in m..n : s[i] \in T) /\ m <= n
    BY <1>1, <1>5
  <2>6. /\ SubSeq(s, m, n) \in Seq(T) /\ Len(SubSeq(s, m, n)) = n - m + 1
        /\ \A i \in 1..(n - m + 1) : SubSeq(s, m, n)[i] = s[m + i - 1]
    <3> HIDE DEF m, n
    <3>1. QED
      BY <2>5, SubSeqProperties
  <2>7. r \in Seq(T) /\ Len(r) = Len(e) /\ \A i \in 1..Len(e) : r[i] = s[2 + i - 1]
    BY <1>1, <2>6
  <2> HIDE DEF r
  <2>8. \A i \in 1..Len(e) : 2 + i - 1 = i + 1
    BY <1>1
  <2>9. \A i \in 1..Len(e) : r[i] = e[i]
    BY <2>7, <2>8
  <2>10. r = e
    BY <2>7, <2>9, SeqEqual
  <2>11. QED
    BY <2>4, <2>10 DEF r
<1>6. QED
  BY <1>4, <1>5

\* Where b is first.
FirstAt(line, b) == SelectInSeq(line, LAMBDA t : t = b)

\* Where b is first, and what is behind it.
LEMMA BehindParts ==
    ASSUME NEW T, NEW a \in T, NEW b \in T, NEW c \in T, NEW e \in Seq(T), a # b,
           NEW line, IsBehind(line, a, b, c, e),
           NEW rest, rest = SubSeq(line, 3, Len(line))
    PROVE  /\ FirstAt(line, b) = 2
           /\ rest \in Seq(T) /\ Len(rest) = Len(e) + 1 /\ rest[1] = c
           /\ \A i \in 1..Len(e) : rest[i + 1] = e[i]
<1> DEFINE I == {i \in 1..Len(line) : line[i] = b}
<1>1. /\ line \in Seq(T) /\ Len(line) = Len(e) + 3 /\ Len(e) \in Nat
      /\ line[1] = a /\ line[2] = b /\ line[3] = c
      /\ \A i \in 1..Len(e) : line[i + 3] = e[i]
  BY BehindTokens
<1>2. 2 \in I /\ 1 \notin I /\ I \in SUBSET Nat
  BY <1>1
<1>3. FirstAt(line, b) = 2
  <2>1. FirstAt(line, b) = IF I # {} THEN Min(I) ELSE 0
    BY DEF FirstAt, SelectInSeq
  <2>2. \A i \in I : i \in Nat \ {0}
    BY <1>1
  <2> HIDE DEF I
  <2>3. Min(I) \in I /\ Min(I) <= 2
    BY <1>2, MinIsMember
  <2>4. Min(I) \in Nat \ {0} /\ Min(I) # 1
    BY <1>2, <2>2, <2>3
  <2>5. QED
    BY <1>2, <2>1, <2>3, <2>4
<1>4. /\ rest \in Seq(T) /\ Len(rest) = Len(e) + 1
      /\ \A i \in 1..(Len(e) + 1) : rest[i] = line[3 + i - 1]
  <2> DEFINE m == 3
             n == Len(line)
  <2>1. m \in Int /\ n \in Int /\ m <= n /\ \A i \in m..n : line[i] \in T
    BY <1>1
  <2>2. /\ SubSeq(line, m, n) \in Seq(T) /\ Len(SubSeq(line, m, n)) = n - m + 1
        /\ \A i \in 1..(n - m + 1) : SubSeq(line, m, n)[i] = line[m + i - 1]
    <3> HIDE DEF m, n
    <3>1. QED
      BY <2>1, SubSeqProperties
  <2>3. QED
    BY <1>1, <2>2
<1>5. 1 \in 1..(Len(e) + 1) /\ 3 + 1 - 1 = 3
  BY <1>1
<1>6. rest[1] = line[3]
  <2>1. rest[1] = line[3 + 1 - 1]
    BY <1>4, <1>5
  <2>2. QED
    BY <1>5, <2>1
<1>7. \A i \in 1..Len(e) : i + 1 \in 1..(Len(e) + 1) /\ 3 + (i + 1) - 1 = i + 3
  BY <1>1
<1>8. \A i \in 1..Len(e) : rest[i + 1] = line[i + 3]
  BY <1>4, <1>7
<1>9. QED
  BY <1>1, <1>3, <1>4, <1>6, <1>8

\* A line that was written for a header is read as this header.
LEMMA HeaderLine ==
    ASSUME NEW n \in HeaderNames, NEW e \in Seq(Symbols), \A i \in 1..Len(e) : e[i] \notin Escaped,
           NEW found
    PROVE  HeaderStep(found, LineOf(n, e)) = Put(found, n, Decoded(e))
<1> DEFINE line == LineOf(n, e)
           rest == SubSeq(line, 3, Len(line))
<1>1. n # ":" /\ Blank(" ") /\ \A i \in 1..Len(e) : ~Blank(e[i])
  BY NamesAreSymbols DEF Escaped, Blank
<1>2. line = Preceded(n, ":", " ", e)
  BY DEF LineOf
<1>3. n \in Symbols /\ ":" \in Symbols /\ " " \in Symbols
  BY NamesAreSymbols, MarksAreSymbols
<1> HIDE DEF line
<1> DEFINE b == ":"
           c == " "
<1>5. rest = SubSeq(line, 3, Len(line)) /\ IsBehind(line, n, b, c, e)
  BY <1>2 DEF IsBehind
<1>6. n # b /\ n \in Symbols /\ b \in Symbols /\ c \in Symbols
  BY <1>1, <1>3
<1> HIDE DEF b, c, rest
<1>4. line[1] = n
  BY <1>5, <1>6, BehindTokens
<1>7. /\ FirstAt(line, b) = 2
      /\ rest \in Seq(Symbols) /\ Len(rest) = Len(e) + 1 /\ rest[1] = c
      /\ \A i \in 1..Len(e) : rest[i + 1] = e[i]
  BY <1>5, <1>6, BehindParts
<1>8. Trim(rest) = e
  <2>1. Blank(rest[1])
    BY <1>1, <1>7 DEF c
  <2>2. QED
    BY <1>1, <1>7, <2>1, TrimValue
<1>9. Colon(line) = 2
  BY <1>7 DEF Colon, FirstAt, b
<1>10. HeaderStep(found, line) = Put(found, line[1], Decoded(Trim(rest)))
  <2>1. Colon(line) - 1 = 1 /\ Colon(line) + 1 = 3 /\ ~(Colon(line) < 2)
    BY <1>9
  <2>2. QED
    BY <2>1 DEF HeaderStep, rest
<1>11. QED
  BY <1>4, <1>8, <1>10 DEF line

\* A line that is no header, such as the empty one, is skipped.
LEMMA EmptyLine ==
    ASSUME NEW found
    PROVE  HeaderStep(found, << >>) = found
<1>1. << >> \in Seq({}) /\ Len(<< >>) = 0
  OBVIOUS
<1>2. Colon(<< >>) \in 0..0
  BY <1>1, ColonType
<1>3. Colon(<< >>) < 2
  BY <1>2
<1>4. QED
  BY <1>3 DEF HeaderStep

-----------------------------------------------------------------------------
(***************************************************************************)
(* A text of header lines, and what is read from it.                       *)
(***************************************************************************)

LineEnd == "lf"

Ended(line) == Append(line, LineEnd)

\* A text of lines, none of them empty.
Laid(T, text) ==
    /\ text \in Seq(T)
    /\ text # << >> => text[Len(text)] = LineEnd
    /\ \A i \in 1..(Len(text) - 1) : text[i] = LineEnd => text[i + 1] # LineEnd
    /\ text # << >> => text[1] # LineEnd

\* A text of lines that says what was found.
Written(text, found) ==
    Laid(Symbols, text) /\ Headers(SplitAt(text, LineEnd)) = found

LEMMA EndedType ==
    ASSUME NEW T, LineEnd \in T, NEW line \in Seq(T)
    PROVE  /\ Ended(line) \in Seq(T) /\ Len(Ended(line)) = Len(line) + 1 /\ Len(line) \in Nat
           /\ Ended(line)[Len(line) + 1] = LineEnd
           /\ \A i \in 1..Len(line) : Ended(line)[i] = line[i]
  BY AppendProperties DEF Ended

LEMMA LineFeedIsSymbol == LineEnd \in Symbols
  BY MarksAreSymbols DEF LineEnd

\* One more line.
LEMMA LaidOnceMore ==
    ASSUME NEW T, LineEnd \in T, NEW text, Laid(T, text),
           NEW line \in Seq(T), line # << >>, \A i \in 1..Len(line) : line[i] # LineEnd
    PROVE  Laid(T, Then(text, Ended(line)))
<1> DEFINE new == Ended(line)
           all == Then(text, new)
<1>1. /\ text \in Seq(T) /\ Len(text) \in Nat
      /\ Len(line) \in Nat /\ Len(line) # 0
      /\ new \in Seq(T) /\ Len(new) = Len(line) + 1
      /\ new[Len(line) + 1] = LineEnd /\ \A i \in 1..Len(line) : new[i] = line[i] /\ new[i] # LineEnd
  <2>1. Len(line) # 0
    BY EmptySeq
  <2>2. text \in Seq(T)
    BY DEF Laid
  <2> HIDE DEF new
  <2>3. QED
    BY <2>1, <2>2, EndedType DEF new
<1> HIDE DEF new
<1>2. /\ all \in Seq(T) /\ Len(all) = Len(text) + Len(line) + 1
      /\ \A i \in 1..Len(text) : all[i] = text[i]
      /\ \A i \in 1..(Len(line) + 1) : all[Len(text) + i] = new[i]
  <2>1. /\ text \o new \in Seq(T) /\ Len(text \o new) = Len(text) + Len(new)
        /\ \A i \in 1..(Len(text) + Len(new)) :
               (text \o new)[i] = IF i <= Len(text) THEN text[i] ELSE new[i - Len(text)]
    BY <1>1, ConcatProperties
  <2> DEFINE r == text \o new
  <2>2. r = all
    BY DEF Then
  <2> HIDE DEF r, all
  <2>3. /\ r \in Seq(T) /\ Len(r) = Len(text) + Len(new)
        /\ \A i \in 1..(Len(text) + Len(new)) :
               r[i] = IF i <= Len(text) THEN text[i] ELSE new[i - Len(text)]
    BY <2>1 DEF r
  <2>4. \A i \in 1..Len(text) : r[i] = text[i]
    BY <1>1, <2>3
  <2>5. ASSUME NEW i \in 1..(Len(line) + 1)
        PROVE  r[Len(text) + i] = new[i]
    <3>1. /\ Len(text) + i \in 1..(Len(text) + Len(new)) /\ ~(Len(text) + i <= Len(text))
          /\ (Len(text) + i) - Len(text) = i
      BY <1>1
    <3>2. QED
      BY <2>3, <3>1
  <2>6. QED
    BY <1>1, <2>2, <2>3, <2>4, <2>5
<1>3. /\ all # << >> /\ all[Len(all)] = LineEnd
  <2>1. Len(line) + 1 \in 1..(Len(line) + 1) /\ Len(all) = Len(text) + (Len(line) + 1) /\ Len(all) # 0
    BY <1>1, <1>2
  <2>2. all[Len(all)] = new[Len(line) + 1]
    BY <1>2, <2>1
  <2>3. all # << >>
    BY <1>2, <2>1, EmptySeq
  <2>4. QED
    BY <1>1, <2>2, <2>3
<1>4. ASSUME NEW i \in 1..(Len(all) - 1), all[i] = LineEnd
      PROVE  all[i + 1] # LineEnd
  <2>1. CASE i < Len(text)
    <3>1. i \in 1..(Len(text) - 1) /\ i \in 1..Len(text) /\ i + 1 \in 1..Len(text)
      BY <1>1, <1>2, <2>1
    <3>2. all[i] = text[i] /\ all[i + 1] = text[i + 1]
      BY <1>2, <3>1
    <3>3. QED
      BY <1>4, <3>1, <3>2 DEF Laid
  <2>2. CASE i = Len(text)
    <3>1. all[Len(text) + 1] = new[1] /\ new[1] # LineEnd
      BY <1>1, <1>2
    <3>2. QED
      BY <2>2, <3>1
  <2>3. CASE i > Len(text)
    <3> DEFINE j == i - Len(text)
    <3>1. j \in 1..Len(line) /\ j \in 1..(Len(line) + 1) /\ i = Len(text) + j
      BY <1>1, <1>2, <2>3
    <3> HIDE DEF j
    <3>2. all[i] = new[j] /\ new[j] # LineEnd
      BY <1>1, <1>2, <3>1
    <3>3. QED
      BY <1>4, <3>2
  <2>4. QED
    BY <1>1, <1>2, <2>1, <2>2, <2>3
<1>5. all[1] # LineEnd
  <2>1. CASE text = << >>
    <3>1. Len(text) = 0 /\ 1 \in 1..(Len(line) + 1) /\ 1 \in 1..Len(line)
      BY <1>1, <2>1
    <3>2. all[Len(text) + 1] = new[1] /\ Len(text) + 1 = 1
      BY <1>2, <3>1
    <3>3. QED
      BY <1>1, <3>1, <3>2
  <2>2. CASE text # << >>
    <3>1. 1 \in 1..Len(text)
      BY <1>1, <2>2, EmptySeq
    <3>2. QED
      BY <1>2, <2>2, <3>1 DEF Laid
  <2>3. QED
    BY <2>1, <2>2
<1> HIDE DEF all
<1>6. QED
  BY <1>2, <1>3, <1>4, <1>5 DEF Laid, all, new

\* The line feed at the end of a text does not count.
LEMMA LastLineFeed ==
    ASSUME NEW front \in Seq(Symbols)
    PROVE  Headers(SplitAt(Ended(front), LineEnd)) = Headers(SplitAt(front, LineEnd))
<1> DEFINE lines == SplitAt(front, LineEnd)
<1>1. LineEnd \in Symbols /\ << >> \in Seq(Symbols)
  <2>1. LineEnd \in Symbols
    BY MarksAreSymbols DEF LineEnd
  <2>2. << >> \in Seq(Symbols)
    OBVIOUS
  <2>3. QED
    BY <2>1, <2>2
<1>2. lines \in Seq(Seq(Symbols))
  BY SplitAtType DEF Pieces
<1>3. SplitAt(Ended(front), LineEnd) = Split(lines, LineEnd, LineEnd)
  BY <1>1, SplitAtAppend DEF Ended
<1> HIDE DEF lines
<1>4. Split(lines, LineEnd, LineEnd) = Append(lines, << >>)
  BY DEF Split
<1> DEFINE empty == << >>
<1>5. empty \in Seq(Symbols) /\ SplitAt(Ended(front), LineEnd) = Append(lines, empty)
  BY <1>1, <1>3, <1>4
<1>6. HeaderStep(Headers(lines), empty) = Headers(lines)
  BY EmptyLine
<1> HIDE DEF empty
<1>7. Headers(Append(lines, empty)) = HeaderStep(Headers(lines), empty)
  BY <1>2, <1>5, HeadersAppend
<1>8. QED
  BY <1>5, <1>6, <1>7 DEF lines

\* A text that ends with a line feed, without it.
LEMMA FrontOfLines ==
    ASSUME NEW text \in Seq(Symbols), text # << >>, text[Len(text)] = LineEnd
    PROVE  \E front \in Seq(Symbols) :
             /\ text = Ended(front) /\ Len(text) = Len(front) + 1 /\ front = SubSeq(text, 1, Len(text) - 1)
<1>1. Len(text) \in 1..Len(text) /\ Len(text) \in Nat
  BY EmptySeq
<1> DEFINE k == Len(text)
<1>2. k \in 1..Len(text)
  BY <1>1
<1> HIDE DEF k
<1>3. /\ SubSeq(text, 1, k - 1) \in Seq(Symbols)
      /\ SubSeq(text, 1, k) = Append(SubSeq(text, 1, k - 1), text[k])
  BY <1>2, Fronts
<1>4. SubSeq(text, 1, k) = text
  BY Fronts DEF k
<1> DEFINE front == SubSeq(text, 1, k - 1)
<1>5. front \in Seq(Symbols) /\ text = Ended(front)
  BY <1>3, <1>4 DEF Ended, k
<1>6. Len(text) = Len(front) + 1
  <2> HIDE DEF front
  <2>1. QED
    BY <1>5, EndedType, LineFeedIsSymbol
<1>7. QED
  BY <1>5, <1>6 DEF k

\* The lines of two texts are those of the first and those of the second.
LEMMA LinesAgain ==
    ASSUME NEW a \in Seq(Seq(Symbols)), NEW line \in Seq(Symbols)
    PROVE  Headers(Then(a, <<line>>)) = HeaderStep(Headers(a), line)
<1>1. a \o <<line>> = Append(a, line)
  BY AppendIsConcat
<1>2. QED
  BY <1>1, HeadersAppend DEF Then

\* One more line adds what it says.
LEMMA WrittenOnceMore ==
    ASSUME NEW text, NEW found, Written(text, found),
           NEW line \in Seq(Symbols), line # << >>, \A i \in 1..Len(line) : line[i] # LineEnd
    PROVE  Written(Then(text, Ended(line)), HeaderStep(found, line))
<1> DEFINE new == Ended(line)
           all == Then(text, new)
<1>1. /\ text \in Seq(Symbols) /\ Len(text) \in Nat
      /\ text # << >> => text[Len(text)] = LineEnd
      /\ Headers(SplitAt(text, LineEnd)) = found
  BY DEF Written, Laid
<1>2. Laid(Symbols, all)
  BY LaidOnceMore, LineFeedIsSymbol DEF Written
<1>3. Headers(SplitAt(all, LineEnd)) = HeaderStep(found, line)
  <2> DEFINE longer == Then(text, line)
  <2>1. all = Ended(longer) /\ longer \in Seq(Symbols)
    <3>1. text \o line \in Seq(Symbols)
      BY <1>1, ConcatProperties
    <3>2. text \o Append(line, LineEnd) = Append(text \o line, LineEnd)
      <4>1. LineEnd \in Symbols
        BY MarksAreSymbols DEF LineEnd
      <4>2. QED
        BY <1>1, <4>1
    <3>3. QED
      BY <3>1, <3>2 DEF Then, Ended, new
  <2>2. Headers(SplitAt(all, LineEnd)) = Headers(SplitAt(longer, LineEnd))
    <3> HIDE DEF all, longer
    <3>1. QED
      BY <2>1, LastLineFeed
  <2>3. SplitAt(line, LineEnd) = <<line>>
    BY SplitAtNowhere
  <2>4. Headers(SplitAt(longer, LineEnd)) = HeaderStep(found, line)
    <3>1. CASE text = << >>
      <4>1. longer = line
        BY <3>1 DEF Then
      <4> DEFINE none == << >>
                 empty == << >>
      <4>2. none \in Seq(Seq(Symbols)) /\ empty \in Seq(Symbols)
        OBVIOUS
      <4>3. Headers(none) = << >>
        BY HeadersNothing
      <4>4. Append(none, line) = <<line>> /\ Append(none, empty) = << << >> >>
        OBVIOUS
      <4>5. SplitAt(text, LineEnd) = Append(none, empty)
        BY <3>1, <4>4, SplitAtNothing
      <4>6. HeaderStep(Headers(none), empty) = Headers(none)
        BY EmptyLine
      <4> HIDE DEF none, empty, longer
      <4>7. found = Headers(none)
        BY <1>1, <4>2, <4>5, <4>6, HeadersAppend
      <4>8. QED
        BY <2>3, <4>1, <4>2, <4>4, <4>7, HeadersAppend
    <3>2. CASE text # << >>
      <4>1. PICK front \in Seq(Symbols) : text = Ended(front)
        BY <1>1, <3>2, FrontOfLines
      <4> DEFINE lines == SplitAt(front, LineEnd)
      <4>2. lines \in Seq(Seq(Symbols))
        BY SplitAtType DEF Pieces
      <4>3. Headers(lines) = found
        BY <1>1, <4>1, LastLineFeed
      <4>4. SplitAt(longer, LineEnd) = Then(lines, SplitAt(line, LineEnd))
        <5>1. LineEnd \in Symbols
          BY MarksAreSymbols DEF LineEnd
        <5>2. longer = Then(Append(front, LineEnd), line)
          BY <4>1 DEF Ended
        <5> HIDE DEF longer
        <5>3. SplitAt(Then(Append(front, LineEnd), line), LineEnd) = Then(SplitAt(front, LineEnd), SplitAt(line, LineEnd))
          BY <5>1, SplitAtSeparator
        <5>4. QED
          BY <5>2, <5>3
      <4> HIDE DEF lines, longer
      <4>5. SplitAt(longer, LineEnd) = Then(lines, <<line>>)
        BY <2>3, <4>4
      <4>6. Headers(Then(lines, <<line>>)) = HeaderStep(Headers(lines), line)
        BY <4>2, LinesAgain
      <4>7. QED
        BY <4>3, <4>5, <4>6
    <3>3. QED
      BY <3>1, <3>2
  <2> HIDE DEF all, longer
  <2>5. QED
    BY <2>2, <2>4
<1> HIDE DEF all
<1>4. QED
  BY <1>2, <1>3 DEF Written, all, new

LEMMA NothingWritten == Written(<< >>, << >>)
<1> DEFINE none == << >>
           empty == << >>
<1>1. none \in Seq(Seq(Symbols)) /\ empty \in Seq(Symbols) /\ Headers(none) = << >>
  BY HeadersNothing
<1>2. SplitAt(empty, LineEnd) = Append(none, empty)
  BY SplitAtNothing
<1>3. HeaderStep(Headers(none), empty) = Headers(none)
  BY EmptyLine
<1> HIDE DEF none, empty
<1>4. Headers(SplitAt(empty, LineEnd)) = Headers(none)
  BY <1>1, <1>2, <1>3, HeadersAppend
<1>5. Headers(SplitAt(empty, LineEnd)) = << >>
  BY <1>1, <1>4
<1>6. Len(<< >>) = 0
  OBVIOUS
<1>7. QED
  BY <1>1, <1>5, <1>6 DEF empty, Written, Laid

\* A header whose value is encoded is read as it is.
LEMMA HeaderWritten ==
    ASSUME NEW text, NEW found, Written(text, found),
           NEW n \in HeaderNames, NEW v \in Phrases
    PROVE  /\ Field(n, Encode(v)) \in Seq(Symbols)
           /\ Written(Then(text, Field(n, Encode(v))), Put(found, n, v))
<1> DEFINE e == Encode(v)
           line == LineOf(n, e)
           b == ":"
           c == " "
<1>1. e \in Seq(Symbols) /\ Decoded(e) = v /\ \A i \in 1..Len(e) : e[i] \notin Escaped
  BY EncodedComesBack
<1>2. LineEnd \in Escaped /\ b \in Escaped /\ b # LineEnd /\ c # LineEnd
  BY DEF Escaped, LineEnd
<1>3. b \in Symbols /\ c \in Symbols
  BY MarksAreSymbols
<1>4. n \in Symbols /\ n # LineEnd
  BY <1>2, NamesAreSymbols
<1>5. IsBehind(line, n, b, c, e)
  BY DEF LineOf, IsBehind
<1> HIDE DEF e
<1>6. Field(n, e) = Ended(line) /\ line \in Seq(Symbols)
  BY <1>1, FieldIsLine DEF Ended, LineEnd
<1>7. HeaderStep(found, line) = Put(found, n, v)
  BY <1>1, HeaderLine
<1> HIDE DEF b, c, line
<1>8. /\ Len(line) = Len(e) + 3 /\ Len(e) \in Nat
      /\ line[1] = n /\ line[2] = b /\ line[3] = c
      /\ \A i \in 1..Len(e) : line[i + 3] = e[i]
  BY <1>1, <1>3, <1>4, <1>5, BehindTokens
<1>9. line # << >>
  BY <1>8
<1>10. ASSUME NEW i \in 1..Len(line)
       PROVE  line[i] # LineEnd
  <2>1. i = 1 \/ i = 2 \/ i = 3 \/ i - 3 \in 1..Len(e)
    BY <1>8
  <2>2. CASE i - 3 \in 1..Len(e)
    <3>1. line[i] = e[i - 3]
      <4>1. (i - 3) + 3 = i
        OBVIOUS
      <4>2. QED
        BY <1>8, <2>2, <4>1
    <3>2. QED
      BY <1>1, <1>2, <2>2, <3>1
  <2>3. CASE i = 1 \/ i = 2 \/ i = 3
    BY <1>2, <1>4, <1>8, <2>3
  <2>4. QED
    BY <2>1, <2>2, <2>3
<1>11. Written(Then(text, Ended(line)), HeaderStep(found, line))
  BY <1>6, <1>9, <1>10, WrittenOnceMore
<1>12. QED
  BY <1>6, <1>7, <1>11, EndedType, LineFeedIsSymbol DEF e

\* The length of a body is as good as encoded.
LEMMA LengthIsWord ==
    ASSUME NEW b \in Bodies
    PROVE  /\ <<ToString(Len(b))>> \in Phrases
           /\ Encode(<<ToString(Len(b))>>) = <<ToString(Len(b))>>
<1> DEFINE w == ToString(Len(b))
<1>1. w \in BodyLengths
  BY DEF BodyLengths
<1>2. w \in Tokens /\ w \notin Escaped
  BY <1>1, EventAssumption DEF Tokens
<1> HIDE DEF w
<1>3. <<w>> \in Phrases
  BY <1>2 DEF Phrases
<1>4. Encode(<<w>>) = <<w>>
  BY <1>2 DEF Encode
<1>5. QED
  BY <1>3, <1>4 DEF w

-----------------------------------------------------------------------------
(***************************************************************************)
(* The headers of an event.                                                *)
(***************************************************************************)

\* The headers of these names.
Kept(headers, D) == [n \in D |-> headers[n]]

LEMMA OneMoreKept ==
    ASSUME NEW headers, NEW D, NEW n
    PROVE  Put(Kept(headers, D), n, headers[n]) = Kept(headers, D \cup {n})
  BY DEF Put, Kept

FieldsOf(headers, names) == [i \in 1..Len(names) |-> Field(names[i], Encode(headers[names[i]]))]

\* What is written for some of the headers of an event says these headers.
LEMMA HeadersWritten ==
    ASSUME NEW names \in Seq(HeaderNames), NEW headers,
           \A i \in 1..Len(names) : headers[names[i]] \in Phrases
    PROVE  Written(FlattenSeq(FieldsOf(headers, names)), Kept(headers, Range(names)))
<1> DEFINE n == Len(names)
           fields == FieldsOf(headers, names)
           field(i) == Field(names[i], Encode(headers[names[i]]))
<1>1. n \in Nat /\ \A i \in 1..n : names[i] \in HeaderNames
  OBVIOUS
<1>2. \A i \in 1..n : field(i) \in Seq(Symbols)
  BY <1>1, NothingWritten, HeaderWritten
<1>3. fields \in Seq(Seq(Symbols)) /\ Len(fields) = n /\ \A i \in 1..n : fields[i] = field(i)
  <2>1. fields = [i \in 1..n |-> field(i)]
    BY DEF FieldsOf
  <2> HIDE DEF field, fields
  <2>2. QED
    BY <1>1, <1>2, <2>1
<1> HIDE DEF fields
<1>4. PICK g : /\ PrefixValues(g, Seq(Symbols), fields, << >>, FlattenSeq(fields))
               /\ \A k \in 1..Len(fields) : g[k] = Then(g[k - 1], fields[k])
  BY <1>3, FlattenSteps
<1>5. g[0] = << >> /\ g[n] = FlattenSeq(fields) /\ \A k \in 1..n : g[k] = Then(g[k - 1], field(k))
  BY <1>3, <1>4 DEF PrefixValues
<1> DEFINE first(k) == {names[i] : i \in 1..k}
           Done == {k \in Nat : Written(g[k], Kept(headers, first(k)))}
<1>6. 0 \in Done
  <2>1. first(0) = {}
    OBVIOUS
  <2>2. Kept(headers, first(0)) = << >>
    BY <2>1 DEF Kept
  <2> HIDE DEF first
  <2>3. Written(g[0], Kept(headers, first(0)))
    BY <1>5, <2>2, NothingWritten
  <2>4. QED
    BY <2>3
<1>7. ASSUME NEW k \in 1..n, k - 1 \in Done
      PROVE  k \in Done
  <2>1. Written(g[k - 1], Kept(headers, first(k - 1))) /\ k \in Nat
    BY <1>7
  <2>2. first(k) = first(k - 1) \cup {names[k]}
    <3>1. 1..k = (1..(k - 1)) \cup {k}
      BY <1>1
    <3>2. QED
      BY <3>1
  <2> HIDE DEF first, Done
  <2>3. names[k] \in HeaderNames /\ headers[names[k]] \in Phrases
    BY <1>1
  <2>4. Written(Then(g[k - 1], field(k)),
                Put(Kept(headers, first(k - 1)), names[k], headers[names[k]]))
    BY <2>1, <2>3, HeaderWritten
  <2>5. Put(Kept(headers, first(k - 1)), names[k], headers[names[k]]) = Kept(headers, first(k))
    <3> DEFINE D == first(k - 1)
               m == names[k]
    <3>1. first(k) = D \cup {m}
      BY <2>2
    <3> HIDE DEF D, m
    <3>2. Put(Kept(headers, D), m, headers[m]) = Kept(headers, D \cup {m})
      BY OneMoreKept
    <3>3. QED
      BY <3>1, <3>2 DEF D, m
  <2>6. Written(g[k], Kept(headers, first(k)))
    BY <1>5, <2>4, <2>5
  <2>7. QED
    BY <2>1, <2>6 DEF Done
<1>8. first(n) = Range(names)
  BY DEF Range
<1> HIDE DEF Done
<1>9. n \in Done
  <2>1. n \in 0..n
    BY <1>1
  <2>2. QED
    BY <1>1, <1>6, <1>7, <2>1, CountingUp
<1> HIDE DEF first
<1>10. QED
  BY <1>5, <1>8, <1>9 DEF Done, fields

-----------------------------------------------------------------------------
(***************************************************************************)
(* A text, its blank line, and what is behind it.                          *)
(***************************************************************************)

\* What stands behind the first m tokens.
LEMMA PieceOfText ==
    ASSUME NEW T, NEW s \in Seq(T), NEW b \in Seq(T), NEW m \in Nat, m + Len(b) <= Len(s),
           \A i \in 1..Len(b) : s[m + i] = b[i]
    PROVE  SubSeq(s, m + 1, m + Len(b)) = b
<1> DEFINE l == m + 1
           k == m + Len(b)
           r == SubSeq(s, l, k)
<1>1. Len(b) \in Nat /\ Len(s) \in Nat
  OBVIOUS
<1>2. CASE Len(b) = 0
  <2>1. k < l /\ l \in Int /\ k \in Int /\ b = << >>
    BY <1>1, <1>2
  <2> HIDE DEF k, l
  <2>2. SubSeq(s, l, k) = << >>
    BY <2>1, SubSeqEmpty
  <2>3. QED
    BY <2>1, <2>2 DEF k, l
<1>3. CASE Len(b) # 0
  <2>1. /\ l \in Int /\ k \in Int /\ l <= k /\ k - l + 1 = Len(b)
        /\ \A i \in l..k : s[i] \in T
    BY <1>1, <1>3
  <2> HIDE DEF k, l
  <2>2. /\ SubSeq(s, l, k) \in Seq(T) /\ Len(SubSeq(s, l, k)) = k - l + 1
        /\ \A i \in 1..(k - l + 1) : SubSeq(s, l, k)[i] = s[l + i - 1]
    BY <2>1, SubSeqProperties
  <2>3. r \in Seq(T) /\ Len(r) = Len(b) /\ \A i \in 1..Len(b) : r[i] = s[l + i - 1]
    BY <2>1, <2>2
  <2> HIDE DEF r
  <2>4. \A i \in 1..Len(b) : l + i - 1 = m + i
    BY DEF l
  <2>5. \A i \in 1..Len(b) : r[i] = b[i]
    BY <2>3, <2>4
  <2>6. r = b
    BY <2>3, <2>5, SeqEqual
  <2>7. QED
    BY <2>6 DEF r, k, l
<1>4. QED
  BY <1>2, <1>3

\* A text, a blank line and a body, in which the provers do not look.
Whole(text, body) == Then(Ended(text), body)

LEMMA WholeTokens ==
    ASSUME NEW T, LineEnd \in T, NEW text \in Seq(T), NEW body \in Seq(T)
    PROVE  /\ Whole(text, body) \in Seq(T)
           /\ Len(Whole(text, body)) = Len(text) + 1 + Len(body)
           /\ \A i \in 1..Len(text) : Whole(text, body)[i] = text[i]
           /\ Whole(text, body)[Len(text) + 1] = LineEnd
           /\ \A i \in 1..Len(body) : Whole(text, body)[Len(text) + 1 + i] = body[i]
<1> DEFINE a == Ended(text)
           s == a \o body
<1>1. /\ a \in Seq(T) /\ Len(a) = Len(text) + 1 /\ Len(text) \in Nat
      /\ a[Len(text) + 1] = LineEnd /\ \A i \in 1..Len(text) : a[i] = text[i]
  BY EndedType
<1> HIDE DEF a
<1>2. /\ s \in Seq(T) /\ Len(s) = Len(a) + Len(body)
      /\ \A i \in 1..(Len(a) + Len(body)) : s[i] = IF i <= Len(a) THEN a[i] ELSE body[i - Len(a)]
  BY <1>1, ConcatProperties
<1>3. Whole(text, body) = s /\ Len(body) \in Nat
  BY DEF Whole, Then, a
<1> HIDE DEF s
<1>4. \A i \in 1..Len(text) : s[i] = text[i]
  <2>1. \A i \in 1..Len(text) : i \in 1..(Len(a) + Len(body)) /\ i <= Len(a)
    BY <1>1, <1>3
  <2>2. QED
    BY <1>1, <1>2, <2>1
<1>5. s[Len(text) + 1] = LineEnd
  <2>1. Len(text) + 1 \in 1..(Len(a) + Len(body)) /\ Len(text) + 1 <= Len(a)
    BY <1>1, <1>3
  <2>2. QED
    BY <1>1, <1>2, <2>1
<1>6. \A i \in 1..Len(body) : s[Len(text) + 1 + i] = body[i]
  <2>1. TAKE i \in 1..Len(body)
  <2> DEFINE j == Len(text) + 1 + i
  <2>2. j \in 1..(Len(a) + Len(body)) /\ ~(j <= Len(a)) /\ j - Len(a) = i
    BY <1>1, <1>3
  <2> HIDE DEF j
  <2>3. s[j] = body[i]
    BY <1>2, <2>2
  <2>4. QED
    BY <2>3 DEF j
<1>7. QED
  BY <1>1, <1>2, <1>3, <1>4, <1>5, <1>6

\* The blank line is where the headers end, whatever is in the body.
LEMMA BlankLineFound ==
    ASSUME NEW T, LineEnd \in T, NEW text, Laid(T, text), text # << >>, NEW body \in Seq(T)
    PROVE  BlankLine(Whole(text, body)) = Len(text) /\ Len(text) \in Nat \ {0}
<1> DEFINE s == Whole(text, body)
           m == Len(text)
           blank == {i \in 1..(Len(s) - 1) : s[i] = LineEnd /\ s[i + 1] = LineEnd}
<1>1. text \in Seq(T) /\ m \in Nat \ {0} /\ Len(body) \in Nat
  <2>1. text \in Seq(T)
    BY DEF Laid
  <2>2. QED
    BY <2>1, EmptySeq
<1>2. /\ Len(s) = m + 1 + Len(body) /\ s[m + 1] = LineEnd
      /\ \A i \in 1..m : s[i] = text[i]
  BY <1>1, WholeTokens
<1>3. BlankLine(s) = IF blank = {} THEN 0 ELSE Min(blank)
  BY DEF BlankLine, LineEnd
<1> HIDE DEF s
<1>4. m \in blank
  <2>1. m \in 1..(Len(s) - 1) /\ m \in 1..m
    BY <1>1, <1>2
  <2>2. s[m] = LineEnd
    BY <1>2, <2>1 DEF Laid
  <2>3. QED
    BY <1>2, <2>1, <2>2
<1>5. ASSUME NEW i \in blank
      PROVE  ~(i < m)
  <2>1. i \in 1..(Len(s) - 1) /\ s[i] = LineEnd /\ s[i + 1] = LineEnd
    OBVIOUS
  <2>2. SUFFICES ASSUME i < m PROVE FALSE
    OBVIOUS
  <2>3. i \in 1..(Len(text) - 1) /\ i \in 1..m /\ i + 1 \in 1..m
    BY <1>1, <1>2, <2>1, <2>2
  <2>4. text[i] = LineEnd /\ text[i + 1] = LineEnd
    BY <1>2, <2>1, <2>3
  <2>5. QED
    BY <2>3, <2>4 DEF Laid
<1>6. blank \in SUBSET Nat
  BY <1>1, <1>2
<1> HIDE DEF blank
<1>7. Min(blank) \in blank /\ Min(blank) <= m
  BY <1>4, <1>6, MinIsMember
<1>8. Min(blank) = m
  <2>1. Min(blank) \in Nat /\ ~(Min(blank) < m)
    BY <1>5, <1>6, <1>7
  <2>2. QED
    BY <1>1, <1>7, <2>1
<1>9. QED
  BY <1>1, <1>3, <1>4, <1>8 DEF s

\* What a text says is read, and what is behind its blank line is the body.
Parsed(found, body) ==
    [type |-> TypeOf(found), headers |-> found, body |-> IF body = << >> THEN << >> ELSE <<body>>]

LEMMA WholeParsed ==
    ASSUME NEW text, NEW found, Written(text, found), NEW body \in Seq(Symbols),
           text = << >> => body = << >>
    PROVE  ParsePlain(Whole(text, body)) = Parsed(found, body)
<1> DEFINE s == Whole(text, body)
           m == Len(text)
           end == BlankLine(s)
           rest == IF end = 0 THEN << >> ELSE SubSeq(s, end + 2, Len(s))
           front == IF end = 0 THEN s ELSE SubSeq(s, 1, end - 1)
           headers == Headers(SplitAt(front, LineEnd))
<1>1. ParsePlain(s) = [type |-> TypeOf(headers), headers |-> headers,
                       body |-> IF rest = << >> THEN << >> ELSE <<rest>>]
  BY DEF ParsePlain, LineEnd
<1>2. text \in Seq(Symbols) /\ m \in Nat /\ Len(body) \in Nat
  BY DEF Written, Laid
<1>3. /\ s \in Seq(Symbols) /\ Len(s) = m + 1 + Len(body)
      /\ \A i \in 1..m : s[i] = text[i]
      /\ \A i \in 1..Len(body) : s[m + 1 + i] = body[i]
  <2>1. LineEnd \in Symbols /\ text \in Seq(Symbols) /\ body \in Seq(Symbols)
    BY <1>2, LineFeedIsSymbol
  <2>2. s \in Seq(Symbols) /\ Len(s) = m + 1 + Len(body)
    BY <2>1, WholeTokens
  <2>3. \A i \in 1..m : s[i] = text[i]
    BY <2>1, WholeTokens
  <2>4. \A i \in 1..Len(body) : s[m + 1 + i] = body[i]
    BY <2>1, WholeTokens
  <2>5. QED
    BY <2>2, <2>3, <2>4
<1>4. rest = body /\ headers = found
  <2>1. CASE text # << >>
    <3> HIDE DEF s
    <3>1. end = m /\ m \in Nat \ {0}
      <4>1. Laid(Symbols, text)
        BY DEF Written
      <4>2. QED
        BY <2>1, <4>1, BlankLineFound, LineFeedIsSymbol DEF s
    <3>2. rest = body
      <4> DEFINE k == m + 1
      <4>1. k \in Nat /\ k + Len(body) <= Len(s) /\ \A i \in 1..Len(body) : s[k + i] = body[i]
        BY <1>2, <1>3
      <4>2. k + 1 = end + 2 /\ k + Len(body) = Len(s)
        BY <1>2, <1>3, <3>1
      <4> HIDE DEF k, end
      <4>3. SubSeq(s, k + 1, k + Len(body)) = body
        BY <1>3, <4>1, PieceOfText
      <4>4. QED
        BY <3>1, <4>2, <4>3
    <3>3. PICK f \in Seq(Symbols) : text = Ended(f) /\ Len(text) = Len(f) + 1
      BY <1>2, <2>1, FrontOfLines DEF Written, Laid
    <3>4. /\ Len(f) \in Nat /\ m - 1 = Len(f) /\ \A i \in 1..Len(f) : text[i] = f[i]
      BY <3>3, EndedType, LineFeedIsSymbol
    <3>5. front = f
      <4> DEFINE k == 0
      <4>1. k \in Nat /\ k + Len(f) <= Len(s) /\ \A i \in 1..Len(f) : s[k + i] = f[i]
        BY <1>2, <1>3, <3>4
      <4>2. k + 1 = 1 /\ k + Len(f) = end - 1
        BY <3>1, <3>4
      <4> HIDE DEF k, end
      <4>3. SubSeq(s, k + 1, k + Len(f)) = f
        BY <1>3, <4>1, PieceOfText
      <4>4. QED
        BY <3>1, <4>2, <4>3
    <3>6. Headers(SplitAt(f, LineEnd)) = found
      BY <3>3, LastLineFeed DEF Written, Laid
    <3> HIDE DEF rest, front
    <3>7. QED
      BY <3>2, <3>5, <3>6
  <2>2. CASE text = << >>
    <3>1. body = << >>
      BY <2>2
    <3>2. end = 0
      <4>1. Len(s) - 1 = 0
        <5> HIDE DEF s
        <5>1. QED
          BY <1>2, <1>3, <2>2, <3>1
      <4> HIDE DEF s
      <4> DEFINE twice(i) == s[i] = LineEnd /\ s[i + 1] = LineEnd
                 blank == {i \in 1..(Len(s) - 1) : twice(i)}
      <4>2. BlankLine(s) = IF blank = {} THEN 0 ELSE Min(blank)
        BY DEF BlankLine, LineEnd
      <4> HIDE DEF twice
      <4>3. blank = {}
        <5>1. 1..0 = {}
          OBVIOUS
        <5> DEFINE q == Len(s) - 1
        <5>2. q = 0
          BY <4>1
        <5> HIDE DEF q
        <5>3. 1..q = {}
          BY <5>1, <5>2
        <5>4. QED
          BY <5>3 DEF q
      <4>4. QED
        BY <4>2, <4>3
    <3>3. rest = body
      <4> HIDE DEF end, s
      <4>1. QED
        BY <3>1, <3>2
    <3>4. front = s
      <4> HIDE DEF end, s
      <4>1. QED
        BY <3>2
    <3>5. s = Ended(text)
      <4>1. Ended(text) \in Seq(Symbols)
        BY <1>2, EndedType, LineFeedIsSymbol
      <4>2. QED
        BY <3>1, <4>1 DEF Whole, Then
    <3>6. Headers(SplitAt(s, LineEnd)) = found
      <4> HIDE DEF s
      <4>1. QED
        BY <1>2, <3>5, LastLineFeed DEF Written, Laid
    <3> HIDE DEF rest, front, s
    <3>7. QED
      BY <3>3, <3>4, <3>6
  <2>3. QED
    BY <2>1, <2>2
<1> HIDE DEF rest, headers, s
<1>5. QED
  BY <1>1, <1>4 DEF Parsed, s

-----------------------------------------------------------------------------
(***************************************************************************)
(* An event comes back.                                                    *)
(***************************************************************************)

\* The elements of a finite set, in some order, are all of them.
LEMMA SetToSeqIsOnto ==
    ASSUME NEW S, IsFiniteSet(S)
    PROVE  SetToSeq(S) \in Seq(S) /\ Range(SetToSeq(S)) = S
<1> DEFINE n == Cardinality(S)
           Is(f) == f \in [1..n -> S] /\ IsInjective(f)
           f == CHOOSE f \in [1..n -> S] : IsInjective(f)
<1>1. n \in Nat /\ ExistsBijection(1..n, S)
  BY FS_CardinalityType
<1>2. PICK h \in Bijection(1..n, S) : TRUE
  BY <1>1 DEF ExistsBijection
<1>3. h \in [1..n -> S] /\ IsInjective(h)
  BY <1>2 DEF Bijection, Injection, Surjection
<1>4. f \in [1..n -> S] /\ IsInjective(f)
  BY <1>3
<1>5. SetToSeq(S) = f
  BY DEF SetToSeq
<1> HIDE DEF f
<1>6. f \in Injection(1..n, S)
  BY <1>4 DEF Injection
<1>7. f \in Surjection(1..n, S)
  <2>1. Cardinality(1..n) = n
    BY <1>1, FS_Interval
  <2>2. QED
    BY <1>6, <2>1, FS_Injection
<1>8. f \in Seq(S)
  BY <1>1, <1>4
<1>9. Range(f) = S
  BY <1>4, <1>7 DEF Surjection, Range
<1>10. QED
  BY <1>5, <1>8, <1>9

\* The headers that are written are all but a stored Content-Length.
LEMMA NamesWritten ==
    ASSUME NEW headers, IsFiniteSet(DOMAIN headers), DOMAIN headers \in SUBSET HeaderNames
    PROVE  /\ NameOrder(headers) \in Seq(HeaderNames)
           /\ Range(NameOrder(headers)) = DOMAIN headers \ {"Content-Length"}
<1> DEFINE E == "Event-Name"
           L == "Content-Length"
           first == IF E \in DOMAIN headers THEN <<E>> ELSE << >>
           D == DOMAIN headers \ {E, L}
           others == SetToSeq(D)
<1>1. NameOrder(headers) = first \o others
  BY DEF NameOrder
<1>2. E # L
  OBVIOUS
<1> HIDE DEF E, L
<1>3. first \in Seq(HeaderNames) /\ Range(first) = DOMAIN headers \cap {E}
  <2>1. CASE E \in DOMAIN headers
    <3>1. first = <<E>> /\ E \in HeaderNames
      BY <2>1
    <3>2. QED
      BY <2>1, <3>1 DEF Range
  <2>2. CASE E \notin DOMAIN headers
    BY <2>2 DEF Range
  <2>3. QED
    BY <2>1, <2>2
<1>4. others \in Seq(HeaderNames) /\ Range(others) = D
  <2>1. IsFiniteSet(D)
    BY FS_Subset
  <2> HIDE DEF D
  <2>2. others \in Seq(D) /\ Range(others) = D
    BY <2>1, SetToSeqIsOnto
  <2>3. \A d \in D : d \in HeaderNames
    BY DEF D
  <2> HIDE DEF others
  <2>4. others \in Seq(HeaderNames)
    <3>1. Len(others) \in Nat /\ \A i \in 1..Len(others) : others[i] \in HeaderNames
      BY <2>2, <2>3
    <3>2. others = [i \in 1..Len(others) |-> others[i]]
      BY <2>2
    <3>3. QED
      BY <3>1, <3>2
  <2>5. QED
    BY <2>2, <2>4
<1> HIDE DEF first, others
<1>5. first \o others \in Seq(HeaderNames) /\ Range(first \o others) = Range(first) \cup Range(others)
  BY <1>3, <1>4, RangeConcatenation
<1>6. QED
  BY <1>1, <1>2, <1>3, <1>4, <1>5 DEF L

Events ==
    [type : Options(TypeNames),
     headers : UNION {[D -> Phrases] : D \in SUBSET HeaderNames},
     body : Options(Bodies)]

LengthSays(e) == <<ToString(Len(e.body[1]))>>

\* The headers that come back.
Sent(e) ==
    LET own == Kept(e.headers, DOMAIN e.headers \ {"Content-Length"})
    IN  IF e.body = << >> THEN own ELSE Put(own, "Content-Length", LengthSays(e))

LEMMA EventParts ==
    ASSUME NEW e \in Events
    PROVE  /\ e.type \in Options(TypeNames) /\ e.body \in Options(Bodies)
           /\ DOMAIN e.headers \in SUBSET HeaderNames
           /\ e.headers \in [DOMAIN e.headers -> Phrases]
           /\ \A n \in DOMAIN e.headers : e.headers[n] \in Phrases
           /\ e = [type |-> e.type, headers |-> e.headers, body |-> e.body]
<1>1. /\ e.headers \in UNION {[D -> Phrases] : D \in SUBSET HeaderNames}
      /\ e.type \in Options(TypeNames) /\ e.body \in Options(Bodies)
      /\ e = [type |-> e.type, headers |-> e.headers, body |-> e.body]
  BY DEF Events
<1>2. PICK D \in SUBSET HeaderNames : e.headers \in [D -> Phrases]
  BY <1>1
<1>3. DOMAIN e.headers = D
  BY <1>2
<1>4. QED
  BY <1>1, <1>2, <1>3

LEMMA BodyType ==
    ASSUME NEW b \in Bodies
    PROVE  b \in Seq(Symbols)
<1>1. b \in Seq(Range(b))
  BY EventAssumption
<1>2. Range(b) \in SUBSET Symbols
  BY DEF Symbols
<1>3. QED
  BY <1>1, <1>2

\* The text of an event is a text of its headers, a blank line and its body.
LEMMA PlainTextParts ==
    ASSUME NEW e \in Events, IsFiniteSet(DOMAIN e.headers)
    PROVE  \E text, body :
             /\ PlainText(e) = Whole(text, body) /\ body \in Seq(Symbols)
             /\ Written(text, Sent(e))
             /\ e.body = << >> => body = << >>
             /\ e.body # << >> => text # << >> /\ body = e.body[1]
<1> DEFINE names == NameOrder(e.headers)
           fields == FlattenSeq(FieldsOf(e.headers, names))
           L == "Content-Length"
           own == Kept(e.headers, DOMAIN e.headers \ {L})
<1>1. names \in Seq(HeaderNames) /\ Range(names) = DOMAIN e.headers \ {L}
  BY EventParts, NamesWritten
<1>2. \A i \in 1..Len(names) : e.headers[names[i]] \in Phrases
  <2>1. TAKE i \in 1..Len(names)
  <2>2. names[i] \in Range(names)
    BY <1>1 DEF Range
  <2>3. QED
    BY <1>1, <2>2, EventParts
<1>3. PlainText(e) = IF e.body = << >> THEN fields \o <<LineEnd>>
                     ELSE fields \o Field(L, LengthSays(e)) \o <<LineEnd>> \o e.body[1]
  BY DEF PlainText, FieldsOf, LineEnd, LengthSays
<1> HIDE DEF names
<1>4. Written(fields, own)
  <2>1. Written(fields, Kept(e.headers, Range(names)))
    BY <1>1, <1>2, HeadersWritten
  <2>2. QED
    BY <1>1, <2>1
<1> HIDE DEF fields
<1>5. CASE e.body = << >>
  <2> DEFINE body == << >>
  <2>1. body \in Seq(Symbols)
    OBVIOUS
  <2>2. Ended(fields) = fields \o <<LineEnd>> /\ Ended(fields) \in Seq(Symbols)
    <3>1. fields \in Seq(Symbols) /\ LineEnd \in Symbols
      BY <1>4, MarksAreSymbols DEF Written, Laid, LineEnd
    <3>2. QED
      BY <3>1, EndedType, LineFeedIsSymbol, AppendIsConcat DEF Ended
  <2>3. Then(Ended(fields), << >>) = Ended(fields)
    BY <2>2 DEF Then
  <2>4. PlainText(e) = Whole(fields, body)
    BY <1>3, <1>5, <2>2, <2>3 DEF Whole
  <2>5. Sent(e) = own
    BY <1>5 DEF Sent
  <2> HIDE DEF own
  <2>6. QED
    BY <1>4, <1>5, <2>1, <2>4, <2>5
<1>6. CASE e.body # << >>
  <2>1. PICK b \in Bodies : e.body = <<b>>
    BY <1>6, EventParts DEF Options
  <2> DEFINE w == LengthSays(e)
             field == Field(L, w)
             text == Then(fields, field)
  <2>2. e.body[1] = b /\ w \in Phrases /\ Encode(w) = w /\ L \in HeaderNames
    BY <2>1, LengthIsWord DEF LengthSays, HeaderNames
  <2>3. Sent(e) = Put(own, L, w)
    BY <1>6 DEF Sent
  <2> HIDE DEF w, L, own
  <2>4. field \in Seq(Symbols) /\ Written(text, Put(own, L, w))
    <3>1. Field(L, Encode(w)) \in Seq(Symbols) /\ Written(Then(fields, Field(L, Encode(w))), Put(own, L, w))
      BY <1>4, <2>2, HeaderWritten
    <3>2. QED
      BY <2>2, <3>1
  <2>5. text # << >>
    <3>1. w \in Seq(Symbols)
      BY <2>2, EncodedComesBack
    <3>2. LineOf(L, w) \in Seq(Symbols) /\ field = Ended(LineOf(L, w))
      BY <2>2, <3>1, FieldIsLine DEF Ended, LineEnd
    <3> HIDE DEF field
    <3>3. Len(field) = Len(LineOf(L, w)) + 1 /\ Len(LineOf(L, w)) \in Nat
      BY <3>2, EndedType, LineFeedIsSymbol
    <3>4. fields \in Seq(Symbols) /\ Len(fields) \in Nat
      BY <1>4 DEF Written, Laid
    <3>5. Len(fields \o field) = Len(fields) + Len(field)
      BY <2>4, <3>4, ConcatProperties
    <3>6. Len(fields \o field) # 0
      BY <3>3, <3>4, <3>5
    <3>7. QED
      BY <3>6 DEF Then
  <2>6. b \in Seq(Symbols)
    BY BodyType
  <2>7. PlainText(e) = Whole(text, b)
    <3>1. PlainText(e) = fields \o field \o <<LineEnd>> \o b
      BY <1>3, <1>6, <2>2 DEF w
    <3>2. Ended(text) = fields \o field \o <<LineEnd>>
      <4>1. fields \o field \in Seq(Symbols) /\ LineEnd \in Symbols
        BY <2>4, MarksAreSymbols DEF Written, Laid, LineEnd, Then
      <4>2. Append(fields \o field, LineEnd) = fields \o field \o <<LineEnd>>
        BY <4>1, AppendIsConcat
      <4>3. QED
        BY <4>2 DEF Ended, Then
    <3>3. QED
      BY <3>1, <3>2 DEF Whole, Then
  <2> HIDE DEF text
  <2>8. QED
    BY <1>6, <2>2, <2>3, <2>4, <2>5, <2>6, <2>7
<1>7. QED
  BY <1>5, <1>6

LEMMA EventComesBack ==
    ASSUME NEW e \in Events, IsFiniteSet(DOMAIN e.headers)
    PROVE  ParsePlain(PlainText(e))
             = Parsed(Sent(e), IF e.body = << >> THEN << >> ELSE e.body[1])
<1>1. PICK text, body :
             /\ PlainText(e) = Whole(text, body) /\ body \in Seq(Symbols)
             /\ Written(text, Sent(e))
             /\ e.body = << >> => body = << >>
             /\ e.body # << >> => text # << >> /\ body = e.body[1]
  BY PlainTextParts
<1>2. text = << >> => body = << >>
  BY <1>1
<1>3. ParsePlain(Whole(text, body)) = Parsed(Sent(e), body)
  BY <1>1, <1>2, WholeParsed
<1>4. body = IF e.body = << >> THEN << >> ELSE e.body[1]
  BY <1>1
<1>5. QED
  BY <1>1, <1>3, <1>4

\* The event that comes back, part by part.
LEMMA BackParts ==
    ASSUME NEW e \in Events, IsFiniteSet(DOMAIN e.headers),
           NEW back, back = ParsePlain(PlainText(e))
    PROVE  /\ back.headers = Sent(e) /\ back.type = TypeOf(Sent(e))
           /\ back.body = IF e.body = << << >> >> THEN << >> ELSE e.body
<1> DEFINE b == IF e.body = << >> THEN << >> ELSE e.body[1]
<1>1. back = Parsed(Sent(e), b)
  BY EventComesBack
<1>2. e.body = << >> \/ e.body = <<e.body[1]>>
  <2>1. e.body \in Options(Bodies)
    BY EventParts
  <2>2. QED
    BY <2>1 DEF Options
<1>3. (IF b = << >> THEN << >> ELSE <<b>>) = IF e.body = << << >> >> THEN << >> ELSE e.body
  <2>1. CASE e.body = << >>
    BY <2>1
  <2>2. CASE e.body # << >>
    <3>1. b = e.body[1] /\ e.body = <<b>>
      BY <1>2, <2>2
    <3> HIDE DEF b
    <3>2. e.body = << << >> >> <=> b = << >>
      BY <3>1
    <3>3. QED
      BY <2>2, <3>1, <3>2
  <2>3. QED
    BY <2>1, <2>2
<1> HIDE DEF b
<1>4. QED
  BY <1>1, <1>3 DEF Parsed

LEMMA SentParts ==
    ASSUME NEW e \in Events
    PROVE  /\ DOMAIN Sent(e) = (DOMAIN e.headers \ {"Content-Length"})
                                 \cup (IF e.body = << >> THEN {} ELSE {"Content-Length"})
           /\ \A n \in DOMAIN Sent(e) : Sent(e)[n] = IF n = "Content-Length" THEN LengthSays(e) ELSE e.headers[n]
           /\ Sent(e) = [n \in DOMAIN Sent(e) |-> Sent(e)[n]]
           /\ TypeOf(Sent(e)) = TypeOf(e.headers)
<1> DEFINE L == "Content-Length"
           D == DOMAIN e.headers \ {L}
<1>1. "Event-Name" # L
  OBVIOUS
<1> HIDE DEF L
<1>2. CASE e.body = << >>
  <2>1. Sent(e) = [n \in D |-> e.headers[n]]
    BY <1>2 DEF Sent, Kept, L
  <2>2. TypeOf(Sent(e)) = TypeOf(e.headers)
    BY <1>1, <2>1 DEF TypeOf
  <2>3. QED
    BY <1>2, <2>1, <2>2 DEF L
<1>3. CASE e.body # << >>
  <2>1. Sent(e) = [n \in D \cup {L} |-> IF n = L THEN LengthSays(e) ELSE e.headers[n]]
    BY <1>3 DEF Sent, Kept, Put, L
  <2>2. TypeOf(Sent(e)) = TypeOf(e.headers)
    BY <1>1, <2>1 DEF TypeOf
  <2>3. QED
    BY <1>3, <2>1, <2>2 DEF L
<1>4. QED
  BY <1>2, <1>3

\* What comes back is an event again.
LEMMA BackIsEvent ==
    ASSUME NEW e \in Events, IsFiniteSet(DOMAIN e.headers),
           NEW back, back = ParsePlain(PlainText(e))
    PROVE  back \in Events /\ IsFiniteSet(DOMAIN back.headers)
<1> DEFINE b == IF e.body = << >> THEN << >> ELSE e.body[1]
           L == "Content-Length"
           s == Sent(e)
<1>1. /\ DOMAIN s = (DOMAIN e.headers \ {L}) \cup (IF e.body = << >> THEN {} ELSE {L})
      /\ \A n \in DOMAIN s : s[n] = IF n = L THEN LengthSays(e) ELSE e.headers[n]
      /\ s = [n \in DOMAIN s |-> s[n]]
  BY SentParts
<1>2. back.headers = s /\ back.type = TypeOf(s) /\ back.body = IF e.body = << << >> >> THEN << >> ELSE e.body
  BY BackParts
<1>3. back = [type |-> back.type, headers |-> back.headers, body |-> back.body]
  BY EventComesBack DEF Parsed
<1>4. /\ e.body \in Options(Bodies) /\ DOMAIN e.headers \in SUBSET HeaderNames
      /\ \A n \in DOMAIN e.headers : e.headers[n] \in Phrases
  BY EventParts
<1>5. L \in HeaderNames
  BY DEF HeaderNames
<1>6. e.body # << >> => LengthSays(e) \in Phrases
  <2>1. ASSUME e.body # << >>
        PROVE  \E c \in Bodies : e.body = <<c>>
    BY <1>4, <2>1 DEF Options
  <2>2. QED
    BY <2>1, LengthIsWord DEF LengthSays
<1> HIDE DEF s, L
<1>7. DOMAIN s \in SUBSET HeaderNames
  BY <1>1, <1>4, <1>5
<1>8. \A n \in DOMAIN s : s[n] \in Phrases
  BY <1>1, <1>4, <1>6
<1>9. s \in [DOMAIN s -> Phrases]
  BY <1>1, <1>8
<1>10. IsFiniteSet(DOMAIN s)
  <2>1. IsFiniteSet(DOMAIN e.headers \ {L})
    BY FS_RemoveElement
  <2>2. IsFiniteSet((DOMAIN e.headers \ {L}) \cup {L})
    BY <2>1, FS_AddElement
  <2>3. (DOMAIN e.headers \ {L}) \cup {} = DOMAIN e.headers \ {L}
    OBVIOUS
  <2>4. QED
    BY <1>1, <2>1, <2>2, <2>3
<1>11. TypeOf(s) \in Options(TypeNames)
  <2>1. CASE TypeOf(s) = << >>
    BY <2>1 DEF Options
  <2>2. CASE TypeOf(s) # << >>
    <3>1. /\ "Event-Name" \in DOMAIN s /\ Len(s["Event-Name"]) = 1
          /\ s["Event-Name"][1] \in TypeNames /\ TypeOf(s) = s["Event-Name"]
      BY <2>2 DEF TypeOf
    <3> DEFINE v == s["Event-Name"]
    <3>2. v \in Seq(Tokens)
      BY <1>8, <3>1 DEF Phrases
    <3> HIDE DEF v
    <3>3. Len(v) = 1 /\ v[1] \in TypeNames /\ TypeOf(s) = v
      BY <3>1 DEF v
    <3>4. v = <<v[1]>>
      BY <3>2, <3>3
    <3>5. QED
      BY <3>3, <3>4 DEF Options
  <2>3. QED
    BY <2>1, <2>2
<1>12. back.body \in Options(Bodies)
  BY <1>2, <1>4 DEF Options
<1>13. back.headers \in UNION {[D -> Phrases] : D \in SUBSET HeaderNames}
  BY <1>2, <1>7, <1>9
<1>14. QED
  BY <1>2, <1>3, <1>10, <1>11, <1>12, <1>13 DEF Events

-----------------------------------------------------------------------------
(***************************************************************************)
(* Type correctness of events.                                             *)
(***************************************************************************)

Stacks == Seq(Phrases) \ {<< >>}

LEMMA MarksAreTokens == "|:" \in Tokens /\ "ARRAY::" \in Tokens
  BY DEF Tokens, Escaped

LEMMA ValueType ==
    ASSUME NEW v \in Values
    PROVE  v \in Phrases
<1>1. v \in Seq(Range(v))
  BY EventAssumption
<1>2. Range(v) \in SUBSET Tokens
  BY DEF Tokens
<1>3. QED
  BY <1>1, <1>2 DEF Phrases

LEMMA ItemsType ==
    ASSUME NEW v \in Phrases
    PROVE  Items(v) \in Stacks
<1>1. CASE IsArray(v)
  <2>1. Tail(v) \in Seq(Tokens)
    BY <1>1 DEF IsArray, Phrases
  <2>2. SplitAt(Tail(v), "|:") \in Pieces(Tokens)
    BY <2>1, SplitAtType
  <2>3. QED
    BY <1>1, <2>2 DEF Items, Stacks, Pieces, Phrases
<1>2. CASE ~IsArray(v)
  BY <1>2 DEF Items, Stacks
<1>3. QED
  BY <1>1, <1>2

LEMMA JoinedType ==
    ASSUME NEW T, NEW sep \in Seq(T), NEW items \in Pieces(T)
    PROVE  Joined(items, sep) \in Seq(T)
<1>1. PICK g : Joins(g, T, items, sep)
  BY JoinedSteps
<1>2. Len(Tail(items)) \in 0..Len(Tail(items))
  <2>1. items \in Seq(Seq(T)) /\ items # << >>
    BY DEF Pieces
  <2>2. QED
    BY <2>1, HeadTailProperties
<1>3. QED
  BY <1>1, <1>2 DEF Joins, PrefixValues

LEMMA ArrayTextParts ==
    ASSUME NEW items \in Stacks
    PROVE  /\ ArrayText(items) \in Phrases
           /\ IsArray(ArrayText(items))
           /\ Tail(ArrayText(items)) = Joined(items, <<"|:">>)
<1> DEFINE mark == "|:"
           sep == <<mark>>
           head == "ARRAY::"
           body == Joined(items, sep)
<1>1. mark \in Tokens /\ head \in Tokens
  BY MarksAreTokens
<1>2. ArrayText(items) = <<head>> \o body
  BY DEF ArrayText
<1>3. IsArray(ArrayText(items)) <=> ArrayText(items) # << >> /\ Head(ArrayText(items)) = head
  BY DEF IsArray
<1> HIDE DEF mark, head
<1>4. sep \in Seq(Tokens) /\ items \in Pieces(Tokens)
  BY <1>1 DEF Stacks, Pieces, Phrases
<1> HIDE DEF sep
<1>5. body \in Seq(Tokens)
  BY <1>4, JoinedType
<1> HIDE DEF body
<1>6. <<head>> \in Seq(Tokens)
  BY <1>1
<1>7. /\ <<head>> \o body \in Seq(Tokens) /\ <<head>> \o body # << >>
      /\ Head(<<head>> \o body) = head /\ Tail(<<head>> \o body) = body
  BY <1>1, <1>5, <1>6
<1>8. QED
  BY <1>2, <1>3, <1>7 DEF Phrases, body, sep, mark

\* A header more, or one less.
WithHeader(e, n, v) == [e EXCEPT !.headers = Put(@, n, v)]

WithoutHeader(e, n) == [e EXCEPT !.headers = Without(@, n)]

LEMMA HeaderPut ==
    ASSUME NEW e \in Events, IsFiniteSet(DOMAIN e.headers), NEW n \in HeaderNames, NEW v \in Phrases,
           NEW f, f = WithHeader(e, n, v)
    PROVE  /\ f \in Events /\ IsFiniteSet(DOMAIN f.headers)
           /\ DOMAIN f.headers = DOMAIN e.headers \cup {n}
           /\ \A m \in DOMAIN f.headers : f.headers[m] = IF m = n THEN v ELSE e.headers[m]
<1> DEFINE D == DOMAIN e.headers
           h == Put(e.headers, n, v)
<1>1. /\ e.type \in Options(TypeNames) /\ e.body \in Options(Bodies) /\ D \in SUBSET HeaderNames
      /\ \A m \in D : e.headers[m] \in Phrases
      /\ e = [type |-> e.type, headers |-> e.headers, body |-> e.body]
  BY EventParts
<1>2. h = [m \in D \cup {n} |-> IF m = n THEN v ELSE e.headers[m]]
  BY DEF Put
<1>3. f = [type |-> e.type, headers |-> h, body |-> e.body]
  BY <1>1 DEF WithHeader
<1> HIDE DEF h
<1>4. h \in [D \cup {n} -> Phrases] /\ D \cup {n} \in SUBSET HeaderNames
  BY <1>1, <1>2
<1>5. IsFiniteSet(D \cup {n})
  BY FS_AddElement
<1>6. f \in Events
  BY <1>1, <1>3, <1>4 DEF Events
<1>7. f.headers = h
  BY <1>3
<1>8. QED
  BY <1>2, <1>5, <1>6, <1>7

LEMMA HeaderGone ==
    ASSUME NEW e \in Events, IsFiniteSet(DOMAIN e.headers), NEW n,
           NEW f, f = WithoutHeader(e, n)
    PROVE  /\ f \in Events /\ IsFiniteSet(DOMAIN f.headers)
           /\ DOMAIN f.headers = DOMAIN e.headers \ {n}
           /\ \A m \in DOMAIN f.headers : f.headers[m] = e.headers[m]
<1> DEFINE D == DOMAIN e.headers
           h == Without(e.headers, n)
<1>1. /\ e.type \in Options(TypeNames) /\ e.body \in Options(Bodies) /\ D \in SUBSET HeaderNames
      /\ \A m \in D : e.headers[m] \in Phrases
      /\ e = [type |-> e.type, headers |-> e.headers, body |-> e.body]
  BY EventParts
<1>2. h = [m \in D \ {n} |-> e.headers[m]]
  BY DEF Without
<1>3. f = [type |-> e.type, headers |-> h, body |-> e.body]
  BY <1>1 DEF WithoutHeader
<1> HIDE DEF h
<1>4. h \in [D \ {n} -> Phrases] /\ D \ {n} \in SUBSET HeaderNames
  BY <1>1, <1>2
<1>5. IsFiniteSet(D \ {n})
  BY FS_RemoveElement
<1>6. f \in Events
  BY <1>1, <1>3, <1>4 DEF Events
<1>7. f.headers = h
  BY <1>3
<1>8. QED
  BY <1>2, <1>5, <1>6, <1>7

-----------------------------------------------------------------------------
(***************************************************************************)
(* Stacks of values.                                                       *)
(***************************************************************************)

\* There are no separators left in the pieces.
LEMMA PiecesAreClean ==
    ASSUME NEW T, NEW mark \in T, NEW s \in Seq(T)
    PROVE  SplitAt(s, mark) \in Pieces(T \ {mark})
<1> DEFINE x_(k) == SubSeq(s, 1, k)
           X == Pieces(T \ {mark})
           Done == {k \in Nat : SplitAt(x_(k), mark) \in X}
<1>1. 0 \in Done
  <2>1. x_(0) = << >>
    BY Fronts
  <2>2. SplitAt(<< >>, mark) = << << >> >>
    BY SplitAtNothing
  <2>3. << << >> >> \in X
    <3>1. << << >> >> \in Seq(Seq(T \ {mark}))
      OBVIOUS
    <3>2. << << >> >> # << >>
      OBVIOUS
    <3>3. QED
      BY <3>1, <3>2 DEF Pieces
  <2> HIDE DEF x_, X
  <2>4. QED
    BY <2>1, <2>2, <2>3
<1>2. ASSUME NEW k \in 1..Len(s), k - 1 \in Done
      PROVE  k \in Done
  <2>1. x_(k - 1) \in Seq(T) /\ s[k] \in T /\ x_(k) = Append(x_(k - 1), s[k])
    BY Fronts
  <2>2. SplitAt(x_(k - 1), mark) \in X /\ k \in Nat
    BY <1>2
  <2> HIDE DEF x_
  <2>3. SplitAt(x_(k), mark) = Split(SplitAt(x_(k - 1), mark), s[k], mark)
    BY <2>1, SplitAtAppend
  <2>4. Split(SplitAt(x_(k - 1), mark), s[k], mark) \in X
    <3>1. CASE s[k] # mark
      <4>1. s[k] \in T \ {mark}
        BY <2>1, <3>1
      <4> HIDE DEF X
      <4>2. QED
        BY <2>2, <4>1, SplitType DEF X
    <3>2. CASE s[k] = mark
      <4> DEFINE done == SplitAt(x_(k - 1), mark)
                 empty == << >>
      <4>1. done \in Seq(Seq(T \ {mark}))
        BY <2>2 DEF Pieces
      <4>2. empty \in Seq(T \ {mark})
        OBVIOUS
      <4>3. Split(done, s[k], mark) = Append(done, empty)
        BY <3>2 DEF Split
      <4> HIDE DEF done, empty
      <4>4. Append(done, empty) \in Seq(Seq(T \ {mark})) /\ Len(Append(done, empty)) = Len(done) + 1
        BY <4>1, <4>2, AppendProperties
      <4>5. Append(done, empty) # << >>
        <5>1. Len(done) \in Nat /\ Len(<< >>) = 0
          BY <4>1
        <5>2. Len(Append(done, empty)) # Len(<< >>)
          BY <4>4, <5>1
        <5>3. QED
          BY <5>2
      <4>6. QED
        BY <4>3, <4>4, <4>5 DEF Pieces, done
    <3>3. QED
      BY <3>1, <3>2
  <2>5. QED
    BY <2>2, <2>3, <2>4
<1>3. x_(Len(s)) = s /\ Len(s) \in Nat
  BY Fronts
<1> HIDE DEF Done
<1>4. Len(s) \in Done
  <2>1. \A k \in 0..Len(s) : k \in Done
    BY <1>1, <1>2, <1>3, CountingUp
  <2>2. QED
    BY <1>3, <2>1
<1>5. QED
  BY <1>3, <1>4 DEF Done

LEMMA FlatIsClean ==
    ASSUME NEW T, NEW mark \in T, NEW items \in Seq(Seq(T))
    PROVE  Flat(items, mark) \in Seq(Seq(T \ {mark}))
<1> DEFINE p == PiecesOf(items, mark)
<1>1. p = [i \in 1..Len(items) |-> SplitAt(items[i], mark)] /\ Len(items) \in Nat
  BY DEF PiecesOf
<1>2. \A i \in 1..Len(items) : SplitAt(items[i], mark) \in Seq(Seq(T \ {mark}))
  <2>1. TAKE i \in 1..Len(items)
  <2>2. items[i] \in Seq(T)
    BY ElementOfSeq
  <2>3. SplitAt(items[i], mark) \in Pieces(T \ {mark})
    BY <2>2, PiecesAreClean
  <2>4. QED
    BY <2>3 DEF Pieces
<1> HIDE DEF p
<1>3. p \in Seq(Seq(Seq(T \ {mark})))
  BY <1>1, <1>2
<1>4. FlattenSeq(p) \in Seq(Seq(T \ {mark}))
  BY <1>3, FlattenType
<1>5. QED
  BY <1>4 DEF Flat, p

LEMMA FlatAppend ==
    ASSUME NEW T, NEW mark \in T, NEW items \in Seq(Seq(T)), NEW v \in Seq(T)
    PROVE  Flat(Append(items, v), mark) = Then(Flat(items, mark), SplitAt(v, mark))
<1> DEFINE r == Append(items, v)
           n == Len(items)
           p == PiecesOf(items, mark)
           q == PiecesOf(r, mark)
           a == SplitAt(v, mark)
<1>1. /\ n \in Nat /\ r \in Seq(Seq(T)) /\ Len(r) = n + 1
      /\ r[n + 1] = v /\ \A i \in 1..n : r[i] = items[i]
  BY AppendProperties
<1> HIDE DEF r
<1>2. /\ p \in Seq(Seq(Seq(T))) /\ Len(p) = n
      /\ \A i \in 1..n : p[i] = SplitAt(items[i], mark)
  BY ItemsSplit
<1>3. /\ q \in Seq(Seq(Seq(T))) /\ Len(q) = Len(r)
      /\ \A i \in 1..Len(r) : q[i] = SplitAt(r[i], mark)
  BY <1>1, ItemsSplit
<1>4. a \in Seq(Seq(T))
  BY SplitAtType DEF Pieces
<1> HIDE DEF a, p, q, n
<1>5. /\ Append(p, a) \in Seq(Seq(Seq(T))) /\ Len(Append(p, a)) = n + 1
      /\ Append(p, a)[n + 1] = a /\ \A i \in 1..n : Append(p, a)[i] = p[i]
  BY <1>2, <1>4, AppendProperties
<1>6. q = Append(p, a)
  <2> DEFINE w == Append(p, a)
  <2>1. \A i \in 1..Len(q) : q[i] = w[i]
    <3>1. TAKE i \in 1..Len(q)
    <3>2. CASE i = n + 1
      <4>1. q[n + 1] = SplitAt(v, mark)
        BY <1>1, <1>3
      <4>2. QED
        BY <1>5, <3>2, <4>1 DEF a
    <3>3. CASE i # n + 1
      <4>1. i \in 1..n
        BY <1>1, <1>3, <3>3
      <4>2. q[i] = SplitAt(items[i], mark)
        BY <1>1, <1>3, <4>1
      <4>3. QED
        BY <1>2, <1>5, <4>1, <4>2
    <3>4. QED
      BY <3>2, <3>3
  <2>2. w \in Seq(Seq(Seq(T))) /\ Len(w) = Len(q)
    BY <1>1, <1>3, <1>5
  <2> HIDE DEF w
  <2>3. q = w
    BY <1>3, <2>1, <2>2, SeqEqual
  <2>4. QED
    BY <2>3 DEF w
<1>7. FlattenSeq(Append(p, a)) = Then(FlattenSeq(p), a)
  BY <1>2, <1>4, FlattenAppend
<1>8. QED
  BY <1>6, <1>7 DEF Flat, a, p, q, r

LEMMA FlatNothing ==
    ASSUME NEW mark
    PROVE  Flat(<< >>, mark) = << >>
<1>1. PiecesOf(<< >>, mark) = << >>
  BY DEF PiecesOf
<1>2. QED
  BY <1>1, FlattenNothing DEF Flat

\* Pieces without separators are not taken apart again.
LEMMA FlatClean ==
    ASSUME NEW T, NEW mark \in T, NEW items \in Seq(Seq(T \ {mark}))
    PROVE  Flat(items, mark) = items
<1> DEFINE x_(k) == SubSeq(items, 1, k)
           Done == {k \in Nat : Flat(x_(k), mark) = x_(k)}
<1>1. 0 \in Done
  <2>1. x_(0) = << >>
    BY Fronts
  <2> HIDE DEF x_
  <2>2. Flat(x_(0), mark) = x_(0)
    BY <2>1, FlatNothing
  <2>3. QED
    BY <2>2
<1>2. ASSUME NEW k \in 1..Len(items), k - 1 \in Done
      PROVE  k \in Done
  <2> DEFINE U == T \ {mark}
             a == x_(k - 1)
             v == items[k]
  <2>1. a \in Seq(Seq(U)) /\ v \in Seq(U) /\ x_(k) = Append(a, v)
    BY Fronts
  <2>2. Flat(a, mark) = a /\ k \in Nat
    BY <1>2
  <2>3. \A i \in 1..Len(v) : v[i] # mark
    BY <2>1
  <2>4. a \in Seq(Seq(T)) /\ v \in Seq(T)
    <3>1. \A x \in U : x \in T
      OBVIOUS
    <3> DEFINE S1 == Seq(U)
               S2 == Seq(T)
    <3> HIDE DEF a, v, U
    <3>2. \A x \in S1 : x \in S2
      BY <3>1, SeqOfMore
    <3>3. v \in S2 /\ a \in Seq(S1)
      BY <2>1, <3>2
    <3> HIDE DEF S1, S2
    <3>4. a \in Seq(S2)
      BY <3>2, <3>3, SeqOfMore
    <3>5. QED
      BY <3>3, <3>4 DEF S2
  <2> HIDE DEF a, v, x_, U
  <2>5. SplitAt(v, mark) = <<v>>
    BY <2>3, <2>4, SplitAtNowhere
  <2>6. Flat(Append(a, v), mark) = Then(Flat(a, mark), SplitAt(v, mark))
    BY <2>4, FlatAppend
  <2>7. Then(a, <<v>>) = Append(a, v)
    BY <2>4, AppendIsConcat DEF Then
  <2>8. Flat(x_(k), mark) = x_(k)
    BY <2>1, <2>2, <2>5, <2>6, <2>7
  <2>9. QED
    BY <2>2, <2>8
<1>3. x_(Len(items)) = items /\ Len(items) \in Nat
  BY Fronts
<1> HIDE DEF Done
<1>4. Len(items) \in Done
  <2>1. \A k \in 0..Len(items) : k \in Done
    BY <1>1, <1>2, <1>3, CountingUp
  <2>2. QED
    BY <1>3, <2>1
<1>5. QED
  BY <1>3, <1>4 DEF Done

\* What is put before the items is taken apart on its own.
LEMMA FlatBehind ==
    ASSUME NEW T, NEW mark \in T, NEW v \in Seq(T), NEW items \in Seq(Seq(T))
    PROVE  Flat(Then(<<v>>, items), mark) = Then(SplitAt(v, mark), Flat(items, mark))
<1> DEFINE x_(k) == SubSeq(items, 1, k)
           p == SplitAt(v, mark)
           one == <<v>>
           Done == {k \in Nat : Flat(Then(one, x_(k)), mark) = Then(p, Flat(x_(k), mark))}
<1>0. one \in Seq(Seq(T)) /\ p \in Seq(Seq(T))
  BY SplitAtType DEF Pieces
<1>1. 0 \in Done
  <2> DEFINE none == << >>
  <2>1. x_(0) = none /\ Append(none, v) = one /\ Then(one, none) = one /\ none \in Seq(Seq(T))
    BY Fronts DEF Then
  <2>2. Flat(none, mark) = none
    BY FlatNothing
  <2>3. Then(none, p) = p /\ Then(p, none) = p
    BY <1>0 DEF Then
  <2> HIDE DEF x_, none, one, p
  <2>4. Flat(Append(none, v), mark) = Then(Flat(none, mark), SplitAt(v, mark))
    BY <2>1, FlatAppend
  <2>5. Flat(Then(one, x_(0)), mark) = Then(p, Flat(x_(0), mark))
    BY <2>1, <2>2, <2>3, <2>4 DEF p
  <2>6. QED
    BY <2>5
<1>2. ASSUME NEW k \in 1..Len(items), k - 1 \in Done
      PROVE  k \in Done
  <2> DEFINE a == x_(k - 1)
             w == items[k]
  <2>1. a \in Seq(Seq(T)) /\ w \in Seq(T) /\ x_(k) = Append(a, w)
    BY Fronts
  <2>2. Flat(Then(one, a), mark) = Then(p, Flat(a, mark)) /\ k \in Nat
    BY <1>2
  <2> HIDE DEF a, w, x_, one, p
  <2>3. Flat(Append(a, w), mark) = Then(Flat(a, mark), SplitAt(w, mark))
    BY <2>1, FlatAppend
  <2>4. Then(one, Append(a, w)) = Append(Then(one, a), w) /\ Then(one, a) \in Seq(Seq(T))
    BY <1>0, <2>1, SMTT(30) DEF Then
  <2>5. Flat(Append(Then(one, a), w), mark) = Then(Flat(Then(one, a), mark), SplitAt(w, mark))
    BY <2>1, <2>4, FlatAppend
  <2>6. Flat(a, mark) \in Seq(Seq(T)) /\ SplitAt(w, mark) \in Seq(Seq(T))
    <3>1. PiecesOf(a, mark) \in Seq(Seq(Seq(T)))
      BY <2>1, ItemsSplit
    <3>2. QED
      BY <2>1, <3>1, FlattenType, SplitAtType DEF Flat, Pieces
  <2>7. Then(Then(p, Flat(a, mark)), SplitAt(w, mark)) = Then(p, Then(Flat(a, mark), SplitAt(w, mark)))
    <3> DEFINE f == Flat(a, mark)
               q == SplitAt(w, mark)
    <3>1. f \in Seq(Seq(T)) /\ q \in Seq(Seq(T))
      BY <2>6
    <3> HIDE DEF f, q
    <3>2. Then(Then(p, f), q) = Then(p, Then(f, q))
      BY <1>0, <3>1, ThenAssociative
    <3>3. QED
      BY <3>2 DEF f, q
  <2>8. Flat(Then(one, x_(k)), mark) = Then(p, Flat(x_(k), mark))
    BY <2>1, <2>2, <2>3, <2>4, <2>5, <2>7
  <2>9. QED
    BY <2>2, <2>8
<1>3. x_(Len(items)) = items /\ Len(items) \in Nat
  BY Fronts
<1> HIDE DEF Done
<1>4. Len(items) \in Done
  <2>1. \A k \in 0..Len(items) : k \in Done
    BY <1>1, <1>2, <1>3, CountingUp
  <2>2. QED
    BY <1>3, <2>1
<1>5. QED
  BY <1>3, <1>4 DEF Done

Bar == "|:"

\* A header holds a stack of values: as they are if it is one, in pieces if they are more.
Holds(h, stack) ==
    /\ h \in Phrases /\ stack \in Stacks
    /\ Items(h) = IF Len(stack) = 1 THEN stack ELSE Flat(stack, Bar)

LEMMA BarIsToken == Bar \in Tokens
  BY MarksAreTokens DEF Bar

LEMMA HoldsItems ==
    ASSUME NEW v \in Phrases
    PROVE  Holds(v, Items(v))
<1>1. Items(v) \in Stacks
  BY ItemsType
<1>2. CASE IsArray(v)
  <2> DEFINE items == SplitAt(Tail(v), Bar)
  <2>1. Items(v) = items
    BY <1>2 DEF Items, Bar
  <2>2. Tail(v) \in Seq(Tokens)
    BY <1>2 DEF IsArray, Phrases
  <2>3. items \in Seq(Seq(Tokens \ {Bar}))
    BY <2>2, BarIsToken, PiecesAreClean DEF Pieces
  <2> HIDE DEF items
  <2>4. Flat(items, Bar) = items
    BY <2>3, BarIsToken, FlatClean
  <2>5. QED
    BY <1>1, <2>1, <2>4 DEF Holds
<1>3. CASE ~IsArray(v)
  <2>1. Items(v) = <<v>> /\ Len(Items(v)) = 1
    BY <1>3 DEF Items
  <2>2. QED
    BY <1>1, <2>1 DEF Holds
<1>4. QED
  BY <1>2, <1>3

\* An array's text holds what its items were taken from.
LEMMA HoldsArray ==
    ASSUME NEW items \in Stacks, NEW stack \in Stacks, Len(stack) # 1,
           Flat(items, Bar) = Flat(stack, Bar)
    PROVE  Holds(ArrayText(items), stack)
<1> DEFINE text == ArrayText(items)
<1>1. text \in Phrases /\ IsArray(text) /\ Tail(text) = Joined(items, <<Bar>>)
  BY ArrayTextParts DEF Bar
<1>2. Items(text) = SplitAt(Tail(text), Bar)
  BY <1>1 DEF Items, Bar
<1>3. items \in Pieces(Tokens)
  BY DEF Stacks, Pieces, Phrases
<1>4. SplitAt(Joined(items, <<Bar>>), Bar) = Flat(items, Bar)
  BY <1>3, BarIsToken, ArrayComesBack
<1> HIDE DEF text
<1>5. Items(text) = Flat(stack, Bar)
  BY <1>1, <1>2, <1>4
<1>6. QED
  BY <1>1, <1>5 DEF Holds, text

\* The values of a header's items are those of its stack.
LEMMA FlatHeld ==
    ASSUME NEW h, NEW stack, Holds(h, stack)
    PROVE  Flat(Items(h), Bar) = Flat(stack, Bar) /\ Items(h) \in Stacks
<1>1. h \in Phrases /\ stack \in Seq(Seq(Tokens))
  BY DEF Holds, Stacks, Phrases
<1>2. Items(h) \in Stacks
  BY <1>1, ItemsType
<1>3. CASE Len(stack) = 1
  BY <1>2, <1>3 DEF Holds
<1>4. CASE Len(stack) # 1
  <2> DEFINE flat == Flat(stack, Bar)
  <2>1. flat \in Seq(Seq(Tokens \ {Bar}))
    BY <1>1, BarIsToken, FlatIsClean
  <2>2. Items(h) = flat
    BY <1>4 DEF Holds
  <2> HIDE DEF flat
  <2>3. Flat(flat, Bar) = flat
    BY <2>1, BarIsToken, FlatClean
  <2>4. QED
    BY <1>2, <2>2, <2>3 DEF flat
<1>5. QED
  BY <1>3, <1>4

LEMMA HoldsPushed ==
    ASSUME NEW h, NEW stack, Holds(h, stack), NEW v \in Phrases
    PROVE  Holds(ArrayText(Append(Items(h), v)), Append(stack, v))
<1> DEFINE old == Items(h)
           items == Append(old, v)
           new == Append(stack, v)
<1>1. /\ old \in Seq(Seq(Tokens)) /\ stack \in Seq(Seq(Tokens)) /\ v \in Seq(Tokens)
      /\ old \in Seq(Phrases) /\ stack \in Seq(Phrases) /\ stack # << >>
  BY FlatHeld DEF Holds, Stacks, Phrases
<1>2. Flat(old, Bar) = Flat(stack, Bar)
  BY FlatHeld
<1> HIDE DEF old
<1>3. Flat(items, Bar) = Then(Flat(old, Bar), SplitAt(v, Bar))
  BY <1>1, BarIsToken, FlatAppend
<1>4. Flat(new, Bar) = Then(Flat(stack, Bar), SplitAt(v, Bar))
  BY <1>1, BarIsToken, FlatAppend
<1>5. Flat(items, Bar) = Flat(new, Bar)
  <2> HIDE DEF items, new
  <2>1. QED
    BY <1>2, <1>3, <1>4
<1>6. items \in Seq(Phrases) /\ Len(items) = Len(old) + 1 /\ Len(old) \in Nat
  BY <1>1, AppendProperties
<1>7. new \in Seq(Phrases) /\ Len(new) = Len(stack) + 1 /\ Len(stack) \in Nat /\ Len(stack) # 0
  BY <1>1, AppendProperties, EmptySeq
<1> HIDE DEF items, new
<1>8. items \in Stacks /\ new \in Stacks /\ Len(new) # 1
  <2>1. Len(items) # 0 /\ Len(new) # 0 /\ Len(new) # 1
    BY <1>6, <1>7
  <2>2. QED
    BY <1>6, <1>7, <2>1, EmptySeq DEF Stacks
<1>9. QED
  BY <1>5, <1>8, HoldsArray DEF items, new, old

LEMMA HoldsUnshifted ==
    ASSUME NEW h, NEW stack, Holds(h, stack), NEW v \in Phrases
    PROVE  Holds(ArrayText(<<v>> \o Items(h)), <<v>> \o stack)
<1> DEFINE old == Items(h)
           one == <<v>>
           items == Then(one, old)
           new == Then(one, stack)
<1>1. /\ old \in Seq(Seq(Tokens)) /\ stack \in Seq(Seq(Tokens)) /\ v \in Seq(Tokens)
      /\ old \in Seq(Phrases) /\ stack \in Seq(Phrases) /\ stack # << >>
  BY FlatHeld DEF Holds, Stacks, Phrases
<1>2. Flat(old, Bar) = Flat(stack, Bar)
  BY FlatHeld
<1> HIDE DEF old
<1>3. Flat(items, Bar) = Then(SplitAt(v, Bar), Flat(old, Bar))
  BY <1>1, BarIsToken, FlatBehind
<1>4. Flat(new, Bar) = Then(SplitAt(v, Bar), Flat(stack, Bar))
  BY <1>1, BarIsToken, FlatBehind
<1>5. Flat(items, Bar) = Flat(new, Bar)
  <2> HIDE DEF items, new
  <2>1. QED
    BY <1>2, <1>3, <1>4
<1>6. one \in Seq(Phrases) /\ Len(one) = 1
  OBVIOUS
<1> HIDE DEF one
<1>7. items \in Seq(Phrases) /\ Len(items) = Len(one) + Len(old) /\ Len(old) \in Nat
  <2>1. one \o old \in Seq(Phrases) /\ Len(one \o old) = Len(one) + Len(old)
    BY <1>1, <1>6, ConcatProperties
  <2>2. Len(old) \in Nat
    BY <1>1
  <2>3. QED
    BY <2>1, <2>2 DEF Then
<1>8. new \in Seq(Phrases) /\ Len(new) = Len(one) + Len(stack) /\ Len(stack) \in Nat /\ Len(stack) # 0
  BY <1>1, <1>6, ConcatProperties, EmptySeq DEF Then
<1> HIDE DEF items, new
<1>9. items \in Stacks /\ new \in Stacks /\ Len(new) # 1
  <2>1. Len(items) # 0 /\ Len(new) # 0 /\ Len(new) # 1
    BY <1>6, <1>7, <1>8
  <2>2. QED
    BY <1>7, <1>8, <2>1, EmptySeq DEF Stacks
<1>10. Holds(ArrayText(items), new)
  BY <1>5, <1>9, HoldsArray
<1>11. QED
  BY <1>10 DEF items, new, old, one, Then

-----------------------------------------------------------------------------
(***************************************************************************)
(* The events an application can build.                                    *)
(***************************************************************************)

\* Each header holds its stack.
StackInv ==
    /\ event \in Events /\ IsFiniteSet(DOMAIN event.headers)
    /\ stacked = [n \in DOMAIN event.headers |-> stacked[n]]
    /\ \A n \in DOMAIN event.headers : Holds(event.headers[n], stacked[n])

LEMMA EventInitially == EventInit => StackInv
<1> SUFFICES ASSUME EventInit PROVE StackInv
  OBVIOUS
<1> DEFINE none == << >>
<1>1. event = [type |-> none, headers |-> none, body |-> none] /\ stacked = none
  BY DEF EventInit
<1>2. DOMAIN none = {} /\ none \in [{} -> Phrases]
  OBVIOUS
<1>3. none \in Options(TypeNames) /\ none \in Options(Bodies)
  BY DEF Options
<1>4. stacked = [n \in DOMAIN none |-> stacked[n]]
  BY <1>1
<1> HIDE DEF none
<1>5. event.headers = none
  BY <1>1
<1>6. event \in Events
  <2>1. none \in UNION {[D -> Phrases] : D \in SUBSET HeaderNames}
    BY <1>2
  <2>2. QED
    BY <1>1, <1>3, <2>1 DEF Events
<1>7. QED
  BY <1>2, <1>4, <1>5, <1>6, FS_EmptySet DEF StackInv

\* A header is set, to what holds its new stack.
Changes(n, v, stack) ==
    /\ event' = WithHeader(event, n, v)
    /\ stacked' = Put(stacked, n, stack)

LEMMA ChangeKeeps ==
    ASSUME StackInv, NEW n \in HeaderNames, NEW v, NEW stack, Holds(v, stack), Changes(n, v, stack)
    PROVE  StackInv'
<1> DEFINE D == DOMAIN event.headers
<1>1. /\ event \in Events /\ IsFiniteSet(D) /\ stacked = [m \in D |-> stacked[m]]
      /\ \A m \in D : Holds(event.headers[m], stacked[m])
  BY DEF StackInv
<1>2. event' = WithHeader(event, n, v) /\ v \in Phrases
  BY DEF Changes, Holds
<1>3. /\ event' \in Events /\ IsFiniteSet(DOMAIN event'.headers)
      /\ DOMAIN event'.headers = D \cup {n}
      /\ \A m \in DOMAIN event'.headers : event'.headers[m] = IF m = n THEN v ELSE event.headers[m]
  <2> DEFINE f == event'
  <2>1. f = WithHeader(event, n, v)
    BY <1>2
  <2> HIDE DEF f
  <2>2. /\ f \in Events /\ IsFiniteSet(DOMAIN f.headers)
        /\ DOMAIN f.headers = D \cup {n}
        /\ \A m \in DOMAIN f.headers : f.headers[m] = IF m = n THEN v ELSE event.headers[m]
    BY <1>1, <1>2, <2>1, HeaderPut
  <2>3. QED
    BY <2>2 DEF f
<1>4. /\ stacked' = [m \in D \cup {n} |-> IF m = n THEN stack ELSE stacked[m]]
  <2>1. DOMAIN stacked = D
    BY <1>1
  <2>2. QED
    BY <2>1 DEF Changes, Put
<1>5. \A m \in D \cup {n} : Holds(event'.headers[m], stacked'[m])
  BY <1>1, <1>3, <1>4
<1>6. stacked' = [m \in D \cup {n} |-> stacked'[m]]
  BY <1>4
<1>7. QED
  BY <1>3, <1>5, <1>6 DEF StackInv

LEMMA SetKeeps ==
    ASSUME StackInv, NEW n \in Names, NEW v \in Values, SetHeader(n, v)
    PROVE  StackInv'
<1>1. v \in Phrases /\ n \in HeaderNames
  BY ValueType DEF HeaderNames
<1>2. Changes(n, v, Items(v))
  BY DEF SetHeader, Changes, WithHeader
<1>3. QED
  BY <1>1, <1>2, HoldsItems, ChangeKeeps

LEMMA DelKeeps ==
    ASSUME StackInv, NEW n, DelHeader(n)
    PROVE  StackInv'
<1> DEFINE D == DOMAIN event.headers
           f == event'
<1>1. /\ event \in Events /\ IsFiniteSet(D) /\ stacked = [m \in D |-> stacked[m]]
      /\ \A m \in D : Holds(event.headers[m], stacked[m])
  BY DEF StackInv
<1>2. f = WithoutHeader(event, n) /\ stacked' = Without(stacked, n)
  BY DEF DelHeader, WithoutHeader
<1> HIDE DEF f
<1>3. /\ f \in Events /\ IsFiniteSet(DOMAIN f.headers)
      /\ DOMAIN f.headers = D \ {n}
      /\ \A m \in DOMAIN f.headers : f.headers[m] = event.headers[m]
  BY <1>1, <1>2, HeaderGone
<1>4. DOMAIN stacked = D
  BY <1>1
<1>5. stacked' = [m \in D \ {n} |-> stacked[m]]
  BY <1>2, <1>4 DEF Without
<1>6. \A m \in D \ {n} : Holds(f.headers[m], stacked'[m])
  BY <1>1, <1>3, <1>5
<1>7. stacked' = [m \in D \ {n} |-> stacked'[m]]
  BY <1>5
<1>8. QED
  BY <1>3, <1>6, <1>7 DEF StackInv, f

LEMMA PushKeeps ==
    ASSUME StackInv, NEW n \in Names, NEW v \in Values, PushHeader(n, v)
    PROVE  StackInv'
<1>1. v \in Phrases /\ n \in HeaderNames
  BY ValueType DEF HeaderNames
<1>2. DOMAIN stacked = DOMAIN event.headers
  BY DEF StackInv
<1>3. CASE n \in DOMAIN event.headers
  <2> DEFINE h == event.headers[n]
             stack == stacked[n]
  <2>1. Changes(n, ArrayText(Append(Items(h), v)), Append(stack, v))
    BY <1>2, <1>3 DEF PushHeader, StackHeader, Old, Changes, WithHeader
  <2>2. Holds(h, stack)
    BY <1>3 DEF StackInv
  <2> HIDE DEF h, stack
  <2>3. QED
    BY <1>1, <2>1, <2>2, HoldsPushed, ChangeKeeps
<1>4. CASE n \notin DOMAIN event.headers
  <2>1. Append(<< >>, v)[1] = v
    OBVIOUS
  <2>2. Changes(n, v, Items(v))
    BY <1>2, <1>4, <2>1 DEF PushHeader, StackHeader, Old, Changes, WithHeader
  <2>3. QED
    BY <1>1, <2>2, HoldsItems, ChangeKeeps
<1>5. QED
  BY <1>3, <1>4

LEMMA UnshiftKeeps ==
    ASSUME StackInv, NEW n \in Names, NEW v \in Values, UnshiftHeader(n, v)
    PROVE  StackInv'
<1>1. v \in Phrases /\ n \in HeaderNames
  BY ValueType DEF HeaderNames
<1>2. DOMAIN stacked = DOMAIN event.headers
  BY DEF StackInv
<1>3. CASE n \in DOMAIN event.headers
  <2> DEFINE h == event.headers[n]
             stack == stacked[n]
  <2>1. Changes(n, ArrayText(<<v>> \o Items(h)), <<v>> \o stack)
    BY <1>2, <1>3 DEF UnshiftHeader, StackHeader, Old, Changes, WithHeader
  <2>2. Holds(h, stack)
    BY <1>3 DEF StackInv
  <2> HIDE DEF h, stack
  <2> DEFINE text == ArrayText(<<v>> \o Items(h))
             longer == <<v>> \o stack
  <2>3. Holds(text, longer) /\ Changes(n, text, longer)
    BY <1>1, <2>1, <2>2, HoldsUnshifted
  <2> HIDE DEF text, longer
  <2>4. QED
    BY <1>1, <2>3, ChangeKeeps
<1>4. CASE n \notin DOMAIN event.headers
  <2>1. (<<v>> \o << >>)[1] = v
    OBVIOUS
  <2>2. Changes(n, v, Items(v))
    BY <1>2, <1>4, <2>1 DEF UnshiftHeader, StackHeader, Old, Changes, WithHeader
  <2>3. QED
    BY <1>1, <2>2, HoldsItems, ChangeKeeps
<1>5. QED
  BY <1>3, <1>4

LEMMA BodyKeeps ==
    ASSUME StackInv, NEW b \in Bodies, SetBody(b)
    PROVE  StackInv'
<1>1. event' = [event EXCEPT !.body = <<b>>] /\ stacked' = stacked /\ event \in Events
  BY DEF SetBody, StackInv
<1>2. <<b>> \in Options(Bodies)
  BY DEF Options
<1>3. event' \in Events /\ event'.headers = event.headers
  BY <1>1, <1>2 DEF Events
<1>4. QED
  BY <1>1, <1>3 DEF StackInv

LEMMA TypeKeeps ==
    ASSUME StackInv, NEW t \in Options(TypeNames), SetEventType(t)
    PROVE  StackInv'
<1>1. event' = [event EXCEPT !.type = t] /\ stacked' = stacked /\ event \in Events
  BY DEF SetEventType, StackInv
<1>2. event' \in Events /\ event'.headers = event.headers
  BY <1>1 DEF Events
<1>3. QED
  BY <1>1, <1>2 DEF StackInv

LEMMA EchoKeeps ==
    ASSUME StackInv, Echo
    PROVE  StackInv'
<1> DEFINE back == event'
           L == "Content-Length"
<1>1. /\ event \in Events /\ IsFiniteSet(DOMAIN event.headers)
      /\ stacked = [m \in DOMAIN event.headers |-> stacked[m]]
      /\ \A m \in DOMAIN event.headers : Holds(event.headers[m], stacked[m])
  BY DEF StackInv
<1>2. /\ back = ParsePlain(PlainText(event))
      /\ stacked' = [n \in DOMAIN back.headers |->
                       IF n \in DOMAIN stacked /\ n # L THEN stacked[n] ELSE Items(back.headers[n])]
  BY DEF Echo
<1> HIDE DEF back
<1>3. back \in Events /\ IsFiniteSet(DOMAIN back.headers)
  BY <1>1, <1>2, BackIsEvent
<1>4. back.headers = Sent(event)
  BY <1>1, <1>2, BackParts
<1>5. \A n \in DOMAIN back.headers :
          n # L => n \in DOMAIN event.headers /\ back.headers[n] = event.headers[n]
  <2>1. /\ DOMAIN Sent(event) = (DOMAIN event.headers \ {L}) \cup (IF event.body = << >> THEN {} ELSE {L})
        /\ \A n \in DOMAIN Sent(event) : Sent(event)[n] = IF n = L THEN LengthSays(event) ELSE event.headers[n]
    BY <1>1, SentParts
  <2> HIDE DEF L
  <2>2. QED
    BY <1>4, <2>1
<1>6. \A n \in DOMAIN back.headers : back.headers[n] \in Phrases
  BY <1>3, EventParts
<1> HIDE DEF L
<1>7. ASSUME NEW n \in DOMAIN back.headers
      PROVE  Holds(back.headers[n], stacked'[n])
  <2>1. CASE n # L
    <3>1. n \in DOMAIN stacked /\ back.headers[n] = event.headers[n] /\ Holds(event.headers[n], stacked[n])
      BY <1>1, <1>5, <2>1
    <3>2. stacked'[n] = stacked[n]
      BY <1>2, <2>1, <3>1
    <3>3. QED
      BY <3>1, <3>2
  <2>2. CASE n = L
    <3>1. stacked'[n] = Items(back.headers[n])
      BY <1>2, <2>2
    <3>2. QED
      BY <1>6, <3>1, HoldsItems
  <2>3. QED
    BY <2>1, <2>2
<1>8. stacked' = [n \in DOMAIN back.headers |-> stacked'[n]]
  BY <1>2
<1>9. QED
  BY <1>3, <1>7, <1>8 DEF StackInv, back

LEMMA EventSteps == StackInv /\ [EventNext]_eventVars => StackInv'
<1> SUFFICES ASSUME StackInv, [EventNext]_eventVars
             PROVE  StackInv'
  OBVIOUS
<1>1. CASE UNCHANGED eventVars
  BY <1>1 DEF eventVars, StackInv
<1>2. ASSUME NEW n \in Names, DelHeader(n)
      PROVE  StackInv'
  BY <1>2, DelKeeps
<1>3. ASSUME NEW n \in Names, NEW v \in Values, SetHeader(n, v)
      PROVE  StackInv'
  BY <1>3, SetKeeps
<1>4. ASSUME NEW n \in Names, NEW v \in Values, PushHeader(n, v)
      PROVE  StackInv'
  BY <1>4, PushKeeps
<1>5. ASSUME NEW n \in Names, NEW v \in Values, UnshiftHeader(n, v)
      PROVE  StackInv'
  BY <1>5, UnshiftKeeps
<1>6. ASSUME NEW b \in Bodies, SetBody(b)
      PROVE  StackInv'
  BY <1>6, BodyKeeps
<1>7. ASSUME NEW t \in Options(TypeNames), SetEventType(t)
      PROVE  StackInv'
  BY <1>7, TypeKeeps
<1>8. CASE Echo
  BY <1>8, EchoKeeps
<1>9. QED
  BY <1>1, <1>2, <1>3, <1>4, <1>5, <1>6, <1>7, <1>8 DEF EventNext

\* Each header of an event holds its stack, for all names, values and bodies.
THEOREM EventInvariant == EventSpec => []StackInv
  BY EventInitially, EventSteps, PTL DEF EventSpec

\* An event has at most one type and one body, and for each header what was put into it.
THEOREM EventTypeCorrect == EventSpec => []EventTypeOK
<1>1. StackInv => EventTypeOK
  <2> SUFFICES ASSUME StackInv PROVE EventTypeOK
    OBVIOUS
  <2>1. \A n \in DOMAIN event.headers : stacked[n] \in Stacks
    BY DEF StackInv, Holds
  <2>2. stacked = [n \in DOMAIN event.headers |-> stacked[n]] /\ event \in Events
    BY DEF StackInv
  <2> HIDE DEF StackInv
  <2>3. stacked \in [DOMAIN event.headers -> Stacks]
    BY <2>1, <2>2
  <2>4. /\ event \in [type : Options(TypeNames), headers : [DOMAIN event.headers -> Phrases],
                     body : Options(Bodies)]
        /\ DOMAIN event.headers \subseteq HeaderNames
    <3>1. PICK D \in SUBSET HeaderNames : event.headers \in [D -> Phrases]
      BY <2>2 DEF Events
    <3>2. QED
      BY <2>2, <3>1 DEF Events
  <2>5. QED
    BY <2>3, <2>4 DEF EventTypeOK, Stacks
<1>2. QED
  BY <1>1, EventInvariant, PTL

\* A header holds the values pushed and unshifted since it was set, each in its place,
\* whatever passes through a server between (push_header and unshift_header, event.rs, and
\* EslArray), for all values.
THEOREM StacksInOrder == EventSpec => []StacksKeepTheirOrder
<1>1. StackInv => StacksKeepTheirOrder
  <2> SUFFICES ASSUME StackInv, NEW n \in DOMAIN stacked
               PROVE  LET stack == stacked[n]
                      IN  Items(event.headers[n]) =
                            IF Len(stack) = 1 THEN stack
                            ELSE FlattenSeq([i \in 1..Len(stack) |-> SplitAt(stack[i], "|:")])
    BY DEF StacksKeepTheirOrder
  <2>1. n \in DOMAIN event.headers
    BY DEF StackInv
  <2>2. Holds(event.headers[n], stacked[n])
    BY <2>1 DEF StackInv
  <2>3. QED
    BY <2>2 DEF Holds, Flat, PiecesOf, Bar
<1>2. QED
  BY <1>1, EventInvariant, PTL

\* An event whose headers hold their stacks comes back from its plain text.
LEMMA EventKeeps == StackInv => PlainTextComesBack
<1> SUFFICES ASSUME StackInv PROVE PlainTextComesBack
  OBVIOUS
<1> DEFINE back == ParsePlain(PlainText(event))
           L == "Content-Length"
           D == DOMAIN event.headers \ {L}
           s == Sent(event)
<1>1. event \in Events /\ IsFiniteSet(DOMAIN event.headers)
  BY DEF StackInv
<1>2. /\ DOMAIN s = D \cup (IF event.body = << >> THEN {} ELSE {L})
      /\ \A n \in DOMAIN s : s[n] = IF n = L THEN LengthSays(event) ELSE event.headers[n]
      /\ TypeOf(s) = TypeOf(event.headers)
  BY <1>1, SentParts
<1>3. back.headers = s /\ back.type = TypeOf(s) /\ back.body = IF event.body = << << >> >> THEN << >> ELSE event.body
  BY <1>1, BackParts
<1>4. L \notin D
  OBVIOUS
<1> HIDE DEF back, s
<1>5. Without(back.headers, L) = Without(event.headers, L)
  <2>1. DOMAIN s \ {L} = D
    BY <1>2
  <2>2. \A n \in D : s[n] = event.headers[n]
    BY <1>2
  <2> HIDE DEF L
  <2>3. QED
    BY <1>3, <2>1, <2>2 DEF Without
<1>6. event.body = << >> <=> L \notin DOMAIN back.headers
  BY <1>2, <1>3
<1>7. event.body # << >> => back.headers[L] = <<ToString(Len(event.body[1]))>>
  BY <1>2, <1>3 DEF LengthSays
<1>8. back.type = TypeOf(event.headers)
  BY <1>2, <1>3
<1>9. QED
  BY <1>3, <1>5, <1>6, <1>7, <1>8 DEF PlainTextComesBack, back

\* The plain text of an event, parsed, is the event (to_plain_format and parse_plain_event),
\* for all names, values and bodies.
THEOREM PlainTextIsFaithful == EventSpec => []PlainTextComesBack
  BY EventKeeps, EventInvariant, PTL

-----------------------------------------------------------------------------
(***************************************************************************)
(* What the XML parser reads, element by element.                          *)
(***************************************************************************)

XmlNames == HeaderNames \cup {"event", "headers", "body"}

XmlTexts == Phrases \cup Bodies \cup {<<"lf">>}

XmlItems ==
    {Start(n) : n \in XmlNames} \cup {End(n) : n \in XmlNames}
    \cup {[kind |-> "text", of |-> v] : v \in XmlTexts}

XmlStates ==
    [inHeaders : BOOLEAN, inBody : BOOLEAN, tag : Options(XmlNames),
     headers : UNION {[D -> XmlTexts] : D \in SUBSET XmlNames}, body : Options(XmlTexts)]

NoXmlRead == [inHeaders |-> FALSE, inBody |-> FALSE, tag |-> << >>,
                headers |-> << >>, body |-> << >>]

AfterXml(xml) == FoldLeft(XmlStep, NoXmlRead, xml)

LEMMA NothingReadType == NoXmlRead \in XmlStates
<1> DEFINE none == << >>
<1>1. none \in [{} -> XmlTexts] /\ {} \in SUBSET XmlNames
  OBVIOUS
<1>2. none \in Options(XmlTexts) /\ none \in Options(XmlNames)
  BY DEF Options
<1>3. none \in UNION {[D -> XmlTexts] : D \in SUBSET XmlNames}
  BY <1>1
<1>4. NoXmlRead = [inHeaders |-> FALSE, inBody |-> FALSE, tag |-> none,
                     headers |-> none, body |-> none]
  BY DEF NoXmlRead
<1> HIDE DEF none
<1>5. QED
  BY <1>2, <1>3, <1>4 DEF XmlStates

LEMMA XmlStepType ==
    ASSUME NEW s \in XmlStates, NEW x \in XmlItems
    PROVE  XmlStep(s, x) \in XmlStates
<1>1. CASE x \in {Start(n) : n \in XmlNames}
  <2>1. PICK n \in XmlNames : x = Start(n)
    BY <1>1
  <2>2. XmlStep(s, x) = Opened(s, n)
    BY <2>1 DEF XmlStep, Start
  <2>3. <<n>> \in Options(XmlNames)
    BY DEF Options
  <2>4. Opened(s, n) \in XmlStates
    BY <2>3 DEF Opened, XmlStates
  <2>5. QED
    BY <2>2, <2>4
<1>2. CASE x \in {End(n) : n \in XmlNames}
  <2>1. PICK n \in XmlNames : x = End(n)
    BY <1>2
  <2>2. XmlStep(s, x) = Closed(s, n)
    BY <2>1 DEF XmlStep, End
  <2>3. << >> \in Options(XmlNames)
    BY DEF Options
  <2>4. Closed(s, n) \in XmlStates
    BY <2>3 DEF Closed, XmlStates
  <2>5. QED
    BY <2>2, <2>4
<1>3. CASE x \in {[kind |-> "text", of |-> v] : v \in XmlTexts}
  <2>1. PICK v \in XmlTexts : x = [kind |-> "text", of |-> v]
    BY <1>3
  <2>2. XmlStep(s, x) = Characters(s, v)
    BY <2>1 DEF XmlStep
  <2>3. CASE s.inBody
    <3>1. <<v>> \in Options(XmlTexts)
      BY DEF Options
    <3>2. QED
      BY <2>2, <2>3, <3>1 DEF Characters, XmlStates
  <2>4. CASE ~s.inBody /\ s.tag # << >>
    <3>1. PICK n \in XmlNames : s.tag = <<n>>
      BY <2>4 DEF XmlStates, Options
    <3>2. PICK D \in SUBSET XmlNames : s.headers \in [D -> XmlTexts]
      BY DEF XmlStates
    <3> DEFINE h == Put(s.headers, n, v)
    <3>3. h \in [D \cup {n} -> XmlTexts] /\ D \cup {n} \in SUBSET XmlNames
      BY <3>2 DEF Put
    <3>4. h \in UNION {[E -> XmlTexts] : E \in SUBSET XmlNames}
      BY <3>3
    <3>5. Characters(s, v) = [s EXCEPT !.headers = h]
      BY <2>4, <3>1 DEF Characters
    <3> HIDE DEF h
    <3>6. [s EXCEPT !.headers = h] \in XmlStates
      BY <3>4 DEF XmlStates
    <3>7. QED
      BY <2>2, <3>5, <3>6
  <2>5. CASE ~s.inBody /\ s.tag = << >>
    BY <2>2, <2>5 DEF Characters
  <2>6. s.inBody \in BOOLEAN
    BY DEF XmlStates
  <2>7. QED
    BY <2>3, <2>4, <2>5, <2>6
<1>4. QED
  BY <1>1, <1>2, <1>3 DEF XmlItems

XmlReads(g, xml) ==
    /\ PrefixValues(g, XmlStates, xml, NoXmlRead, AfterXml(xml))
    /\ \A k \in 1..Len(xml) : g[k] = XmlStep(g[k - 1], xml[k])

LEMMA XmlSteps ==
    ASSUME NEW xml \in Seq(XmlItems)
    PROVE  \E g : XmlReads(g, xml)
<1> DEFINE X == XmlStates
           T == XmlItems
           s == xml
           base == NoXmlRead
           n == Len(s)
           step == [state \in X |-> [x \in T |-> XmlStep(state, x)]]
           Is(h) == h = [d \in SUBSET (DOMAIN s) |-> IF d = {} THEN base
                                                    ELSE XmlStep(h[d \ {Max(d)}], s[Max(d)])]
           h == CHOOSE h : Is(h)
<1>1. s \in Seq(T) /\ n \in Nat /\ DOMAIN s = 1..n
  OBVIOUS
<1>2. base \in X
  BY NothingReadType
<1>3. /\ step \in [X -> [T -> X]]
      /\ \A state \in X, x \in T : step[state][x] = XmlStep(state, x)
  BY XmlStepType
<1>4. AfterXml(s) = h[DOMAIN s]
  BY DEF AfterXml, FoldLeft, MapThenFoldSet
<1> HIDE DEF base
<1>5. PICK f \in [SUBSET (1..n) -> X] : Folded(f, s, base, step, n)
  <2> HIDE DEF step, X, T
  <2>1. QED
    BY <1>1, <1>2, <1>3, FoldExists
<1>6. ASSUME NEW d \in SUBSET (1..n), d # {}
      PROVE  step[f[d \ {Max(d)}]][s[Max(d)]] = XmlStep(f[d \ {Max(d)}], s[Max(d)])
  <2>1. Max(d) \in 1..n
    BY <1>1, <1>6, MaxIsMember
  <2>2. s[Max(d)] \in T
    BY <1>1, <2>1, ElementOfSeq
  <2>3. f[d \ {Max(d)}] \in X
    <3>1. d \ {Max(d)} \in SUBSET (1..n)
      BY <1>6
    <3> HIDE DEF X, n
    <3>2. QED
      BY <1>5, <3>1
  <2> HIDE DEF X, T, step
  <2>4. QED
    BY <1>3, <2>2, <2>3
<1>7. Is(f)
  <2>1. f = [d \in SUBSET (1..n) |-> IF d = {} THEN base ELSE XmlStep(f[d \ {Max(d)}], s[Max(d)])]
    BY <1>5, <1>6 DEF Folded
  <2>2. QED
    BY <1>1, <2>1
<1>8. Is(h)
  BY <1>7
<1>9. h = [d \in SUBSET (1..n) |-> IF d = {} THEN base ELSE XmlStep(h[d \ {Max(d)}], s[Max(d)])]
  BY <1>1, <1>8
<1> HIDE DEF h, step, Is, n
<1>10. h[{}] = base
  BY <1>9
<1>11. ASSUME NEW k \in 1..n
       PROVE  h[1..k] = XmlStep(h[1..(k - 1)], s[k])
  <2>1. k \in Nat \ {0} /\ 1..k \in SUBSET (1..n) /\ k \in 1..k
    BY <1>1
  <2>2. Max(1..k) = k /\ (1..k) \ {k} = 1..(k - 1)
    BY <2>1, MaxOfPrefix
  <2>3. QED
    BY <1>9, <2>1, <2>2
<1>12. \A k \in 0..n : h[1..k] \in X
  <2>1. \A k \in 1..n : h[1..(k - 1)] \in X => h[1..k] \in X
    <3>1. \A k \in 1..n : s[k] \in T
      BY <1>1, ElementOfSeq DEF n
    <3> HIDE DEF X, T
    <3>2. QED
      BY <1>11, <3>1, XmlStepType DEF X, T
  <2>2. QED
    BY <1>1, <1>2, <1>10, <2>1, PrefixTypes
<1> DEFINE g == [k \in 0..n |-> h[1..k]]
<1>13. g \in [0..n -> X] /\ g[0] = base /\ g[n] = AfterXml(s)
  <2>1. 1..0 = {}
    OBVIOUS
  <2>2. QED
    BY <1>1, <1>4, <1>10, <1>12, <2>1
<1>14. \A k \in 1..n : g[k] = XmlStep(g[k - 1], s[k])
  <2>1. \A k \in 1..n : k \in 0..n /\ k - 1 \in 0..n
    BY <1>1
  <2>2. QED
    BY <1>11, <2>1
<1>15. QED
  BY <1>13, <1>14 DEF PrefixValues, XmlReads, n, base

LEMMA AfterNothing == AfterXml(<< >>) = NoXmlRead
<1>1. << >> \in Seq(XmlItems) /\ Len(<< >>) = 0
  OBVIOUS
<1>2. PICK g : XmlReads(g, << >>)
  BY <1>1, XmlSteps
<1>3. QED
  BY <1>1, <1>2 DEF PrefixValues, XmlReads

LEMMA AfterAppend ==
    ASSUME NEW xml \in Seq(XmlItems), NEW x \in XmlItems
    PROVE  AfterXml(Append(xml, x)) = XmlStep(AfterXml(xml), x)
<1> DEFINE r == Append(xml, x)
<1>1. /\ Len(xml) \in Nat /\ r \in Seq(XmlItems) /\ Len(r) = Len(xml) + 1
      /\ r[Len(xml) + 1] = x /\ \A i \in 1..Len(xml) : r[i] = xml[i]
  BY AppendProperties
<1>2. PICK f : XmlReads(f, xml)
  BY XmlSteps
<1> HIDE DEF r
<1>3. PICK g : XmlReads(g, r)
  BY <1>1, XmlSteps
<1>4. f[0] = g[0]
  BY <1>2, <1>3 DEF PrefixValues, XmlReads
<1>5. \A k \in 1..Len(xml) : f[k - 1] = g[k - 1] => f[k] = g[k]
  BY <1>1, <1>2, <1>3 DEF XmlReads
<1>6. \A k \in 0..Len(xml) : f[k] = g[k]
  BY <1>1, <1>4, <1>5, PrefixesAgree, ZenonT(30)
<1>7. g[Len(xml)] = AfterXml(xml)
  BY <1>1, <1>2, <1>6 DEF PrefixValues, XmlReads
<1>8. g[Len(xml) + 1] = XmlStep(g[Len(xml)], x)
  BY <1>1, <1>3 DEF XmlReads
<1>9. QED
  BY <1>1, <1>3, <1>7, <1>8 DEF PrefixValues, XmlReads, r

\* The state of the parser, field by field.
XmlReading(inHeaders, inBody, tag, headers, body) ==
    [inHeaders |-> inHeaders, inBody |-> inBody, tag |-> tag, headers |-> headers, body |-> body]

Yes == TRUE

No == FALSE

LEMMA YesAndNo == Yes = TRUE /\ No = FALSE
  BY DEF Yes, No

\* Between elements, and in one, where i tells if that is among the headers.
Between(i, h, b) == XmlReading(i, No, << >>, h, b)

Inside(i, n, h, b) ==
    IF n = "body" THEN XmlReading(i, Yes, << >>, h, b) ELSE XmlReading(i, No, <<n>>, h, b)

TextItem(v) == [kind |-> "text", of |-> v]

LEMMA ItemTypes ==
    /\ \A n \in XmlNames : Start(n) \in XmlItems /\ End(n) \in XmlItems
    /\ \A v \in XmlTexts : TextItem(v) \in XmlItems
    /\ Phrases \subseteq XmlTexts /\ Bodies \subseteq XmlTexts /\ <<"lf">> \in XmlTexts
  BY DEF XmlItems, XmlTexts, TextItem

\* An element of a header or the body.
LEMMA StartStep ==
    ASSUME NEW i, NEW n, n # "headers", n = "body" \/ i = TRUE, NEW h, NEW b
    PROVE  XmlStep(Between(i, h, b), Start(n)) = Inside(i, n, h, b)
<1>1. CASE n = "body"
  <2>1. XmlStep(XmlReading(i, No, << >>, h, b), Start("body")) = XmlReading(i, Yes, << >>, h, b)
    BY YesAndNo DEF XmlStep, Start, Opened, XmlReading
  <2>2. QED
    BY <1>1, <2>1 DEF Between, Inside
<1>2. CASE n # "body"
  BY <1>2, YesAndNo DEF XmlStep, Start, Opened, Between, Inside, XmlReading
<1>3. QED
  BY <1>1, <1>2

LEMMA TextStep ==
    ASSUME NEW i, NEW n, NEW h, NEW b, NEW v
    PROVE  XmlStep(Inside(i, n, h, b), TextItem(v))
             = IF n = "body" THEN Inside(i, n, h, <<v>>) ELSE Inside(i, n, Put(h, n, v), b)
<1>1. CASE n = "body"
  <2>1. XmlStep(XmlReading(i, Yes, << >>, h, b), TextItem(v)) = XmlReading(i, Yes, << >>, h, <<v>>)
    BY YesAndNo DEF XmlStep, TextItem, Characters, XmlReading
  <2>2. QED
    BY <1>1, <2>1 DEF Inside
<1>2. CASE n # "body"
  <2> DEFINE one == <<n>>
             s == XmlReading(i, No, one, h, b)
             w == Put(h, n, v)
  <2>1. one # << >> /\ one[1] = n
    OBVIOUS
  <2>2. s.inBody = FALSE /\ s.tag = one /\ s.headers = h
    BY YesAndNo DEF XmlReading
  <2>3. XmlStep(s, TextItem(v)) = Characters(s, v)
    BY DEF XmlStep, TextItem
  <2> HIDE DEF one, w
  <2>4. [s EXCEPT !.headers = w] = XmlReading(i, No, one, w, b)
    BY DEF XmlReading
  <2> HIDE DEF s
  <2>5. Characters(s, v) = [s EXCEPT !.headers = w]
    BY <2>1, <2>2 DEF Characters, w
  <2>6. QED
    BY <1>2, <2>3, <2>4, <2>5 DEF Inside, s, w, one
<1>3. QED
  BY <1>1, <1>2

LEMMA EndStep ==
    ASSUME NEW i, NEW n, n # "headers", n = "body" \/ i = TRUE, NEW h, NEW b
    PROVE  XmlStep(Inside(i, n, h, b), End(n)) = Between(i, h, b)
<1>1. CASE n = "body"
  BY <1>1, YesAndNo DEF XmlStep, End, Closed, Between, Inside, XmlReading
<1>2. CASE n # "body"
  BY <1>2, YesAndNo DEF XmlStep, End, Closed, Between, Inside, XmlReading
<1>3. QED
  BY <1>1, <1>2

\* The elements around them, and the text between elements.
LEMMA OuterSteps ==
    ASSUME NEW h, NEW b
    PROVE  /\ XmlStep(Between(No, h, b), Start("event")) = Between(No, h, b)
           /\ XmlStep(Between(No, h, b), End("event")) = Between(No, h, b)
           /\ XmlStep(Between(No, h, b), Start("headers")) = Between(Yes, h, b)
           /\ XmlStep(Between(Yes, h, b), End("headers")) = Between(No, h, b)
  BY YesAndNo DEF XmlStep, Start, End, Opened, Closed, Between, XmlReading

LEMMA TextBetween ==
    ASSUME NEW i, NEW h, NEW b, NEW v
    PROVE  XmlStep(Between(i, h, b), TextItem(v)) = Between(i, h, b)
  BY YesAndNo DEF XmlStep, TextItem, Characters, Between, XmlReading

-----------------------------------------------------------------------------
(***************************************************************************)
(* The elements of an event, and what was read behind each of them.        *)
(***************************************************************************)

LineFeed == <<TextItem(<<"lf">>)>>

Element(n, inner) == <<Start(n)>> \o inner \o <<End(n)>> \o LineFeed

\* These items lead the parser to this state.
Leads(xml, s) == xml \in Seq(XmlItems) /\ AfterXml(xml) = s

LEMMA Onward ==
    ASSUME NEW xml, NEW s, Leads(xml, s), NEW x \in XmlItems
    PROVE  Leads(Then(xml, <<x>>), XmlStep(s, x))
<1>1. xml \in Seq(XmlItems) /\ AfterXml(xml) = s
  BY DEF Leads
<1>2. Then(xml, <<x>>) = Append(xml, x) /\ Append(xml, x) \in Seq(XmlItems)
  BY <1>1 DEF Then
<1>3. AfterXml(Append(xml, x)) = XmlStep(s, x)
  BY <1>1, AfterAppend
<1>4. QED
  BY <1>2, <1>3 DEF Leads

LEMMA ElementBehind ==
    ASSUME NEW xml \in Seq(XmlItems), NEW inner \in Seq(XmlItems), NEW n \in XmlNames
    PROVE  /\ Element(n, inner) \in Seq(XmlItems)
           /\ Then(xml, Element(n, inner))
                = Then(Then(Then(Then(xml, <<Start(n)>>), inner), <<End(n)>>), LineFeed)
<1> DEFINE a == <<Start(n)>>
           c == <<End(n)>>
           d == LineFeed
<1>1. a \in Seq(XmlItems) /\ c \in Seq(XmlItems) /\ d \in Seq(XmlItems)
  BY ItemTypes DEF LineFeed
<1>2. Element(n, inner) = Then(Then(Then(a, inner), c), d)
  BY DEF Element, Then
<1> HIDE DEF a, c, d
<1>3. \A p \in Seq(XmlItems), q \in Seq(XmlItems) : Then(p, q) \in Seq(XmlItems)
  BY ConcatProperties DEF Then
<1>4. Then(xml, Then(Then(Then(a, inner), c), d)) = Then(Then(xml, Then(Then(a, inner), c)), d)
  BY <1>1, <1>3, ThenAssociative
<1>5. Then(xml, Then(Then(a, inner), c)) = Then(Then(xml, Then(a, inner)), c)
  BY <1>1, <1>3, ThenAssociative
<1>6. Then(xml, Then(a, inner)) = Then(Then(xml, a), inner)
  BY <1>1, ThenAssociative
<1>7. Then(Then(Then(a, inner), c), d) \in Seq(XmlItems)
  BY <1>1, <1>3
<1>8. QED
  BY <1>2, <1>4, <1>5, <1>6, <1>7 DEF a, c, d

\* A header with a value is read; one that is named body is the body.
ReadHeaders(h, n, v) == IF n = "body" \/ v = << >> THEN h ELSE Put(h, n, v)

ReadBody(b, n, v) == IF n = "body" /\ v # << >> THEN <<v>> ELSE b

LEMMA ElementRead ==
    ASSUME NEW xml, NEW i, NEW h, NEW b, Leads(xml, Between(i, h, b)),
           NEW n \in XmlNames, n # "headers", n = "body" \/ i = TRUE, NEW v \in XmlTexts
    PROVE  Leads(Then(xml, Element(n, Chars(v))), Between(i, ReadHeaders(h, n, v), ReadBody(b, n, v)))
<1> DEFINE a == Then(xml, <<Start(n)>>)
           c == Then(a, Chars(v))
           d == Then(c, <<End(n)>>)
           h1 == ReadHeaders(h, n, v)
           b1 == ReadBody(b, n, v)
           line == <<"lf">>
<1>1. xml \in Seq(XmlItems) /\ Start(n) \in XmlItems /\ End(n) \in XmlItems
      /\ TextItem(v) \in XmlItems /\ TextItem(line) \in XmlItems
  BY ItemTypes DEF Leads
<1>2. Chars(v) \in Seq(XmlItems) /\ (v = << >> => Chars(v) = << >>) /\ (v # << >> => Chars(v) = <<TextItem(v)>>)
  BY <1>1 DEF Chars, TextItem
<1>3. Leads(a, Inside(i, n, h, b))
  <2>1. Leads(a, XmlStep(Between(i, h, b), Start(n)))
    BY <1>1, Onward
  <2>2. XmlStep(Between(i, h, b), Start(n)) = Inside(i, n, h, b)
    BY StartStep
  <2>3. QED
    BY <2>1, <2>2
<1>4. Leads(c, Inside(i, n, h1, b1))
  <2>1. CASE v = << >>
    <3>1. h1 = h /\ b1 = b
      BY <2>1 DEF ReadHeaders, ReadBody
    <3>2. a \in Seq(XmlItems)
      BY <1>3 DEF Leads
    <3>3. c = a
      <4> HIDE DEF a
      <4>1. QED
        BY <1>2, <2>1, <3>2 DEF Then
    <3>4. QED
      BY <1>3, <3>1, <3>3
  <2>2. CASE v # << >>
    <3>1. c = Then(a, <<TextItem(v)>>)
      BY <1>2, <2>2
    <3>2. Leads(Then(a, <<TextItem(v)>>), XmlStep(Inside(i, n, h, b), TextItem(v)))
      BY <1>1, <1>3, Onward
    <3>3. XmlStep(Inside(i, n, h, b), TextItem(v))
            = IF n = "body" THEN Inside(i, n, h, <<v>>) ELSE Inside(i, n, Put(h, n, v), b)
      BY TextStep
    <3>4. n = "body" => h1 = h /\ b1 = <<v>>
      BY <2>2 DEF ReadHeaders, ReadBody
    <3>5. n # "body" => h1 = Put(h, n, v) /\ b1 = b
      BY <2>2 DEF ReadHeaders, ReadBody
    <3> HIDE DEF h1, b1
    <3>6. XmlStep(Inside(i, n, h, b), TextItem(v)) = Inside(i, n, h1, b1)
      BY <3>3, <3>4, <3>5
    <3>7. QED
      BY <3>1, <3>2, <3>6
  <2>3. QED
    BY <2>1, <2>2
<1>5. Leads(d, Between(i, h1, b1))
  <2> HIDE DEF h1, b1
  <2>1. Leads(d, XmlStep(Inside(i, n, h1, b1), End(n)))
    BY <1>1, <1>4, Onward
  <2>2. \A f, g : XmlStep(Inside(i, n, f, g), End(n)) = Between(i, f, g)
    BY EndStep
  <2>3. QED
    BY <2>1, <2>2
<1>6. Leads(Then(d, LineFeed), Between(i, h1, b1))
  <2> DEFINE s == Between(i, h1, b1)
  <2>1. LineFeed = <<TextItem(line)>>
    BY DEF LineFeed
  <2>2. XmlStep(s, TextItem(line)) = s
    BY TextBetween
  <2> HIDE DEF h1, b1, d, line, s
  <2>3. Leads(Then(d, <<TextItem(line)>>), XmlStep(s, TextItem(line)))
    BY <1>1, <1>5, Onward DEF s
  <2>4. Leads(Then(d, LineFeed), s)
    BY <2>1, <2>2, <2>3
  <2>5. QED
    BY <2>4 DEF s
<1>7. Then(xml, Element(n, Chars(v))) = Then(d, LineFeed)
  BY <1>1, <1>2, ElementBehind
<1> HIDE DEF h1, b1, d
<1>8. Leads(Then(xml, Element(n, Chars(v))), Between(i, h1, b1))
  BY <1>6, <1>7
<1>9. QED
  BY <1>8 DEF h1, b1

\* The headers that are read of these, and the body if one of them is named so.
Found(headers, D) == Kept(headers, {n \in D : n # "body" /\ headers[n] # << >>})

BodyIn(headers, D) ==
    IF "body" \in D /\ headers["body"] # << >> THEN <<headers["body"]>> ELSE << >>

LEMMA OneMoreRead ==
    ASSUME NEW headers, NEW D, NEW n
    PROVE  /\ ReadHeaders(Found(headers, D), n, headers[n]) = Found(headers, D \cup {n})
           /\ ReadBody(BodyIn(headers, D), n, headers[n]) = BodyIn(headers, D \cup {n})
<1> DEFINE S(E) == {m \in E : m # "body" /\ headers[m] # << >>}
<1>1. ReadHeaders(Found(headers, D), n, headers[n]) = Found(headers, D \cup {n})
  <2>1. CASE n = "body" \/ headers[n] = << >>
    <3>1. S(D \cup {n}) = S(D)
      BY <2>1
    <3> HIDE DEF S
    <3>2. QED
      BY <2>1, <3>1 DEF ReadHeaders, Found, S
  <2>2. CASE ~(n = "body" \/ headers[n] = << >>)
    <3>1. S(D \cup {n}) = S(D) \cup {n}
      BY <2>2
    <3>2. Put(Kept(headers, S(D)), n, headers[n]) = Kept(headers, S(D) \cup {n})
      <4> HIDE DEF S
      <4>1. QED
        BY OneMoreKept
    <3>3. ReadHeaders(Found(headers, D), n, headers[n]) = Put(Kept(headers, S(D)), n, headers[n])
      BY <2>2 DEF ReadHeaders, Found
    <3>4. Found(headers, D \cup {n}) = Kept(headers, S(D \cup {n}))
      BY DEF Found
    <3> HIDE DEF S
    <3>5. QED
      BY <3>1, <3>2, <3>3, <3>4
  <2>3. QED
    BY <2>1, <2>2
<1>2. ReadBody(BodyIn(headers, D), n, headers[n]) = BodyIn(headers, D \cup {n})
  <2>1. CASE n = "body"
    BY <2>1 DEF ReadBody, BodyIn
  <2>2. CASE n # "body"
    <3>1. "body" \in D \cup {n} <=> "body" \in D
      BY <2>2
    <3>2. QED
      BY <2>2, <3>1 DEF ReadBody, BodyIn
  <2>3. QED
    BY <2>1, <2>2
<1>3. QED
  BY <1>1, <1>2

ElementsOf(headers, names) ==
    [i \in 1..Len(names) |-> Element(names[i], Chars(headers[names[i]]))]

LEMMA XmlHeadersRead ==
    ASSUME NEW xml, NEW names \in Seq(HeaderNames \ {"headers"}), NEW headers,
           \A i \in 1..Len(names) : headers[names[i]] \in Phrases,
           Leads(xml, Between(Yes, << >>, << >>))
    PROVE  /\ FlattenSeq(ElementsOf(headers, names)) \in Seq(XmlItems)
           /\ Leads(Then(xml, FlattenSeq(ElementsOf(headers, names))),
                    Between(Yes, Found(headers, Range(names)), BodyIn(headers, Range(names))))
<1> DEFINE n == Len(names)
           T == XmlItems
           elements == ElementsOf(headers, names)
           element(i) == Element(names[i], Chars(headers[names[i]]))
<1>1. n \in Nat /\ \A i \in 1..n : names[i] \in HeaderNames \ {"headers"}
  OBVIOUS
<1>2. \A i \in 1..n : names[i] \in XmlNames /\ names[i] # "headers" /\ headers[names[i]] \in XmlTexts
  BY <1>1, ItemTypes DEF XmlNames
<1>3. xml \in Seq(T)
  BY DEF Leads
<1>4. \A i \in 1..n : element(i) \in Seq(T)
  <2> SUFFICES ASSUME NEW i \in 1..n PROVE element(i) \in Seq(T)
    OBVIOUS
  <2>1. Chars(headers[names[i]]) \in Seq(T)
    BY <1>2, ItemTypes DEF Chars, TextItem
  <2>2. QED
    BY <1>2, <1>3, <2>1, ElementBehind
<1>5. elements \in Seq(Seq(T)) /\ Len(elements) = n /\ \A i \in 1..n : elements[i] = element(i)
  <2>1. elements = [i \in 1..n |-> element(i)]
    BY DEF ElementsOf
  <2> HIDE DEF element, elements, T
  <2>2. QED
    BY <1>1, <1>4, <2>1
<1> HIDE DEF elements
<1>6. PICK g : /\ PrefixValues(g, Seq(T), elements, << >>, FlattenSeq(elements))
               /\ \A k \in 1..Len(elements) : g[k] = Then(g[k - 1], elements[k])
  BY <1>5, FlattenSteps
<1>7. /\ g[0] = << >> /\ g[n] = FlattenSeq(elements) /\ \A k \in 1..n : g[k] = Then(g[k - 1], element(k))
      /\ \A k \in 0..n : g[k] \in Seq(T)
  BY <1>5, <1>6 DEF PrefixValues
<1> DEFINE first(k) == {names[i] : i \in 1..k}
           h(k) == Found(headers, first(k))
           b(k) == BodyIn(headers, first(k))
           Done == {k \in Nat : Leads(Then(xml, g[k]), Between(Yes, h(k), b(k)))}
<1>8. 0 \in Done
  <2>1. first(0) = {}
    OBVIOUS
  <2>2. h(0) = << >> /\ b(0) = << >>
    BY <2>1 DEF Found, BodyIn, Kept
  <2>3. Then(xml, g[0]) = xml
    BY <1>3, <1>7 DEF Then
  <2> HIDE DEF first, h, b
  <2>4. QED
    BY <2>2, <2>3
<1>9. ASSUME NEW k \in 1..n, k - 1 \in Done
      PROVE  k \in Done
  <2> DEFINE m == names[k]
             v == headers[m]
             D == first(k - 1)
             before == Then(xml, g[k - 1])
  <2>1. Leads(before, Between(Yes, h(k - 1), b(k - 1))) /\ k \in Nat
    BY <1>9
  <2>2. first(k) = D \cup {m}
    <3>1. 1..k = (1..(k - 1)) \cup {k}
      BY <1>1
    <3>2. QED
      BY <3>1
  <2>3. m \in XmlNames /\ m # "headers" /\ v \in XmlTexts
    BY <1>2
  <2>4. h(k - 1) = Found(headers, D) /\ b(k - 1) = BodyIn(headers, D)
    OBVIOUS
  <2>5. h(k) = Found(headers, D \cup {m}) /\ b(k) = BodyIn(headers, D \cup {m})
    BY <2>2
  <2>6. ReadHeaders(Found(headers, D), m, v) = Found(headers, D \cup {m})
        /\ ReadBody(BodyIn(headers, D), m, v) = BodyIn(headers, D \cup {m})
    <3> HIDE DEF D, m
    <3>1. QED
      BY OneMoreRead
  <2>7. Then(xml, g[k]) = Then(before, Element(m, Chars(v)))
    <3>1. g[k] = Then(g[k - 1], element(k)) /\ g[k - 1] \in Seq(T) /\ element(k) \in Seq(T)
      BY <1>1, <1>4, <1>7
    <3> HIDE DEF element
    <3>2. Then(xml, g[k]) = Then(before, element(k))
      BY <1>3, <3>1, ThenAssociative
    <3>3. QED
      BY <3>2 DEF element
  <2> HIDE DEF first, Done, h, b, D, before, m, v
  <2>8. Leads(Then(before, Element(m, Chars(v))),
              Between(Yes, ReadHeaders(h(k - 1), m, v), ReadBody(b(k - 1), m, v)))
    BY <2>1, <2>3, YesAndNo, ElementRead
  <2>9. Leads(Then(xml, g[k]), Between(Yes, h(k), b(k)))
    BY <2>4, <2>5, <2>6, <2>7, <2>8
  <2>10. QED
    BY <2>1, <2>9 DEF Done
<1>10. first(n) = Range(names)
  BY DEF Range
<1> HIDE DEF Done
<1>11. n \in Done
  <2>1. n \in 0..n
    BY <1>1
  <2>2. QED
    BY <1>1, <1>8, <1>9, <2>1, CountingUp
<1>12. FlattenSeq(elements) \in Seq(T)
  BY <1>1, <1>7
<1>13. Leads(Then(xml, g[n]), Between(Yes, h(n), b(n)))
  BY <1>11 DEF Done
<1>14. h(n) = Found(headers, Range(names)) /\ b(n) = BodyIn(headers, Range(names))
  BY <1>10
<1> HIDE DEF first, h, b
<1>15. QED
  BY <1>7, <1>12, <1>13, <1>14 DEF elements

\* The element of the body, if there is one.
BodyElement(body) ==
    FlattenSeq([i \in 1..Len(body) |-> Element("body", Chars(body[i]))])

LEMMA BodyRead ==
    ASSUME NEW xml, NEW h, NEW b, Leads(xml, Between(No, h, b)), NEW body \in Options(Bodies)
    PROVE  /\ BodyElement(body) \in Seq(XmlItems)
           /\ Leads(Then(xml, BodyElement(body)),
                    Between(No, h, IF body # << >> /\ body[1] # << >> THEN body ELSE b))
<1>1. xml \in Seq(XmlItems) /\ "body" \in XmlNames
  BY DEF Leads, XmlNames
<1>2. CASE body = << >>
  <2> DEFINE none == << >>
             elements == [i \in 1..Len(body) |-> Element("body", Chars(body[i]))]
  <2>1. elements = none
    BY <1>2
  <2> HIDE DEF elements
  <2>2. BodyElement(body) = none
    BY <2>1, FlattenNothing DEF BodyElement, elements
  <2>3. Then(xml, none) = xml /\ none \in Seq(XmlItems)
    BY <1>1 DEF Then
  <2>4. QED
    BY <1>2, <2>2, <2>3
<1>3. CASE body # << >>
  <2>1. PICK v \in Bodies : body = <<v>>
    BY <1>3 DEF Options
  <2> DEFINE x == Element("body", Chars(v))
             elements == [i \in 1..Len(body) |-> Element("body", Chars(body[i]))]
             none == << >>
  <2>2. v \in XmlTexts /\ Chars(v) \in Seq(XmlItems)
    BY ItemTypes DEF Chars, TextItem
  <2>3. x \in Seq(XmlItems)
    BY <1>1, <2>2, ElementBehind
  <2>4. elements = <<x>>
    BY <2>1
  <2>5. BodyElement(body) = FlattenSeq(elements)
    BY DEF BodyElement
  <2> HIDE DEF elements, x
  <2>6. elements = Append(none, x) /\ none \in Seq(Seq(XmlItems))
    BY <2>4
  <2>7. FlattenSeq(Append(none, x)) = Then(FlattenSeq(none), x)
    <3>1. none \in Seq(Seq(XmlItems))
      OBVIOUS
    <3> HIDE DEF none
    <3>2. QED
      BY <2>3, <3>1, FlattenAppend
  <2>8. Then(FlattenSeq(none), x) = x
    BY <2>3, FlattenNothing DEF Then
  <2>9. BodyElement(body) = x
    BY <2>5, <2>6, <2>7, <2>8
  <2>10. Leads(Then(xml, x), Between(No, ReadHeaders(h, "body", v), ReadBody(b, "body", v)))
    BY <1>1, <2>2, ElementRead DEF x
  <2>11. ReadHeaders(h, "body", v) = h
    BY DEF ReadHeaders
  <2>12. ReadBody(b, "body", v) = IF body # << >> /\ body[1] # << >> THEN body ELSE b
    <3>1. body # << >> /\ body[1] = v
      BY <2>1
    <3>2. QED
      BY <2>1, <3>1 DEF ReadBody
  <2>13. QED
    BY <2>3, <2>9, <2>10, <2>11, <2>12
<1>4. QED
  BY <1>2, <1>3

\* The whole of an event, read by the XML parser.
LEMMA XmlRead ==
    ASSUME NEW headers, IsFiniteSet(DOMAIN headers),
           DOMAIN headers \in SUBSET (HeaderNames \ {"headers"}),
           \A n \in DOMAIN headers : headers[n] \in Phrases,
           NEW body \in Options(Bodies),
           NEW e, e.headers = headers, e.body = body
    PROVE  AfterXml(ToXml(e))
             = Between(No, Found(headers, DOMAIN headers),
                       IF body # << >> /\ body[1] # << >> THEN body
                       ELSE BodyIn(headers, DOMAIN headers))
<1> DEFINE T == XmlItems
           none == << >>
           names == SetToSeq(DOMAIN headers)
           middle == FlattenSeq(ElementsOf(headers, names))
           last == BodyElement(body)
           outer == Element("headers", middle)
           h == Found(headers, DOMAIN headers)
           b == BodyIn(headers, DOMAIN headers)
           c == IF body # << >> /\ body[1] # << >> THEN body ELSE b
           line == <<"lf">>
           x1 == Then(none, <<Start("event")>>)
           x2 == Then(x1, <<Start("headers")>>)
           x3 == Then(x2, middle)
           x4 == Then(x3, <<End("headers")>>)
           x5 == Then(x4, LineFeed)
           x6 == Then(x5, last)
           x7 == Then(x6, <<End("event")>>)
           x8 == Then(x7, LineFeed)
<1>1. names \in Seq(DOMAIN headers) /\ Range(names) = DOMAIN headers
  BY SetToSeqIsOnto
<1>2. /\ names \in Seq(HeaderNames \ {"headers"})
      /\ \A i \in 1..Len(names) : headers[names[i]] \in Phrases
  BY <1>1
<1>3. /\ Start("event") \in T /\ Start("headers") \in T /\ End("headers") \in T /\ End("event") \in T
      /\ TextItem(line) \in T /\ "event" \in XmlNames /\ "headers" \in XmlNames
  BY ItemTypes DEF XmlNames
<1>4. ToXml(e) = Element("event", Then(outer, last))
  BY DEF ToXml, Element, ElementsOf, BodyElement, LineFeed, Chars, TextItem, Then
<1>5. Leads(none, Between(No, << >>, << >>))
  <2>1. NoXmlRead = Between(No, << >>, << >>)
    BY YesAndNo DEF NoXmlRead, Between, XmlReading
  <2>2. none \in Seq(T)
    OBVIOUS
  <2>3. QED
    BY <2>1, <2>2, AfterNothing DEF Leads
<1> HIDE DEF names, middle, last, h, b, c, x1, x2, x3, x4, x5, x6, x7, x8, T, line, outer
<1>6. ASSUME NEW xml, NEW i, NEW f, NEW d, Leads(xml, Between(i, f, d))
      PROVE  Leads(Then(xml, LineFeed), Between(i, f, d))
  <2>1. LineFeed = <<TextItem(line)>>
    BY DEF LineFeed, line
  <2>2. Leads(Then(xml, <<TextItem(line)>>), XmlStep(Between(i, f, d), TextItem(line)))
    BY <1>3, <1>6, Onward DEF T
  <2>3. QED
    BY <2>1, <2>2, TextBetween
<1>7. Leads(x1, Between(No, << >>, << >>))
  <2>1. Leads(x1, XmlStep(Between(No, << >>, << >>), Start("event")))
    BY <1>3, <1>5, Onward DEF T, x1
  <2>2. QED
    BY <2>1, OuterSteps
<1>8. Leads(x2, Between(Yes, << >>, << >>))
  <2>1. Leads(x2, XmlStep(Between(No, << >>, << >>), Start("headers")))
    BY <1>3, <1>7, Onward DEF T, x2
  <2>2. QED
    BY <2>1, OuterSteps
<1>9. middle \in Seq(T) /\ Leads(x3, Between(Yes, h, b))
  BY <1>1, <1>2, <1>8, XmlHeadersRead DEF middle, T, x3, h, b
<1>10. Leads(x4, Between(No, h, b))
  <2>1. Leads(x4, XmlStep(Between(Yes, h, b), End("headers")))
    BY <1>3, <1>9, Onward DEF T, x4
  <2>2. QED
    BY <2>1, OuterSteps
<1>11. Leads(x5, Between(No, h, b))
  BY <1>6, <1>10 DEF x5
<1>12. last \in Seq(T) /\ Leads(x6, Between(No, h, c))
  BY <1>11, BodyRead DEF last, T, x6, c
<1>13. Leads(x7, Between(No, h, c))
  <2>1. Leads(x7, XmlStep(Between(No, h, c), End("event")))
    BY <1>3, <1>12, Onward DEF T, x7
  <2>2. QED
    BY <2>1, OuterSteps
<1>14. Leads(x8, Between(No, h, c))
  BY <1>6, <1>13 DEF x8
<1>15. ToXml(e) = x8
  <2>1. none \in Seq(T) /\ x1 \in Seq(T)
    BY <1>7 DEF Leads, T
  <2>2. outer \in Seq(T) /\ Then(x1, outer) = x5
    BY <1>3, <1>9, <2>1, ElementBehind DEF T, outer, x2, x3, x4, x5
  <2>3. Then(outer, last) \in Seq(T)
    BY <1>12, <2>2, ConcatProperties DEF Then
  <2>4. Then(x1, Then(outer, last)) = x6
    <3>1. Then(Then(x1, outer), last) = Then(x1, Then(outer, last))
      BY <1>12, <2>1, <2>2, ThenAssociative
    <3>2. QED
      BY <2>2, <3>1 DEF x6
  <2>5. /\ Element("event", Then(outer, last)) \in Seq(T)
        /\ Then(none, Element("event", Then(outer, last)))
             = Then(Then(Then(Then(none, <<Start("event")>>), Then(outer, last)), <<End("event")>>),
                    LineFeed)
    <3> HIDE DEF none
    <3>1. QED
      BY <1>3, <2>1, <2>3, ElementBehind DEF T
  <2>6. Then(none, Element("event", Then(outer, last))) = Element("event", Then(outer, last))
    BY <2>5 DEF Then
  <2>7. QED
    BY <1>4, <2>4, <2>5, <2>6 DEF x1, x7, x8
<1>16. AfterXml(ToXml(e)) = Between(No, h, c)
  BY <1>14, <1>15 DEF Leads
<1>17. QED
  BY <1>16 DEF h, b, c

\* The type of an event is that of its name, whatever its other headers.
LEMMA SameType ==
    ASSUME NEW f, NEW g, "Event-Name" \in DOMAIN g => "Event-Name" \in DOMAIN f,
           "Event-Name" \in DOMAIN g => f["Event-Name"] = g["Event-Name"],
           "Event-Name" \in DOMAIN f /\ "Event-Name" \notin DOMAIN g => f["Event-Name"] = << >>
    PROVE  TypeOf(f) = TypeOf(g)
<1> DEFINE N == "Event-Name"
           none == << >>
<1>1. Len(none) = 0
  OBVIOUS
<1>2. CASE N \in DOMAIN g
  BY <1>2 DEF TypeOf
<1>3. CASE N \notin DOMAIN g
  <2>1. TypeOf(g) = none
    BY <1>3 DEF TypeOf
  <2>2. N \in DOMAIN f => f[N] = none
    BY <1>3
  <2> HIDE DEF N, none
  <2>3. TypeOf(f) = none
    BY <1>1, <2>2 DEF TypeOf, N, none
  <2>4. QED
    BY <2>1, <2>3
<1>4. QED
  BY <1>2, <1>3

\* The same event reads the same in each format (parse_plain_event, parse_json_event and
\* parse_xml_event), but for the names that the formats keep for themselves.
THEOREM FormatsReadTheSame == EventSpec => []FormatsAgree
<1>1. StackInv => FormatsAgree
  <2> SUFFICES ASSUME StackInv PROVE FormatsAgree
    OBVIOUS
  <2> DEFINE plain == ParsePlain(PlainText(event))
             own == Without(event.headers, "Content-Length")
             e == [event EXCEPT !.headers = own]
             object == ToJson(e)
             json == ParseJson(object)
             xml == ParseXml(ToXml(e))
             D == DOMAIN own
             solid == {m \in D : m # "body" /\ own[m] # << >>}
  <2>1. event \in Events /\ IsFiniteSet(DOMAIN event.headers)
    BY DEF StackInv
  <2>2. /\ event.body \in Options(Bodies) /\ DOMAIN event.headers \in SUBSET HeaderNames
        /\ \A n \in DOMAIN event.headers : event.headers[n] \in Phrases
        /\ event = [type |-> event.type, headers |-> event.headers, body |-> event.body]
    BY <2>1, EventParts
  <2>3. /\ plain.type = TypeOf(event.headers)
        /\ plain.body = IF event.body = << << >> >> THEN << >> ELSE event.body
    <3>1. PlainTextComesBack
      BY EventKeeps
    <3>2. QED
      BY <3>1 DEF PlainTextComesBack
  <2>4. /\ D = DOMAIN event.headers \ {"Content-Length"}
        /\ \A n \in D : own[n] = event.headers[n]
        /\ own = [n \in D |-> own[n]]
    BY DEF Without
  <2>5. e = [type |-> event.type, headers |-> own, body |-> event.body]
    <3> HIDE DEF own
    <3>1. QED
      BY <2>2
  <2> HIDE DEF own, plain
  <2>6. IsFiniteSet(D) /\ D \in SUBSET HeaderNames /\ \A n \in D : own[n] \in Phrases
    BY <2>1, <2>2, <2>4, FS_Subset
  <2>7. TypeOf(own) = TypeOf(event.headers)
    <3>1. "Event-Name" # "Content-Length"
      OBVIOUS
    <3>2. "Event-Name" \in D <=> "Event-Name" \in DOMAIN event.headers
      BY <2>4, <3>1
    <3>3. "Event-Name" \in D => own["Event-Name"] = event.headers["Event-Name"]
      BY <2>4
    <3>4. QED
      BY <3>2, <3>3, SameType
  <2>8. /\ json.type = TypeOf(object) /\ json.body = << >> /\ json.headers = object
    BY DEF ParseJson, Tagged
  <2>9. e.headers = own /\ e.body = event.body
    BY <2>5
  <2> HIDE DEF e
  <2>10. object = IF event.body = << >> THEN own ELSE Put(own, "_body", event.body[1])
    BY <2>9 DEF ToJson
  <2> HIDE DEF object, json
  <2>11. json.type = plain.type
    <3>1. TypeOf(object) = TypeOf(own)
      <4>1. CASE event.body = << >>
        BY <2>10, <4>1
      <4>2. CASE event.body # << >>
        <5>1. DOMAIN object = D \cup {"_body"} /\ \A n \in D : n # "_body" => object[n] = own[n]
          BY <2>10, <4>2 DEF Put
        <5>2. "Event-Name" # "_body"
          OBVIOUS
        <5>3. "Event-Name" \in DOMAIN object <=> "Event-Name" \in D
          BY <5>1, <5>2
        <5>4. "Event-Name" \in D => object["Event-Name"] = own["Event-Name"]
          BY <5>1, <5>2
        <5>5. QED
          BY <5>3, <5>4, SameType
      <4>3. QED
        BY <4>1, <4>2
    <3>2. QED
      BY <2>3, <2>7, <2>8, <3>1
  <2>12. Without(json.headers, "_body") = Without(own, "_body")
    <3>1. CASE event.body = << >>
      BY <2>8, <2>10, <3>1
    <3>2. CASE event.body # << >>
      <4>1. object = Put(own, "_body", event.body[1])
        BY <2>10, <3>2
      <4>2. DOMAIN object = D \cup {"_body"} /\ \A n \in D : n # "_body" => object[n] = own[n]
        BY <4>1 DEF Put
      <4>3. DOMAIN object \ {"_body"} = D \ {"_body"}
        BY <4>2
      <4>4. QED
        BY <2>8, <4>2, <4>3 DEF Without
    <3>3. QED
      BY <3>1, <3>2
  <2>13. plain.body # << >> => json.headers["_body"] = plain.body[1]
    <3> SUFFICES ASSUME plain.body # << >> PROVE json.headers["_body"] = plain.body[1]
      OBVIOUS
    <3>1. plain.body = event.body /\ event.body # << >>
      BY <2>3
    <3>2. object = Put(own, "_body", event.body[1])
      BY <2>10, <3>1
    <3>3. object["_body"] = event.body[1]
      BY <3>2 DEF Put
    <3>4. QED
      BY <2>8, <3>1, <3>3
  <2>14. ASSUME "headers" \notin D
         PROVE  /\ xml.type = plain.type
                /\ xml.headers = [n \in solid |-> own[n]]
                /\ xml.body = IF plain.body = << >> /\ "body" \in D /\ own["body"] # << >>
                                THEN <<own["body"]>>
                              ELSE plain.body
    <3> DEFINE s == AfterXml(ToXml(e))
               c == IF event.body # << >> /\ event.body[1] # << >> THEN event.body ELSE BodyIn(own, D)
               h == Found(own, D)
    <3>1. s = Between(No, h, c)
      <4>1. D \in SUBSET (HeaderNames \ {"headers"})
        BY <2>6, <2>14
      <4>2. QED
        BY <2>2, <2>6, <2>9, <4>1, XmlRead
    <3>2. xml = Tagged(s.headers, s.body)
      BY DEF ParseXml, AfterXml, NoXmlRead
    <3>3. s.headers = h /\ s.body = c
      <4> HIDE DEF s, h, c
      <4>1. QED
        BY <3>1 DEF Between, XmlReading
    <3>4. h = [n \in solid |-> own[n]]
      BY DEF Found, Kept
    <3> HIDE DEF s, h, c, xml, solid
    <3>5. xml.type = TypeOf(h) /\ xml.headers = h /\ xml.body = c
      BY <3>2, <3>3 DEF Tagged
    <3>6. TypeOf(h) = TypeOf(own)
      <4>1. DOMAIN h = solid /\ \A n \in solid : h[n] = own[n]
        BY <3>4
      <4>2. "Event-Name" # "body"
        OBVIOUS
      <4>3. "Event-Name" \in D /\ own["Event-Name"] # << >> => "Event-Name" \in solid
        BY <4>2 DEF solid
      <4>4. solid \subseteq D
        BY DEF solid
      <4>5. QED
        BY <4>1, <4>3, <4>4, SameType
    <3>7. c = IF plain.body = << >> /\ "body" \in D /\ own["body"] # << >> THEN <<own["body"]>>
              ELSE plain.body
      <4>1. CASE event.body = << >>
        <5>1. plain.body = << >>
          BY <2>3, <4>1
        <5>2. c = BodyIn(own, D)
          BY <4>1 DEF c
        <5>3. QED
          BY <5>1, <5>2 DEF BodyIn
      <4>2. CASE event.body = << << >> >>
        <5>1. plain.body = << >>
          BY <2>3, <4>2
        <5>2. c = BodyIn(own, D)
          BY <4>2 DEF c
        <5>3. QED
          BY <5>1, <5>2 DEF BodyIn
      <4>3. CASE event.body # << >> /\ event.body # << << >> >>
        <5>1. plain.body = event.body
          BY <2>3, <4>3
        <5>2. PICK v \in Bodies : event.body = <<v>>
          BY <2>2, <4>3 DEF Options
        <5>3. v # << >> /\ event.body[1] = v
          BY <4>3, <5>2
        <5>4. c = event.body
          BY <4>3, <5>3 DEF c
        <5>5. QED
          BY <4>3, <5>1, <5>4
      <4>4. QED
        BY <4>1, <4>2, <4>3
    <3>8. QED
      BY <2>3, <2>7, <3>4, <3>5, <3>6, <3>7
  <2> HIDE DEF xml, D, solid
  <2>15. QED
    BY <2>8, <2>11, <2>12, <2>13, <2>14
       DEF FormatsAgree, plain, own, e, object, json, xml, D, solid
<1>2. QED
  BY <1>1, EventInvariant, PTL

-----------------------------------------------------------------------------
(***************************************************************************)
(* Texts behind one another, and what is in them.                          *)
(***************************************************************************)

LEMMA ThenTokens ==
    ASSUME NEW T, NEW a \in Seq(T), NEW b \in Seq(T)
    PROVE  /\ Then(a, b) \in Seq(T) /\ Len(Then(a, b)) = Len(a) + Len(b)
           /\ \A i \in 1..(Len(a) + Len(b)) :
                  Then(a, b)[i] = IF i <= Len(a) THEN a[i] ELSE b[i - Len(a)]
  BY ConcatProperties DEF Then

LEMMA AppendTokens ==
    ASSUME NEW T, NEW s \in Seq(T), NEW x \in T
    PROVE  /\ Len(s) \in Nat /\ Append(s, x) \in Seq(T) /\ Len(Append(s, x)) = Len(s) + 1
           /\ Append(s, x) # << >> /\ Last(Append(s, x)) = x
           /\ Append(s, x)[Len(s) + 1] = x
           /\ \A i \in 1..Len(s) : Append(s, x)[i] = s[i]
           /\ Range(Append(s, x)) = Range(s) \cup {x}
           /\ Append(s, x)[1] = IF s = << >> THEN x ELSE s[1]
<1> DEFINE r == Append(s, x)
<1>1. /\ Len(s) \in Nat /\ r \in Seq(T) /\ r # << >> /\ Len(r) = Len(s) + 1
      /\ r[Len(s) + 1] = x /\ \A i \in 1..Len(s) : r[i] = s[i]
  BY AppendProperties
<1>2. s = << >> <=> Len(s) = 0
  OBVIOUS
<1> HIDE DEF r
<1>3. Last(r) = x
  BY <1>1 DEF Last
<1>4. Range(r) = Range(s) \cup {x}
  <2>1. DOMAIN r = 1..(Len(s) + 1) /\ DOMAIN s = 1..Len(s)
    BY <1>1
  <2>2. 1..(Len(s) + 1) = (1..Len(s)) \cup {Len(s) + 1}
    BY <1>1
  <2>3. QED
    BY <1>1, <2>1, <2>2 DEF Range
<1>5. r[1] = IF s = << >> THEN x ELSE s[1]
  BY <1>1, <1>2
<1>6. QED
  BY <1>1, <1>3, <1>4, <1>5 DEF r

Space == " "

-----------------------------------------------------------------------------
(***************************************************************************)
(* A text of lines, and the lines a reader takes from it.                  *)
(***************************************************************************)

\* A line that is neither empty nor more than one.
CleanLine(T, line) == line \in Seq(T) /\ line # << >> /\ \A i \in 1..Len(line) : line[i] # LineEnd

LEMMA AppendTwice ==
    ASSUME NEW S, NEW s \in Seq(S), NEW a \in S, NEW b \in S
    PROVE  Append(Append(s, a), b) = s \o <<a, b>> /\ Append(<<a>>, b) = <<a, b>>
<1>1. Append(<<a>>, b) = <<a, b>>
  <2>1. <<a>> \in Seq(S) /\ Len(<<a>>) = 1 /\ <<a>>[1] = a
    OBVIOUS
  <2> DEFINE one == <<a>>
  <2> HIDE DEF one
  <2>2. /\ Append(one, b) \in Seq(S) /\ Len(Append(one, b)) = 2
        /\ Append(one, b)[1] = a /\ Append(one, b)[2] = b
    BY <2>1, AppendProperties DEF one
  <2>3. <<a, b>> \in Seq(S) /\ Len(<<a, b>>) = 2 /\ <<a, b>>[1] = a /\ <<a, b>>[2] = b
    OBVIOUS
  <2>4. \A i \in 1..2 : Append(one, b)[i] = <<a, b>>[i]
    BY <2>2, <2>3
  <2>5. QED
    BY <2>2, <2>3, <2>4, SeqEqual DEF one
<1>2. Append(Append(s, a), b) = s \o <<a, b>>
  OBVIOUS
<1>3. QED
  BY <1>1, <1>2

\* A text of these lines, in this order.
Shows(T, text, lines) ==
    /\ Laid(T, text)
    /\ lines \in Seq(Seq(T))
    /\ text = << >> <=> lines = << >>
    /\ SplitAt(text, LineEnd) = Append(lines, << >>)

LEMMA NothingShown ==
    ASSUME NEW T
    PROVE  Shows(T, << >>, << >>)
<1>1. SplitAt(<< >>, LineEnd) = Append(<< >>, << >>)
  BY SplitAtNothing
<1>2. Laid(T, << >>)
  BY DEF Laid
<1>3. QED
  BY <1>1, <1>2 DEF Shows

\* A text that ends with a line feed, without it.
LEMMA FrontOfLaid ==
    ASSUME NEW T, LineEnd \in T, NEW text, Laid(T, text), text # << >>
    PROVE  \E front \in Seq(T) : text = Ended(front) /\ Len(text) = Len(front) + 1
<1> DEFINE k == Len(text)
<1>1. text \in Seq(T) /\ text[k] = LineEnd /\ k \in 1..Len(text)
  BY EmptySeq DEF Laid
<1>2. SubSeq(text, 1, k) = text
  BY <1>1, Fronts
<1> HIDE DEF k
<1>3. /\ SubSeq(text, 1, k - 1) \in Seq(T)
      /\ SubSeq(text, 1, k) = Append(SubSeq(text, 1, k - 1), text[k])
  BY <1>1, Fronts
<1> DEFINE front == SubSeq(text, 1, k - 1)
<1>4. front \in Seq(T) /\ text = Ended(front)
  BY <1>1, <1>2, <1>3 DEF Ended
<1> HIDE DEF front
<1>5. Len(text) = Len(front) + 1
  BY <1>4, EndedType
<1>6. QED
  BY <1>4, <1>5

\* Without its last line feed a text splits into its lines.
LEMMA LinesOfFront ==
    ASSUME NEW T, LineEnd \in T, NEW text, NEW lines, Shows(T, text, lines),
           NEW front \in Seq(T), text = Ended(front)
    PROVE  SplitAt(front, LineEnd) = lines
<1> DEFINE pieces == SplitAt(front, LineEnd)
<1>1. pieces \in Seq(Seq(T)) /\ lines \in Seq(Seq(T))
  BY SplitAtType DEF Pieces, Shows
<1>2. SplitAt(Ended(front), LineEnd) = Split(pieces, LineEnd, LineEnd)
  BY SplitAtAppend DEF Ended
<1> HIDE DEF pieces
<1>3. Append(pieces, << >>) = Append(lines, << >>)
  BY <1>2 DEF Split, Shows
<1>4. \A x \in Seq(Seq(T)) : Front(Append(x, << >>)) = x
  <2>1. << >> \in Seq(T)
    OBVIOUS
  <2>2. QED
    BY <2>1 DEF Front
<1>5. QED
  BY <1>1, <1>3, <1>4 DEF pieces

LEMMA ShownOnceMore ==
    ASSUME NEW T, LineEnd \in T, NEW text, NEW lines, Shows(T, text, lines),
           NEW line, CleanLine(T, line)
    PROVE  Shows(T, Then(text, Ended(line)), Append(lines, line))
<1> DEFINE new == Ended(line)
           all == Then(text, new)
           empty == << >>
<1>1. /\ line \in Seq(T) /\ line # << >> /\ Laid(T, text) /\ text \in Seq(T)
      /\ lines \in Seq(Seq(T)) /\ empty \in Seq(T)
  BY DEF CleanLine, Shows, Laid
<1>2. Laid(T, all)
  BY <1>1, LaidOnceMore DEF CleanLine
<1>3. new \in Seq(T) /\ new # empty
  <2>1. new \in Seq(T) /\ Len(new) = Len(line) + 1 /\ Len(line) \in Nat
    BY <1>1, EndedType
  <2> HIDE DEF new
  <2>2. Len(new) # 0
    BY <2>1
  <2>3. QED
    BY <2>1, <2>2
<1>4. all # empty
  <2>1. Len(text \o new) = Len(text) + Len(new) /\ Len(text) \in Nat /\ Len(new) \in Nat
    BY <1>1, <1>3, ConcatProperties
  <2>2. Len(new) # 0
    BY <1>3, EmptySeq
  <2> HIDE DEF new
  <2>3. Len(all) # 0
    BY <2>1, <2>2 DEF Then
  <2>4. QED
    BY <2>3
<1>5. SplitAt(new, LineEnd) = <<line, empty>>
  <2>1. SplitAt(line, LineEnd) = <<line>>
    BY <1>1, SplitAtNowhere DEF CleanLine
  <2>2. SplitAt(new, LineEnd) = Split(<<line>>, LineEnd, LineEnd)
    BY <1>1, <2>1, SplitAtAppend DEF Ended
  <2> HIDE DEF empty, new
  <2>3. SplitAt(new, LineEnd) = Append(<<line>>, empty)
    BY <2>2 DEF Split, empty
  <2>4. QED
    BY <1>1, <2>3, AppendTwice
<1> HIDE DEF new
<1>6. SplitAt(all, LineEnd) = Then(lines, <<line, empty>>)
  <2>1. CASE text = << >>
    <3>1. all = new
      BY <1>3, <2>1 DEF Then
    <3>2. lines = << >>
      BY <2>1 DEF Shows
    <3> HIDE DEF all
    <3>3. QED
      BY <1>5, <3>1, <3>2 DEF Then
  <2>2. CASE text # << >>
    <3>1. PICK front \in Seq(T) : text = Ended(front)
      BY <1>1, <2>2, FrontOfLaid
    <3>2. SplitAt(front, LineEnd) = lines
      BY <3>1, LinesOfFront
    <3>3. SplitAt(Then(Append(front, LineEnd), new), LineEnd) = Then(SplitAt(front, LineEnd), SplitAt(new, LineEnd))
      BY <1>3, SplitAtSeparator
    <3>4. QED
      BY <1>5, <3>1, <3>2, <3>3 DEF Ended
  <2>3. QED
    BY <2>1, <2>2
<1> HIDE DEF all
<1>7. Then(lines, <<line, empty>>) = Append(Append(lines, line), empty)
  <2> HIDE DEF empty
  <2>1. QED
    BY <1>1, AppendTwice DEF Then
<1>8. Append(lines, line) \in Seq(Seq(T)) /\ Append(lines, line) # << >>
  <2> DEFINE S == Seq(T)
  <2>1. line \in S /\ lines \in Seq(S)
    BY <1>1
  <2> HIDE DEF S
  <2>2. Append(lines, line) \in Seq(S) /\ Append(lines, line) # << >>
    BY <2>1, AppendTokens
  <2>3. QED
    BY <2>2 DEF S
<1> HIDE DEF empty
<1>9. SplitAt(all, LineEnd) = Append(Append(lines, line), empty)
  BY <1>6, <1>7
<1>10. Shows(T, all, Append(lines, line))
  <2> DEFINE more == Append(lines, line)
  <2>1. more \in Seq(Seq(T)) /\ (all = << >> <=> more = << >>)
    BY <1>4, <1>8 DEF empty
  <2>2. SplitAt(all, LineEnd) = Append(more, << >>)
    BY <1>9 DEF empty
  <2> HIDE DEF more
  <2>3. Shows(T, all, more)
    BY <1>2, <2>1, <2>2 DEF Shows
  <2>4. QED
    BY <2>3 DEF more
<1>11. QED
  BY <1>10 DEF all, new

-----------------------------------------------------------------------------
(***************************************************************************)
(* What the server takes from the front of the bytes.                      *)
(***************************************************************************)

LengthsIn(lines) == {i \in 2..Len(lines) : Head(lines[i]) = "Content-Length"}

ValueIn(line) == SubSeq(line, 4, Len(line))

SizeWith(end, lines, p) ==
    end + 1 + (IF LengthsIn(lines) = {} THEN 0 ELSE Number(ValueIn(lines[p])))

OneCommand(line, headers, body, size) ==
    [line |-> line, headers |-> headers, body |-> body, size |-> size]

\* What is taken if the length is the one of line p.
TakenWith(w, end, lines, p) ==
    IF end = 0 \/ SizeWith(end, lines, p) > Len(w) THEN [unread |-> w, size |-> Len(w)]
    ELSE OneCommand(lines[1], {lines[i] : i \in (2..Len(lines)) \ LengthsIn(lines)},
                    SubSeq(w, end + 2, SizeWith(end, lines, p)), SizeWith(end, lines, p))

LinesTo(w, end) == SplitAt(SubSeq(w, 1, end - 1), LineEnd)

LEMMA TakenIs ==
    ASSUME NEW w, NEW end, end = BlankLine(w), NEW lines, lines = LinesTo(w, end)
    PROVE  /\ Taken(w, Min) = TakenWith(w, end, lines, Min(LengthsIn(lines)))
           /\ Taken(w, Max) = TakenWith(w, end, lines, Max(LengthsIn(lines)))
<1>1. Taken(w, Min) = TakenWith(w, end, lines, Min(LengthsIn(lines)))
  BY DEF Taken, TakenWith, OneCommand, SizeWith, LengthsIn, ValueIn, LinesTo, LineEnd
<1>2. Taken(w, Max) = TakenWith(w, end, lines, Max(LengthsIn(lines)))
  BY DEF Taken, TakenWith, OneCommand, SizeWith, LengthsIn, ValueIn, LinesTo, LineEnd
<1>3. QED
  BY <1>1, <1>2

\* The lines before the blank line are those of the text.
LEMMA LinesTaken ==
    ASSUME NEW T, LineEnd \in T, NEW text, NEW lines, Shows(T, text, lines), text # << >>,
           NEW more \in Seq(T)
    PROVE  /\ BlankLine(Whole(text, more)) = Len(text) /\ Len(text) \in Nat \ {0}
           /\ LinesTo(Whole(text, more), Len(text)) = lines
<1> DEFINE s == Whole(text, more)
           m == Len(text)
<1>1. Laid(T, text) /\ text \in Seq(T)
  BY DEF Shows, Laid
<1>2. BlankLine(s) = m /\ m \in Nat \ {0}
  BY <1>1, BlankLineFound
<1>3. s \in Seq(T) /\ Len(s) = m + 1 + Len(more) /\ Len(more) \in Nat
  BY <1>1, WholeTokens
<1>4. \A i \in 1..m : s[i] = text[i]
  BY <1>1, WholeTokens
<1>5. PICK f \in Seq(T) : text = Ended(f) /\ Len(text) = Len(f) + 1
  BY <1>1, FrontOfLaid
<1>6. /\ Len(f) \in Nat /\ m - 1 = Len(f) /\ \A i \in 1..Len(f) : text[i] = f[i]
  BY <1>5, EndedType
<1>7. SubSeq(s, 1, m - 1) = f
  <2> DEFINE k == 0
  <2>1. k \in Nat /\ k + Len(f) <= Len(s) /\ \A i \in 1..Len(f) : s[k + i] = f[i]
    BY <1>2, <1>3, <1>4, <1>6
  <2>2. k + 1 = 1 /\ k + Len(f) = m - 1
    BY <1>6
  <2> HIDE DEF k, s, m
  <2>3. SubSeq(s, k + 1, k + Len(f)) = f
    BY <1>3, <2>1, PieceOfText
  <2>4. QED
    BY <2>2, <2>3
<1>8. SplitAt(f, LineEnd) = lines
  BY <1>5, LinesOfFront
<1> HIDE DEF s
<1>9. QED
  BY <1>2, <1>7, <1>8 DEF LinesTo, s

\* A command and what is behind it, of which as much is taken as the length says.
LEMMA FrontTaken ==
    ASSUME NEW T, LineEnd \in T, NEW text, NEW lines, Shows(T, text, lines), text # << >>,
           NEW body \in Seq(T), NEW rest \in Seq(T), NEW p,
           (IF LengthsIn(lines) = {} THEN 0 ELSE Number(ValueIn(lines[p]))) = Len(body)
    PROVE  TakenWith(Whole(text, Then(body, rest)), Len(text), lines, p)
             = OneCommand(lines[1], {lines[i] : i \in (2..Len(lines)) \ LengthsIn(lines)},
                          body, Len(text) + 1 + Len(body))
<1> DEFINE more == Then(body, rest)
           s == Whole(text, more)
           m == Len(text)
           size == SizeWith(m, lines, p)
<1>1. m \in Nat \ {0} /\ text \in Seq(T)
  <2>1. << >> \in Seq(T)
    OBVIOUS
  <2>2. QED
    BY <2>1, LinesTaken DEF Shows, Laid
<1>2. /\ more \in Seq(T) /\ Len(more) = Len(body) + Len(rest) /\ Len(body) \in Nat /\ Len(rest) \in Nat
      /\ \A i \in 1..Len(body) : more[i] = body[i]
  BY ConcatProperties DEF Then
<1> HIDE DEF more
<1>3. s \in Seq(T) /\ Len(s) = m + 1 + Len(more)
  BY <1>1, <1>2, WholeTokens
<1>4. \A i \in 1..Len(more) : s[m + 1 + i] = more[i]
  <2>1. more \in Seq(T) /\ text \in Seq(T)
    BY <1>1, <1>2
  <2> HIDE DEF s, m, size
  <2>2. \A i \in 1..Len(more) : Whole(text, more)[Len(text) + 1 + i] = more[i]
    BY ONLY <2>1, LineEnd \in T, WholeTokens
  <2>3. QED
    BY <2>2 DEF s, m
<1>5. size = m + 1 + Len(body)
  BY DEF SizeWith
<1>6. SubSeq(s, m + 2, size) = body
  <2> DEFINE k == m + 1
  <2>1. k \in Nat /\ k + Len(body) <= Len(s) /\ \A i \in 1..Len(body) : s[k + i] = body[i]
    <3>1. \A i \in 1..Len(body) : i \in 1..Len(more)
      BY <1>2
    <3>2. \A i \in 1..Len(body) : s[k + i] = body[i]
      BY <1>2, <1>4, <3>1
    <3>3. k \in Nat /\ k + Len(body) <= Len(s)
      BY <1>1, <1>2, <1>3
    <3>4. QED
      BY <3>2, <3>3
  <2>2. k + 1 = m + 2 /\ k + Len(body) = size
    BY <1>1, <1>5
  <2> HIDE DEF k, s, m, size
  <2>3. SubSeq(s, k + 1, k + Len(body)) = body
    BY <1>3, <2>1, PieceOfText
  <2>4. QED
    BY <2>2, <2>3
<1>7. m # 0 /\ ~(size > Len(s))
  BY <1>1, <1>2, <1>3, <1>5
<1> HIDE DEF s, size, m
<1>8. TakenWith(s, m, lines, p)
        = OneCommand(lines[1], {lines[i] : i \in (2..Len(lines)) \ LengthsIn(lines)}, body, size)
  <2> DEFINE headers == {lines[i] : i \in (2..Len(lines)) \ LengthsIn(lines)}
  <2>1. TakenWith(s, m, lines, p)
          = IF m = 0 \/ size > Len(s) THEN [unread |-> s, size |-> Len(s)]
            ELSE OneCommand(lines[1], headers, SubSeq(s, m + 2, size), size)
    BY DEF TakenWith, size
  <2> HIDE DEF headers
  <2>2. TakenWith(s, m, lines, p) = OneCommand(lines[1], headers, SubSeq(s, m + 2, size), size)
    BY <1>7, <2>1
  <2>3. QED
    BY <1>6, <2>2 DEF headers
<1>9. QED
  BY <1>5, <1>8 DEF s, m, more

-----------------------------------------------------------------------------
(***************************************************************************)
(* The lines of a command.                                                 *)
(***************************************************************************)

CL == "Content-Length"

LineTokens(T) == LineEnd \in T /\ ":" \in T /\ " " \in T /\ CL \in T

\* The names and values of headers that make one line each.
CleanHeaders(T, headers) ==
    /\ IsFiniteSet(DOMAIN headers)
    /\ \A n \in DOMAIN headers :
           /\ n \in T /\ n # LineEnd /\ headers[n] \in Seq(T)
           /\ \A i \in 1..Len(headers[n]) : headers[n][i] # LineEnd

LengthText(b) == <<ToString(Len(b))>>

\* A body as the socket takes it.
CleanBody(T, body) ==
    /\ body \in Options(Bodies)
    /\ \A b \in Bodies : b \in Seq(T) /\ LengthText(b) \in Seq(T)

LEMMA HeaderLineIs ==
    ASSUME NEW T, LineTokens(T), NEW n \in T, n # LineEnd, NEW v \in Seq(T),
           \A i \in 1..Len(v) : v[i] # LineEnd
    PROVE  /\ CleanLine(T, LineOf(n, v)) /\ Field(n, v) = Ended(LineOf(n, v))
           /\ Head(LineOf(n, v)) = n /\ ValueIn(LineOf(n, v)) = v
<1> DEFINE line == LineOf(n, v)
           b == ":"
           c == " "
<1>1. b \in T /\ c \in T /\ LineEnd \in T /\ b # LineEnd /\ c # LineEnd
  BY DEF LineTokens, LineEnd
<1>2. IsBehind(line, n, b, c, v)
  BY DEF LineOf, IsBehind
<1>3. Field(n, v) = line \o <<LineEnd>>
  BY DEF Field, LineOf, Preceded, LineEnd
<1> HIDE DEF line, b, c
<1>4. /\ line \in Seq(T) /\ Len(line) = Len(v) + 3 /\ Len(v) \in Nat
      /\ line[1] = n /\ line[2] = b /\ line[3] = c
      /\ \A i \in 1..Len(v) : line[i + 3] = v[i]
  BY <1>1, <1>2, BehindTokens
<1>5. Field(n, v) = Ended(line)
  BY <1>1, <1>3, <1>4, AppendIsConcat DEF Ended
<1>6. line # << >> /\ Head(line) = n
  BY <1>4
<1>7. ASSUME NEW i \in 1..Len(line)
      PROVE  line[i] # LineEnd
  <2>1. i = 1 \/ i = 2 \/ i = 3 \/ i - 3 \in 1..Len(v)
    BY <1>4
  <2>2. CASE i - 3 \in 1..Len(v)
    <3>1. (i - 3) + 3 = i
      OBVIOUS
    <3>2. line[i] = v[i - 3]
      BY <1>4, <2>2, <3>1
    <3>3. QED
      BY <2>2, <3>2
  <2>3. CASE i = 1 \/ i = 2 \/ i = 3
    BY <1>1, <1>4, <2>3
  <2>4. QED
    BY <2>1, <2>2, <2>3
<1>8. ValueIn(line) = v
  <2> DEFINE k == 3
  <2>1. k \in Nat /\ k + Len(v) <= Len(line) /\ \A i \in 1..Len(v) : line[k + i] = v[i]
    <3>1. \A i \in 1..Len(v) : k + i = i + 3
      OBVIOUS
    <3>2. \A i \in 1..Len(v) : line[k + i] = v[i]
      BY <1>4, <3>1
    <3>3. QED
      BY <1>4, <3>2
  <2>2. k + 1 = 4 /\ k + Len(v) = Len(line)
    BY <1>4
  <2> HIDE DEF k
  <2>3. SubSeq(line, k + 1, k + Len(v)) = v
    BY <1>4, <2>1, PieceOfText
  <2>4. QED
    BY <2>2, <2>3 DEF ValueIn
<1>9. QED
  BY <1>4, <1>5, <1>6, <1>7, <1>8 DEF CleanLine, line

NamesOf(headers) == SetToSeq(DOMAIN headers)

HeaderFields(headers) ==
    [i \in 1..Len(NamesOf(headers)) |-> Field(NamesOf(headers)[i], headers[NamesOf(headers)[i]])]

HeaderAt(headers, i) == LineOf(NamesOf(headers)[i], headers[NamesOf(headers)[i]])

\* The first k headers behind the line of a command.
LinesOf(lines, line, headers, k) ==
    /\ Len(lines) = k + 1 /\ lines[1] = line
    /\ \A i \in 1..k : lines[i + 1] = HeaderAt(headers, i)

LEMMA HeadersShown ==
    ASSUME NEW T, LineTokens(T), NEW line, CleanLine(T, line),
           NEW headers, CleanHeaders(T, headers),
           NEW n, n = Len(NamesOf(headers)),
           NEW text, text = Then(Ended(line), FlattenSeq(HeaderFields(headers)))
    PROVE  /\ n \in Nat /\ text # << >>
           /\ \E lines : Shows(T, text, lines) /\ LinesOf(lines, line, headers, n)
<1> DEFINE names == NamesOf(headers)
           fields == HeaderFields(headers)
           L == HeaderAt(headers, 1)
<1>1. /\ n \in Nat /\ names \in Seq(DOMAIN headers) /\ \A i \in 1..n : names[i] \in DOMAIN headers
  <2>1. names \in Seq(DOMAIN headers)
    BY SetToSeqIsOnto DEF CleanHeaders, NamesOf
  <2> HIDE DEF names
  <2>2. QED
    BY <2>1 DEF names
<1>2. ASSUME NEW i \in 1..n
      PROVE  /\ CleanLine(T, HeaderAt(headers, i))
             /\ Field(names[i], headers[names[i]]) = Ended(HeaderAt(headers, i))
  <2> DEFINE m == names[i]
  <2>1. m \in T /\ m # LineEnd /\ headers[m] \in Seq(T) /\ \A j \in 1..Len(headers[m]) : headers[m][j] # LineEnd
    BY <1>1 DEF CleanHeaders
  <2> DEFINE v == headers[m]
  <2> HIDE DEF v
  <2>2. v \in Seq(T) /\ \A j \in 1..Len(v) : v[j] # LineEnd
    BY <2>1 DEF v
  <2> HIDE DEF m
  <2>3. CleanLine(T, LineOf(m, v)) /\ Field(m, v) = Ended(LineOf(m, v))
    BY <2>1, <2>2, HeaderLineIs
  <2>4. QED
    BY <2>3 DEF m, v, HeaderAt
<1>3. \A i \in 1..n : Ended(HeaderAt(headers, i)) \in Seq(T)
  BY <1>2, EndedType DEF CleanLine, LineTokens
<1>4. fields \in Seq(Seq(T)) /\ Len(fields) = n /\ \A i \in 1..n : fields[i] = Ended(HeaderAt(headers, i))
  <2>1. fields = [i \in 1..n |-> Ended(HeaderAt(headers, i))]
    BY <1>2 DEF HeaderFields
  <2> HIDE DEF fields
  <2>2. QED
    BY <1>1, <1>3, <2>1
<1> HIDE DEF fields
<1>5. PICK g : /\ PrefixValues(g, Seq(T), fields, << >>, FlattenSeq(fields))
               /\ \A k \in 1..Len(fields) : g[k] = Then(g[k - 1], fields[k])
  BY <1>4, FlattenSteps
<1>6. /\ g[0] = << >> /\ g[n] = FlattenSeq(fields) /\ g \in [0..n -> Seq(T)]
      /\ \A k \in 1..n : g[k] = Then(g[k - 1], Ended(HeaderAt(headers, k)))
  BY <1>4, <1>5 DEF PrefixValues
<1>7. LineEnd \in T /\ Ended(line) \in Seq(T) /\ line \in Seq(T)
  BY EndedType DEF LineTokens, CleanLine
<1> DEFINE Good(k, lines) == Shows(T, Then(Ended(line), g[k]), lines) /\ LinesOf(lines, line, headers, k)
           Done == {k \in Nat : \E lines : Good(k, lines)}
<1>8. 0 \in Done
  <2> DEFINE none == << >>
             one == Append(none, line)
  <2>1. Then(none, Ended(line)) = Ended(line) /\ Then(Ended(line), g[0]) = Ended(line)
    BY <1>6, <1>7 DEF Then
  <2>2. one = <<line>>
    OBVIOUS
  <2>3. Shows(T, none, none)
    BY NothingShown
  <2>4. Shows(T, Then(none, Ended(line)), one)
    <3> HIDE DEF none
    <3>1. QED
      BY <1>7, <2>3, ShownOnceMore
  <2> HIDE DEF none, one
  <2>5. Shows(T, Then(Ended(line), g[0]), one)
    BY <2>1, <2>4
  <2>6. LinesOf(one, line, headers, 0)
    BY <2>2 DEF LinesOf
  <2>7. QED
    BY <2>5, <2>6
<1>9. ASSUME NEW k \in 1..n, k - 1 \in Done
      PROVE  k \in Done
  <2>1. PICK lines : Good(k - 1, lines)
    BY <1>9
  <2> DEFINE new == HeaderAt(headers, k)
             more == Append(lines, new)
             before == Then(Ended(line), g[k - 1])
  <2>2. Shows(T, before, lines) /\ CleanLine(T, new)
    BY <1>2, <2>1
  <2> HIDE DEF before
  <2>3. Shows(T, Then(before, Ended(new)), more)
    <3> HIDE DEF new
    <3>1. QED
      BY <1>7, <2>2, ShownOnceMore
  <2>4. Then(before, Ended(new)) = Then(Ended(line), g[k])
    <3>1. g[k - 1] \in Seq(T) /\ Ended(new) \in Seq(T) /\ g[k] = Then(g[k - 1], Ended(new))
      <4>1. k - 1 \in 0..n
        BY <1>1
      <4>2. g[k - 1] \in Seq(T)
        BY <1>6, <4>1
      <4>3. g[k] = Then(g[k - 1], Ended(new))
        BY <1>6
      <4>4. Ended(new) \in Seq(T)
        BY <1>3
      <4>5. QED
        BY <4>2, <4>3, <4>4
    <3> DEFINE a == Ended(line)
               b == g[k - 1]
               c == Ended(new)
    <3>2. a \in Seq(T) /\ b \in Seq(T) /\ c \in Seq(T)
      BY <1>7, <3>1
    <3> HIDE DEF a, b, c
    <3>3. Then(Then(a, b), c) = Then(a, Then(b, c))
      BY <3>2, ThenAssociative
    <3>4. QED
      BY <3>1, <3>3 DEF a, b, c, before
  <2>5. LinesOf(more, line, headers, k)
    <3>1. lines \in Seq(Seq(T)) /\ new \in Seq(T)
      BY <2>2 DEF Shows, CleanLine
    <3>2. /\ Len(lines) = k - 1 + 1 /\ lines[1] = line
          /\ \A i \in 1..(k - 1) : lines[i + 1] = HeaderAt(headers, i)
      BY <2>1 DEF LinesOf
    <3> DEFINE S == Seq(T)
    <3> HIDE DEF S, new
    <3>3. /\ Len(more) = Len(lines) + 1 /\ more[Len(lines) + 1] = new
          /\ \A i \in 1..Len(lines) : more[i] = lines[i]
      BY <3>1, AppendTokens DEF S
    <3>4. k \in Nat /\ Len(lines) = k
      BY <1>1, <3>2
    <3>5. ASSUME NEW i \in 1..k
          PROVE  more[i + 1] = HeaderAt(headers, i)
      <4>1. CASE i = k
        BY <3>3, <3>4, <4>1 DEF new
      <4>2. CASE i # k
        <5>1. i \in 1..(k - 1) /\ i + 1 \in 1..Len(lines)
          BY <3>4, <4>2
        <5>2. QED
          BY <3>2, <3>3, <5>1
      <4>3. QED
        BY <4>1, <4>2
    <3>6. Len(more) = k + 1 /\ more[1] = line
      <4>1. 1 \in 1..Len(lines)
        BY <3>4
      <4>2. QED
        BY <3>2, <3>3, <3>4, <4>1
    <3>7. QED
      BY <3>5, <3>6 DEF LinesOf
  <2>6. Good(k, more)
    <3> HIDE DEF more
    <3>1. QED
      BY <2>3, <2>4, <2>5
  <2>7. k \in Nat
    BY <1>1
  <2> HIDE DEF Good
  <2>8. QED
    BY <2>6, <2>7
<1> HIDE DEF Done
<1>10. n \in Done
  <2>1. n \in 0..n
    BY <1>1
  <2>2. QED
    BY <1>1, <1>8, <1>9, <2>1, CountingUp
<1>11. PICK lines : Shows(T, text, lines) /\ LinesOf(lines, line, headers, n)
  BY <1>6, <1>10 DEF Done, fields
<1>12. text # << >>
  <2>1. lines # << >>
    BY <1>1, <1>11 DEF LinesOf
  <2>2. QED
    BY <1>11, <2>1 DEF Shows
<1>13. QED
  BY <1>1, <1>11, <1>12

-----------------------------------------------------------------------------
(***************************************************************************)
(* A command is taken as it was meant.                                     *)
(***************************************************************************)

Content(c) == FlattenSeq(c.event.body)

\* What can be written.
Writable(T, c) ==
    /\ LineTokens(T) /\ CleanLine(T, Line(c))
    /\ CleanHeaders(T, c.event.headers) /\ CleanBody(T, c.event.body)

\* The lines of a command: the line itself, the headers, the length of the body.
Laying(lines, c, n) ==
    /\ n \in Nat /\ n = Len(NamesOf(c.event.headers))
    /\ Len(lines) = n + 1 + Len(c.event.body) /\ lines[1] = Line(c)
    /\ \A i \in 1..n : lines[i + 1] = HeaderAt(c.event.headers, i)
    /\ c.event.body # << >> => lines[n + 2] = LineOf(CL, LengthText(c.event.body[1]))

LEMMA NumberOfLength ==
    ASSUME NEW b \in Bodies
    PROVE  Number(LengthText(b)) = Len(b) /\ Len(b) \in Nat
<1>1. Len(b) \in 0..MaxLength
  BY EventAssumption, CommandAssumption
<1>2. \A n \in 0..MaxLength : LengthText(b) = <<ToString(n)>> => n = Len(b)
  BY <1>1, CommandAssumption DEF LengthText
<1>3. LengthText(b) = <<ToString(Len(b))>>
  BY DEF LengthText
<1>4. QED
  BY <1>1, <1>2, <1>3 DEF Number

LEMMA ContentIs ==
    ASSUME NEW T, NEW body, CleanBody(T, body)
    PROVE  /\ FlattenSeq(body) \in Seq(T)
           /\ body = << >> => FlattenSeq(body) = << >>
           /\ body # << >> => body[1] \in Bodies /\ FlattenSeq(body) = body[1]
           /\ Len(body) = IF body = << >> THEN 0 ELSE 1
<1>1. CASE body = << >>
  <2>1. FlattenSeq(body) = << >> /\ << >> \in Seq(T)
    BY <1>1, FlattenNothing
  <2>2. QED
    BY <1>1, <2>1
<1>2. CASE body # << >>
  <2>1. PICK b \in Bodies : body = <<b>>
    BY <1>2 DEF CleanBody, Options
  <2>2. b \in Seq(T)
    BY DEF CleanBody
  <2>3. FlattenSeq(Append(<< >>, b)) = Then(FlattenSeq(<< >>), b)
    <3>1. << >> \in Seq(Seq(T))
      OBVIOUS
    <3>2. QED
      BY <2>2, <3>1, FlattenAppend
  <2>4. Append(<< >>, b) = body
    BY <2>1
  <2>5. Then(<< >>, b) = b
    BY <2>2 DEF Then
  <2>6. FlattenSeq(body) = b
    BY <2>3, <2>4, <2>5, FlattenNothing
  <2>7. Len(body) = 1 /\ body[1] = b
    BY <2>1
  <2>8. QED
    BY <1>2, <2>2, <2>6, <2>7
<1>3. QED
  BY <1>1, <1>2

LEMMA LengthIsClean ==
    ASSUME NEW b \in Bodies
    PROVE  \A i \in 1..Len(LengthText(b)) : LengthText(b)[i] # LineEnd
<1> DEFINE w == ToString(Len(b))
<1>1. LineEnd \in Escaped
  BY DEF LineEnd, Escaped
<1>2. w \in BodyLengths
  BY DEF BodyLengths
<1>3. w # LineEnd
  BY <1>1, <1>2, EventAssumption
<1> HIDE DEF w
<1>4. \A i \in 1..Len(<<w>>) : <<w>>[i] # LineEnd
  BY <1>3
<1>5. QED
  BY <1>4 DEF LengthText, w

LEMMA CommandShown ==
    ASSUME NEW T, NEW c, Writable(T, c)
    PROVE  \E text, lines, n : /\ Shows(T, text, lines) /\ text # << >>
                               /\ WireText(c) = Whole(text, Content(c)) /\ Laying(lines, c, n)
<1> DEFINE headers == c.event.headers
           body == c.event.body
           line == Line(c)
           n == Len(NamesOf(headers))
           F == FlattenSeq(HeaderFields(headers))
           first == Then(Ended(line), F)
           length == IF body = << >> THEN << >> ELSE Field(CL, LengthText(body[1]))
           text == Then(first, length)
           B == FlattenSeq(body)
<1>1. /\ LineTokens(T) /\ CleanLine(T, line) /\ CleanHeaders(T, headers) /\ CleanBody(T, body)
      /\ LineEnd \in T /\ CL \in T
  BY DEF Writable, LineTokens
<1>2. /\ n \in Nat /\ first # << >>
      /\ \E lines : Shows(T, first, lines) /\ LinesOf(lines, line, headers, n)
  <2> HIDE DEF first, n, line, headers
  <2>1. n = Len(NamesOf(headers)) /\ first = Then(Ended(line), FlattenSeq(HeaderFields(headers)))
    BY DEF n, first
  <2>2. QED
    BY <1>1, <2>1, HeadersShown
<1>3. PICK lines : Shows(T, first, lines) /\ LinesOf(lines, line, headers, n)
  BY <1>2
<1>4. WireText(c) = Whole(text, B)
  <2>1. WireText(c) = line \o <<LineEnd>> \o F \o length \o <<LineEnd>> \o B
    BY DEF WireText, HeaderFields, NamesOf, LengthText, CL, LineEnd
  <2>2. line \in Seq(T) /\ text \in Seq(T)
    <3>1. line \in Seq(T)
      BY <1>1 DEF CleanLine
    <3>2. first \in Seq(T)
      BY <1>3 DEF Shows, Laid
    <3>3. CASE body = << >>
      <4>1. text = first
        <5> HIDE DEF first, body
        <5>1. QED
          BY <3>2, <3>3 DEF Then
      <4>2. QED
        BY <3>1, <3>2, <4>1
    <3>4. CASE body # << >>
      <4>1. PICK b \in Bodies : body = <<b>>
        BY <1>1, <3>4 DEF CleanBody, Options
      <4>2. LengthText(b) \in Seq(T) /\ body[1] = b
        BY <1>1, <4>1 DEF CleanBody
      <4>3. \A i \in 1..Len(LengthText(b)) : LengthText(b)[i] # LineEnd
        BY LengthIsClean
      <4>4. CL # LineEnd
        BY DEF CL, LineEnd
      <4>5. Field(CL, LengthText(b)) = Ended(LineOf(CL, LengthText(b))) /\ CleanLine(T, LineOf(CL, LengthText(b)))
        <5> DEFINE v == LengthText(b)
        <5>1. v \in Seq(T) /\ \A i \in 1..Len(v) : v[i] # LineEnd
          BY <4>2, <4>3
        <5> HIDE DEF v
        <5>2. Field(CL, v) = Ended(LineOf(CL, v)) /\ CleanLine(T, LineOf(CL, v))
          BY <1>1, <4>4, <5>1, HeaderLineIs
        <5>3. QED
          BY <5>2 DEF v
      <4>6. length \in Seq(T)
        <5>1. length = Ended(LineOf(CL, LengthText(b)))
          BY <3>4, <4>2, <4>5
        <5>2. QED
          BY <1>1, <4>5, <5>1, EndedType DEF CleanLine
      <4> HIDE DEF first, length
      <4>7. text \in Seq(T)
        BY <3>2, <4>6, ConcatProperties DEF Then
      <4>8. QED
        BY <3>1, <4>7
    <3>5. QED
      BY <3>3, <3>4
  <2>3. line \o <<LineEnd>> = Ended(line) /\ text \o <<LineEnd>> = Ended(text)
    <3> HIDE DEF text, line
    <3>1. QED
      BY <1>1, <2>2, AppendIsConcat DEF Ended
  <2> HIDE DEF line, F, length, B
  <2>4. WireText(c) = text \o <<LineEnd>> \o B
    BY <2>1, <2>3 DEF Then
  <2>5. QED
    BY <2>3, <2>4 DEF Whole, Then
<1>5. CASE body = << >>
  <2>1. text = first
    <3>1. first \in Seq(T)
      BY <1>3 DEF Shows, Laid
    <3> HIDE DEF first, body
    <3>2. QED
      BY <1>5, <3>1 DEF Then
  <2>2. Len(body) = 0
    BY <1>5
  <2>3. Laying(lines, c, n)
    BY <1>2, <1>3, <1>5, <2>2 DEF Laying, LinesOf
  <2> HIDE DEF text, first, B
  <2>4. QED
    BY <1>2, <1>3, <1>4, <2>1, <2>3 DEF B, Content
<1>6. CASE body # << >>
  <2>1. PICK b \in Bodies : body = <<b>>
    BY <1>1, <1>6 DEF CleanBody, Options
  <2>2. LengthText(b) \in Seq(T) /\ body[1] = b /\ Len(body) = 1
    BY <1>1, <2>1 DEF CleanBody
  <2>3. \A i \in 1..Len(LengthText(b)) : LengthText(b)[i] # LineEnd
    BY LengthIsClean
  <2> DEFINE v == LengthText(b)
             last == LineOf(CL, v)
             more == Append(lines, last)
  <2>4. CleanLine(T, last) /\ Field(CL, v) = Ended(last)
    <3>1. v \in Seq(T) /\ CL # LineEnd /\ \A i \in 1..Len(v) : v[i] # LineEnd
      BY <2>2, <2>3 DEF CL, LineEnd
    <3> HIDE DEF v
    <3>2. QED
      BY <1>1, <3>1, HeaderLineIs
  <2>5. length = Ended(last)
    BY <1>6, <2>2, <2>4
  <2> HIDE DEF last, first, length, B
  <2>6. Shows(T, Then(first, Ended(last)), more)
    BY <1>1, <1>3, <2>4, ShownOnceMore
  <2>7. Shows(T, text, more)
    BY <2>5, <2>6
  <2>8. more # << >> /\ Laying(more, c, n)
    <3>1. lines \in Seq(Seq(T)) /\ last \in Seq(T)
      BY <1>3, <2>4 DEF Shows, CleanLine
    <3> DEFINE S == Seq(T)
    <3> HIDE DEF S
    <3>2. /\ Len(more) = Len(lines) + 1 /\ more[Len(lines) + 1] = last /\ more # << >>
          /\ \A i \in 1..Len(lines) : more[i] = lines[i]
      BY <3>1, AppendTokens DEF S
    <3>3. /\ Len(lines) = n + 1 /\ lines[1] = line
          /\ \A i \in 1..n : lines[i + 1] = HeaderAt(headers, i)
      BY <1>3 DEF LinesOf
    <3> HIDE DEF more, line, n
    <3>4. more[1] = line /\ Len(more) = n + 2 /\ more[n + 2] = last
      BY <1>2, <3>2, <3>3
    <3>5. \A i \in 1..n : more[i + 1] = HeaderAt(headers, i)
      BY <1>2, <3>2, <3>3
    <3>6. Len(more) = n + 1 + Len(body)
      BY <1>2, <2>2, <3>4
    <3>7. n = Len(NamesOf(headers))
      BY DEF n
    <3>8. QED
      BY <1>2, <2>2, <3>2, <3>4, <3>5, <3>6, <3>7 DEF Laying, last, line
  <2>9. text # << >>
    BY <2>7, <2>8 DEF Shows
  <2> HIDE DEF text
  <2>10. QED
    BY <1>4, <2>7, <2>8, <2>9 DEF Content, B
<1>7. QED
  BY <1>5, <1>6

FieldTexts(headers) == {LineOf(n, headers[n]) : n \in DOMAIN headers \ {CL}}

Meant(c) == OneCommand(Line(c), FieldTexts(c.event.headers), Content(c), Len(WireText(c)))

\* The names of headers are found behind the line, and with a body its length.
LEMMA HeadsOfLines ==
    ASSUME NEW T, NEW c, Writable(T, c), NEW lines, NEW n, Laying(lines, c, n)
    PROVE  /\ NamesOf(c.event.headers) \in Seq(DOMAIN c.event.headers)
           /\ Range(NamesOf(c.event.headers)) = DOMAIN c.event.headers
           /\ n \in Nat /\ n = Len(NamesOf(c.event.headers))
           /\ \A i \in 1..n :
                  LET name == NamesOf(c.event.headers)[i]
                  IN  /\ name \in DOMAIN c.event.headers /\ Head(lines[i + 1]) = name
                      /\ lines[i + 1] = LineOf(name, c.event.headers[name])
                      /\ ValueIn(lines[i + 1]) = c.event.headers[name]
           /\ c.event.body # << >> =>
                  /\ Len(lines) = n + 2 /\ Head(lines[n + 2]) = CL
                  /\ ValueIn(lines[n + 2]) = LengthText(c.event.body[1])
           /\ c.event.body = << >> => Len(lines) = n + 1
<1> DEFINE headers == c.event.headers
           body == c.event.body
           names == NamesOf(headers)
<1>1. LineTokens(T) /\ CL \in T /\ CleanHeaders(T, headers) /\ CleanBody(T, body)
  BY DEF Writable, LineTokens
<1>2. names \in Seq(DOMAIN headers) /\ Range(names) = DOMAIN headers
  BY <1>1, SetToSeqIsOnto DEF CleanHeaders, NamesOf
<1>3. n \in Nat /\ n = Len(names) /\ Len(lines) = n + 1 + Len(body)
  BY DEF Laying
<1>4. ASSUME NEW i \in 1..n
      PROVE  /\ names[i] \in DOMAIN headers /\ Head(lines[i + 1]) = names[i]
             /\ lines[i + 1] = LineOf(names[i], headers[names[i]])
             /\ ValueIn(lines[i + 1]) = headers[names[i]]
  <2> DEFINE m == names[i]
             v == headers[m]
  <2>1. lines[i + 1] = LineOf(m, v)
    BY DEF Laying, HeaderAt
  <2>2. m \in DOMAIN headers
    <3> HIDE DEF names
    <3>1. QED
      BY <1>2, <1>3
  <2>3. m \in T /\ m # LineEnd /\ v \in Seq(T) /\ \A j \in 1..Len(v) : v[j] # LineEnd
    BY <1>1, <2>2 DEF CleanHeaders
  <2> HIDE DEF v
  <2> HIDE DEF m
  <2>4. Head(LineOf(m, v)) = m /\ ValueIn(LineOf(m, v)) = v
    BY <1>1, <2>3, HeaderLineIs
  <2>5. QED
    BY <2>1, <2>2, <2>4 DEF m, v
<1>5. ASSUME body # << >>
      PROVE  /\ Len(lines) = n + 2 /\ Head(lines[n + 2]) = CL
             /\ ValueIn(lines[n + 2]) = LengthText(body[1])
  <2>1. body[1] \in Bodies /\ Len(body) = 1
    BY <1>1, <1>5, ContentIs
  <2> DEFINE v == LengthText(body[1])
  <2>2. v \in Seq(T) /\ CL # LineEnd /\ \A j \in 1..Len(v) : v[j] # LineEnd
    <3>1. v \in Seq(T)
      BY <1>1, <2>1 DEF CleanBody
    <3>2. \A j \in 1..Len(v) : v[j] # LineEnd
      BY <2>1, LengthIsClean
    <3>3. CL # LineEnd
      BY DEF CL, LineEnd
    <3>4. QED
      BY <3>1, <3>2, <3>3
  <2>3. lines[n + 2] = LineOf(CL, v)
    BY <1>5 DEF Laying
  <2> HIDE DEF v
  <2>4. Head(LineOf(CL, v)) = CL /\ ValueIn(LineOf(CL, v)) = v
    BY <1>1, <2>2, HeaderLineIs
  <2>5. QED
    BY <1>3, <2>1, <2>3, <2>4 DEF v
<1>6. body = << >> => Len(lines) = n + 1
  BY <1>3
<1>7. QED
  BY <1>2, <1>3, <1>4, <1>5, <1>6

\* Whichever line of a length the server picks, it says the length of the body.
\* Only the last one does if an event brings another with it.
LEMMA LengthsAgree ==
    ASSUME NEW T, NEW c, Writable(T, c), NEW lines, NEW n, Laying(lines, c, n)
    PROVE  /\ LengthsIn(lines) \in SUBSET (1..Len(lines))
           /\ LengthsIn(lines) = {} => Len(Content(c)) = 0
           /\ ~Disputed(c) => \A p \in LengthsIn(lines) : Number(ValueIn(lines[p])) = Len(Content(c))
           /\ c.event.body # << >> =>
                  LengthsIn(lines) # {} /\ Number(ValueIn(lines[Max(LengthsIn(lines))])) = Len(Content(c))
<1> DEFINE headers == c.event.headers
           body == c.event.body
           I == LengthsIn(lines)
<1>1. /\ n \in Nat
      /\ \A i \in 1..n :
             /\ NamesOf(headers)[i] \in DOMAIN headers
             /\ Head(lines[i + 1]) = NamesOf(headers)[i]
             /\ ValueIn(lines[i + 1]) = headers[NamesOf(headers)[i]]
  BY HeadsOfLines
<1>2. /\ body # << >> =>
             /\ Len(lines) = n + 2 /\ Head(lines[n + 2]) = CL
             /\ ValueIn(lines[n + 2]) = LengthText(body[1])
      /\ body = << >> => Len(lines) = n + 1
  BY HeadsOfLines
<1>3. CleanBody(T, body)
  BY DEF Writable
<1>4. I = {i \in 2..Len(lines) : Head(lines[i]) = CL}
  BY DEF LengthsIn, CL
<1> HIDE DEF I
<1>5. I \in SUBSET (1..Len(lines)) /\ Len(lines) \in Nat
  <2>1. body # << >> \/ body = << >>
    OBVIOUS
  <2>2. Len(lines) \in Nat
    BY <1>1, <1>2, <2>1
  <2>3. QED
    BY <1>4, <2>2
<1>6. I = {} => Len(Content(c)) = 0
  <2>1. body # << >> => n + 2 \in I
    BY <1>1, <1>2, <1>4
  <2>2. body = << >> => Content(c) = << >>
    BY <1>3, ContentIs DEF Content
  <2>3. QED
    BY <2>1, <2>2
<1>7. body # << >> => Number(LengthText(body[1])) = Len(Content(c))
  <2>1. body # << >> => body[1] \in Bodies /\ FlattenSeq(body) = body[1]
    BY <1>3, ContentIs
  <2>2. QED
    BY <2>1, NumberOfLength DEF Content
<1>8. ASSUME ~Disputed(c), NEW p \in I
      PROVE  Number(ValueIn(lines[p])) = Len(Content(c))
  <2>1. p \in 2..Len(lines) /\ Head(lines[p]) = CL
    BY <1>4
  <2>2. CASE p - 1 \in 1..n
    <3> DEFINE i == p - 1
    <3>1. i \in 1..n /\ i + 1 = p
      BY <2>1, <2>2
    <3> HIDE DEF i
    <3>2. CL \in DOMAIN headers /\ ValueIn(lines[p]) = headers[CL]
      BY <1>1, <2>1, <3>1
    <3>3. QED
      BY <1>8, <3>2 DEF Disputed, Content, CL
  <2>3. CASE p - 1 \notin 1..n
    <3>1. body # << >> /\ p = n + 2
      BY <1>1, <1>2, <2>1, <2>3
    <3>2. QED
      BY <1>2, <1>7, <3>1
  <2>4. QED
    BY <2>2, <2>3
<1>9. ASSUME body # << >>
      PROVE  I # {} /\ Number(ValueIn(lines[Max(I)])) = Len(Content(c))
  <2>1. n + 2 \in I /\ Len(lines) = n + 2
    BY <1>1, <1>2, <1>4, <1>9
  <2>2. Max(I) \in I /\ \A m \in I : m <= Max(I)
    BY <1>5, <2>1, MaxIsMember
  <2>3. Max(I) = n + 2
    <3>1. Max(I) \in 1..(n + 2) /\ n + 2 <= Max(I)
      BY <1>5, <2>1, <2>2
    <3>2. QED
      BY <1>1, <3>1
  <2>4. QED
    BY <1>2, <1>7, <1>9, <2>1, <2>3
<1>10. QED
  BY <1>5, <1>6, <1>7, <1>8, <1>9 DEF I

\* The other lines behind the first are the headers.
LEMMA HeadersTaken ==
    ASSUME NEW T, NEW c, Writable(T, c), NEW lines, NEW n, Laying(lines, c, n)
    PROVE  {lines[i] : i \in (2..Len(lines)) \ LengthsIn(lines)} = FieldTexts(c.event.headers)
<1> DEFINE headers == c.event.headers
           body == c.event.body
           names == NamesOf(headers)
           I == LengthsIn(lines)
<1>1. /\ n \in Nat /\ n = Len(names) /\ names \in Seq(DOMAIN headers) /\ Range(names) = DOMAIN headers
      /\ \A i \in 1..n :
             /\ names[i] \in DOMAIN headers /\ Head(lines[i + 1]) = names[i]
             /\ lines[i + 1] = LineOf(names[i], headers[names[i]])
  BY HeadsOfLines
<1>2. /\ body # << >> => Len(lines) = n + 2 /\ Head(lines[n + 2]) = CL
      /\ body = << >> => Len(lines) = n + 1
  BY HeadsOfLines
<1>3. I = {i \in 2..Len(lines) : Head(lines[i]) = CL}
  BY DEF LengthsIn, CL
<1> HIDE DEF I, names, headers, body
<1>4. Len(lines) \in Nat /\ n + 1 <= Len(lines)
  <2>1. body # << >> \/ body = << >>
    OBVIOUS
  <2>2. QED
    BY <1>1, <1>2, <2>1
<1>5. ASSUME NEW i \in (2..Len(lines)) \ I
      PROVE  lines[i] \in FieldTexts(headers)
  <2> DEFINE j == i - 1
  <2>1. i \in 2..Len(lines) /\ Head(lines[i]) # CL
    BY <1>3
  <2>2. j \in 1..n /\ j + 1 = i
    BY <1>1, <1>2, <2>1
  <2> HIDE DEF j
  <2>3. names[j] \in DOMAIN headers \ {CL} /\ lines[i] = LineOf(names[j], headers[names[j]])
    BY <1>1, <2>1, <2>2
  <2>4. QED
    BY <2>3 DEF FieldTexts
<1>6. ASSUME NEW m \in DOMAIN headers \ {CL}
      PROVE  \E i \in (2..Len(lines)) \ I : lines[i] = LineOf(m, headers[m])
  <2>1. PICK j \in 1..n : names[j] = m
    BY <1>1 DEF Range
  <2> DEFINE i == j + 1
  <2>2. i \in 2..Len(lines)
    BY <1>1, <1>4
  <2>3. Head(lines[i]) # CL /\ lines[i] = LineOf(m, headers[m])
    BY <1>1, <2>1
  <2>4. i \notin I
    BY <1>3, <2>3
  <2>5. QED
    BY <2>2, <2>3, <2>4
<1>7. {lines[i] : i \in (2..Len(lines)) \ I} = FieldTexts(headers)
  BY <1>5, <1>6 DEF FieldTexts
<1>8. QED
  BY <1>7 DEF I, headers

\* The server takes the command from the front of the bytes and leaves the rest.
LEMMA CommandTaken ==
    ASSUME NEW T, NEW c, Writable(T, c), NEW rest \in Seq(T)
    PROVE  /\ WireText(c) \in Seq(T) /\ Len(WireText(c)) \in Nat \ {0}
           /\ ~Disputed(c) => Taken(Then(WireText(c), rest), Min) = Meant(c)
           /\ ~Disputed(c) \/ c.event.body # << >> =>
                  Taken(Then(WireText(c), rest), Max) = Meant(c)
<1> DEFINE body == c.event.body
           B == Content(c)
<1>1. PICK text, lines, n : /\ Shows(T, text, lines) /\ text # << >>
                            /\ WireText(c) = Whole(text, B) /\ Laying(lines, c, n)
  BY CommandShown
<1>2. LineEnd \in T /\ B \in Seq(T) /\ text \in Seq(T)
  <2>1. LineEnd \in T /\ CleanBody(T, body)
    BY DEF Writable, LineTokens
  <2>2. B \in Seq(T)
    BY <2>1, ContentIs DEF Content
  <2>3. text \in Seq(T)
    BY <1>1 DEF Shows, Laid
  <2>4. QED
    BY <2>1, <2>2, <2>3
<1> HIDE DEF B
<1>3. Then(B, rest) \in Seq(T)
  BY <1>2, ConcatProperties DEF Then
<1> DEFINE w == Then(WireText(c), rest)
           m == Len(text)
           I == LengthsIn(lines)
           F == {lines[i] : i \in (2..Len(lines)) \ I}
<1>4. w = Whole(text, Then(B, rest))
  <2> DEFINE a == Ended(text)
  <2>1. a \in Seq(T)
    BY <1>2, EndedType
  <2> HIDE DEF a
  <2>2. Then(Then(a, B), rest) = Then(a, Then(B, rest))
    BY <1>2, <2>1, ThenAssociative
  <2>3. QED
    BY <1>1, <2>2 DEF Whole, a
<1>5. /\ BlankLine(w) = m /\ m \in Nat \ {0} /\ LinesTo(w, m) = lines
  BY <1>1, <1>2, <1>3, <1>4, LinesTaken
<1>6. WireText(c) \in Seq(T) /\ Len(WireText(c)) = m + 1 + Len(B)
  BY <1>1, <1>2, WholeTokens
<1>7. Len(B) \in Nat
  BY <1>2
<1>8. lines[1] = Line(c) /\ F = FieldTexts(c.event.headers)
  BY <1>1, HeadersTaken DEF Laying
<1>9. /\ I \in SUBSET (1..Len(lines))
      /\ I = {} => Len(B) = 0
      /\ ~Disputed(c) => \A p \in I : Number(ValueIn(lines[p])) = Len(B)
      /\ body # << >> => I # {} /\ Number(ValueIn(lines[Max(I)])) = Len(B)
  BY <1>1, LengthsAgree DEF B
<1>10. Len(lines) \in Nat
  <2>1. lines \in Seq(Seq(T))
    BY <1>1 DEF Shows
  <2>2. QED
    BY <2>1
<1>11. /\ Taken(w, Min) = TakenWith(w, m, lines, Min(I))
       /\ Taken(w, Max) = TakenWith(w, m, lines, Max(I))
  <2> HIDE DEF w, m
  <2>1. QED
    BY <1>5, TakenIs
<1> HIDE DEF F
<1>12. ASSUME NEW p, (IF I = {} THEN 0 ELSE Number(ValueIn(lines[p]))) = Len(B)
       PROVE  TakenWith(w, m, lines, p) = Meant(c)
  <2>1. TakenWith(Whole(text, Then(B, rest)), m, lines, p) = OneCommand(lines[1], F, B, m + 1 + Len(B))
    BY <1>1, <1>2, <1>12, FrontTaken, ZenonT(30) DEF F
  <2> HIDE DEF m, w
  <2>2. QED
    BY <1>4, <1>6, <1>8, <2>1 DEF Meant, B
<1> HIDE DEF I, w, m
<1>13. ASSUME ~Disputed(c)
       PROVE  Taken(w, Min) = Meant(c) /\ Taken(w, Max) = Meant(c)
  <2>1. ASSUME I # {}
        PROVE  Min(I) \in I /\ Max(I) \in I
    <3>1. I \in SUBSET Nat
      BY <1>9
    <3>2. QED
      BY <1>9, <1>10, <2>1, <3>1, MinIsMember, MaxIsMember
  <2>2. (IF I = {} THEN 0 ELSE Number(ValueIn(lines[Min(I)]))) = Len(B)
    BY <1>9, <1>13, <2>1
  <2>3. (IF I = {} THEN 0 ELSE Number(ValueIn(lines[Max(I)]))) = Len(B)
    BY <1>9, <1>13, <2>1
  <2>4. QED
    BY <1>11, <1>12, <2>2, <2>3
<1>14. ASSUME body # << >>
       PROVE  Taken(w, Max) = Meant(c)
  <2>1. (IF I = {} THEN 0 ELSE Number(ValueIn(lines[Max(I)]))) = Len(B)
    BY <1>9, <1>14
  <2>2. QED
    BY <1>11, <1>12, <2>1
<1>15. Len(WireText(c)) \in Nat \ {0}
  BY <1>5, <1>6, <1>7
<1>16. QED
  BY <1>6, <1>13, <1>14, <1>15 DEF w

-----------------------------------------------------------------------------
(***************************************************************************)
(* The server reads to the end.                                            *)
(***************************************************************************)

ReadFrom(f, n, item, next) ==
    f = [i \in 1..(n + 1) |-> IF i > n THEN << >> ELSE <<item[i]>> \o f[next[i]]]

\* A recursion from i to a later place has a value at each place.
LEMMA ReadingExists ==
    ASSUME NEW n \in Nat, NEW item, NEW next, \A i \in 1..n : next[i] \in (i + 1)..(n + 1)
    PROVE  \E f : ReadFrom(f, n, item, next)
<1> DEFINE Step(f, i) == IF i > n THEN << >> ELSE <<item[i]>> \o f[next[i]]
           Is(f, k) == f = [i \in (n + 1 - k)..(n + 1) |-> Step(f, i)]
           Done == {k \in Nat : \E f : Is(f, k)}
<1>1. 0 \in Done
  <2> DEFINE f == [i \in (n + 1)..(n + 1) |-> << >>]
  <2>1. \A i \in (n + 1)..(n + 1) : i > n
    OBVIOUS
  <2>2. f = [i \in (n + 1)..(n + 1) |-> Step(f, i)]
    BY <2>1
  <2>3. Is(f, 0)
    BY <2>2
  <2>4. QED
    BY <2>3
<1>2. ASSUME NEW k \in 1..n, k - 1 \in Done
      PROVE  k \in Done
  <2> DEFINE m == n + 1 - k
             D == m..(n + 1)
             E == (m + 1)..(n + 1)
  <2>1. k \in Nat /\ m \in 1..n /\ n + 1 - (k - 1) = m + 1
    OBVIOUS
  <2>2. PICK f : f = [i \in E |-> Step(f, i)]
    BY <1>2, <2>1
  <2> DEFINE g == [i \in D |-> IF i = m THEN <<item[m]>> \o f[next[m]] ELSE f[i]]
  <2>3. D = E \cup {m} /\ m \notin E
    BY <2>1
  <2>4. \A i \in E : g[i] = f[i]
    BY <2>3
  <2>5. ASSUME NEW i \in D
        PROVE  g[i] = Step(g, i)
    <3>1. CASE i = m
      <4>1. next[m] \in E
        BY <2>1
      <4>2. g[m] = <<item[m]>> \o f[next[m]] /\ ~(m > n)
        BY <2>1, <2>3
      <4>3. g[next[m]] = f[next[m]]
        BY <2>4, <4>1
      <4> HIDE DEF g, m
      <4>4. QED
        BY <3>1, <4>2, <4>3
    <3>2. CASE i # m
      <4>1. i \in E
        BY <2>3, <3>2
      <4>2. f[i] = Step(f, i)
        BY <2>2, <4>1
      <4>3. ~(i > n) => next[i] \in E
        <5>1. i \in (m + 1)..(n + 1) /\ i \in Nat
          BY <2>1, <4>1
        <5>2. ~(i > n) => i \in 1..n
          BY <2>1, <5>1
        <5>3. QED
          BY <2>1, <5>1, <5>2
      <4>4. ~(i > n) => g[next[i]] = f[next[i]]
        BY <2>4, <4>3
      <4>5. g[i] = f[i]
        BY <2>4, <4>1
      <4> HIDE DEF g, m, E
      <4>6. QED
        BY <4>2, <4>4, <4>5
    <3>3. QED
      BY <3>1, <3>2
  <2>6. g = [i \in D |-> Step(g, i)]
    <3>1. g = [i \in D |-> g[i]]
      OBVIOUS
    <3> HIDE DEF g, D, Step
    <3>2. QED
      BY <2>5, <3>1
  <2>7. Is(g, k)
    <3> HIDE DEF g, Step
    <3>1. QED
      BY <2>6
  <2> HIDE DEF Is
  <2>8. QED
    BY <2>1, <2>7
<1>3. n \in Done
  <2>1. n \in 0..n
    OBVIOUS
  <2> HIDE DEF Done
  <2>2. QED
    BY <1>1, <1>2, <2>1, CountingUp
<1>4. PICK f : Is(f, n)
  BY <1>3
<1>5. n + 1 - n = 1
  OBVIOUS
<1>6. ReadFrom(f, n, item, next)
  BY <1>4, <1>5 DEF ReadFrom
<1>7. QED
  BY <1>6
\* A recursion that goes from place to place meets what is at each of them.
Meets(f, at, meant) ==
    /\ f[at[Len(meant)]] = << >>
    /\ \A k \in 1..Len(meant) : f[at[k - 1]] = <<meant[k]>> \o f[at[k]]

List(s) == s = [i \in 1..Len(s) |-> s[i]] /\ Len(s) \in Nat

LEMMA MetInTurn ==
    ASSUME NEW meant, List(meant), NEW at, NEW f, Meets(f, at, meant)
    PROVE  f[at[0]] = meant
<1> DEFINE n == Len(meant)
           M == {meant[i] : i \in 1..n}
<1>0. meant \in Seq(M)
  <2>1. meant = [i \in 1..n |-> meant[i]] /\ n \in Nat
    BY DEF List
  <2>2. \A i \in 1..n : meant[i] \in M
    OBVIOUS
  <2> HIDE DEF n, M
  <2>3. QED
    BY <2>1, <2>2
<1> HIDE DEF M
<1> DEFINE Done == {j \in Nat : f[at[n - j]] = SubSeq(meant, n - j + 1, n)}
<1>1. /\ n \in Nat /\ f[at[n]] = << >>
      /\ \A k \in 1..n : f[at[k - 1]] = <<meant[k]>> \o f[at[k]]
  BY DEF Meets, List
<1>2. 0 \in Done
  <2>1. SubSeq(meant, n + 1, n) = << >>
    BY <1>0, <1>1, SubSeqEmpty
  <2>2. n - 0 = n /\ n - 0 + 1 = n + 1
    BY <1>1
  <2>3. QED
    BY <1>1, <2>1, <2>2
<1>3. ASSUME NEW j \in 1..n, j - 1 \in Done
      PROVE  j \in Done
  <2> DEFINE k == n - j + 1
             b == SubSeq(meant, k + 1, n)
  <2>1. k \in 1..n /\ j \in Nat /\ n - (j - 1) = k /\ n - (j - 1) + 1 = k + 1 /\ k - 1 = n - j
    BY <1>1
  <2>2. f[at[k]] = b
    BY <1>3, <2>1
  <2>3. f[at[k - 1]] = <<meant[k]>> \o b
    BY <1>1, <2>1, <2>2
  <2>4. <<meant[k]>> \o b = SubSeq(meant, k, n)
    BY <1>0, <1>1, <2>1
  <2>5. f[at[n - j]] = SubSeq(meant, n - j + 1, n)
    BY <2>1, <2>3, <2>4
  <2>6. QED
    BY <2>1, <2>5
<1>4. n \in Done
  <2>1. n \in 0..n
    BY <1>1
  <2> HIDE DEF Done
  <2>2. QED
    BY <1>1, <1>2, <1>3, <2>1, CountingUp
<1>5. SubSeq(meant, 1, n) = meant /\ n - n = 0 /\ n - n + 1 = 1
  <2>1. SubSeq(meant, 1, n) = meant
    BY <1>0, Fronts
  <2>2. QED
    BY <1>1, <2>1
<1>6. QED
  BY <1>4, <1>5

\* What is behind the first k parts of a text.
LEMMA Leaves ==
    ASSUME NEW T, NEW parts \in Seq(Seq(T)), NEW g, NEW w,
           PrefixValues(g, Seq(T), parts, << >>, w),
           \A k \in 1..Len(parts) : g[k] = Then(g[k - 1], parts[k])
    PROVE  \A k \in 0..Len(parts) : \E rest \in Seq(T) : w = Then(g[k], rest)
<1> DEFINE n == Len(parts)
           Behind_(k, rest) == w = Then(g[k], rest)
           Done == {j \in Nat : \E rest \in Seq(T) : Behind_(n - j, rest)}
<1>1. /\ n \in Nat /\ g \in [0..n -> Seq(T)] /\ g[n] = w
      /\ \A k \in 1..n : parts[k] \in Seq(T)
  <2>1. g \in [0..n -> Seq(T)] /\ g[n] = w
    BY DEF PrefixValues
  <2>2. n \in Nat
    OBVIOUS
  <2> DEFINE S == Seq(T)
  <2>3. parts \in Seq(S)
    OBVIOUS
  <2> HIDE DEF S
  <2>4. \A k \in 1..n : parts[k] \in S
    BY <2>3
  <2>5. QED
    BY <2>1, <2>2, <2>4 DEF S
<1>2. 0 \in Done
  <2>1. w \in Seq(T) /\ << >> \in Seq(T)
    BY <1>1
  <2>2. Behind_(n, << >>)
    BY <1>1, <2>1, ConcatEmptySeq DEF Then
  <2>3. n - 0 = n
    BY <1>1
  <2> HIDE DEF Behind_
  <2>4. QED
    BY <2>1, <2>2, <2>3
<1>3. ASSUME NEW j \in 1..n, j - 1 \in Done
      PROVE  j \in Done
  <2> DEFINE k == n - j + 1
  <2>1. k \in 1..n /\ j \in Nat /\ n - (j - 1) = k /\ k - 1 = n - j /\ k - 1 \in 0..n
    BY <1>1
  <2>2. PICK rest \in Seq(T) : w = Then(g[k], rest)
    BY <1>3, <2>1
  <2>3. g[k - 1] \in Seq(T) /\ parts[k] \in Seq(T)
    BY <1>1, <2>1
  <2>4. g[k] = Then(g[k - 1], parts[k])
    BY <2>1
  <2>5. w = Then(g[k - 1], Then(parts[k], rest))
    BY <2>2, <2>3, <2>4, ThenAssociative
  <2>6. Then(parts[k], rest) \in Seq(T)
    BY <2>2, <2>3, ConcatProperties DEF Then
  <2>7. Behind_(n - j, Then(parts[k], rest))
    BY <2>1, <2>5
  <2> HIDE DEF Behind_, k
  <2>8. QED
    BY <2>1, <2>6, <2>7
<1>4. \A j \in 0..n : j \in Done
  <2> HIDE DEF Done
  <2>1. QED
    BY <1>1, <1>2, <1>3, CountingUp
<1>5. ASSUME NEW k \in 0..n
      PROVE  \E rest \in Seq(T) : Behind_(k, rest)
  <2>1. n - k \in 0..n /\ n - (n - k) = k
    BY <1>1
  <2> HIDE DEF Behind_
  <2>2. QED
    BY <1>4, <2>1
<1>6. QED
  BY <1>5

\* Where each part of a text begins, and what is there.
InPlace(at, T, parts, w) ==
    /\ at \in [0..Len(parts) -> Nat] /\ at[0] = 1 /\ at[Len(parts)] = Len(w) + 1
    /\ \A k \in 1..Len(parts) :
           /\ at[k] = at[k - 1] + Len(parts[k])
           /\ at[k] <= Len(w) + 1
           /\ \E rest \in Seq(T) : SubSeq(w, at[k - 1], Len(w)) = Then(parts[k], rest)

LEMMA PartsInPlace ==
    ASSUME NEW T, NEW parts \in Seq(Seq(T)), NEW w, w = FlattenSeq(parts)
    PROVE  \E at : InPlace(at, T, parts, w)
<1> DEFINE n == Len(parts)
<1>1. PICK g : /\ PrefixValues(g, Seq(T), parts, << >>, w)
               /\ \A k \in 1..n : g[k] = Then(g[k - 1], parts[k])
  BY FlattenSteps
<1>2. \A k \in 0..n : \E rest \in Seq(T) : w = Then(g[k], rest)
  BY <1>1, Leaves
<1>3. n \in Nat /\ g \in [0..n -> Seq(T)] /\ g[0] = << >> /\ g[n] = w
  BY <1>1 DEF PrefixValues
<1>4. \A k \in 1..n : parts[k] \in Seq(T)
  <2> DEFINE S == Seq(T)
  <2>3. parts \in Seq(S)
    OBVIOUS
  <2> HIDE DEF S
  <2>4. \A k \in 1..n : parts[k] \in S
    BY <2>3
  <2>5. QED
    BY <2>4 DEF S
<1> DEFINE at == [k \in 0..n |-> Len(g[k]) + 1]
<1>5. at \in [0..n -> Nat]
  <2>1. \A k \in 0..n : Len(g[k]) + 1 \in Nat
    BY <1>3
  <2>2. QED
    BY <2>1
<1>6. at[0] = 1 /\ at[n] = Len(w) + 1
  <2>1. 0 \in 0..n /\ n \in 0..n
    BY <1>3
  <2>2. Len(g[0]) = 0
    BY <1>3
  <2>3. QED
    BY <1>3, <2>1, <2>2
<1>7. ASSUME NEW k \in 1..n
      PROVE  /\ at[k] = at[k - 1] + Len(parts[k])
             /\ at[k] <= Len(w) + 1
             /\ \E rest \in Seq(T) : SubSeq(w, at[k - 1], Len(w)) = Then(parts[k], rest)
  <2> DEFINE a == g[k - 1]
             p == parts[k]
  <2>1. k \in 0..n /\ k - 1 \in 0..n
    BY <1>3
  <2>2. a \in Seq(T) /\ p \in Seq(T) /\ g[k] = Then(a, p)
    BY <1>1, <1>3, <1>4, <2>1
  <2>3. PICK rest \in Seq(T) : w = Then(g[k], rest)
    BY <1>2, <2>1
  <2> DEFINE b == Then(p, rest)
  <2> HIDE DEF a, p
  <2>4. w = Then(a, b) /\ b \in Seq(T)
    <3>1. w = Then(Then(a, p), rest)
      BY <2>2, <2>3
    <3>2. b \in Seq(T)
      BY <2>2, ConcatProperties DEF Then
    <3>3. QED
      BY <2>2, <3>1, <3>2, ThenAssociative
  <2>5. Len(g[k]) = Len(a) + Len(p) /\ Len(a) \in Nat /\ Len(p) \in Nat /\ Len(rest) \in Nat
    BY <2>2, ConcatProperties DEF Then
  <2>6. Len(b) = Len(p) + Len(rest)
    BY <2>2, ConcatProperties DEF Then
  <2> HIDE DEF b
  <2>7. /\ w \in Seq(T) /\ Len(w) = Len(a) + Len(b)
        /\ \A i \in 1..Len(b) : w[Len(a) + i] = b[i]
    <3>1. w \in Seq(T) /\ Len(w) = Len(a) + Len(b)
      BY <2>2, <2>4, ConcatProperties DEF Then
    <3>2. \A i \in 1..Len(b) : w[Len(a) + i] = b[i]
      <4>1. ASSUME NEW i \in 1..Len(b)
            PROVE  w[Len(a) + i] = b[i]
        <5>1. Len(b) \in Nat
          BY <2>4
        <5>2. Len(a) + i \in 1..(Len(a) + Len(b)) /\ ~(Len(a) + i <= Len(a)) /\ Len(a) + i - Len(a) = i
          BY <2>5, <5>1
        <5>3. (a \o b)[Len(a) + i] = b[Len(a) + i - Len(a)]
          BY <2>2, <2>4, <5>2, ConcatProperties
        <5>4. QED
          BY <2>4, <5>2, <5>3 DEF Then
      <4>2. QED
        BY <4>1
    <3>3. QED
      BY <3>1, <3>2
  <2>8. SubSeq(w, Len(a) + 1, Len(a) + Len(b)) = b
    <3> DEFINE m == Len(a)
    <3>1. w \in Seq(T) /\ b \in Seq(T) /\ m \in Nat
      BY <2>4, <2>5, <2>7
    <3>2. m + Len(b) <= Len(w)
      <4>1. Len(b) \in Nat
        BY <3>1
      <4>2. QED
        BY <2>7, <3>1, <4>1
    <3>3. \A i \in 1..Len(b) : w[m + i] = b[i]
      BY <2>7
    <3> HIDE DEF m
    <3>4. SubSeq(w, m + 1, m + Len(b)) = b
      BY <3>1, <3>2, <3>3, PieceOfText
    <3>5. QED
      BY <3>4 DEF m
  <2>9. at[k] = Len(g[k]) + 1 /\ at[k - 1] = Len(a) + 1
    BY <2>1 DEF a
  <2> HIDE DEF at
  <2>10. at[k] = at[k - 1] + Len(p) /\ at[k] <= Len(w) + 1
    BY <2>5, <2>6, <2>7, <2>9
  <2>11. SubSeq(w, at[k - 1], Len(w)) = Then(p, rest)
    BY <2>7, <2>8, <2>9 DEF b
  <2>12. QED
    BY <2>10, <2>11 DEF p
<1> HIDE DEF at
<1>8. InPlace(at, T, parts, w)
  BY <1>5, <1>6, <1>7 DEF InPlace
<1>9. QED
  BY <1>8

\* The commands taken from the places of w where one is found.
ReadsBy(f, w, item) ==
    f = [i \in 1..(Len(w) + 1) |->
            IF i > Len(w) THEN << >> ELSE <<item[i]>> \o f[i + item[i].size]]

LEMMA NumberType ==
    ASSUME NEW v
    PROVE  Number(v) \in Nat
<1>1. MaxLength \in Nat
  BY CommandAssumption
<1>2. QED
  BY <1>1 DEF Number

LEMMA BlankLineType ==
    ASSUME NEW T, NEW s \in Seq(T)
    PROVE  BlankLine(s) \in Nat
<1> DEFINE blank == {i \in 1..(Len(s) - 1) : s[i] = "lf" /\ s[i + 1] = "lf"}
<1>1. blank \in SUBSET Nat
  OBVIOUS
<1> HIDE DEF blank
<1>2. blank # {} => Min(blank) \in blank
  BY <1>1, MinIsMember
<1>3. QED
  BY <1>1, <1>2 DEF BlankLine, blank

\* Something is taken from a text, and no more than the text.
LEMMA SomethingTaken ==
    ASSUME NEW T, NEW w \in Seq(T), w # << >>
    PROVE  Taken(w, Min).size \in 1..Len(w) /\ Taken(w, Max).size \in 1..Len(w)
<1> DEFINE end == BlankLine(w)
           lines == LinesTo(w, end)
<1>1. end \in Nat /\ Len(w) \in 1..Len(w)
  <2>1. end \in Nat
    BY BlankLineType
  <2>2. QED
    BY <2>1, EmptySeq
<1>2. ASSUME NEW p
      PROVE  TakenWith(w, end, lines, p).size \in 1..Len(w)
  <2> DEFINE size == SizeWith(end, lines, p)
  <2>1. size \in Nat /\ size >= end + 1
    BY <1>1, NumberType DEF SizeWith
  <2> HIDE DEF size
  <2>2. CASE end = 0 \/ size > Len(w)
    <3>1. TakenWith(w, end, lines, p) = [unread |-> w, size |-> Len(w)]
      BY <2>2 DEF TakenWith, size
    <3>2. QED
      BY <1>1, <3>1
  <2>3. CASE ~(end = 0 \/ size > Len(w))
    <3>1. TakenWith(w, end, lines, p).size = size
      BY <2>3 DEF TakenWith, OneCommand, size
    <3>2. QED
      BY <1>1, <2>1, <2>3, <3>1
  <2>4. QED
    BY <2>2, <2>3
<1> HIDE DEF end, lines
<1>3. /\ Taken(w, Min) = TakenWith(w, end, lines, Min(LengthsIn(lines)))
      /\ Taken(w, Max) = TakenWith(w, end, lines, Max(LengthsIn(lines)))
  BY TakenIs DEF end, lines
<1>4. QED
  BY <1>2, <1>3

LEMMA ReadingOf ==
    ASSUME NEW w, Len(w) \in Nat, NEW item, \A i \in 1..Len(w) : item[i].size \in 1..(Len(w) - i + 1)
    PROVE  \E f : ReadsBy(f, w, item)
<1> DEFINE n == Len(w)
           next == [i \in 1..n |-> i + item[i].size]
<1>1. \A i \in 1..n : next[i] \in (i + 1)..(n + 1)
  OBVIOUS
<1>2. PICK f : ReadFrom(f, n, item, next)
  <2> HIDE DEF n, next
  <2>1. n \in Nat
    BY DEF n
  <2>2. QED
    BY <1>1, <2>1, ReadingExists
<1>3. [i \in 1..(n + 1) |-> IF i > n THEN << >> ELSE <<item[i]>> \o f[next[i]]]
        = [i \in 1..(n + 1) |-> IF i > n THEN << >> ELSE <<item[i]>> \o f[i + item[i].size]]
  <2>1. \A i \in 1..(n + 1) : ~(i > n) => i \in 1..n
    OBVIOUS
  <2>2. QED
    BY <2>1
<1>4. ReadsBy(f, w, item)
  <2> HIDE DEF next
  <2>1. QED
    BY <1>2, <1>3 DEF ReadsBy, ReadFrom
<1>5. QED
  BY <1>4

LEMMA ServerReadsFirst ==
    ASSUME NEW T, NEW w \in Seq(T)
    PROVE  \E f : /\ ReadsBy(f, w, [i \in 1..Len(w) |-> Taken(SubSeq(w, i, Len(w)), Min)])
                  /\ ServerReads(w, Min) = f[1]
<1> DEFINE n == Len(w)
           Item(i) == Taken(SubSeq(w, i, n), Min)
           item == [i \in 1..n |-> Item(i)]
           Is(f) == f = [i \in 1..(n + 1) |-> IF i > n THEN << >> ELSE <<Item(i)>> \o f[i + Item(i).size]]
<1>1. n \in Nat
  OBVIOUS
<1>2. \A i \in 1..n : SubSeq(w, i, n) \in Seq(T) /\ Len(SubSeq(w, i, n)) = n - i + 1
  BY <1>1, SubSeqProperties
<1>3. \A i \in 1..n : Item(i).size \in 1..(n - i + 1)
  <2>1. ASSUME NEW i \in 1..n
        PROVE  Item(i).size \in 1..(n - i + 1)
    <3> DEFINE u == SubSeq(w, i, n)
    <3>1. u \in Seq(T) /\ Len(u) = n - i + 1
      BY <1>2
    <3> HIDE DEF u
    <3>2. u # << >>
      BY <1>1, <3>1
    <3>3. Taken(u, Min).size \in 1..Len(u)
      BY <3>1, <3>2, SomethingTaken
    <3>4. QED
      BY <3>1, <3>3 DEF u
  <2>2. QED
    BY <2>1
<1>4. ServerReads(w, Min) = (CHOOSE f : Is(f))[1]
  BY DEF ServerReads
<1> HIDE DEF Item
<1>5. PICK h : ReadsBy(h, w, item)
  <2>1. \A i \in 1..n : item[i].size \in 1..(n - i + 1)
    BY <1>3
  <2> HIDE DEF item
  <2>2. QED
    BY <1>1, <2>1, ReadingOf
<1>6. ASSUME NEW f
      PROVE  Is(f) <=> ReadsBy(f, w, item)
  <2>1. \A i \in 1..(n + 1) : ~(i > n) => i \in 1..n
    BY <1>1
  <2>2. [i \in 1..(n + 1) |-> IF i > n THEN << >> ELSE <<Item(i)>> \o f[i + Item(i).size]]
          = [i \in 1..(n + 1) |-> IF i > n THEN << >> ELSE <<item[i]>> \o f[i + item[i].size]]
    BY <2>1
  <2> HIDE DEF item
  <2>3. QED
    BY <2>2 DEF ReadsBy
<1> HIDE DEF Is
<1>7. Is(CHOOSE f : Is(f))
  BY <1>5, <1>6
<1>8. QED
  BY <1>4, <1>6, <1>7 DEF Item

LEMMA ServerReadsLast ==
    ASSUME NEW T, NEW w \in Seq(T)
    PROVE  \E f : /\ ReadsBy(f, w, [i \in 1..Len(w) |-> Taken(SubSeq(w, i, Len(w)), Max)])
                  /\ ServerReads(w, Max) = f[1]
<1> DEFINE n == Len(w)
           Item(i) == Taken(SubSeq(w, i, n), Max)
           item == [i \in 1..n |-> Item(i)]
           Is(f) == f = [i \in 1..(n + 1) |-> IF i > n THEN << >> ELSE <<Item(i)>> \o f[i + Item(i).size]]
<1>1. n \in Nat
  OBVIOUS
<1>2. \A i \in 1..n : SubSeq(w, i, n) \in Seq(T) /\ Len(SubSeq(w, i, n)) = n - i + 1
  BY <1>1, SubSeqProperties
<1>3. \A i \in 1..n : Item(i).size \in 1..(n - i + 1)
  <2>1. ASSUME NEW i \in 1..n
        PROVE  Item(i).size \in 1..(n - i + 1)
    <3> DEFINE u == SubSeq(w, i, n)
    <3>1. u \in Seq(T) /\ Len(u) = n - i + 1
      BY <1>2
    <3> HIDE DEF u
    <3>2. u # << >>
      BY <1>1, <3>1
    <3>3. Taken(u, Max).size \in 1..Len(u)
      BY <3>1, <3>2, SomethingTaken
    <3>4. QED
      BY <3>1, <3>3 DEF u
  <2>2. QED
    BY <2>1
<1>4. ServerReads(w, Max) = (CHOOSE f : Is(f))[1]
  BY DEF ServerReads
<1> HIDE DEF Item
<1>5. PICK h : ReadsBy(h, w, item)
  <2>1. \A i \in 1..n : item[i].size \in 1..(n - i + 1)
    BY <1>3
  <2> HIDE DEF item
  <2>2. QED
    BY <1>1, <2>1, ReadingOf
<1>6. ASSUME NEW f
      PROVE  Is(f) <=> ReadsBy(f, w, item)
  <2>1. \A i \in 1..(n + 1) : ~(i > n) => i \in 1..n
    BY <1>1
  <2>2. [i \in 1..(n + 1) |-> IF i > n THEN << >> ELSE <<Item(i)>> \o f[i + Item(i).size]]
          = [i \in 1..(n + 1) |-> IF i > n THEN << >> ELSE <<item[i]>> \o f[i + item[i].size]]
    BY <2>1
  <2> HIDE DEF item
  <2>3. QED
    BY <2>2 DEF ReadsBy
<1> HIDE DEF Is
<1>7. Is(CHOOSE f : Is(f))
  BY <1>5, <1>6
<1>8. QED
  BY <1>4, <1>6, <1>7 DEF Item

\* At each part, what was meant is found.
FoundBy(T, w, parts, item, meant) ==
    \A k \in 1..Len(parts) :
        /\ Len(parts[k]) \in Nat \ {0} /\ meant[k].size = Len(parts[k])
        /\ \A rest \in Seq(T), i \in 1..Len(w) :
               SubSeq(w, i, Len(w)) = Then(parts[k], rest) => item[i] = meant[k]

\* It is read in order, to the end.
LEMMA ReadToTheEnd ==
    ASSUME NEW T, NEW parts \in Seq(Seq(T)), NEW w, w = FlattenSeq(parts),
           NEW meant, List(meant), Len(meant) = Len(parts),
           NEW item, NEW f, ReadsBy(f, w, item), FoundBy(T, w, parts, item, meant)
    PROVE  f[1] = meant
<1> USE DEF FoundBy
<1> DEFINE n == Len(parts)
<1>0. PICK at : InPlace(at, T, parts, w)
  BY PartsInPlace
<1>1. /\ at \in [0..n -> Nat] /\ at[0] = 1 /\ at[n] = Len(w) + 1
      /\ \A k \in 1..n :
             /\ at[k] = at[k - 1] + Len(parts[k])
             /\ at[k] <= Len(w) + 1
             /\ \E rest \in Seq(T) : SubSeq(w, at[k - 1], Len(w)) = Then(parts[k], rest)
  BY <1>0 DEF InPlace
<1>2. n \in Nat /\ Len(w) \in Nat
  <2>1. w \in Seq(T)
    BY FlattenType
  <2>2. QED
    BY <2>1
<1>3. f[Len(w) + 1] = << >>
  BY <1>2 DEF ReadsBy
<1>4. \A k \in 0..n : at[k] >= 1
  <2> DEFINE Done == {k \in 0..n : at[k] >= 1}
  <2>1. 0 \in Done
    BY <1>1, <1>2
  <2>2. ASSUME NEW k \in 1..n, k - 1 \in Done
        PROVE  k \in Done
    <3>1. Len(parts[k]) \in Nat \ {0} /\ at[k] = at[k - 1] + Len(parts[k]) /\ at[k - 1] \in Nat
      BY <1>1, <1>2, <2>2
    <3>2. QED
      BY <1>2, <2>2, <3>1
  <2> HIDE DEF Done
  <2>3. \A k \in 0..n : k \in Done
    BY <1>2, <2>1, <2>2, CountingUp
  <2>4. QED
    BY <2>3 DEF Done
<1>5. ASSUME NEW k \in 1..n
      PROVE  f[at[k - 1]] = <<meant[k]>> \o f[at[k]]
  <2> DEFINE i == at[k - 1]
  <2>1. k - 1 \in 0..n /\ k \in 0..n
    BY <1>2
  <2>2. /\ i \in Nat /\ i >= 1 /\ at[k] = i + Len(parts[k]) /\ at[k] <= Len(w) + 1
        /\ Len(parts[k]) \in Nat \ {0} /\ meant[k].size = Len(parts[k])
    BY <1>1, <1>4, <2>1
  <2> HIDE DEF i
  <2>3. i \in 1..Len(w) /\ ~(i > Len(w)) /\ i \in 1..(Len(w) + 1)
    BY <1>2, <2>2
  <2>4. \E rest \in Seq(T) : SubSeq(w, i, Len(w)) = Then(parts[k], rest)
    BY <1>1 DEF i
  <2>5. item[i] = meant[k]
    BY <2>3, <2>4
  <2>6. f[i] = <<item[i]>> \o f[i + item[i].size]
    BY <2>3 DEF ReadsBy
  <2>7. i + item[i].size = at[k]
    BY <2>2, <2>5
  <2>8. QED
    BY <2>5, <2>6, <2>7 DEF i
<1>6. f[at[n]] = << >>
  BY <1>1, <1>3
<1>7. f[at[0]] = meant
  <2>1. Meets(f, at, meant)
    BY <1>5, <1>6 DEF Meets
  <2>2. QED
    BY <2>1, MetInTurn
<1>8. QED
  BY <1>1, <1>7

\* The texts of the commands s.
TextsOf(s) == [i \in 1..Len(s) |-> WireText(s[i])]

\* Commands that can be written are read back.
LEMMA AllRead ==
    ASSUME NEW T, NEW C, NEW s \in Seq(C), \A i \in 1..Len(s) : Writable(T, s[i]),
           NEW w, w = FlattenSeq(TextsOf(s)),
           NEW meant, meant = [i \in 1..Len(s) |-> Meant(s[i])]
    PROVE  /\ (\A i \in 1..Len(s) : ~Disputed(s[i])) => ServerReads(w, Min) = meant
           /\ (\A i \in 1..Len(s) : ~Disputed(s[i]) \/ s[i].event.body # << >>)
                  => ServerReads(w, Max) = meant
<1> DEFINE n == Len(s)
           parts == TextsOf(s)
<1>1. n \in Nat
  OBVIOUS
<1>2. ASSUME NEW i \in 1..n
      PROVE  /\ WireText(s[i]) \in Seq(T) /\ Len(WireText(s[i])) \in Nat \ {0}
             /\ Meant(s[i]).size = Len(WireText(s[i]))
             /\ \A rest \in Seq(T) :
                   /\ ~Disputed(s[i]) => Taken(Then(WireText(s[i]), rest), Min) = Meant(s[i])
                   /\ ~Disputed(s[i]) \/ s[i].event.body # << >> =>
                          Taken(Then(WireText(s[i]), rest), Max) = Meant(s[i])
  <2> DEFINE c == s[i]
  <2>1. Writable(T, c)
    OBVIOUS
  <2> HIDE DEF c
  <2>2. << >> \in Seq(T)
    OBVIOUS
  <2>3. WireText(c) \in Seq(T) /\ Len(WireText(c)) \in Nat \ {0}
    BY <2>1, <2>2, CommandTaken
  <2>4. Meant(c).size = Len(WireText(c))
    BY DEF Meant, OneCommand
  <2>5. ASSUME NEW rest \in Seq(T)
        PROVE  /\ ~Disputed(c) => Taken(Then(WireText(c), rest), Min) = Meant(c)
               /\ ~Disputed(c) \/ c.event.body # << >> =>
                      Taken(Then(WireText(c), rest), Max) = Meant(c)
    BY <2>1, CommandTaken
  <2>6. QED
    BY <2>3, <2>4, <2>5 DEF c
<1>3. /\ Len(parts) = n /\ \A i \in 1..n : parts[i] = WireText(s[i])
      /\ parts \in Seq(Seq(T))
  <2>1. Len(parts) = n /\ \A i \in 1..n : parts[i] = WireText(s[i])
    BY <1>1 DEF TextsOf
  <2> DEFINE S == Seq(T)
  <2>2. \A i \in 1..n : WireText(s[i]) \in S
    BY <1>2
  <2> HIDE DEF S
  <2>3. parts \in Seq(S)
    BY <1>1, <2>2 DEF TextsOf
  <2>4. QED
    BY <2>1, <2>3 DEF S
<1>4. /\ List(meant) /\ Len(meant) = n /\ \A i \in 1..n : meant[i] = Meant(s[i])
  BY <1>1 DEF List
<1> HIDE DEF parts, n
<1>5. w \in Seq(T) /\ w = FlattenSeq(parts) /\ Len(w) \in Nat
  <2>1. w = FlattenSeq(parts)
    BY DEF parts
  <2>2. w \in Seq(T)
    BY <1>3, <2>1, FlattenType
  <2>3. QED
    BY <2>1, <2>2
<1>6. ASSUME \A i \in 1..n : ~Disputed(s[i])
      PROVE  ServerReads(w, Min) = meant
  <2> DEFINE item == [i \in 1..Len(w) |-> Taken(SubSeq(w, i, Len(w)), Min)]
  <2>1. PICK f : ReadsBy(f, w, item) /\ ServerReads(w, Min) = f[1]
    BY <1>5, ServerReadsFirst
  <2>2. ASSUME NEW k \in 1..n, NEW rest \in Seq(T), NEW i \in 1..Len(w),
               SubSeq(w, i, Len(w)) = Then(parts[k], rest)
        PROVE  item[i] = meant[k]
    <3>1. item[i] = Taken(Then(parts[k], rest), Min)
      BY <2>2
    <3> HIDE DEF item
    <3>2. QED
      BY <1>2, <1>3, <1>4, <1>6, <3>1
  <2>3. \A k \in 1..n : Len(parts[k]) \in Nat \ {0} /\ meant[k].size = Len(parts[k])
    BY <1>2, <1>3, <1>4
  <2> HIDE DEF item
  <2>4. FoundBy(T, w, parts, item, meant)
    BY <1>3, <2>2, <2>3 DEF FoundBy
  <2>5. f[1] = meant
    <3>1. Len(meant) = Len(parts)
      BY <1>3, <1>4
    <3>2. QED
      BY <1>3, <1>4, <1>5, <2>1, <2>4, <3>1, ReadToTheEnd
  <2>6. QED
    BY <2>1, <2>5
<1>7. ASSUME \A i \in 1..n : ~Disputed(s[i]) \/ s[i].event.body # << >>
      PROVE  ServerReads(w, Max) = meant
  <2> DEFINE item == [i \in 1..Len(w) |-> Taken(SubSeq(w, i, Len(w)), Max)]
  <2>1. PICK f : ReadsBy(f, w, item) /\ ServerReads(w, Max) = f[1]
    BY <1>5, ServerReadsLast
  <2>2. ASSUME NEW k \in 1..n, NEW rest \in Seq(T), NEW i \in 1..Len(w),
               SubSeq(w, i, Len(w)) = Then(parts[k], rest)
        PROVE  item[i] = meant[k]
    <3>1. item[i] = Taken(Then(parts[k], rest), Max)
      BY <2>2
    <3> HIDE DEF item
    <3>2. QED
      BY <1>2, <1>3, <1>4, <1>7, <3>1
  <2>3. \A k \in 1..n : Len(parts[k]) \in Nat \ {0} /\ meant[k].size = Len(parts[k])
    BY <1>2, <1>3, <1>4
  <2> HIDE DEF item
  <2>4. FoundBy(T, w, parts, item, meant)
    BY <1>3, <2>2, <2>3 DEF FoundBy
  <2>5. f[1] = meant
    <3>1. Len(meant) = Len(parts)
      BY <1>3, <1>4
    <3>2. QED
      BY <1>3, <1>4, <1>5, <2>1, <2>4, <3>1, ReadToTheEnd
  <2>6. QED
    BY <2>1, <2>5
<1>8. QED
  BY <1>6, <1>7 DEF n

-----------------------------------------------------------------------------
(***************************************************************************)
(* Commands are well formed.                                               *)
(***************************************************************************)

IsText(t) == t \in Seq(Range(t))

IsTexts(f) == List(f) /\ \A i \in 1..Len(f) : IsText(f[i])

LEMMA TextOf ==
    ASSUME NEW T, NEW t \in Seq(T)
    PROVE  IsText(t) /\ \A i \in 1..Len(t) : t[i] \in Range(t)
<1>1. \A i \in 1..Len(t) : t[i] \in Range(t)
  BY DEF Range
<1>2. t = [i \in 1..Len(t) |-> t[i]] /\ Len(t) \in Nat
  OBVIOUS
<1> DEFINE R == Range(t)
<1> HIDE DEF R
<1>3. t \in Seq(R)
  BY <1>1, <1>2 DEF R
<1>4. QED
  BY <1>1, <1>3 DEF IsText, R

LEMMA TextIn ==
    ASSUME NEW T, NEW t, IsText(t), Range(t) \subseteq T
    PROVE  t \in Seq(T)
<1> DEFINE R == Range(t)
<1>1. t \in Seq(R) /\ \A x \in R : x \in T
  BY DEF IsText
<1> HIDE DEF R
<1>2. QED
  BY <1>1, SeqOfMore

LEMMA TokenText ==
    ASSUME NEW x
    PROVE  IsText(<<x>>) /\ Range(<<x>>) = {x}
<1>1. <<x>> \in Seq({x})
  OBVIOUS
<1>2. Range(<<x>>) = {x}
  BY DEF Range
<1>3. QED
  BY <1>1, <1>2, TextOf

LEMMA ThenText ==
    ASSUME NEW a, NEW b, IsText(a), IsText(b)
    PROVE  IsText(Then(a, b))
<1> DEFINE T == Range(a) \cup Range(b)
<1>1. Range(a) \subseteq T /\ Range(b) \subseteq T
  OBVIOUS
<1> HIDE DEF T
<1>2. a \in Seq(T) /\ b \in Seq(T)
  BY <1>1, TextIn
<1>3. Then(a, b) \in Seq(T)
  BY <1>2, ConcatProperties DEF Then
<1>4. QED
  BY <1>3, TextOf

LEMMA NoTexts == IsTexts(<< >>)
<1>1. << >> = [i \in 1..Len(<< >>) |-> << >>[i]] /\ Len(<< >>) = 0
  OBVIOUS
<1>2. QED
  BY <1>1 DEF IsTexts, List

LEMMA OneText ==
    ASSUME NEW t, IsText(t)
    PROVE  IsTexts(<<t>>)
<1>1. /\ Len(<<t>>) = 1 /\ <<t>>[1] = t
      /\ <<t>> = [i \in 1..1 |-> <<t>>[i]]
  OBVIOUS
<1>2. QED
  BY <1>1 DEF IsTexts, List

LEMMA MoreTexts ==
    ASSUME NEW a, NEW b, IsTexts(a), IsTexts(b)
    PROVE  /\ IsTexts(a \o b) /\ Len(a \o b) = Len(a) + Len(b) /\ Len(a) \in Nat /\ Len(b) \in Nat
           /\ a # << >> => Len(a) > 0 /\ a \o b # << >> /\ Head(a \o b) = Head(a)
<1> DEFINE n == Len(a)
           m == Len(b)
           T == {a[i] : i \in 1..n} \cup {b[i] : i \in 1..m}
           s == a \o b
<1>1. /\ a = [i \in 1..n |-> a[i]] /\ n \in Nat /\ b = [i \in 1..m |-> b[i]] /\ m \in Nat
      /\ \A i \in 1..n : IsText(a[i])
      /\ \A i \in 1..m : IsText(b[i])
  BY DEF IsTexts, List
<1>2. (\A i \in 1..n : a[i] \in T) /\ (\A i \in 1..m : b[i] \in T)
  OBVIOUS
<1>3. \A t \in T : IsText(t)
  BY <1>1
<1>4. a \in Seq(T) /\ b \in Seq(T)
  <2> HIDE DEF T, n, m
  <2>1. QED
    BY <1>1, <1>2
<1> HIDE DEF T
<1>5. s \in Seq(T) /\ Len(s) = n + m
  BY <1>4, ConcatProperties
<1>6. \A i \in 1..Len(s) : s[i] \in T
  <2> HIDE DEF s
  <2>1. QED
    BY <1>5
<1>7. s = [i \in 1..Len(s) |-> s[i]] /\ Len(s) \in Nat
  <2> HIDE DEF s
  <2>1. QED
    BY <1>5
<1>8. IsTexts(s)
  BY <1>3, <1>6, <1>7 DEF IsTexts, List
<1>9. a # << >> => n > 0 /\ s # << >> /\ Head(s) = Head(a)
  <2>1. SUFFICES ASSUME a # << >> PROVE n > 0 /\ s # << >> /\ Head(s) = Head(a)
    OBVIOUS
  <2>2. n > 0
    BY <1>4, <2>1, EmptySeq
  <2>3. s[1] = a[1] /\ s # << >>
    BY <1>1, <1>4, <1>5, <2>2
  <2>4. QED
    BY <2>2, <2>3
<1>10. QED
  BY <1>1, <1>5, <1>8, <1>9

\* The arguments of a command, one behind the other.
LEMMA TextsIn ==
    ASSUME NEW T, NEW f, IsTexts(f), \A i \in 1..Len(f) : Range(f[i]) \subseteq T
    PROVE  f \in Seq(Seq(T))
<1> DEFINE S == Seq(T)
<1>1. \A i \in 1..Len(f) : f[i] \in S
  BY TextIn DEF IsTexts
<1>2. f = [i \in 1..Len(f) |-> f[i]] /\ Len(f) \in Nat
  BY DEF IsTexts, List
<1> HIDE DEF S
<1>3. f \in Seq(S)
  BY <1>1, <1>2
<1>4. QED
  BY <1>3 DEF S

LEMMA JoinedText ==
    ASSUME NEW items, IsTexts(items), items # << >>, NEW sep, IsText(sep)
    PROVE  IsText(Joined(items, sep))
<1> DEFINE T == Range(sep) \cup (UNION {Range(items[i]) : i \in 1..Len(items)})
<1>1. Range(sep) \subseteq T /\ \A i \in 1..Len(items) : Range(items[i]) \subseteq T
  OBVIOUS
<1> HIDE DEF T
<1>2. sep \in Seq(T) /\ items \in Seq(Seq(T))
  BY <1>1, TextIn, TextsIn
<1>3. Joined(items, sep) \in Seq(T)
  BY <1>2, JoinedType DEF Pieces
<1>4. QED
  BY <1>3, TextOf

\* A text made of items starts with the first.
LEMMA JoinedStarts ==
    ASSUME NEW T, NEW sep \in Seq(T), NEW items \in Pieces(T), Head(items) # << >>
    PROVE  Joined(items, sep) # << >>
<1> DEFINE s == Tail(items)
           X == Seq(T) \ {<< >>}
<1>1. PICK g : Joins(g, T, items, sep)
  BY JoinedSteps
<1>2. /\ items \in Seq(Seq(T)) /\ items # << >>
  BY DEF Pieces
<1>3. s \in Seq(Seq(T)) /\ Head(items) \in Seq(T) /\ Len(s) \in Nat
  BY <1>2, HeadTailProperties
<1> HIDE DEF s
<1>4. /\ g \in [0..Len(s) -> Seq(T)] /\ g[0] = Head(items) /\ g[Len(s)] = Joined(items, sep)
      /\ \A k \in 1..Len(s) : g[k] = Then(Then(g[k - 1], sep), s[k])
  BY <1>1 DEF Joins, PrefixValues, s
<1>5. \A k \in 1..Len(s) : s[k] \in Seq(T)
  <2> DEFINE S == Seq(T)
  <2>1. s \in Seq(S)
    BY <1>3
  <2> HIDE DEF S
  <2>2. \A k \in 1..Len(s) : s[k] \in S
    BY <2>1
  <2>3. QED
    BY <2>2 DEF S
<1> DEFINE Done == {k \in 0..Len(s) : g[k] # << >>}
<1>6. 0 \in Done
  BY <1>3, <1>4
<1>7. ASSUME NEW k \in 1..Len(s), k - 1 \in Done
      PROVE  k \in Done
  <2>1. g[k - 1] \in Seq(T) /\ g[k - 1] # << >> /\ s[k] \in Seq(T) /\ k \in 0..Len(s)
    <3>1. k - 1 \in 0..Len(s) /\ k \in 0..Len(s)
      BY <1>3
    <3>2. g[k - 1] \in Seq(T)
      BY <1>4, <3>1
    <3>3. s[k] \in Seq(T)
      BY <1>5
    <3>4. QED
      BY <1>7, <3>1, <3>2, <3>3
  <2> DEFINE a == Then(g[k - 1], sep)
  <2>2. a \in Seq(T) /\ a # << >>
    BY <2>1, ConcatProperties, EmptySeq DEF Then
  <2> HIDE DEF a
  <2>3. Then(a, s[k]) # << >>
    BY <2>1, <2>2, ConcatProperties, EmptySeq DEF Then
  <2>4. QED
    BY <1>4, <2>1, <2>3 DEF a
<1> HIDE DEF Done
<1>8. \A k \in 0..Len(s) : k \in Done
  BY <1>3, <1>6, <1>7, CountingUp
<1>9. g[Len(s)] # << >>
  BY <1>3, <1>8 DEF Done
<1>10. QED
  BY <1>4, <1>9

\* The tokens that commands of any kind have, and those one has besides.
Base ==
    {LineEnd, CL, ":", " ", "delete", "all", "CUSTOM"} \cup {Verb[k] : k \in DOMAIN Verb}
    \cup TypeNames \cup BodyLengths \cup (UNION {Range(b) : b \in Bodies})

Used(c) ==
    (UNION {Range(c.fields[i]) : i \in 1..Len(c.fields)}) \cup DOMAIN c.event.headers
    \cup (UNION {Range(c.event.headers[n]) : n \in DOMAIN c.event.headers})

\* A command as the methods make one.
Formed(c) ==
    /\ c.kind \in DOMAIN Verb
    /\ IsTexts(c.fields)
    /\ c.kind = "UserAuth" => Len(c.fields) = 2
    /\ IsFiniteSet(DOMAIN c.event.headers)
    /\ \A n \in DOMAIN c.event.headers : n # LineEnd /\ IsText(c.event.headers[n])
    /\ c.event.body \in Options(Bodies)
    /\ c.event.type \in Options(TypeNames)

Clean(T) == T \ {LineEnd}

LEMMA CleanText ==
    ASSUME NEW T, NEW t, IsText(t), Range(t) \subseteq T, ~Contains(t, "lf")
    PROVE  t \in Seq(Clean(T))
<1>1. t \in Seq(T)
  BY TextIn
<1>2. \A i \in 1..Len(t) : t[i] \in Clean(T)
  <2>1. \A i \in 1..Len(t) : t[i] # LineEnd
    BY DEF Contains, LineEnd
  <2>2. \A i \in 1..Len(t) : t[i] \in T
    BY <1>1
  <2>3. QED
    BY <2>1, <2>2 DEF Clean
<1> DEFINE S == Clean(T)
<1> HIDE DEF S
<1>3. t \in Seq(S)
  BY <1>1, <1>2 DEF S
<1>4. QED
  BY <1>3 DEF S

LEMMA CleanFields ==
    ASSUME NEW T, NEW c, Used(c) \subseteq T, Formed(c), Valid(c)
    PROVE  c.fields \in Seq(Seq(Clean(T)))
<1> DEFINE f == c.fields
           S == Seq(Clean(T))
<1>1. f = [i \in 1..Len(f) |-> f[i]] /\ Len(f) \in Nat /\ \A i \in 1..Len(f) : IsText(f[i])
  BY DEF Formed, IsTexts, List
<1>2. \A i \in 1..Len(f) : f[i] \in S
  <2>1. ASSUME NEW i \in 1..Len(f)
        PROVE  f[i] \in S
    <3>1. Range(f[i]) \subseteq T
      BY DEF Used
    <3>2. DOMAIN f = 1..Len(f)
      <4> HIDE DEF f
      <4>1. QED
        BY <1>1
    <3>3. ~Contains(f[i], "lf")
      BY <3>2 DEF Valid
    <3>4. QED
      BY <1>1, <3>1, <3>3, CleanText
  <2>2. QED
    BY <2>1
<1> HIDE DEF S, f
<1>3. f \in Seq(S)
  BY <1>1, <1>2
<1>4. QED
  BY <1>3 DEF S, f

LEMMA CleanVerb ==
    ASSUME NEW k \in DOMAIN Verb
    PROVE  Verb[k] # LineEnd
  BY DEF Verb, LineEnd

LEMMA CleanName ==
    ASSUME NEW T, Base \subseteq T, NEW c, Used(c) \subseteq T, Formed(c), Valid(c)
    PROVE  EventName(c.event) \in Seq(Clean(T))
<1> DEFINE e == c.event
<1>1. CASE e.type # << >>
  <2>1. PICK t \in TypeNames : e.type = <<t>>
    BY <1>1 DEF Formed, Options
  <2>2. t \in T /\ t # LineEnd
    BY EventAssumption DEF Base, Escaped, LineEnd
  <2>3. t \in Clean(T)
    BY <2>2 DEF Clean
  <2>4. QED
    BY <1>1, <2>1, <2>3 DEF EventName
<1>2. CASE e.type = << >> /\ "Event-Name" \in DOMAIN e.headers
  <2> DEFINE v == e.headers["Event-Name"]
  <2>1. IsText(v) /\ Range(v) \subseteq T /\ ~Contains(v, "lf")
    BY <1>2 DEF Formed, Used, Valid
  <2> HIDE DEF v
  <2>2. v \in Seq(Clean(T))
    BY <2>1, CleanText
  <2>3. QED
    BY <1>2, <2>2 DEF EventName, v
<1>3. CASE e.type = << >> /\ "Event-Name" \notin DOMAIN e.headers
  <2>1. "CUSTOM" \in Clean(T)
    BY DEF Clean, Base, LineEnd
  <2>2. <<"CUSTOM">> \in Seq(Clean(T))
    BY <2>1
  <2>3. QED
    BY <1>3, <2>2 DEF EventName
<1>4. QED
  BY <1>1, <1>2, <1>3

SP == <<" ">>

COL == <<":">>

DEL == <<"delete">>

LEMMA OneToken ==
    ASSUME NEW T, NEW x \in T
    PROVE  <<x>> \in Seq(T)
  OBVIOUS

LEMMA CleanMarks ==
    ASSUME NEW T, Base \subseteq T
    PROVE  SP \in Seq(Clean(T)) /\ COL \in Seq(Clean(T)) /\ DEL \in Seq(Clean(T)) /\ <<"all">> \in Seq(Clean(T))
<1>1. " " \in Clean(T) /\ ":" \in Clean(T) /\ "delete" \in Clean(T) /\ "all" \in Clean(T)
  BY DEF Clean, Base, LineEnd
<1>2. SP \in Seq(Clean(T))
  BY <1>1, OneToken DEF SP
<1>3. COL \in Seq(Clean(T))
  BY <1>1, OneToken DEF COL
<1>4. DEL \in Seq(Clean(T))
  BY <1>1, OneToken DEF DEL
<1>5. <<"all">> \in Seq(Clean(T))
  BY <1>1, OneToken
<1>6. QED
  BY <1>2, <1>3, <1>4, <1>5

\* The five ways to make arguments of fields.
LEMMA ArgumentsAre ==
    ASSUME NEW c
    PROVE  \/ Arguments(c) = c.fields
           \/ c.kind = "UserAuth" /\ Arguments(c) = <<c.fields[1] \o COL \o c.fields[2]>>
           \/ Arguments(c) = Reverse(c.fields)
           \/ Arguments(c) = <<DEL, <<"all">>>>
           \/ Arguments(c) = <<DEL>> \o c.fields
           \/ Arguments(c) = <<EventName(c.event)>>
  BY DEF Arguments, COL, DEL

LEMMA CleanArguments ==
    ASSUME NEW T, Base \subseteq T, NEW c, Used(c) \subseteq T, Formed(c), Valid(c)
    PROVE  Arguments(c) \in Seq(Seq(Clean(T)))
<1> DEFINE f == c.fields
           C == Clean(T)
           S == Seq(C)
<1>1. f \in Seq(S) /\ EventName(c.event) \in S
  BY CleanFields, CleanName
<1>2. COL \in S /\ DEL \in S /\ <<"all">> \in S
  BY CleanMarks
<1>3. ASSUME c.kind = "UserAuth"
      PROVE  <<f[1] \o COL \o f[2]>> \in Seq(S)
  <2>1. Len(f) = 2
    BY <1>3 DEF Formed
  <2> DEFINE a == f[1]
             b == f[2]
  <2>2. a \in S /\ b \in S
    <3> HIDE DEF f, S
    <3>1. QED
      BY <1>1, <2>1
  <2> HIDE DEF a, b, C
  <2>3. a \o COL \in S
    BY <1>2, <2>2, ConcatProperties
  <2> DEFINE d == a \o COL
  <2> HIDE DEF d
  <2>4. d \o b \in S
    BY <2>2, <2>3, ConcatProperties DEF d
  <2> HIDE DEF S
  <2>5. <<d \o b>> \in Seq(S)
    BY <2>4
  <2>6. QED
    BY <2>5 DEF a, b, d
<1> HIDE DEF S
<1>4. Reverse(f) \in Seq(S)
  <2> HIDE DEF f
  <2>1. Len(f) \in Nat /\ \A i \in 1..Len(f) : f[Len(f) - i + 1] \in S
    BY <1>1
  <2>2. QED
    BY <2>1 DEF Reverse
<1>5. <<DEL, <<"all">>>> \in Seq(S)
  BY <1>2
<1>6. <<DEL>> \o f \in Seq(S)
  <2>1. <<DEL>> \in Seq(S)
    BY <1>2
  <2> HIDE DEF f
  <2>2. QED
    BY <1>1, <2>1, ConcatProperties
<1>7. <<EventName(c.event)>> \in Seq(S)
  BY <1>1
<1>8. Arguments(c) \in Seq(S)
  BY <1>1, <1>3, <1>4, <1>5, <1>6, <1>7, ArgumentsAre
<1>9. QED
  BY <1>8 DEF S, C

\* The line of a command is one line.
LEMMA LineIsClean ==
    ASSUME NEW T, Base \subseteq T, NEW c, Used(c) \subseteq T, Formed(c), Valid(c)
    PROVE  CleanLine(T, Line(c))
<1> DEFINE C == Clean(T)
           S == Seq(C)
           verb == <<Verb[c.kind]>>
           items == <<verb>> \o Arguments(c)
<1>1. verb \in S /\ verb # << >>
  <2>1. Verb[c.kind] \in C
    BY CleanVerb DEF Formed, Base, Clean
  <2> HIDE DEF C
  <2>2. QED
    BY <2>1
<1>2. Arguments(c) \in Seq(S) /\ SP \in S
  BY CleanArguments, CleanMarks
<1> HIDE DEF S
<1>3. items \in Seq(S) /\ items # << >> /\ Head(items) = verb
  <2> HIDE DEF verb
  <2>1. <<verb>> \in Seq(S) /\ Len(<<verb>>) = 1 /\ <<verb>>[1] = verb
    BY <1>1
  <2> DEFINE a == <<verb>>
             b == Arguments(c)
  <2>2. a \in Seq(S) /\ Len(a) = 1 /\ a[1] = verb /\ b \in Seq(S)
    BY <1>2, <2>1
  <2> HIDE DEF a, b
  <2>3. a \o b \in Seq(S) /\ a \o b # << >> /\ (a \o b)[1] = verb
    BY <2>2, ConcatProperties
  <2>4. QED
    BY <2>3 DEF a, b
<1>4. Line(c) = Joined(items, SP)
  BY DEF Line, SP
<1> HIDE DEF items, verb
<1>5. items \in Pieces(C) /\ SP \in Seq(C) /\ Head(items) # << >>
  BY <1>1, <1>2, <1>3 DEF Pieces, S
<1> HIDE DEF C
<1>6. Line(c) \in Seq(C) /\ Line(c) # << >>
  BY <1>4, <1>5, JoinedType, JoinedStarts
<1> DEFINE line == Line(c)
<1> HIDE DEF line
<1>7. line \in Seq(C) /\ line # << >>
  BY <1>6 DEF line
<1>8. \A x \in C : x \in T /\ x # LineEnd
  BY DEF C, Clean
<1>9. line \in Seq(T)
  BY <1>7, <1>8, SeqOfMore
<1>10. \A i \in 1..Len(line) : line[i] # LineEnd
  BY <1>7, <1>8
<1>11. CleanLine(T, line)
  BY <1>7, <1>9, <1>10 DEF CleanLine
<1>12. QED
  BY <1>11 DEF line

LEMMA FormedIsWritable ==
    ASSUME NEW T, Base \subseteq T, NEW c, Used(c) \subseteq T, Formed(c), Valid(c)
    PROVE  Writable(T, c)
<1> DEFINE headers == c.event.headers
<1>1. LineTokens(T)
  BY DEF LineTokens, Base, LineEnd, CL
<1>2. CleanLine(T, Line(c))
  BY LineIsClean
<1>3. ASSUME NEW n \in DOMAIN headers
      PROVE  /\ n \in T /\ n # LineEnd /\ headers[n] \in Seq(T)
             /\ \A i \in 1..Len(headers[n]) : headers[n][i] # LineEnd
  <2> DEFINE v == headers[n]
  <2>1. n \in T /\ n # LineEnd
    BY DEF Used, Formed
  <2>2. IsText(v) /\ Range(v) \subseteq T /\ ~Contains(v, "lf")
    BY DEF Used, Formed, Valid
  <2> HIDE DEF v
  <2>3. v \in Seq(T)
    BY <2>2, TextIn
  <2>4. \A i \in 1..Len(v) : v[i] # LineEnd
    BY <2>2 DEF Contains, LineEnd
  <2>5. QED
    BY <2>1, <2>3, <2>4 DEF v
<1>4. CleanHeaders(T, headers)
  BY <1>3 DEF CleanHeaders, Formed
<1>5. ASSUME NEW b \in Bodies
      PROVE  b \in Seq(T) /\ LengthText(b) \in Seq(T)
  <2>1. b \in Seq(Range(b))
    BY EventAssumption
  <2>2. Range(b) \subseteq T
    BY DEF Base
  <2>3. b \in Seq(T)
    BY <2>1, <2>2, TextIn DEF IsText
  <2>4. ToString(Len(b)) \in T
    BY DEF Base, BodyLengths
  <2>5. LengthText(b) \in Seq(T)
    BY <2>4, OneToken DEF LengthText
  <2>6. QED
    BY <2>3, <2>5
<1>6. CleanBody(T, c.event.body)
  BY <1>5 DEF CleanBody, Formed
<1>7. QED
  BY <1>1, <1>2, <1>4, <1>6 DEF Writable

-----------------------------------------------------------------------------
(***************************************************************************)
(* What has been sent.                                                     *)
(***************************************************************************)

\* The bytes are the texts of the commands sent, all of them well formed and valid.
SentInv ==
    /\ List(sent) /\ Len(sent) <= MaxSent
    /\ \A i \in 1..Len(sent) : Formed(sent[i]) /\ Valid(sent[i])
    /\ wire = FlattenSeq(TextsOf(sent))

CommandInv == StackInv /\ SentInv

\* One set of tokens for all that was sent.
AllTokens == Base \cup (UNION {Used(sent[i]) : i \in 1..Len(sent)})

LEMMA SentAsMeant == SentInv => OneCommandEach
<1> SUFFICES ASSUME SentInv PROVE OneCommandEach
  OBVIOUS
<1> DEFINE n == Len(sent)
           T == AllTokens
           C == {sent[i] : i \in 1..n}
           meant == [i \in 1..n |-> Meant(sent[i])]
<1>1. n \in Nat /\ sent = [i \in 1..n |-> sent[i]] /\ DOMAIN sent = 1..n
  <2>1. n \in Nat /\ sent = [i \in 1..n |-> sent[i]]
    BY DEF SentInv, List
  <2>2. QED
    BY <2>1
<1>2. \A i \in 1..n : Writable(T, sent[i])
  <2>1. ASSUME NEW i \in 1..n
        PROVE  Writable(T, sent[i])
    <3>1. Base \subseteq T /\ Used(sent[i]) \subseteq T
      BY DEF AllTokens
    <3>2. Formed(sent[i]) /\ Valid(sent[i])
      BY DEF SentInv
    <3>3. QED
      BY <3>1, <3>2, FormedIsWritable
  <2>2. QED
    BY <2>1
<1>3. sent \in Seq(C)
  <2>1. \A i \in 1..n : sent[i] \in C
    OBVIOUS
  <2> HIDE DEF C, n
  <2>2. QED
    BY <1>1, <2>1
<1>4. wire = FlattenSeq(TextsOf(sent))
  BY DEF SentInv
<1> HIDE DEF C, T
<1>5. /\ (\A i \in 1..n : ~Disputed(sent[i])) => ServerReads(wire, Min) = meant
      /\ (\A i \in 1..n : ~Disputed(sent[i]) \/ sent[i].event.body # << >>)
             => ServerReads(wire, Max) = meant
  BY <1>2, <1>3, <1>4, AllRead
<1>6. [i \in DOMAIN sent |->
         LET headers == sent[i].event.headers
         IN  [line |-> Line(sent[i]),
              headers |-> {<<m, ":", " ">> \o headers[m] : m \in DOMAIN headers \ {"Content-Length"}},
              body |-> FlattenSeq(sent[i].event.body),
              size |-> Len(WireText(sent[i]))]] = meant
  <2>1. \A i \in 1..n :
           Meant(sent[i]) =
             [line |-> Line(sent[i]),
              headers |-> {<<m, ":", " ">> \o sent[i].event.headers[m] :
                             m \in DOMAIN sent[i].event.headers \ {"Content-Length"}},
              body |-> FlattenSeq(sent[i].event.body),
              size |-> Len(WireText(sent[i]))]
    BY DEF Meant, OneCommand, FieldTexts, LineOf, Preceded, CL, Content
  <2>2. QED
    BY <1>1, <2>1
<1> DEFINE disputed == {i \in DOMAIN sent : Disputed(sent[i])}
<1>7. /\ disputed = {} => \A i \in 1..n : ~Disputed(sent[i])
      /\ (\A i \in disputed : sent[i].event.body # << >>)
             => \A i \in 1..n : ~Disputed(sent[i]) \/ sent[i].event.body # << >>
  BY <1>1
<1>8. /\ disputed = {} => ServerReads(wire, Min) = meant
      /\ (\A i \in disputed : sent[i].event.body # << >>) => ServerReads(wire, Max) = meant
  <2> HIDE DEF disputed, meant, n
  <2>1. QED
    BY <1>5, <1>7
<1>9. QED
  <2> HIDE DEF meant, n
  <2>1. QED
    BY <1>6, <1>8 DEF OneCommandEach

-----------------------------------------------------------------------------
(***************************************************************************)
(* Every method makes a well-formed command.                               *)
(***************************************************************************)

LEMMA WordText ==
    ASSUME NEW w \in Words
    PROVE  IsText(w)
  BY CommandAssumption DEF IsText

LEMMA SpaceText == IsText(SP)
  BY TokenText DEF SP

LEMMA TwoTexts ==
    ASSUME NEW a, NEW b,
           IsText(a), IsText(b)
    PROVE  IsTexts(<<a, b>>)
<1> DEFINE s == <<a, b>>
<1>1. Len(s) = 2 /\ s[1] = a /\ s[2] = b
  OBVIOUS
<1>2. s = [i \in 1..2 |-> s[i]]
  OBVIOUS
<1>3. \A i \in 1..2 : i = 1 \/ i = 2
  OBVIOUS
<1> HIDE DEF s
<1>4. IsTexts(s)
  BY <1>1, <1>2, <1>3 DEF IsTexts, List
<1>5. QED
  BY <1>4 DEF s

LEMMA ThreeTexts ==
    ASSUME NEW a, NEW b, NEW c,
           IsText(a), IsText(b), IsText(c)
    PROVE  IsTexts(<<a, b, c>>)
<1> DEFINE s == <<a, b, c>>
<1>1. Len(s) = 3 /\ s[1] = a /\ s[2] = b /\ s[3] = c
  OBVIOUS
<1>2. s = [i \in 1..3 |-> s[i]]
  OBVIOUS
<1>3. \A i \in 1..3 : i = 1 \/ i = 2 \/ i = 3
  OBVIOUS
<1> HIDE DEF s
<1>4. IsTexts(s)
  BY <1>1, <1>2, <1>3 DEF IsTexts, List
<1>5. QED
  BY <1>4 DEF s

LEMMA FourTexts ==
    ASSUME NEW a, NEW b, NEW c, NEW d,
           IsText(a), IsText(b), IsText(c), IsText(d)
    PROVE  IsTexts(<<a, b, c, d>>)
<1> DEFINE s == <<a, b, c, d>>
<1>1. Len(s) = 4 /\ s[1] = a /\ s[2] = b /\ s[3] = c /\ s[4] = d
  OBVIOUS
<1>2. s = [i \in 1..4 |-> s[i]]
  OBVIOUS
<1>3. \A i \in 1..4 : i = 1 \/ i = 2 \/ i = 3 \/ i = 4
  OBVIOUS
<1> HIDE DEF s
<1>4. IsTexts(s)
  BY <1>1, <1>2, <1>3 DEF IsTexts, List
<1>5. QED
  BY <1>4 DEF s

LEMMA FiveTexts ==
    ASSUME NEW a, NEW b, NEW c, NEW d, NEW e,
           IsText(a), IsText(b), IsText(c), IsText(d), IsText(e)
    PROVE  IsTexts(<<a, b, c, d, e>>)
<1> DEFINE s == <<a, b, c, d, e>>
<1>1. Len(s) = 5 /\ s[1] = a /\ s[2] = b /\ s[3] = c /\ s[4] = d /\ s[5] = e
  OBVIOUS
<1>2. s = [i \in 1..5 |-> s[i]]
  OBVIOUS
<1>3. \A i \in 1..5 : i = 1 \/ i = 2 \/ i = 3 \/ i = 4 \/ i = 5
  OBVIOUS
<1> HIDE DEF s
<1>4. IsTexts(s)
  BY <1>1, <1>2, <1>3 DEF IsTexts, List
<1>5. QED
  BY <1>4 DEF s

LEMMA OptionTexts ==
    ASSUME NEW o \in Options(Words)
    PROVE  IsTexts(o) /\ (o # << >> => IsText(o[1]))
<1>1. CASE o = << >>
  BY <1>1, NoTexts
<1>2. CASE o # << >>
  <2>1. PICK w \in Words : o = <<w>>
    BY <1>2 DEF Options
  <2>2. IsText(w)
    BY WordText
  <2>3. QED
    BY <2>1, <2>2, OneText
<1>3. QED
  BY <1>1, <1>2

LEMMA TextsText ==
    ASSUME NEW f, IsTexts(f), f # << >>
    PROVE  IsText(Texts(f)) /\ IsText(Joined(f, <<" ">>))
<1>1. IsText(Joined(f, SP))
  BY SpaceText, JoinedText
<1>2. QED
  BY <1>1 DEF Texts, SP

LEMMA FieldsFormed ==
    ASSUME NEW kind \in DOMAIN Verb, NEW f, IsTexts(f), kind = "UserAuth" => Len(f) = 2
    PROVE  Formed(Command(kind, f))
<1> DEFINE c == Command(kind, f)
<1>1. /\ c.kind = kind /\ c.fields = f /\ c.event.headers = << >>
      /\ c.event.body = << >> /\ c.event.type = << >>
  BY DEF Command, NoEvent
<1>2. DOMAIN << >> = {}
  OBVIOUS
<1>3. IsFiniteSet({})
  BY FS_EmptySet
<1> HIDE DEF c
<1>4. Formed(c)
  BY <1>1, <1>2, <1>3 DEF Formed, Options
<1>5. QED
  BY <1>4 DEF c

\* The headers of a command, one more set.
HeadersFormed(h) == IsFiniteSet(DOMAIN h) /\ \A n \in DOMAIN h : n # LineEnd /\ IsText(h[n])

LEMMA PutFormed ==
    ASSUME NEW h, HeadersFormed(h), NEW n, n # LineEnd, NEW v, IsText(v)
    PROVE  HeadersFormed(Put(h, n, v))
<1> DEFINE D == DOMAIN h
           p == Put(h, n, v)
<1>1. DOMAIN p = D \cup {n} /\ \A m \in D \cup {n} : p[m] = IF m = n THEN v ELSE h[m]
  BY DEF Put
<1>2. IsFiniteSet(D \cup {n})
  BY FS_AddElement DEF HeadersFormed
<1> HIDE DEF p
<1>3. HeadersFormed(p)
  BY <1>1, <1>2 DEF HeadersFormed
<1>4. QED
  BY <1>3 DEF p

LEMMA ExecuteFormed ==
    ASSUME NEW app, IsText(app), NEW args, args # << >> => IsText(args[1]),
           NEW uuid, IsTexts(uuid)
    PROVE  Formed(Execute(app, args, uuid))
<1> DEFINE h0 == Put(<< >>, "call-command", <<"execute">>)
           h1 == Put(h0, "execute-app-name", app)
           h == IF args = << >> THEN h1 ELSE Put(h1, "execute-app-arg", args[1])
           c == Execute(app, args, uuid)
<1>1. HeadersFormed(<< >>)
  <2>1. DOMAIN << >> = {}
    OBVIOUS
  <2>2. QED
    BY <2>1, FS_EmptySet DEF HeadersFormed
<1>2. "call-command" # LineEnd /\ "execute-app-name" # LineEnd /\ "execute-app-arg" # LineEnd
  BY DEF LineEnd
<1>3. IsText(<<"execute">>)
  BY TokenText
<1>4. HeadersFormed(h0)
  BY <1>1, <1>2, <1>3, PutFormed
<1> HIDE DEF h0
<1>5. HeadersFormed(h1)
  BY <1>2, <1>4, PutFormed
<1> HIDE DEF h1
<1>6. HeadersFormed(h)
  BY <1>2, <1>5, PutFormed
<1>7. /\ c.kind = "SendMsg" /\ c.fields = uuid /\ c.event.headers = h
      /\ c.event.body = << >> /\ c.event.type = << >>
  BY DEF Execute, NoEvent, h0, h1
<1>8. "SendMsg" \in DOMAIN Verb
  BY DEF Verb
<1> HIDE DEF c, h
<1>9. Formed(c)
  BY <1>6, <1>7, <1>8 DEF Formed, HeadersFormed, Options
<1>10. QED
  BY <1>9 DEF c

LEMMA UuidText ==
    ASSUME NEW t \in UuidTexts
    PROVE  IsText(t)
<1>1. ASSUME NEW v, NEW u \in Words
      PROVE  IsText(Texts(<< <<v>>, u >>)) /\ IsText(Texts(<< <<v>>, <<"off">>, u >>))
  <2>1. IsText(<<v>>) /\ IsText(<<"off">>) /\ IsText(u)
    BY TokenText, WordText
  <2>2. IsTexts(<< <<v>>, u >>) /\ IsTexts(<< <<v>>, <<"off">>, u >>)
    BY <2>1, TwoTexts, ThreeTexts
  <2>3. << <<v>>, u >> # << >> /\ << <<v>>, <<"off">>, u >> # << >>
    OBVIOUS
  <2>4. QED
    BY <2>2, <2>3, TextsText
<1>2. ASSUME NEW v, NEW u \in Words, NEW x \in Words
      PROVE  IsText(Texts(<< <<v>>, u, x >>))
  <2>1. IsText(<<v>>) /\ IsText(u) /\ IsText(x)
    BY TokenText, WordText
  <2>2. IsTexts(<< <<v>>, u, x >>)
    BY <2>1, ThreeTexts
  <2>3. << <<v>>, u, x >> # << >>
    OBVIOUS
  <2>4. QED
    BY <2>2, <2>3, TextsText
<1>3. ASSUME NEW v, NEW u \in Words, NEW x \in Words, NEW y \in Words
      PROVE  IsText(Texts(<< <<v>>, u, x, y >>))
  <2>1. IsText(<<v>>) /\ IsText(u) /\ IsText(x) /\ IsText(y)
    BY TokenText, WordText
  <2>2. IsTexts(<< <<v>>, u, x, y >>)
    BY <2>1, FourTexts
  <2>3. << <<v>>, u, x, y >> # << >>
    OBVIOUS
  <2>4. QED
    BY <2>2, <2>3, TextsText
<1> DEFINE A(v, u) == Texts(<< <<v>>, u >>)
           B(u) == Texts(<< <<"uuid_hold">>, <<"off">>, u >>)
           C(v, u, x) == Texts(<< <<v>>, u, x >>)
           D(v, u, x, y) == Texts(<< <<v>>, u, x, y >>)
           V == {"uuid_answer", "uuid_hold", "uuid_kill"}
           W == {"uuid_bridge", "uuid_deflect", "uuid_kill", "uuid_getvar",
                 "uuid_transfer", "uuid_send_dtmf"}
           X == {"uuid_setvar", "uuid_transfer"}
<1>4. UuidTexts =
        {A(v, u) : v \in V, u \in Words} \cup {B(u) : u \in Words}
        \cup {C(v, u, x) : v \in W, u \in Words, x \in Words}
        \cup {D(v, u, x, y) : v \in X, u \in Words, x \in Words, y \in Words}
  BY DEF UuidTexts
<1>5. /\ \A v \in V, u \in Words : IsText(A(v, u))
      /\ \A u \in Words : IsText(B(u))
      /\ \A v \in W, u \in Words, x \in Words : IsText(C(v, u, x))
      /\ \A v \in X, u \in Words, x \in Words, y \in Words : IsText(D(v, u, x, y))
  <2>1. \A v \in V, u \in Words : IsText(A(v, u))
    BY <1>1
  <2>2. \A u \in Words : IsText(B(u))
    BY <1>1
  <2>3. \A v \in W, u \in Words, x \in Words : IsText(C(v, u, x))
    BY <1>2
  <2>4. \A v \in X, u \in Words, x \in Words, y \in Words : IsText(D(v, u, x, y))
    BY <1>3
  <2> HIDE DEF A, B, C, D, V, W, X
  <2>5. QED
    BY <2>1, <2>2, <2>3, <2>4
<1> HIDE DEF A, B, C, D, V, W, X
<1>6. QED
  BY <1>4, <1>5

LEMMA ConferenceText ==
    ASSUME NEW t \in ConferenceTexts
    PROVE  IsText(t)
<1>1. ASSUME NEW name \in Words, NEW action, NEW member \in Words
      PROVE  /\ IsTexts(<< <<"conference">>, name, <<action>>, member >>)
             /\ << <<"conference">>, name, <<action>>, member >> # << >>
  <2>1. IsText(<<"conference">>) /\ IsText(name) /\ IsText(<<action>>) /\ IsText(member)
    BY TokenText, WordText
  <2>2. IsTexts(<< <<"conference">>, name, <<action>>, member >>)
    BY <2>1, FourTexts
  <2>3. QED
    BY <2>2
<1>2. ASSUME NEW name \in Words, NEW action, NEW member \in Words, NEW stream \in Options(Words)
      PROVE  IsText(Texts(<< <<"conference">>, name, <<action>>, member >> \o stream))
  <2> DEFINE f == << <<"conference">>, name, <<action>>, member >>
  <2>1. IsTexts(f) /\ f # << >> /\ IsTexts(stream)
    BY <1>1, OptionTexts
  <2> HIDE DEF f
  <2>2. IsTexts(f \o stream) /\ f \o stream # << >>
    BY <2>1, MoreTexts
  <2>3. IsText(Texts(f \o stream))
    BY <2>2, TextsText
  <2>4. QED
    BY <2>3 DEF f
<1>3. ASSUME NEW name \in Words, NEW action, NEW member \in Words
      PROVE  IsText(Texts(<< <<"conference">>, name, <<action>>, member >>))
  BY <1>1, TextsText
<1>4. ASSUME NEW name \in Words, NEW member \in Words, NEW dtmf \in Words
      PROVE  IsText(Texts(<< <<"conference">>, name, <<"dtmf">>, member, dtmf >>))
  <2>1. IsText(<<"conference">>) /\ IsText(name) /\ IsText(<<"dtmf">>) /\ IsText(member) /\ IsText(dtmf)
    BY TokenText, WordText
  <2>2. IsTexts(<< <<"conference">>, name, <<"dtmf">>, member, dtmf >>)
    BY <2>1, FiveTexts
  <2>3. << <<"conference">>, name, <<"dtmf">>, member, dtmf >> # << >>
    OBVIOUS
  <2>4. QED
    BY <2>2, <2>3, TextsText
<1> DEFINE A(name, action, member, stream) ==
               Texts(<< <<"conference">>, name, <<action>>, member >> \o stream)
           B(name, action, member) == Texts(<< <<"conference">>, name, <<action>>, member >>)
           C(name, member, dtmf) == Texts(<< <<"conference">>, name, <<"dtmf">>, member, dtmf >>)
           V == {"hold", "unhold"}
           W == {"mute", "unmute"}
           O == Options(Words)
<1>5. ConferenceTexts =
        {A(name, action, member, stream) :
            name \in Words, action \in V, member \in Words, stream \in O}
        \cup {B(name, action, member) : name \in Words, action \in W, member \in Words}
        \cup {C(name, member, dtmf) : name \in Words, member \in Words, dtmf \in Words}
  BY DEF ConferenceTexts
<1>6. \A name \in Words, action \in V, member \in Words, stream \in O :
         IsText(A(name, action, member, stream))
  BY <1>2
<1>7. \A name \in Words, action \in W, member \in Words : IsText(B(name, action, member))
  BY <1>3
<1>8. \A name \in Words, member \in Words, dtmf \in Words : IsText(C(name, member, dtmf))
  BY <1>4
<1> HIDE DEF A, B, C, V, W, O
<1>9. QED
  BY <1>5, <1>6, <1>7, <1>8

LEMMA ListText ==
    ASSUME NEW list \in TypeLists \cup Words
    PROVE  IsText(list)
<1>1. CASE list \in Words
  BY <1>1, WordText
<1>2. CASE list \in TypeLists
  <2>1. \E t : list = <<t>>
    BY <1>2 DEF TypeLists
  <2>2. QED
    BY <2>1, TokenText
<1>3. QED
  BY <1>1, <1>2

LEMMA SubscriptionFormed ==
    ASSUME NEW c \in Subscriptions
    PROVE  Formed(c)
<1>1. ASSUME NEW format, NEW list \in TypeLists \cup Words
      PROVE  Formed(Command("Events", << <<format>>, list >>))
  <2>1. IsText(<<format>>) /\ IsText(list)
    BY TokenText, ListText
  <2>2. IsTexts(<< <<format>>, list >>)
    BY <2>1, TwoTexts
  <2>3. "Events" \in DOMAIN Verb /\ "Events" # "UserAuth"
    BY DEF Verb
  <2>4. QED
    BY <2>2, <2>3, FieldsFormed
<1>2. ASSUME NEW header \in Words, NEW v \in Words
      PROVE  Formed(Command("Filter", <<header, v>>))
  <2>1. IsTexts(<<header, v>>)
    BY WordText, TwoTexts
  <2>2. "Filter" \in DOMAIN Verb /\ "Filter" # "UserAuth"
    BY DEF Verb
  <2>3. QED
    BY <2>1, <2>2, FieldsFormed
<1>3. \/ \E format \in {"plain", "json", "xml"}, list \in TypeLists \cup Words :
             c = Command("Events", << <<format>>, list >>)
      \/ \E header \in Words, v \in Words : c = Command("Filter", <<header, v>>)
  BY DEF Subscriptions
<1>4. QED
  BY <1>1, <1>2, <1>3

LEMMA UnsubscriptionFormed ==
    ASSUME NEW c \in Unsubscriptions
    PROVE  Formed(c)
<1>1. ASSUME NEW list \in TypeLists \cup Words
      PROVE  Formed(Command("NixEvent", <<list>>))
  <2>1. IsTexts(<<list>>)
    BY ListText, OneText
  <2>2. "NixEvent" \in DOMAIN Verb /\ "NixEvent" # "UserAuth"
    BY DEF Verb
  <2>3. QED
    BY <2>1, <2>2, FieldsFormed
<1>2. Formed(Command("NoEvents", << >>))
  <2>1. "NoEvents" \in DOMAIN Verb /\ "NoEvents" # "UserAuth"
    BY DEF Verb
  <2>2. QED
    BY <2>1, NoTexts, FieldsFormed
<1>3. ASSUME NEW header \in Words \cup {<<"all">>}, NEW v \in Options(Words)
      PROVE  Formed(Command("FilterDelete", <<header>> \o v))
  <2>1. IsText(header)
    BY WordText, TokenText
  <2>2. IsTexts(<<header>>) /\ IsTexts(v)
    BY <2>1, OneText, OptionTexts
  <2>3. IsTexts(<<header>> \o v)
    BY <2>2, MoreTexts
  <2>4. "FilterDelete" \in DOMAIN Verb /\ "FilterDelete" # "UserAuth"
    BY DEF Verb
  <2>5. QED
    BY <2>3, <2>4, FieldsFormed
<1>4. \/ \E list \in TypeLists \cup Words : c = Command("NixEvent", <<list>>)
      \/ c = Command("NoEvents", << >>)
      \/ \E header \in Words \cup {<<"all">>}, v \in Options(Words) :
             c = Command("FilterDelete", <<header>> \o v)
  BY DEF Unsubscriptions
<1>5. QED
  BY <1>1, <1>2, <1>3, <1>4

LEMMA ExecutionFormed ==
    ASSUME NEW c \in Executions
    PROVE  Formed(c)
<1>1. PICK app \in Words, args \in Options(Words), uuid \in Options(Words) :
          c = Execute(app, args, uuid)
  BY DEF Executions
<1>2. IsText(app) /\ (args # << >> => IsText(args[1])) /\ IsTexts(uuid)
  BY WordText, OptionTexts
<1>3. QED
  BY <1>1, <1>2, ExecuteFormed

LEMMA SessionFormed ==
    ASSUME NEW c \in SessionCommands
    PROVE  Formed(c)
<1>1. ASSUME NEW format, NEW uuid \in Options(Words)
      PROVE  Formed(Command("MyEvents", << <<format>> >> \o uuid))
  <2>1. IsText(<<format>>)
    BY TokenText
  <2>2. IsTexts(<< <<format>> >>) /\ IsTexts(uuid)
    BY <2>1, OneText, OptionTexts
  <2>3. IsTexts(<< <<format>> >> \o uuid)
    BY <2>2, MoreTexts
  <2>4. "MyEvents" \in DOMAIN Verb /\ "MyEvents" # "UserAuth"
    BY DEF Verb
  <2>5. QED
    BY <2>3, <2>4, FieldsFormed
<1>2. ASSUME NEW timeout \in {<< >>, << <<"10">> >>}
      PROVE  Formed(Command("Linger", timeout))
  <2>1. IsText(<<"10">>)
    BY TokenText
  <2>2. IsTexts(<< >>) /\ IsTexts(<< <<"10">> >>)
    BY <2>1, NoTexts, OneText
  <2>3. "Linger" \in DOMAIN Verb /\ "Linger" # "UserAuth"
    BY DEF Verb
  <2>4. IsTexts(timeout)
    BY <2>2
  <2>5. QED
    BY <2>3, <2>4, FieldsFormed
<1>3. ASSUME NEW kind \in {"NoLinger", "Resume", "Connect"}
      PROVE  Formed(Command(kind, << >>))
  <2>1. kind \in DOMAIN Verb /\ kind # "UserAuth"
    BY DEF Verb
  <2>2. QED
    BY <2>1, NoTexts, FieldsFormed
<1>4. \/ \E format \in {"plain", "json"}, uuid \in Options(Words) :
             c = Command("MyEvents", << <<format>> >> \o uuid)
      \/ \E timeout \in {<< >>, << <<"10">> >>} : c = Command("Linger", timeout)
      \/ \E kind \in {"NoLinger", "Resume", "Connect"} : c = Command(kind, << >>)
  BY DEF SessionCommands
<1>5. QED
  BY <1>1, <1>2, <1>3, <1>4

LEMMA ControlFormed ==
    ASSUME NEW c \in ControlCommands
    PROVE  Formed(c)
<1>1. ASSUME NEW arg
      PROVE  Formed(Command("DivertEvents", << <<arg>> >>))
  <2>1. IsText(<<arg>>)
    BY TokenText
  <2>2. IsTexts(<< <<arg>> >>)
    BY <2>1, OneText
  <2>3. "DivertEvents" \in DOMAIN Verb /\ "DivertEvents" # "UserAuth"
    BY DEF Verb
  <2>4. QED
    BY <2>2, <2>3, FieldsFormed
<1>2. ASSUME NEW kind \in {"GetVar", "Log"}, NEW t \in Words
      PROVE  Formed(Command(kind, <<t>>))
  <2>1. IsTexts(<<t>>)
    BY WordText, OneText
  <2>2. kind \in DOMAIN Verb /\ kind # "UserAuth"
    BY DEF Verb
  <2>3. QED
    BY <2>1, <2>2, FieldsFormed
<1>3. ASSUME NEW kind \in {"NoLog", "NoOp", "Exit"}
      PROVE  Formed(Command(kind, << >>))
  <2>1. kind \in DOMAIN Verb /\ kind # "UserAuth"
    BY DEF Verb
  <2>2. QED
    BY <2>1, NoTexts, FieldsFormed
<1>4. \/ \E arg \in {"on", "off"} : c = Command("DivertEvents", << <<arg>> >>)
      \/ \E kind \in {"GetVar", "Log"}, t \in Words : c = Command(kind, <<t>>)
      \/ \E kind \in {"NoLog", "NoOp", "Exit"} : c = Command(kind, << >>)
  BY DEF ControlCommands
<1>5. QED
  BY <1>1, <1>2, <1>3, <1>4

LEMMA ApiFormed ==
    ASSUME NEW c \in ApiCommands
    PROVE  Formed(c)
<1>1. ASSUME NEW kind \in {"Api", "BgApi"}, NEW t, IsText(t)
      PROVE  Formed(Command(kind, <<t>>))
  <2>1. IsTexts(<<t>>)
    BY <1>1, OneText
  <2>2. kind \in DOMAIN Verb /\ kind # "UserAuth"
    BY DEF Verb
  <2>3. QED
    BY <2>1, <2>2, FieldsFormed
<1>2. \/ \E kind \in {"Api", "BgApi"}, t \in Words : c = Command(kind, <<t>>)
      \/ \E t \in UuidTexts \cup ConferenceTexts : c = Command("Api", <<t>>)
  BY DEF ApiCommands
<1>3. CASE \E kind \in {"Api", "BgApi"}, t \in Words : c = Command(kind, <<t>>)
  BY <1>1, <1>3, WordText
<1>4. CASE \E t \in UuidTexts \cup ConferenceTexts : c = Command("Api", <<t>>)
  BY <1>1, <1>4, UuidText, ConferenceText
<1>5. QED
  BY <1>2, <1>3, <1>4

LEMMA CredentialsFormed ==
    ASSUME NEW c \in Credentials
    PROVE  Formed(c)
<1>1. ASSUME NEW password \in Words
      PROVE  Formed(Command("Auth", <<password>>))
  <2>1. IsTexts(<<password>>)
    BY WordText, OneText
  <2>2. "Auth" \in DOMAIN Verb /\ "Auth" # "UserAuth"
    BY DEF Verb
  <2>3. QED
    BY <2>1, <2>2, FieldsFormed
<1>2. ASSUME NEW user \in Words, NEW password \in Words
      PROVE  Formed(Command("UserAuth", <<user, password>>))
  <2>1. IsTexts(<<user, password>>) /\ Len(<<user, password>>) = 2
    BY WordText, TwoTexts
  <2>2. "UserAuth" \in DOMAIN Verb
    BY DEF Verb
  <2>3. QED
    BY <2>1, <2>2, FieldsFormed
<1>3. \/ \E password \in Words : c = Command("Auth", <<password>>)
      \/ \E user \in Words, password \in Words : c = Command("UserAuth", <<user, password>>)
  BY DEF Credentials
<1>4. QED
  BY <1>1, <1>2, <1>3

LEMMA AppFormed == \A c \in AppCommands : Formed(c)
<1> DEFINE A(app) == Execute(<<app>>, << >>, << >>)
           B(app, arg) == Execute(<<app>>, <<arg>>, << >>)
           C(n, v) == Execute(<<"set">>, <<n \o <<"=">> \o v>>, << >>)
           D(x, dialplan, context) ==
               Execute(<<"transfer">>, <<Joined(<<x>> \o dialplan \o context, <<" ">>)>>, << >>)
           V == {"answer", "park", "hangup"}
           W == {"hangup", "playback", "bridge"}
           O == Options(Words)
           SA == {A(app) : app \in V}
           SB == {B(app, arg) : app \in W, arg \in Words}
           SC == {C(n, v) : n \in Words, v \in Words}
           SD == {D(x, dialplan, context) : x \in Words, dialplan \in O, context \in O}
<1>1. AppCommands = SA \cup SB \cup SC \cup SD
  BY DEF AppCommands
<1>2. ASSUME NEW app
      PROVE  Formed(A(app))
  BY TokenText, NoTexts, ExecuteFormed
<1>3. ASSUME NEW app, NEW t, IsText(t)
      PROVE  Formed(Execute(<<app>>, <<t>>, << >>))
  <2>1. <<t>>[1] = t /\ IsText(<<app>>)
    BY TokenText
  <2>2. QED
    BY <1>3, <2>1, NoTexts, ExecuteFormed
<1>4. ASSUME NEW n \in Words, NEW v \in Words
      PROVE  IsText(n \o <<"=">> \o v)
  <2> DEFINE e == <<"=">>
  <2>1. IsText(n) /\ IsText(e) /\ IsText(v)
    BY WordText, TokenText
  <2> HIDE DEF e
  <2>2. IsText(Then(Then(n, e), v))
    BY <2>1, ThenText
  <2>3. QED
    BY <2>2 DEF Then, e
<1>5. ASSUME NEW x \in Words, NEW dialplan \in O, NEW context \in O
      PROVE  IsText(Joined(<<x>> \o dialplan \o context, <<" ">>))
  <2> DEFINE f == <<x>>
  <2>1. IsTexts(f) /\ f # << >>
    BY WordText, OneText
  <2>2. IsTexts(dialplan) /\ IsTexts(context)
    BY OptionTexts
  <2> HIDE DEF f
  <2> DEFINE g == f \o dialplan
  <2>3. IsTexts(g) /\ g # << >>
    BY <2>1, <2>2, MoreTexts
  <2> HIDE DEF g
  <2>4. IsTexts(g \o context) /\ g \o context # << >>
    BY <2>2, <2>3, MoreTexts
  <2>5. IsText(Joined(g \o context, <<" ">>))
    BY <2>4, TextsText
  <2>6. QED
    BY <2>5 DEF f, g
<1>6. \A app \in V : Formed(A(app))
  BY <1>2
<1>7. \A app \in W, arg \in Words : Formed(B(app, arg))
  BY <1>3, WordText
<1>8. \A n \in Words, v \in Words : Formed(C(n, v))
  BY <1>3, <1>4
<1>9. \A x \in Words, dialplan \in O, context \in O : Formed(D(x, dialplan, context))
  BY <1>3, <1>5
<1> HIDE DEF A, B, C, D, V, W, O
<1>10. /\ \A d \in SA : Formed(d)
       /\ \A d \in SB : Formed(d)
       /\ \A d \in SC : Formed(d)
       /\ \A d \in SD : Formed(d)
  BY <1>6, <1>7, <1>8, <1>9
<1> HIDE DEF SA, SB, SC, SD
<1>11. QED
  BY <1>1, <1>10

LEMMA MethodsFormed ==
    ASSUME NEW c \in FieldCommands
    PROVE  Formed(c)
  BY SubscriptionFormed, UnsubscriptionFormed, ExecutionFormed, SessionFormed,
     ControlFormed, ApiFormed, CredentialsFormed, AppFormed DEF FieldCommands

\* A command of the event built so far.
LEMMA EventFormed ==
    ASSUME StackInv, NEW c \in EventCommands
    PROVE  Formed(c)
<1> DEFINE h == event.headers
<1>1. /\ event \in Events /\ IsFiniteSet(DOMAIN h)
  BY DEF StackInv
<1>2. event.type \in Options(TypeNames) /\ event.body \in Options(Bodies)
  BY <1>1 DEF Events
<1>3. PICK D \in SUBSET HeaderNames : h \in [D -> Phrases]
  BY <1>1 DEF Events
<1>4. ASSUME NEW n \in DOMAIN h
      PROVE  n # LineEnd /\ IsText(h[n])
  <2>1. n \in HeaderNames /\ h[n] \in Phrases
    BY <1>3
  <2>2. n # LineEnd
    BY <2>1, NamesAreSymbols DEF Escaped, LineEnd
  <2>3. IsText(h[n])
    BY <2>1, TextOf DEF Phrases
  <2>4. QED
    BY <2>2, <2>3
<1>5. ASSUME NEW kind \in {"SendMsg", "SendEvent"}, NEW f, IsTexts(f),
             c = [kind |-> kind, fields |-> f, event |-> event]
      PROVE  Formed(c)
  <2>1. kind \in DOMAIN Verb /\ kind # "UserAuth"
    BY DEF Verb
  <2>2. c.kind = kind /\ c.fields = f /\ c.event = event
    BY <1>5
  <2>3. QED
    BY <1>1, <1>2, <1>4, <1>5, <2>1, <2>2 DEF Formed
<1>6. \/ \E uuid \in Options(Words) : c = [kind |-> "SendMsg", fields |-> uuid, event |-> event]
      \/ c = [kind |-> "SendEvent", fields |-> << >>, event |-> event]
  BY DEF EventCommands
<1>7. CASE \E uuid \in Options(Words) : c = [kind |-> "SendMsg", fields |-> uuid, event |-> event]
  BY <1>5, <1>7, OptionTexts
<1>8. CASE c = [kind |-> "SendEvent", fields |-> << >>, event |-> event]
  BY <1>5, <1>8, NoTexts
<1>9. QED
  BY <1>6, <1>7, <1>8

-----------------------------------------------------------------------------
(***************************************************************************)
(* The bytes of commands say the commands.                                 *)
(***************************************************************************)

LEMMA CommandInitially == CommandInit => CommandInv
<1> SUFFICES ASSUME CommandInit PROVE CommandInv
  OBVIOUS
<1>1. EventInit /\ wire = << >> /\ sent = << >>
  BY DEF CommandInit
<1>2. StackInv
  BY <1>1, EventInitially
<1>3. Len(sent) = 0 /\ List(sent)
  <2>1. IsTexts(<< >>)
    BY NoTexts
  <2>2. QED
    BY <1>1, <2>1 DEF IsTexts
<1>4. wire = FlattenSeq(TextsOf(sent))
  <2>1. TextsOf(sent) = << >>
    BY <1>3 DEF TextsOf
  <2>2. QED
    BY <1>1, <2>1, FlattenNothing
<1>5. Len(sent) <= MaxSent
  BY <1>3, CommandAssumption
<1>6. SentInv
  BY <1>3, <1>4, <1>5 DEF SentInv
<1>7. QED
  BY <1>2, <1>6 DEF CommandInv

\* What is sent is found behind what was sent before.
LEMMA SendKeeps ==
    ASSUME SentInv, Len(sent) < MaxSent, NEW c, Formed(c), Send(c)
    PROVE  SentInv'
<1> DEFINE n == Len(sent)
           T == AllTokens \cup Used(c)
           C == {sent[i] : i \in 1..n} \cup {c}
           texts == TextsOf(sent)
           s == Append(sent, c)
<1>1. /\ Valid(c) /\ wire' = Then(wire, WireText(c)) /\ sent' = s
  BY DEF Send, Then
<1>2. /\ n \in Nat /\ sent = [i \in 1..n |-> sent[i]]
      /\ wire = FlattenSeq(texts)
      /\ \A i \in 1..n : Formed(sent[i]) /\ Valid(sent[i])
  BY DEF SentInv, List
<1>3. ASSUME NEW d, Formed(d), Valid(d), Used(d) \subseteq T
      PROVE  WireText(d) \in Seq(T)
  <2>1. Base \subseteq T
    BY DEF AllTokens
  <2> HIDE DEF T
  <2>2. Writable(T, d)
    BY <1>3, <2>1, FormedIsWritable
  <2>3. << >> \in Seq(T)
    OBVIOUS
  <2>4. QED
    BY <2>2, <2>3, CommandTaken
<1>4. WireText(c) \in Seq(T)
  BY <1>1, <1>3
<1>5. \A i \in 1..n : WireText(sent[i]) \in Seq(T)
  <2>1. \A i \in 1..n : Used(sent[i]) \subseteq T
    BY DEF AllTokens
  <2>2. QED
    BY <1>2, <1>3, <2>1
<1> HIDE DEF T
<1>6. texts \in Seq(Seq(T))
  <2> DEFINE S == Seq(T)
  <2>1. \A i \in 1..n : WireText(sent[i]) \in S
    BY <1>5
  <2> HIDE DEF S
  <2>2. texts \in Seq(S)
    BY <1>2, <2>1 DEF TextsOf
  <2>3. QED
    BY <2>2 DEF S
<1>7. sent \in Seq(C) /\ c \in C
  <2>1. \A i \in 1..n : sent[i] \in C
    OBVIOUS
  <2>2. c \in C
    OBVIOUS
  <2> HIDE DEF C, n
  <2>3. QED
    BY <1>2, <2>1, <2>2
<1> HIDE DEF C
<1>8. /\ Len(s) = n + 1 /\ s[n + 1] = c /\ \A i \in 1..n : s[i] = sent[i]
      /\ s \in Seq(C)
  BY <1>7, AppendTokens
<1> HIDE DEF s
<1>9. List(s)
  BY <1>8 DEF List
<1>10. \A i \in 1..Len(s) : Formed(s[i]) /\ Valid(s[i])
  <2>1. ASSUME NEW i \in 1..Len(s)
        PROVE  Formed(s[i]) /\ Valid(s[i])
    <3>1. i \in 1..n \/ i = n + 1
      BY <1>2, <1>8
    <3>2. QED
      BY <1>1, <1>2, <1>8, <3>1
  <2>2. QED
    BY <2>1
<1>11. TextsOf(s) = Append(texts, WireText(c))
  <2> DEFINE S == Seq(T)
             b == WireText(c)
  <2>1. texts \in Seq(S) /\ b \in S
    BY <1>4, <1>6
  <2>2. Len(texts) = n /\ \A i \in 1..n : texts[i] = WireText(sent[i])
    BY <1>2 DEF TextsOf
  <2> HIDE DEF S, b, texts
  <2> DEFINE r == Append(texts, b)
  <2>3. /\ Len(r) = n + 1 /\ r[n + 1] = b /\ \A i \in 1..n : r[i] = texts[i]
        /\ r \in Seq(S)
    BY <2>1, <2>2, AppendTokens
  <2> HIDE DEF r
  <2>4. r = [i \in 1..(n + 1) |-> r[i]]
    BY <2>3
  <2>5. \A i \in 1..(n + 1) : r[i] = WireText(s[i])
    <3>1. ASSUME NEW i \in 1..(n + 1)
          PROVE  r[i] = WireText(s[i])
      <4>1. i \in 1..n \/ i = n + 1
        BY <1>2
      <4>2. QED
        BY <1>8, <2>2, <2>3, <4>1 DEF b
    <3>2. QED
      BY <3>1
  <2>6. TextsOf(s) = [i \in 1..(n + 1) |-> WireText(s[i])]
    BY <1>8 DEF TextsOf
  <2>7. r = TextsOf(s)
    BY <2>4, <2>5, <2>6
  <2>8. QED
    BY <2>7 DEF r, b
<1>12. FlattenSeq(TextsOf(s)) = Then(wire, WireText(c))
  <2> HIDE DEF texts
  <2>1. FlattenSeq(Append(texts, WireText(c))) = Then(FlattenSeq(texts), WireText(c))
    BY <1>4, <1>6, FlattenAppend
  <2>2. QED
    BY <1>2, <1>11, <2>1
<1>13. Len(s) <= MaxSent
  BY <1>2, <1>8, CommandAssumption
<1>14. QED
  BY <1>1, <1>9, <1>10, <1>12, <1>13 DEF SentInv, TextsOf, List

LEMMA CommandSteps == CommandInv /\ [CommandNext]_commandVars => CommandInv'
<1> SUFFICES ASSUME CommandInv, [CommandNext]_commandVars
             PROVE  CommandInv'
  OBVIOUS
<1>1. StackInv /\ SentInv
  BY DEF CommandInv
<1>2. ASSUME UNCHANGED <<wire, sent>>
      PROVE  SentInv'
  BY <1>1, <1>2 DEF SentInv, TextsOf, List
<1>3. ASSUME UNCHANGED eventVars
      PROVE  StackInv'
  BY <1>1, <1>3, EventSteps
<1>4. CASE UNCHANGED commandVars
  <2>1. UNCHANGED eventVars /\ UNCHANGED <<wire, sent>>
    BY <1>4 DEF commandVars, eventVars
  <2>2. QED
    BY <1>2, <1>3, <2>1 DEF CommandInv
<1>5. CASE Build
  <2>1. EventNext /\ UNCHANGED <<wire, sent>>
    BY <1>5 DEF Build
  <2>2. StackInv'
    BY <1>1, <2>1, EventSteps
  <2>3. QED
    BY <1>2, <2>1, <2>2 DEF CommandInv
<1>6. CASE SendOne(FieldCommands \cup EventCommands)
  <2>1. PICK c \in FieldCommands \cup EventCommands : Send(c)
    BY <1>6 DEF SendOne
  <2>2. Len(sent) < MaxSent
    BY <1>6 DEF SendOne
  <2>3. Formed(c)
    BY <1>1, MethodsFormed, EventFormed
  <2>4. SentInv'
    BY <1>1, <2>1, <2>2, <2>3, SendKeeps
  <2>5. UNCHANGED eventVars
    BY <2>1 DEF Send
  <2>6. QED
    BY <1>3, <2>4, <2>5 DEF CommandInv
<1>7. QED
  BY <1>4, <1>5, <1>6 DEF CommandNext

THEOREM CommandInvariant == CommandSpec => []CommandInv
<1>1. QED
  BY CommandInitially, CommandSteps, PTL DEF CommandSpec

\* At most MaxSent commands are written, each of a kind that has a verb.
THEOREM CommandTypeCorrect == CommandSpec => []CommandTypeOK
<1>1. ASSUME CommandInv
      PROVE  CommandTypeOK
  <2>1. SentInv
    BY <1>1 DEF CommandInv
  <2>2. DOMAIN sent = 1..Len(sent) /\ Len(sent) <= MaxSent
    BY <2>1 DEF SentInv, List
  <2>3. \A i \in 1..Len(sent) : sent[i].kind \in DOMAIN Verb
    BY <2>1 DEF SentInv, Formed
  <2>4. QED
    BY <2>2, <2>3 DEF CommandTypeOK
<1>2. QED
  BY <1>1, CommandInvariant, PTL

\* The server finds in the bytes the commands that the methods of EslClient
\* made, each with its line, headers and body, whatever was sent before: for
\* every field, header, value and body, and every number of commands.
THEOREM CommandsArriveWhole == CommandSpec => []OneCommandEach
<1>1. CommandInv => OneCommandEach
  BY SentAsMeant DEF CommandInv
<1>2. QED
  BY <1>1, CommandInvariant, PTL

-----------------------------------------------------------------------------
(***************************************************************************)
(* Different commands are different texts: what a mark between two parts   *)
(* says of them.                                                           *)
(***************************************************************************)

\* The parts of a text with a mark between them, from the first.
Spaced(a, sep, b) == Then(Then(a, sep), b)

Parted(s, a, x, b) ==
    /\ Len(a) \in Nat /\ Len(b) \in Nat /\ Len(s) = Len(a) + 1 + Len(b)
    /\ \A i \in 1..Len(a) : s[i] = a[i]
    /\ s[Len(a) + 1] = x
    /\ \A i \in 1..Len(b) : s[Len(a) + 1 + i] = b[i]

LEMMA SpacedTokens ==
    ASSUME NEW T, NEW x \in T, NEW a \in Seq(T), NEW b \in Seq(T)
    PROVE  Parted(Spaced(a, <<x>>, b), a, x, b)
<1> DEFINE m == <<x>>
           r == Then(a, m)
           s == Spaced(a, m, b)
<1>1. m \in Seq(T) /\ Len(m) = 1 /\ m[1] = x
  OBVIOUS
<1>2. Len(a) \in Nat /\ Len(b) \in Nat
  OBVIOUS
<1> HIDE DEF m
<1>3. s = Then(r, b)
  BY DEF Spaced
<1> HIDE DEF s
<1>4. /\ r \in Seq(T) /\ Len(r) = Len(a) + 1
      /\ \A i \in 1..(Len(a) + 1) : r[i] = IF i <= Len(a) THEN a[i] ELSE m[i - Len(a)]
  <2>1. a \in Seq(T) /\ m \in Seq(T)
    BY <1>1
  <2>2. Then(a, m) \in Seq(T)
    BY ONLY <2>1, ThenTokens
  <2>3. Len(Then(a, m)) = Len(a) + Len(m)
    BY ONLY <2>1, ThenTokens
  <2>4. \A i \in 1..(Len(a) + Len(m)) : Then(a, m)[i] = IF i <= Len(a) THEN a[i] ELSE m[i - Len(a)]
    BY ONLY <2>1, ThenTokens
  <2>5. QED
    BY <1>1, <2>2, <2>3, <2>4
<1> HIDE DEF r
<1>5. (\A i \in 1..Len(a) : r[i] = a[i]) /\ r[Len(a) + 1] = x
  BY <1>1, <1>2, <1>4
<1>6. /\ s \in Seq(T) /\ Len(s) = Len(r) + Len(b)
      /\ \A i \in 1..(Len(r) + Len(b)) : s[i] = IF i <= Len(r) THEN r[i] ELSE b[i - Len(r)]
  <2>1. r \in Seq(T) /\ b \in Seq(T)
    BY <1>4
  <2>2. Then(r, b) \in Seq(T)
    BY ONLY <2>1, ThenTokens
  <2>3. Len(Then(r, b)) = Len(r) + Len(b)
    BY ONLY <2>1, ThenTokens
  <2>4. \A i \in 1..(Len(r) + Len(b)) : Then(r, b)[i] = IF i <= Len(r) THEN r[i] ELSE b[i - Len(r)]
    BY ONLY <2>1, ThenTokens
  <2>5. QED
    BY <1>3, <2>2, <2>3, <2>4
<1>7. Len(s) = Len(a) + 1 + Len(b)
  BY <1>2, <1>4, <1>6
<1>8. \A i \in 1..Len(a) : s[i] = a[i]
  BY <1>2, <1>4, <1>5, <1>6
<1>9. s[Len(a) + 1] = x
  BY <1>2, <1>4, <1>5, <1>6
<1>10. \A i \in 1..Len(b) : s[Len(a) + 1 + i] = b[i]
  <2>1. ASSUME NEW i \in 1..Len(b)
        PROVE  s[Len(a) + 1 + i] = b[i]
    <3> DEFINE k == Len(a) + 1 + i
    <3>1. k \in 1..(Len(r) + Len(b)) /\ ~(k <= Len(r)) /\ k - Len(r) = i
      BY <1>2, <1>4
    <3> HIDE DEF k
    <3>2. s[k] = b[i]
      BY <1>6, <3>1
    <3>3. QED
      BY <3>2 DEF k
  <2>2. QED
    BY <2>1
<1>11. Parted(s, a, x, b)
  BY <1>2, <1>7, <1>8, <1>9, <1>10 DEF Parted
<1>12. QED
  BY <1>11 DEF s, m

LEMMA SameTokens ==
    ASSUME NEW T, NEW a \in Seq(T), NEW b \in Seq(T), Len(a) = Len(b),
           \A i \in 1..Len(a) : a[i] = b[i]
    PROVE  a = b
  OBVIOUS

\* A mark that a does not contain.
Free(a, x) == \A i \in 1..Len(a) : a[i] # x

\* Two texts with a mark behind the same number of tokens.
LEMMA SameBehind ==
    ASSUME NEW T, NEW x \in T, NEW a \in Seq(T), NEW b \in Seq(T), NEW c \in Seq(T), NEW d \in Seq(T),
           Len(a) = Len(c), Spaced(a, <<x>>, b) = Spaced(c, <<x>>, d)
    PROVE  a = c /\ b = d
<1> DEFINE s == Spaced(a, <<x>>, b)
<1> HIDE DEF s
<1>1. Parted(s, a, x, b) /\ Parted(s, c, x, d)
  BY SpacedTokens DEF s
<1>2. /\ Len(a) \in Nat /\ Len(b) \in Nat /\ Len(s) = Len(a) + 1 + Len(b)
      /\ \A i \in 1..Len(a) : s[i] = a[i]
      /\ s[Len(a) + 1] = x
      /\ \A i \in 1..Len(b) : s[Len(a) + 1 + i] = b[i]
  BY <1>1 DEF Parted
<1>3. /\ Len(c) \in Nat /\ Len(d) \in Nat /\ Len(s) = Len(c) + 1 + Len(d)
      /\ \A i \in 1..Len(c) : s[i] = c[i]
      /\ s[Len(c) + 1] = x
      /\ \A i \in 1..Len(d) : s[Len(c) + 1 + i] = d[i]
  BY <1>1 DEF Parted
<1>4. Len(b) = Len(d)
  BY <1>2, <1>3
<1>5. \A i \in 1..Len(a) : a[i] = c[i]
  BY <1>2, <1>3
<1>6. \A i \in 1..Len(b) : b[i] = d[i]
  BY <1>2, <1>3, <1>4
<1>7. QED
  BY <1>4, <1>5, <1>6, SameTokens

\* Behind the same mark the same text, if the mark is the first on both sides ...
LEMMA SameBehindFirst ==
    ASSUME NEW T, NEW x \in T, NEW a \in Seq(T), NEW b \in Seq(T), NEW c \in Seq(T), NEW d \in Seq(T),
           Free(a, x), Free(c, x), Spaced(a, <<x>>, b) = Spaced(c, <<x>>, d)
    PROVE  a = c /\ b = d
<1> DEFINE s == Spaced(a, <<x>>, b)
<1> HIDE DEF s
<1>1. Parted(s, a, x, b) /\ Parted(s, c, x, d)
  BY SpacedTokens DEF s
<1>2. /\ Len(a) \in Nat /\ Len(b) \in Nat /\ Len(s) = Len(a) + 1 + Len(b)
      /\ \A i \in 1..Len(a) : s[i] = a[i]
      /\ s[Len(a) + 1] = x
      /\ \A i \in 1..Len(b) : s[Len(a) + 1 + i] = b[i]
  BY <1>1 DEF Parted
<1>3. /\ Len(c) \in Nat /\ Len(d) \in Nat /\ Len(s) = Len(c) + 1 + Len(d)
      /\ \A i \in 1..Len(c) : s[i] = c[i]
      /\ s[Len(c) + 1] = x
      /\ \A i \in 1..Len(d) : s[Len(c) + 1 + i] = d[i]
  BY <1>1 DEF Parted
<1>4. Len(a) = Len(c)
  <2>1. ~(Len(a) < Len(c))
    BY <1>2, <1>3 DEF Free
  <2>2. ~(Len(c) < Len(a))
    BY <1>2, <1>3 DEF Free
  <2>3. QED
    BY <1>2, <1>3, <2>1, <2>2
<1>5. QED
  BY <1>4, SameBehind

\* ... or the last.
LEMMA SameBeforeLast ==
    ASSUME NEW T, NEW x \in T, NEW a \in Seq(T), NEW b \in Seq(T), NEW c \in Seq(T), NEW d \in Seq(T),
           Free(b, x), Free(d, x), Spaced(a, <<x>>, b) = Spaced(c, <<x>>, d)
    PROVE  a = c /\ b = d
<1> DEFINE s == Spaced(a, <<x>>, b)
<1> HIDE DEF s
<1>1. Parted(s, a, x, b) /\ Parted(s, c, x, d)
  BY SpacedTokens DEF s
<1>2. /\ Len(a) \in Nat /\ Len(b) \in Nat /\ Len(s) = Len(a) + 1 + Len(b)
      /\ \A i \in 1..Len(a) : s[i] = a[i]
      /\ s[Len(a) + 1] = x
      /\ \A i \in 1..Len(b) : s[Len(a) + 1 + i] = b[i]
  BY <1>1 DEF Parted
<1>3. /\ Len(c) \in Nat /\ Len(d) \in Nat /\ Len(s) = Len(c) + 1 + Len(d)
      /\ \A i \in 1..Len(c) : s[i] = c[i]
      /\ s[Len(c) + 1] = x
      /\ \A i \in 1..Len(d) : s[Len(c) + 1 + i] = d[i]
  BY <1>1 DEF Parted
<1>4. Len(a) = Len(c)
  <2>1. ASSUME Len(a) < Len(c) PROVE FALSE
    <3> DEFINE i == Len(c) - Len(a)
    <3>1. i \in 1..Len(b) /\ Len(a) + 1 + i = Len(c) + 1
      BY <1>2, <1>3, <2>1
    <3>2. b[i] = x
      BY <1>2, <1>3, <3>1
    <3>3. QED
      BY <3>1, <3>2 DEF Free
  <2>2. ASSUME Len(c) < Len(a) PROVE FALSE
    <3> DEFINE i == Len(a) - Len(c)
    <3>1. i \in 1..Len(d) /\ Len(c) + 1 + i = Len(a) + 1
      BY <1>2, <1>3, <2>2
    <3>2. d[i] = x
      BY <1>2, <1>3, <3>1
    <3>3. QED
      BY <3>1, <3>2 DEF Free
  <2>3. QED
    BY <1>2, <1>3, <2>1, <2>2
<1>5. QED
  BY <1>4, SameBehind

\* A text with the mark is none without.
LEMMA MarkIsThere ==
    ASSUME NEW T, NEW x \in T, NEW a \in Seq(T), NEW b \in Seq(T)
    PROVE  ~Free(Spaced(a, <<x>>, b), x)
<1> DEFINE s == Spaced(a, <<x>>, b)
<1> HIDE DEF s
<1>1. Parted(s, a, x, b)
  BY SpacedTokens DEF s
<1>2. Len(a) \in Nat /\ Len(b) \in Nat /\ Len(s) = Len(a) + 1 + Len(b) /\ s[Len(a) + 1] = x
  BY <1>1 DEF Parted
<1>3. QED
  BY <1>2 DEF Free, s

LEMMA SpacedAssociative ==
    ASSUME NEW T, NEW sep \in Seq(T), NEW a \in Seq(T), NEW b \in Seq(T), NEW c \in Seq(T)
    PROVE  /\ Spaced(Spaced(a, sep, b), sep, c) = Spaced(a, sep, Spaced(b, sep, c))
           /\ Spaced(a, sep, b) \in Seq(T)
<1>1. ASSUME NEW p \in Seq(T), NEW q \in Seq(T)
      PROVE  Then(p, q) \in Seq(T)
  BY ThenTokens
<1>2. Then(Then(Then(Then(a, sep), b), sep), c) = Then(Then(Then(a, sep), Then(b, sep)), c)
  BY <1>1, ThenAssociative
<1>3. Then(Then(Then(a, sep), Then(b, sep)), c) = Then(Then(a, sep), Then(Then(b, sep), c))
  BY <1>1, ThenAssociative
<1>4. QED
  BY <1>1, <1>2, <1>3 DEF Spaced

\* What Joined makes of one item and the next.
InTurn(g, items, sep) ==
    /\ g[0] = items[1] /\ g[Len(items) - 1] = Joined(items, sep)
    /\ \A k \in 1..(Len(items) - 1) : g[k] = Spaced(g[k - 1], sep, items[k + 1])

LEMMA JoinedInTurn ==
    ASSUME NEW T, NEW sep \in Seq(T), NEW items \in Pieces(T)
    PROVE  \E g : InTurn(g, items, sep)
<1>1. PICK g : Joins(g, T, items, sep)
  BY JoinedSteps
<1> DEFINE S == Seq(T)
<1>2. items \in Seq(S) /\ items # << >>
  BY DEF Pieces
<1> HIDE DEF S
<1>3. /\ Len(Tail(items)) = Len(items) - 1 /\ Head(items) = items[1] /\ Len(items) \in Nat \ {0}
      /\ \A k \in 1..(Len(items) - 1) : Tail(items)[k] = items[k + 1]
  BY <1>2, HeadTailProperties
<1>4. g[0] = items[1] /\ g[Len(items) - 1] = Joined(items, sep)
  BY <1>1, <1>3 DEF Joins, PrefixValues
<1>5. \A k \in 1..(Len(items) - 1) : g[k] = Spaced(g[k - 1], sep, items[k + 1])
  BY <1>1, <1>3 DEF Joins, Spaced
<1>6. QED
  BY <1>4, <1>5 DEF InTurn

LEMMA JoinedOne ==
    ASSUME NEW T, NEW sep \in Seq(T), NEW v \in Seq(T)
    PROVE  Joined(<<v>>, sep) = v
<1> DEFINE S == Seq(T)
<1>1. v \in S
  OBVIOUS
<1>2. <<v>> \in Pieces(T)
  <2> HIDE DEF S
  <2>1. <<v>> \in Seq(S) /\ <<v>> # << >>
    BY <1>1
  <2>2. QED
    BY <2>1 DEF Pieces, S
<1> DEFINE items == <<v>>
<1>3. items \in Pieces(T) /\ Len(items) = 1 /\ items[1] = v
  BY <1>2
<1> HIDE DEF items
<1>4. PICK g : InTurn(g, items, sep)
  BY <1>3, JoinedInTurn
<1>5. QED
  BY <1>3, <1>4 DEF items, InTurn

LEMMA JoinedTwo ==
    ASSUME NEW T, NEW sep \in Seq(T), NEW v \in Seq(T), NEW a \in Seq(T)
    PROVE  Joined(<<v, a>>, sep) = Spaced(v, sep, a)
<1> DEFINE S == Seq(T)
<1>1. v \in S /\ a \in S
  OBVIOUS
<1>2. <<v, a>> \in Pieces(T)
  <2> HIDE DEF S
  <2>1. <<v, a>> \in Seq(S) /\ <<v, a>> # << >>
    BY <1>1
  <2>2. QED
    BY <2>1 DEF Pieces, S
<1> DEFINE items == <<v, a>>
<1>3. items \in Pieces(T) /\ Len(items) = 2 /\ items[1] = v /\ items[2] = a
  BY <1>2
<1> HIDE DEF items
<1>4. PICK g : InTurn(g, items, sep)
  BY <1>3, JoinedInTurn
<1>5. g[1] = Spaced(g[0], sep, items[2])
  <2>1. 1 \in 1..(Len(items) - 1) /\ 1 - 1 = 0 /\ 1 + 1 = 2
    BY <1>3
  <2>2. QED
    BY <1>4, <2>1 DEF InTurn
<1>6. QED
  BY <1>3, <1>4, <1>5 DEF items, InTurn

LEMMA JoinedThree ==
    ASSUME NEW T, NEW sep \in Seq(T), NEW v \in Seq(T), NEW a \in Seq(T), NEW b \in Seq(T)
    PROVE  Joined(<<v, a, b>>, sep) = Spaced(v, sep, Spaced(a, sep, b))
<1> DEFINE S == Seq(T)
<1>1. v \in S /\ a \in S /\ b \in S
  OBVIOUS
<1>2. <<v, a, b>> \in Pieces(T)
  <2> HIDE DEF S
  <2>1. <<v, a, b>> \in Seq(S) /\ <<v, a, b>> # << >>
    BY <1>1
  <2>2. QED
    BY <2>1 DEF Pieces, S
<1> DEFINE items == <<v, a, b>>
<1>3. items \in Pieces(T) /\ Len(items) = 3 /\ items[1] = v /\ items[2] = a /\ items[3] = b
  BY <1>2
<1> HIDE DEF items
<1>4. PICK g : InTurn(g, items, sep)
  BY <1>3, JoinedInTurn
<1>5. /\ g[1] = Spaced(g[0], sep, items[2])
      /\ g[2] = Spaced(g[1], sep, items[3])
  <2>1. 1 \in 1..(Len(items) - 1) /\ 1 - 1 = 0 /\ 1 + 1 = 2
    BY <1>3
  <2>2. 2 \in 1..(Len(items) - 1) /\ 2 - 1 = 1 /\ 2 + 1 = 3
    BY <1>3
  <2>3. QED
    BY <1>4, <2>1, <2>2 DEF InTurn
<1>6. Joined(items, sep) = Spaced(Spaced(v, sep, a), sep, b)
  BY <1>3, <1>4, <1>5 DEF items, InTurn
<1>7. Spaced(Spaced(v, sep, a), sep, b) = Spaced(v, sep, Spaced(a, sep, b))
  BY SpacedAssociative
<1>8. QED
  BY <1>6, <1>7 DEF items

LEMMA JoinedFour ==
    ASSUME NEW T, NEW sep \in Seq(T), NEW v \in Seq(T), NEW a \in Seq(T), NEW b \in Seq(T), NEW c \in Seq(T)
    PROVE  Joined(<<v, a, b, c>>, sep) = Spaced(v, sep, Spaced(a, sep, Spaced(b, sep, c)))
<1> DEFINE S == Seq(T)
<1>1. v \in S /\ a \in S /\ b \in S /\ c \in S
  OBVIOUS
<1>2. <<v, a, b, c>> \in Pieces(T)
  <2> HIDE DEF S
  <2>1. <<v, a, b, c>> \in Seq(S) /\ <<v, a, b, c>> # << >>
    BY <1>1
  <2>2. QED
    BY <2>1 DEF Pieces, S
<1> DEFINE items == <<v, a, b, c>>
<1>3. items \in Pieces(T) /\ Len(items) = 4 /\ items[1] = v /\ items[2] = a /\ items[3] = b /\ items[4] = c
  BY <1>2
<1> HIDE DEF items
<1>4. PICK g : InTurn(g, items, sep)
  BY <1>3, JoinedInTurn
<1>5. /\ g[1] = Spaced(g[0], sep, items[2])
      /\ g[2] = Spaced(g[1], sep, items[3])
      /\ g[3] = Spaced(g[2], sep, items[4])
  <2>1. 1 \in 1..(Len(items) - 1) /\ 1 - 1 = 0 /\ 1 + 1 = 2
    BY <1>3
  <2>2. 2 \in 1..(Len(items) - 1) /\ 2 - 1 = 1 /\ 2 + 1 = 3
    BY <1>3
  <2>3. 3 \in 1..(Len(items) - 1) /\ 3 - 1 = 2 /\ 3 + 1 = 4
    BY <1>3
  <2>4. QED
    BY <1>4, <2>1, <2>2, <2>3 DEF InTurn
<1>6. Joined(items, sep) = Spaced(Spaced(Spaced(v, sep, a), sep, b), sep, c)
  BY <1>3, <1>4, <1>5 DEF items, InTurn
<1>7. Spaced(Spaced(Spaced(v, sep, a), sep, b), sep, c) = Spaced(v, sep, Spaced(a, sep, Spaced(b, sep, c)))
  <2> DEFINE p == Spaced(v, sep, a)
             q == Spaced(b, sep, c)
  <2>1. p \in Seq(T) /\ q \in Seq(T)
    BY SpacedAssociative
  <2> HIDE DEF p, q
  <2>2. Spaced(Spaced(p, sep, b), sep, c) = Spaced(p, sep, q)
    BY <2>1, SpacedAssociative DEF q
  <2>3. Spaced(Spaced(v, sep, a), sep, q) = Spaced(v, sep, Spaced(a, sep, q))
    BY <2>1, SpacedAssociative
  <2>4. QED
    BY <2>2, <2>3 DEF p, q
<1>8. QED
  BY <1>6, <1>7 DEF items

-----------------------------------------------------------------------------
(***************************************************************************)
(* The line of a command.                                                  *)
(***************************************************************************)

\* The kinds that may have two fields, that always have two, and that have at least one.
TwoFields == {"Events", "Filter", "FilterDelete", "MyEvents", "UserAuth"}

\* How many fields a command of each kind has.
Shaped(c) ==
    /\ Len(c.fields) \in 0..2
    /\ Len(c.fields) = 2 => c.kind \in TwoFields
    /\ c.kind \in {"Events", "Filter", "UserAuth"} => Len(c.fields) = 2
    /\ c.kind \in {"FilterDelete", "MyEvents"} => Len(c.fields) # 0
    /\ c.kind = "SendEvent" => Len(c.fields) = 0

Said(c) == c.kind = "SendEvent" \/ Len(c.fields) # 0

\* The text behind the verb, of a command that says what it means.
Told(c) ==
    LET f == c.fields
    IN  CASE c.kind = "SendEvent" -> EventName(c.event)
          [] c.kind = "UserAuth" -> Spaced(f[1], COL, f[2])
          [] c.kind = "FilterDelete" ->
               Spaced(DEL, SP, IF Len(f) = 1 THEN f[1] ELSE Spaced(f[1], SP, f[2]))
          [] c.kind = "MyEvents" -> IF Len(f) = 1 THEN f[1] ELSE Spaced(f[2], SP, f[1])
          [] OTHER -> IF Len(f) = 1 THEN f[1] ELSE Spaced(f[1], SP, f[2])

LEMMA ArgumentsOf ==
    ASSUME NEW c
    PROVE  /\ c.kind = "SendEvent" => Arguments(c) = <<EventName(c.event)>>
           /\ c.kind = "UserAuth" => Arguments(c) = <<Spaced(c.fields[1], COL, c.fields[2])>>
           /\ c.kind = "MyEvents" => Arguments(c) = Reverse(c.fields)
           /\ c.kind \notin {"SendEvent", "UserAuth", "MyEvents", "FilterDelete"} => Arguments(c) = c.fields
  BY DEF Arguments, Spaced, Then, COL

\* One item before others.
Led(v, s) == <<v>> \o s

LedBy(S, r, v, s) ==
    /\ Len(r) = 1 + Len(s) /\ r \in Seq(S) /\ Len(s) \in Nat
    /\ r[1] = v /\ \A i \in 1..Len(s) : r[1 + i] = s[i]

LEMMA OneBefore ==
    ASSUME NEW S, NEW v \in S, NEW s \in Seq(S)
    PROVE  LedBy(S, Led(v, s), v, s)
<1> DEFINE one == <<v>>
           r == Then(one, s)
<1>1. one \in Seq(S) /\ s \in Seq(S) /\ Len(s) \in Nat /\ Len(one) = 1 /\ one[1] = v
  OBVIOUS
<1> HIDE DEF one
<1>2. r \in Seq(S)
  BY ONLY <1>1, ThenTokens
<1>3. Len(r) = Len(one) + Len(s)
  BY ONLY <1>1, ThenTokens
<1>4. \A i \in 1..(Len(one) + Len(s)) : r[i] = IF i <= Len(one) THEN one[i] ELSE s[i - Len(one)]
  BY ONLY <1>1, ThenTokens
<1>5. r = Led(v, s)
  BY DEF Then, Led, one
<1> HIDE DEF r
<1>6. r[1] = v /\ \A i \in 1..Len(s) : r[1 + i] = s[i]
  BY <1>1, <1>4
<1>7. QED
  BY <1>1, <1>2, <1>3, <1>5, <1>6 DEF LedBy

LEMMA LinePrefix ==
    ASSUME NEW v, NEW a, NEW b
    PROVE  /\ <<v>> \o << >> = <<v>> /\ <<v>> \o <<a>> = <<v, a>>
           /\ <<v>> \o <<a, b>> = <<v, a, b>>
<1> DEFINE S == {v, a, b}
           one == <<v>>
<1>1. v \in S /\ one \in Seq(S) /\ << >> \in Seq(S) /\ <<a>> \in Seq(S) /\ <<a, b>> \in Seq(S)
  OBVIOUS
<1> HIDE DEF S
<1>2. one \o << >> = <<v>>
  BY <1>1, ConcatEmptySeq
<1>3. one \o <<a>> = <<v, a>>
  <2> DEFINE s == <<a>>
             r == Led(v, s)
  <2>1. s \in Seq(S) /\ Len(s) = 1 /\ s[1] = a
    BY <1>1
  <2> HIDE DEF s
  <2>2. LedBy(S, r, v, s)
    BY <1>1, <2>1, OneBefore
  <2> HIDE DEF r
  <2>3. r = <<v, a>>
    BY <2>1, <2>2 DEF LedBy
  <2>4. QED
    BY <2>3 DEF r, s, Led
<1>4. one \o <<a, b>> = <<v, a, b>>
  <2> DEFINE s == <<a, b>>
             r == Led(v, s)
  <2>1. s \in Seq(S) /\ Len(s) = 2 /\ s[1] = a /\ s[2] = b
    BY <1>1
  <2> HIDE DEF s
  <2>2. LedBy(S, r, v, s)
    BY <1>1, <2>1, OneBefore
  <2> HIDE DEF r
  <2>3. Len(r) = 3 /\ r \in Seq(S) /\ r[1] = v /\ r[2] = a /\ r[3] = b
    <3>1. r[1 + 1] = s[1] /\ r[1 + 2] = s[2]
      BY <2>1, <2>2 DEF LedBy
    <3>2. QED
      BY <2>1, <2>2, <3>1 DEF LedBy
  <2>4. r = <<v, a, b>>
    BY <2>3
  <2>5. QED
    BY <2>4 DEF r, s, Led
<1>5. QED
  BY <1>2, <1>3, <1>4

LEMMA LongPrefix ==
    ASSUME NEW v, NEW a, NEW b, NEW c
    PROVE  <<v>> \o <<a, b, c>> = <<v, a, b, c>>
<1> DEFINE S == {v, a, b, c}
           s == <<a, b, c>>
           r == Led(v, s)
<1>1. v \in S /\ s \in Seq(S) /\ Len(s) = 3 /\ s[1] = a /\ s[2] = b /\ s[3] = c
  OBVIOUS
<1> HIDE DEF S, s
<1>2. LedBy(S, r, v, s)
  BY <1>1, OneBefore
<1> HIDE DEF r
<1>3. \A i \in 1..Len(s) : r[1 + i] = s[i]
  BY <1>2 DEF LedBy
<1>4. r[1 + 1] = a /\ r[1 + 2] = b /\ r[1 + 3] = c
  BY <1>1, <1>3
<1>5. r[1] = v /\ r[2] = a /\ r[3] = b /\ r[4] = c
  BY <1>2, <1>4 DEF LedBy
<1>6. r = [i \in 1..4 |-> r[i]]
  BY <1>1, <1>2 DEF LedBy
<1>7. r = <<v, a, b, c>>
  BY ONLY <1>5, <1>6
<1>8. QED
  BY <1>7 DEF r, s, Led

LEMMA DeleteArguments ==
    ASSUME NEW T, NEW c, c.kind = "FilterDelete", c.fields \in Seq(T), ~Ambiguous(c), Len(c.fields) \in {1, 2}
    PROVE  Arguments(c) = IF Len(c.fields) = 1 THEN <<DEL, c.fields[1]>> ELSE <<DEL, c.fields[1], c.fields[2]>>
<1> DEFINE f == c.fields
<1>1. f = IF Len(f) = 1 THEN <<f[1]>> ELSE <<f[1], f[2]>>
  OBVIOUS
<1>2. Head(f) = f[1]
  OBVIOUS
<1>3. Head(f) = <<"all">> => Len(f) = 1
  <2> DEFINE all == Head(f) = <<"all">>
  <2>1. ~(all /\ Len(f) > 1)
    BY Zenon DEF Ambiguous
  <2> HIDE DEF all
  <2>2. all => Len(f) = 1
    BY <2>1
  <2>3. QED
    BY <2>2 DEF all
<1>4. Arguments(c) = IF Head(f) = <<"all">> THEN <<DEL, <<"all">>>> ELSE <<DEL>> \o f
  BY DEF Arguments, DEL
<1>5. <<DEL>> \o f = IF Len(f) = 1 THEN <<DEL, f[1]>> ELSE <<DEL, f[1], f[2]>>
  <2> DEFINE a == f[1]
             b == f[2]
  <2>1. f = IF Len(f) = 1 THEN <<a>> ELSE <<a, b>>
    BY <1>1
  <2> HIDE DEF f, a, b
  <2>2. <<DEL>> \o <<a>> = <<DEL, a>> /\ <<DEL>> \o <<a, b>> = <<DEL, a, b>>
    BY LinePrefix
  <2>3. QED
    BY <2>1, <2>2 DEF a, b
<1>6. QED
  BY <1>2, <1>3, <1>4, <1>5

LEMMA ReversedFields ==
    ASSUME NEW T, NEW f \in Seq(T), Len(f) \in {1, 2}
    PROVE  Reverse(f) = IF Len(f) = 1 THEN <<f[1]>> ELSE <<f[2], f[1]>>
<1>1. Reverse(f) = [i \in 1..Len(f) |-> f[(Len(f) - i) + 1]]
  BY DEF Reverse
<1>2. CASE Len(f) = 1
  <2>1. Reverse(f) = <<f[1]>>
    BY <1>1, <1>2
  <2>2. QED
    BY <1>2, <2>1
<1>3. CASE Len(f) = 2
  <2>1. Reverse(f) = <<f[2], f[1]>>
    BY <1>1, <1>3
  <2>2. QED
    BY <1>3, <2>1
<1>4. QED
  BY <1>2, <1>3

LEMMA FieldsAre ==
    ASSUME NEW T, NEW f \in Seq(T), Len(f) \in 0..2
    PROVE  /\ Len(f) = 0 => f = << >>
           /\ Len(f) = 1 => f = <<f[1]>> /\ f[1] \in T /\ Head(f) = f[1]
           /\ Len(f) = 2 => f = <<f[1], f[2]>> /\ f[1] \in T /\ f[2] \in T /\ Head(f) = f[1]
  OBVIOUS

\* The line of a command that says what it means.
LineSaid(c) == IF Said(c) THEN Spaced(<<Verb[c.kind]>>, SP, Told(c)) ELSE <<Verb[c.kind]>>

WordMarks(T) == SP \in Seq(T) /\ COL \in Seq(T) /\ DEL \in Seq(T)

LEMMA LineIs ==
    ASSUME NEW T, WordMarks(T), NEW c, Verb[c.kind] \in T,
           c.fields \in Seq(Seq(T)), EventName(c.event) \in Seq(T), Shaped(c), ~Ambiguous(c)
    PROVE  Line(c) = LineSaid(c) /\ (Said(c) => Told(c) \in Seq(T))
<1> DEFINE S == Seq(T)
           f == c.fields
           v == <<Verb[c.kind]>>
           e == EventName(c.event)
           A == Arguments(c)
           J(args) == Joined(<<v>> \o args, SP)
<1>1. SP \in S /\ COL \in S /\ DEL \in S /\ v \in S
  BY OneToken DEF WordMarks
<1>2. f \in Seq(S) /\ e \in S
  OBVIOUS
<1>3. Line(c) = J(A)
  BY DEF Line, SP
<1>4. Len(f) \in 0..2
  BY DEF Shaped
<1> HIDE DEF S
<1>5. /\ Len(f) = 0 => f = << >>
      /\ Len(f) = 1 => f = <<f[1]>> /\ f[1] \in S
      /\ Len(f) = 2 => f = <<f[1], f[2]>> /\ f[1] \in S /\ f[2] \in S
  BY <1>2, <1>4, FieldsAre
<1> HIDE DEF v, e, A, f
<1>6. ASSUME NEW a \in S, NEW b \in S
      PROVE  Spaced(a, SP, b) \in S /\ Spaced(a, COL, b) \in S
  BY <1>1, SpacedAssociative DEF S
<1>7. /\ J(<< >>) = v
      /\ \A a \in S : J(<<a>>) = Spaced(v, SP, a)
      /\ \A a, b \in S : J(<<a, b>>) = Spaced(v, SP, Spaced(a, SP, b))
      /\ \A a, b, d \in S : J(<<a, b, d>>) = Spaced(v, SP, Spaced(a, SP, Spaced(b, SP, d)))
  <2>1. J(<< >>) = v
    <3>1. <<v>> \o << >> = <<v>>
      BY LinePrefix
    <3>2. Joined(<<v>>, SP) = v
      BY <1>1, JoinedOne DEF S
    <3>3. QED
      BY <3>1, <3>2
  <2>2. ASSUME NEW a \in S
        PROVE  J(<<a>>) = Spaced(v, SP, a)
    <3>1. <<v>> \o <<a>> = <<v, a>>
      BY LinePrefix
    <3>2. Joined(<<v, a>>, SP) = Spaced(v, SP, a)
      BY <1>1, JoinedTwo DEF S
    <3>3. QED
      BY <3>1, <3>2
  <2>3. ASSUME NEW a \in S, NEW b \in S
        PROVE  J(<<a, b>>) = Spaced(v, SP, Spaced(a, SP, b))
    <3>1. <<v>> \o <<a, b>> = <<v, a, b>>
      BY LinePrefix
    <3>2. Joined(<<v, a, b>>, SP) = Spaced(v, SP, Spaced(a, SP, b))
      BY <1>1, JoinedThree DEF S
    <3>3. QED
      BY <3>1, <3>2
  <2>4. ASSUME NEW a \in S, NEW b \in S, NEW d \in S
        PROVE  J(<<a, b, d>>) = Spaced(v, SP, Spaced(a, SP, Spaced(b, SP, d)))
    <3>1. <<v>> \o <<a, b, d>> = <<v, a, b, d>>
      BY LongPrefix
    <3>2. Joined(<<v, a, b, d>>, SP) = Spaced(v, SP, Spaced(a, SP, Spaced(b, SP, d)))
      BY <1>1, JoinedFour DEF S
    <3>3. QED
      BY <3>1, <3>2
  <2> HIDE DEF J
  <2>5. QED
    BY <2>1, <2>2, <2>3, <2>4
<1> HIDE DEF J
<1> DEFINE Good == J(A) = (IF Said(c) THEN Spaced(v, SP, Told(c)) ELSE v) /\ (Said(c) => Told(c) \in S)
<1>8. CASE c.kind = "SendEvent"
  <2>1. A = <<e>> /\ Said(c) /\ Told(c) = e
    BY <1>8, ArgumentsOf DEF Said, Told, A, e
  <2>2. Good
    BY <1>2, <1>7, <2>1 DEF e
  <2>3. QED
    BY <1>3, <2>2 DEF LineSaid, v, S
<1>9. CASE c.kind = "UserAuth"
  <2> DEFINE t == Spaced(f[1], COL, f[2])
  <2>1. Len(f) = 2
    BY <1>9 DEF Shaped, f
  <2>2. A = <<t>> /\ Said(c) /\ Told(c) = t
    BY <1>9, <2>1, ArgumentsOf DEF Said, Told, A, f
  <2>3. t \in S
    BY <1>5, <1>6, <2>1
  <2> HIDE DEF t
  <2>4. Good
    BY <1>7, <2>2, <2>3
  <2>5. QED
    BY <1>3, <2>4 DEF LineSaid, v, S
<1>10. CASE c.kind = "MyEvents"
  <2>1. Len(f) \in {1, 2} /\ Said(c)
    BY <1>4, <1>10 DEF Shaped, f, Said
  <2>2. A = Reverse(f)
    BY <1>10, ArgumentsOf DEF A, f
  <2>3. Told(c) = IF Len(f) = 1 THEN f[1] ELSE Spaced(f[2], SP, f[1])
    BY <1>10 DEF Told, f
  <2>4. A = IF Len(f) = 1 THEN <<f[1]>> ELSE <<f[2], f[1]>>
    BY <1>2, <2>1, <2>2, ReversedFields DEF f
  <2>5. CASE Len(f) = 1
    <3>1. Good
      BY <1>5, <1>7, <2>1, <2>3, <2>4, <2>5
    <3>2. QED
      BY <1>3, <3>1 DEF LineSaid, v, S
  <2>6. CASE Len(f) = 2
    <3>1. A = <<f[2], f[1]>> /\ Told(c) = Spaced(f[2], SP, f[1]) /\ f[1] \in S /\ f[2] \in S
      BY <1>5, <2>3, <2>4, <2>6
    <3>2. Good
      BY <1>6, <1>7, <2>1, <3>1
    <3>3. QED
      BY <1>3, <3>2 DEF LineSaid, v, S
  <2>7. QED
    BY <2>1, <2>5, <2>6
<1>11. CASE c.kind = "FilterDelete"
  <2>1. Len(f) \in {1, 2} /\ Said(c)
    BY <1>4, <1>11 DEF Shaped, f, Said
  <2>2. A = IF Len(f) = 1 THEN <<DEL, f[1]>> ELSE <<DEL, f[1], f[2]>>
    BY <1>2, <1>11, <2>1, DeleteArguments DEF A, f
  <2>3. Told(c) = Spaced(DEL, SP, IF Len(f) = 1 THEN f[1] ELSE Spaced(f[1], SP, f[2]))
    BY <1>11 DEF Told, f
  <2>4. CASE Len(f) = 1
    <3>1. A = <<DEL, f[1]>> /\ Told(c) = Spaced(DEL, SP, f[1]) /\ f[1] \in S
      BY <1>5, <2>2, <2>3, <2>4
    <3>2. Good
      BY <1>1, <1>6, <1>7, <2>1, <3>1
    <3>3. QED
      BY <1>3, <3>2 DEF LineSaid, v, S
  <2>5. CASE Len(f) = 2
    <3>1. A = <<DEL, f[1], f[2]>> /\ Told(c) = Spaced(DEL, SP, Spaced(f[1], SP, f[2])) /\ f[1] \in S /\ f[2] \in S
      BY <1>5, <2>2, <2>3, <2>5
    <3>2. Good
      BY <1>1, <1>6, <1>7, <2>1, <3>1
    <3>3. QED
      BY <1>3, <3>2 DEF LineSaid, v, S
  <2>6. QED
    BY <2>1, <2>4, <2>5
<1>12. CASE c.kind \notin {"SendEvent", "UserAuth", "MyEvents", "FilterDelete"}
  <2>1. A = f
    BY <1>12, ArgumentsOf DEF A, f
  <2>2. Told(c) = IF Len(f) = 1 THEN f[1] ELSE Spaced(f[1], SP, f[2])
    BY <1>12 DEF Told, f
  <2>3. Said(c) <=> Len(f) # 0
    BY <1>12 DEF Said, f
  <2>4. CASE Len(f) = 0
    <3>1. Good
      BY <1>5, <1>7, <2>1, <2>3, <2>4
    <3>2. QED
      BY <1>3, <3>1 DEF LineSaid, v, S
  <2>5. CASE Len(f) = 1
    <3>1. A = <<f[1]>> /\ Told(c) = f[1] /\ f[1] \in S /\ Said(c)
      BY <1>5, <2>1, <2>2, <2>3, <2>5
    <3>2. Good
      BY <1>7, <3>1
    <3>3. QED
      BY <1>3, <3>2 DEF LineSaid, v, S
  <2>6. CASE Len(f) = 2
    <3>1. A = <<f[1], f[2]>> /\ Told(c) = Spaced(f[1], SP, f[2]) /\ f[1] \in S /\ f[2] \in S /\ Said(c)
      BY <1>5, <2>1, <2>2, <2>3, <2>6
    <3>2. Good
      BY <1>6, <1>7, <3>1
    <3>3. QED
      BY <1>3, <3>2 DEF LineSaid, v, S
  <2>7. QED
    BY <1>4, <2>4, <2>5, <2>6
<1>13. QED
  BY <1>8, <1>9, <1>10, <1>11, <1>12

\* Only filter is a verb of two kinds.
Deletes == {"Filter", "FilterDelete"}

LEMMA VerbsDiffer ==
    ASSUME NEW j \in DOMAIN Verb, NEW k \in DOMAIN Verb, Verb[j] = Verb[k]
    PROVE  j = k \/ (j \in Deletes /\ k \in Deletes)
  BY SMTT(60) DEF Verb, Deletes

ColonMark == ":"

LineMarks(T) == Space \in T /\ ColonMark \in T /\ DEL \in Seq(T)

LEMMA MarksAre ==
    ASSUME NEW T, LineMarks(T)
    PROVE  WordMarks(T) /\ SP = <<Space>> /\ COL = <<ColonMark>>
<1>1. SP = <<Space>> /\ COL = <<ColonMark>>
  BY Zenon DEF SP, COL, Space, ColonMark
<1>2. SP \in Seq(T) /\ COL \in Seq(T)
  BY <1>1, OneToken DEF LineMarks
<1>3. QED
  BY <1>1, <1>2 DEF LineMarks, WordMarks

Splits == {"Events", "Filter", "FilterDelete", "MyEvents"}

\* What is not ambiguous.
Clear(c) ==
    /\ c.kind \in Splits => Free(Head(c.fields), Space)
    /\ c.kind = "UserAuth" => Free(Head(c.fields), ColonMark)
    /\ c.kind = "Filter" => Head(c.fields) # DEL

LEMMA ClearIs ==
    ASSUME NEW c, ~Ambiguous(c)
    PROVE  Clear(c)
<1>1. c.kind \in Splits => ~Contains(Head(c.fields), Space)
  BY Zenon DEF Ambiguous, Splits, Space
<1>2. c.kind = "UserAuth" => ~Contains(Head(c.fields), ColonMark)
  BY Zenon DEF Ambiguous, ColonMark
<1>3. c.kind = "Filter" => Head(c.fields) # DEL
  BY Zenon DEF Ambiguous, DEL
<1>4. ASSUME NEW s, NEW x, ~Contains(s, x)
      PROVE  Free(s, x)
  BY <1>4, Zenon DEF Contains, Free
<1>5. QED
  BY <1>1, <1>2, <1>3, <1>4 DEF Clear

\* Two commands that say the same are of the same kind.
LEMMA SameKind ==
    ASSUME NEW T, LineMarks(T), NEW k \in T, NEW l \in T, NEW a \in Seq(T), NEW b \in Seq(T)
    PROVE  /\ Spaced(<<k>>, SP, a) = Spaced(<<l>>, SP, b) => k = l /\ a = b
           /\ Spaced(<<k>>, SP, a) # <<l>>
           /\ <<k>> = <<l>> => k = l
<1> DEFINE v == <<k>>
           w == <<l>>
<1>1. v \in Seq(T) /\ Len(v) = 1 /\ v[1] = k /\ w \in Seq(T) /\ Len(w) = 1 /\ w[1] = l
  OBVIOUS
<1> HIDE DEF v, w
<1>2. SP = <<Space>> /\ Space \in T
  BY MarksAre DEF LineMarks
<1>3. ASSUME Spaced(v, SP, a) = Spaced(w, SP, b)
      PROVE  v = w /\ a = b
  BY <1>1, <1>2, <1>3, SameBehind
<1>4. Len(Spaced(v, SP, a)) = 1 + 1 + Len(a) /\ Len(a) \in Nat
  <2>1. Parted(Spaced(v, SP, a), v, Space, a)
    BY <1>1, <1>2, SpacedTokens
  <2>2. QED
    BY <1>1, <2>1 DEF Parted
<1>5. Spaced(v, SP, a) # w
  <2> DEFINE s == Spaced(v, SP, a)
  <2>1. Len(s) # 1 /\ Len(w) = 1
    BY <1>1, <1>4
  <2> HIDE DEF s
  <2>2. s # w
    BY ONLY <2>1
  <2>3. QED
    BY <2>2 DEF s
<1>6. v = w => k = l
  BY <1>1
<1>7. QED
  BY <1>3, <1>5, <1>6 DEF v, w

\* The first part is the same if it has no blank, and so is the other.
LEMMA SameParts ==
    ASSUME NEW T, LineMarks(T), NEW a \in Seq(T), NEW b \in Seq(T), NEW c \in Seq(T), NEW d \in Seq(T)
    PROVE  /\ Free(a, Space) /\ Free(c, Space) /\ Spaced(a, SP, b) = Spaced(c, SP, d) => a = c /\ b = d
           /\ Free(b, Space) /\ Free(d, Space) /\ Spaced(a, SP, b) = Spaced(c, SP, d) => a = c /\ b = d
           /\ Free(a, ColonMark) /\ Free(c, ColonMark) /\ Spaced(a, COL, b) = Spaced(c, COL, d) => a = c /\ b = d
           /\ Free(c, Space) => Spaced(a, SP, b) # c
           /\ Len(a) = Len(c) /\ Spaced(a, SP, b) = Spaced(c, SP, d) => a = c /\ b = d
<1>1. SP = <<Space>> /\ Space \in T /\ COL = <<ColonMark>> /\ ColonMark \in T
  BY MarksAre DEF LineMarks
<1>2. Free(a, Space) /\ Free(c, Space) /\ Spaced(a, SP, b) = Spaced(c, SP, d) => a = c /\ b = d
  BY <1>1, SameBehindFirst
<1>3. Free(b, Space) /\ Free(d, Space) /\ Spaced(a, SP, b) = Spaced(c, SP, d) => a = c /\ b = d
  BY <1>1, SameBeforeLast
<1>4. Free(a, ColonMark) /\ Free(c, ColonMark) /\ Spaced(a, COL, b) = Spaced(c, COL, d) => a = c /\ b = d
  BY <1>1, SameBehindFirst
<1>5. ~Free(Spaced(a, SP, b), Space)
  BY <1>1, MarkIsThere
<1>6. Len(a) = Len(c) /\ Spaced(a, SP, b) = Spaced(c, SP, d) => a = c /\ b = d
  BY <1>1, SameBehind
<1>7. QED
  BY <1>2, <1>3, <1>4, <1>5, <1>6

\* One field, or two with a blank between them.
OneOrTwo(f) == IF Len(f) = 1 THEN f[1] ELSE Spaced(f[1], SP, f[2])

TwoOrOne(f) == IF Len(f) = 1 THEN f[1] ELSE Spaced(f[2], SP, f[1])

Apart(S, a, b, p, q) ==
    /\ Free(a, Space) /\ Free(p, Space) /\ Spaced(a, SP, b) = Spaced(p, SP, q) => a = p /\ b = q
    /\ Free(b, Space) /\ Free(q, Space) /\ Spaced(a, SP, b) = Spaced(p, SP, q) => a = p /\ b = q
    /\ Free(p, Space) => Spaced(a, SP, b) # p

\* The fields are told from the text if the first has no blank.
LEMMA SamePairs ==
    ASSUME NEW T, LineMarks(T), NEW f \in Seq(Seq(T)), NEW g \in Seq(Seq(T)),
           Len(f) \in {1, 2}, Len(g) \in {1, 2}, Free(f[1], Space), Free(g[1], Space)
    PROVE  /\ OneOrTwo(f) = OneOrTwo(g) => f = g
           /\ TwoOrOne(f) = TwoOrOne(g) => f = g
<1> DEFINE S == Seq(T)
<1>1. /\ f[1] \in S /\ (Len(f) = 2 => f[2] \in S)
      /\ g[1] \in S /\ (Len(g) = 2 => g[2] \in S)
  OBVIOUS
<1>2. /\ Len(f) = 1 => f = <<f[1]>>
      /\ Len(f) = 2 => f = <<f[1], f[2]>>
      /\ Len(g) = 1 => g = <<g[1]>>
      /\ Len(g) = 2 => g = <<g[1], g[2]>>
  OBVIOUS
<1>3. ASSUME NEW a \in S, NEW b \in S, NEW p \in S, NEW q \in S
      PROVE  Apart(S, a, b, p, q)
  BY <1>3, SameParts DEF Apart
<1> HIDE DEF S
<1>4. CASE Len(f) = 1 /\ Len(g) = 1
  <2>1. OneOrTwo(f) = f[1] /\ OneOrTwo(g) = g[1] /\ TwoOrOne(f) = f[1] /\ TwoOrOne(g) = g[1]
    BY <1>4 DEF OneOrTwo, TwoOrOne
  <2>2. f[1] = g[1] => f = g
    BY <1>2, <1>4
  <2>3. QED
    BY <2>1, <2>2
<1>5. CASE Len(f) = 2 /\ Len(g) = 1
  <2>1. OneOrTwo(f) = Spaced(f[1], SP, f[2]) /\ OneOrTwo(g) = g[1]
        /\ TwoOrOne(f) = Spaced(f[2], SP, f[1]) /\ TwoOrOne(g) = g[1]
    BY <1>5 DEF OneOrTwo, TwoOrOne
  <2>2. Spaced(f[1], SP, f[2]) # g[1] /\ Spaced(f[2], SP, f[1]) # g[1]
    BY <1>1, <1>3, <1>5 DEF Apart
  <2>3. QED
    BY <2>1, <2>2
<1>6. CASE Len(f) = 1 /\ Len(g) = 2
  <2>1. OneOrTwo(g) = Spaced(g[1], SP, g[2]) /\ OneOrTwo(f) = f[1]
        /\ TwoOrOne(g) = Spaced(g[2], SP, g[1]) /\ TwoOrOne(f) = f[1]
    BY <1>6 DEF OneOrTwo, TwoOrOne
  <2>2. Spaced(g[1], SP, g[2]) # f[1] /\ Spaced(g[2], SP, g[1]) # f[1]
    BY <1>1, <1>3, <1>6 DEF Apart
  <2>3. QED
    BY <2>1, <2>2
<1>7. CASE Len(f) = 2 /\ Len(g) = 2
  <2>1. OneOrTwo(g) = Spaced(g[1], SP, g[2]) /\ OneOrTwo(f) = Spaced(f[1], SP, f[2])
        /\ TwoOrOne(g) = Spaced(g[2], SP, g[1]) /\ TwoOrOne(f) = Spaced(f[2], SP, f[1])
    BY <1>7 DEF OneOrTwo, TwoOrOne
  <2>2. Apart(S, f[1], f[2], g[1], g[2]) /\ Apart(S, f[2], f[1], g[2], g[1])
    BY <1>1, <1>3, <1>7
  <2>3. /\ Spaced(f[1], SP, f[2]) = Spaced(g[1], SP, g[2]) => f[1] = g[1] /\ f[2] = g[2]
        /\ Spaced(f[2], SP, f[1]) = Spaced(g[2], SP, g[1]) => f[1] = g[1] /\ f[2] = g[2]
    BY <2>2 DEF Apart
  <2>4. f[1] = g[1] /\ f[2] = g[2] => f = g
    BY <1>2, <1>7
  <2>5. QED
    BY <2>1, <2>3, <2>4
<1>8. QED
  BY <1>4, <1>5, <1>6, <1>7

SameTold(c, d) == (Said(c) <=> Said(d)) /\ (Said(c) => Told(c) = Told(d))

\* What follows the verb tells the fields, for commands of the same kind.
LEMMA SameFields ==
    ASSUME NEW T, LineMarks(T), NEW c, NEW d, c.kind = d.kind,
           c.fields \in Seq(Seq(T)), d.fields \in Seq(Seq(T)), Shaped(c), Shaped(d), Clear(c), Clear(d),
           SameTold(c, d)
    PROVE  c.fields = d.fields
<1> DEFINE S == Seq(T)
           f == c.fields
           g == d.fields
<1>1. f \in Seq(S) /\ g \in Seq(S) /\ Len(f) \in 0..2 /\ Len(g) \in 0..2
  BY DEF Shaped
<1>2. Len(f) = 0 <=> Len(g) = 0
  BY DEF Shaped, SameTold, Said
<1>3. CASE Len(f) = 0
  BY <1>1, <1>2, <1>3
<1>4. CASE Len(f) # 0
  <2>1. Len(f) \in {1, 2} /\ Len(g) \in {1, 2}
    BY <1>1, <1>2, <1>4
  <2>2. Head(f) = f[1] /\ Head(g) = g[1]
    BY <1>1, <2>1
  <2>3. c.kind # "SendEvent" /\ Told(c) = Told(d)
    BY <1>2, <1>4 DEF Shaped, SameTold, Said
  <2>4. CASE c.kind = "UserAuth"
    <3>1. Len(f) = 2 /\ Len(g) = 2
      BY <2>4 DEF Shaped
    <3>2. Spaced(f[1], COL, f[2]) = Spaced(g[1], COL, g[2])
      BY <2>3, <2>4 DEF Told
    <3>3. Free(f[1], ColonMark) /\ Free(g[1], ColonMark)
      BY <2>2, <2>4 DEF Clear
    <3>4. f[1] \in S /\ f[2] \in S /\ g[1] \in S /\ g[2] \in S
      BY <1>1, <3>1
    <3>5. f[1] = g[1] /\ f[2] = g[2]
      <4> DEFINE a == f[1]
                 b == f[2]
                 p == g[1]
                 q == g[2]
      <4>1. /\ a \in S /\ b \in S /\ p \in S /\ q \in S
            /\ Spaced(a, COL, b) = Spaced(p, COL, q) /\ Free(a, ColonMark) /\ Free(p, ColonMark)
        BY <3>2, <3>3, <3>4
      <4> HIDE DEF a, b, p, q
      <4>2. a = p /\ b = q
        BY <4>1, SameParts
      <4>3. QED
        BY <4>2 DEF a, b, p, q
    <3>6. f = <<f[1], f[2]>> /\ g = <<g[1], g[2]>>
      BY <1>1, <3>1
    <3>7. QED
      BY <3>5, <3>6
  <2>5. CASE c.kind \in {"FilterDelete", "MyEvents"}
    <3>1. Free(f[1], Space) /\ Free(g[1], Space)
      BY <2>2, <2>5 DEF Clear, Splits
    <3> DEFINE p == OneOrTwo(f)
               q == OneOrTwo(g)
    <3>2. CASE c.kind = "FilterDelete"
      <4>1. Spaced(DEL, SP, p) = Spaced(DEL, SP, q)
        BY <2>3, <3>2 DEF Told, OneOrTwo
      <4>2. p \in S /\ q \in S /\ DEL \in S
        <5>1. SP \in S /\ DEL \in S
          BY MarksAre DEF WordMarks
        <5>2. f[1] \in S /\ (Len(f) = 2 => Spaced(f[1], SP, f[2]) \in S)
          BY <1>1, <2>1, <5>1, SpacedAssociative
        <5>3. g[1] \in S /\ (Len(g) = 2 => Spaced(g[1], SP, g[2]) \in S)
          BY <1>1, <2>1, <5>1, SpacedAssociative
        <5>4. QED
          BY <2>1, <5>1, <5>2, <5>3 DEF OneOrTwo
      <4> HIDE DEF p, q
      <4>3. p = q
        BY <4>1, <4>2, SameParts
      <4>4. QED
        BY <1>1, <2>1, <3>1, <4>3, SamePairs DEF p, q
    <3>3. CASE c.kind = "MyEvents"
      <4>1. TwoOrOne(f) = TwoOrOne(g)
        BY <2>3, <3>3 DEF Told, TwoOrOne
      <4>2. QED
        BY <1>1, <2>1, <3>1, <4>1, SamePairs
    <3>4. QED
      BY <2>5, <3>2, <3>3
  <2>6. CASE c.kind \notin {"SendEvent", "UserAuth", "FilterDelete", "MyEvents"}
    <3>1. OneOrTwo(f) = OneOrTwo(g)
      BY <2>3, <2>6 DEF Told, OneOrTwo
    <3>2. CASE c.kind \in {"Events", "Filter"}
      <4>1. Free(f[1], Space) /\ Free(g[1], Space)
        BY <2>2, <3>2 DEF Clear, Splits
      <4>2. QED
        BY <1>1, <2>1, <3>1, <4>1, SamePairs
    <3>3. CASE c.kind \notin {"Events", "Filter"}
      <4>1. Len(f) # 2 /\ Len(g) # 2
        BY <2>6, <3>3 DEF Shaped, TwoFields
      <4>2. f = <<f[1]>> /\ g = <<g[1]>>
        BY <1>1, <2>1, <4>1
      <4>3. f[1] = g[1]
        BY <2>1, <3>1, <4>1 DEF OneOrTwo
      <4>4. QED
        BY <4>2, <4>3
    <3>4. QED
      BY <3>2, <3>3
  <2>7. QED
    BY <2>3, <2>4, <2>5, <2>6
<1>5. QED
  BY <1>3, <1>4

\* What a command may be: its fields and verb are of tokens T.
Wellmade(T, c) ==
    /\ Verb[c.kind] \in T /\ c.kind \in DOMAIN Verb
    /\ c.fields \in Seq(Seq(T)) /\ EventName(c.event) \in Seq(T) /\ Shaped(c)

LEMMA DelFree ==
    Free(DEL, Space)
<1>1. "delete" # " "
  OBVIOUS
<1>2. DEL = <<"delete">> /\ Space = " "
  BY DEF DEL, Space
<1> DEFINE w == "delete"
<1>3. DEL = <<w>> /\ w # Space
  BY ONLY <1>1, <1>2
<1> HIDE DEF w
<1>4. QED
  BY ONLY <1>3 DEF Free

\* A line says one kind of command, with its fields.
LEMMA SameLine ==
    ASSUME NEW T, LineMarks(T), NEW c, NEW d, Wellmade(T, c), Wellmade(T, d),
           ~Ambiguous(c), ~Ambiguous(d), Line(c) = Line(d)
    PROVE  c.kind = d.kind /\ c.fields = d.fields
<1> DEFINE k == Verb[c.kind]
           l == Verb[d.kind]
<1>1. WordMarks(T) /\ Clear(c) /\ Clear(d)
  BY MarksAre, ClearIs
<1>2. Line(c) = LineSaid(c) /\ (Said(c) => Told(c) \in Seq(T))
  BY <1>1, LineIs DEF Wellmade
<1>3. Line(d) = LineSaid(d) /\ (Said(d) => Told(d) \in Seq(T))
  BY <1>1, LineIs DEF Wellmade
<1>4. /\ Said(c) => LineSaid(c) = Spaced(<<k>>, SP, Told(c))
      /\ Said(d) => LineSaid(d) = Spaced(<<l>>, SP, Told(d))
      /\ ~Said(c) => LineSaid(c) = <<k>>
      /\ ~Said(d) => LineSaid(d) = <<l>>
  BY DEF LineSaid
<1>5. k \in T /\ l \in T
  BY DEF Wellmade
<1> HIDE DEF k, l
<1>6. ASSUME NEW a \in Seq(T), NEW b \in Seq(T)
      PROVE  /\ Spaced(<<k>>, SP, a) = Spaced(<<l>>, SP, b) => k = l /\ a = b
             /\ Spaced(<<k>>, SP, a) # <<l>>
             /\ Spaced(<<l>>, SP, b) # <<k>>
             /\ <<k>> = <<l>> => k = l
  BY <1>5, SameKind
<1>7. << >> \in Seq(T)
  OBVIOUS
<1>8. k = l /\ SameTold(c, d)
  <2>1. CASE Said(c) /\ Said(d)
    BY <1>2, <1>3, <1>4, <1>6, <2>1 DEF SameTold
  <2>2. CASE Said(c) /\ ~Said(d)
    BY <1>2, <1>3, <1>4, <1>6, <1>7, <2>2
  <2>3. CASE ~Said(c) /\ Said(d)
    BY <1>2, <1>3, <1>4, <1>6, <1>7, <2>3
  <2>4. CASE ~Said(c) /\ ~Said(d)
    BY <1>2, <1>3, <1>4, <1>6, <1>7, <2>4 DEF SameTold
  <2>5. QED
    BY <2>1, <2>2, <2>3, <2>4
<1>9. c.kind = d.kind \/ (c.kind \in Deletes /\ d.kind \in Deletes)
  BY <1>8, VerbsDiffer DEF Wellmade, k, l
<1>10. ASSUME NEW x, NEW y, Wellmade(T, x), Wellmade(T, y), Clear(x), Clear(y),
              x.kind = "Filter", y.kind = "FilterDelete"
       PROVE  ~SameTold(x, y)
  <2> DEFINE f == x.fields
             g == y.fields
  <2>1. Len(f) = 2 /\ Len(g) \in {1, 2} /\ f \in Seq(Seq(T)) /\ g \in Seq(Seq(T))
    BY <1>10 DEF Wellmade, Shaped
  <2>2. Said(x) /\ Told(x) = Spaced(f[1], SP, f[2])
    BY <1>10, <2>1 DEF Said, Told
  <2>3. Told(y) = Spaced(DEL, SP, OneOrTwo(g))
    BY <1>10 DEF Told, OneOrTwo
  <2>4. Head(f) = f[1] /\ f[1] \in Seq(T) /\ f[2] \in Seq(T)
    BY <2>1
  <2>5. f[1] # DEL /\ Free(f[1], Space)
    BY <1>10, <2>4 DEF Clear, Splits
  <2>6. SP \in Seq(T) /\ DEL \in Seq(T)
    BY <1>1 DEF WordMarks
  <2>7. OneOrTwo(g) \in Seq(T)
    <3>1. g[1] \in Seq(T) /\ (Len(g) = 2 => g[2] \in Seq(T))
      BY <2>1
    <3>2. Len(g) = 2 => Spaced(g[1], SP, g[2]) \in Seq(T)
      BY <2>6, <3>1, SpacedAssociative
    <3>3. QED
      BY <2>1, <3>1, <3>2 DEF OneOrTwo
  <2>8. Free(DEL, Space)
    BY DelFree
  <2> DEFINE a == f[1]
             b == f[2]
             q == OneOrTwo(g)
  <2>9. a \in Seq(T) /\ b \in Seq(T) /\ q \in Seq(T) /\ Free(a, Space) /\ a # DEL
    BY <2>4, <2>5, <2>7
  <2> HIDE DEF a, b, q
  <2>10. Spaced(a, SP, b) # Spaced(DEL, SP, q)
    BY <2>6, <2>8, <2>9, SameParts
  <2>11. QED
    BY <2>2, <2>3, <2>10 DEF SameTold, a, b, q
<1>11. SameTold(d, c)
  BY <1>8 DEF SameTold
<1>12. c.kind = d.kind
  BY <1>1, <1>8, <1>9, <1>10, <1>11 DEF Deletes
<1>13. c.fields = d.fields
  BY <1>1, <1>8, <1>12, SameFields DEF Wellmade
<1>14. QED
  BY <1>12, <1>13

-----------------------------------------------------------------------------
(***************************************************************************)
(* The bytes of a command.                                                 *)
(***************************************************************************)

\* Behind texts of the same length, the same.
LEMMA SameTail ==
    ASSUME NEW T, NEW a \in Seq(T), NEW b \in Seq(T), Len(a) = Len(b),
           NEW x \in Seq(T), NEW y \in Seq(T), Then(a, x) = Then(b, y)
    PROVE  x = y
<1> DEFINE w == Then(a, x)
           v == Then(b, y)
           n == Len(a)
           k == Len(b)
<1>1. Len(w) = n + Len(x) /\ Len(v) = k + Len(y)
  BY ThenTokens
<1>2. /\ \A i \in 1..(n + Len(x)) : w[i] = IF i <= n THEN a[i] ELSE x[i - n]
      /\ \A i \in 1..(k + Len(y)) : v[i] = IF i <= k THEN b[i] ELSE y[i - k]
  BY ThenTokens
<1>3. n \in Nat /\ Len(x) \in Nat /\ Len(y) \in Nat /\ n = k /\ w = v
  OBVIOUS
<1> HIDE DEF w, v, n, k
<1>4. Len(x) = Len(y)
  BY <1>1, <1>3
<1>5. ASSUME NEW i \in 1..Len(x)
      PROVE  x[i] = y[i]
  <2> DEFINE p == n + i
  <2>1. p \in 1..(n + Len(x)) /\ p \in 1..(k + Len(y)) /\ ~(p <= n) /\ ~(p <= k) /\ p - n = i /\ p - k = i
    BY <1>3, <1>4
  <2> HIDE DEF p
  <2>2. w[p] = x[i] /\ v[p] = y[i]
    BY <1>2, <2>1
  <2>3. QED
    BY <1>3, <2>2
<1>6. QED
  BY <1>4, <1>5, SameTokens

LEMMA SameRest ==
    ASSUME NEW T, LineEnd \in T, NEW a \in Seq(T), NEW b \in Seq(T), Len(a) = Len(b),
           NEW x \in Seq(T), NEW y \in Seq(T), Whole(a, x) = Whole(b, y)
    PROVE  x = y
<1> DEFINE r == Ended(a)
           s == Ended(b)
<1>1. r \in Seq(T) /\ s \in Seq(T) /\ Len(r) = Len(s)
  BY DEF Ended
<1>2. Then(r, x) = Then(s, y)
  BY DEF Whole
<1> HIDE DEF r, s
<1>3. QED
  BY <1>1, <1>2, SameTail

\* The lines of a text and what is behind them.
LEMMA SameLayout ==
    ASSUME NEW T, LineEnd \in T, NEW a, NEW k, Shows(T, a, k), a # << >>, NEW x \in Seq(T),
           NEW b, NEW l, Shows(T, b, l), b # << >>, NEW y \in Seq(T), Whole(a, x) = Whole(b, y)
    PROVE  k = l /\ x = y
<1>1. BlankLine(Whole(a, x)) = Len(a) /\ LinesTo(Whole(a, x), Len(a)) = k
  BY LinesTaken
<1>2. BlankLine(Whole(b, y)) = Len(b) /\ LinesTo(Whole(b, y), Len(b)) = l
  BY LinesTaken
<1>3. Len(a) = Len(b) /\ k = l
  BY <1>1, <1>2
<1>4. a \in Seq(T) /\ b \in Seq(T)
  BY DEF Shows, Laid
<1>5. x = y
  BY <1>3, <1>4, SameRest
<1>6. QED
  BY <1>3, <1>5

NoLength(c) ==
    ~ (/\ c.event.body = << >> /\ CL \in DOMAIN c.event.headers
       /\ c.event.headers[CL] = <<ToString(0)>>)

LEMMA NoLengthIs ==
    ASSUME NEW c, ~Ambiguous(c)
    PROVE  NoLength(c)
  BY Zenon DEF Ambiguous, NoLength, CL

\* The same lines and content are the same body.
LEMMA SameBody ==
    ASSUME NEW T, NEW c, NEW d, Writable(T, c), Writable(T, d), NoLength(c), NEW lines, NEW m, NEW n,
           Laying(lines, c, m), Laying(lines, d, n), Content(c) = Content(d),
           c.event.body = << >>
    PROVE  d.event.body = << >>
<1> SUFFICES ASSUME d.event.body # << >> PROVE FALSE
  OBVIOUS
<1>1. CleanBody(T, c.event.body) /\ CleanBody(T, d.event.body)
  BY DEF Writable
<1>2. Content(c) = << >>
  BY <1>1, ContentIs DEF Content
<1>3. Content(d) = d.event.body[1] /\ d.event.body[1] \in Bodies
  BY <1>1, ContentIs DEF Content
<1> DEFINE L == Len(lines)
           text == LengthText(d.event.body[1])
<1>4. L = n + 2 /\ Head(lines[n + 2]) = CL /\ ValueIn(lines[n + 2]) = text /\ n \in Nat
  BY HeadsOfLines
<1>5. text = <<ToString(0)>>
  <2>1. Len(<< >>) = 0
    OBVIOUS
  <2>2. d.event.body[1] = << >>
    BY <1>2, <1>3
  <2>3. QED
    BY <2>1, <2>2 DEF LengthText
<1>6. L = m + 1 /\ m \in Nat
  BY HeadsOfLines
<1>7. m \in 1..m /\ m + 1 = n + 2
  BY <1>4, <1>6
<1> DEFINE name == NamesOf(c.event.headers)[m]
<1>8. /\ name \in DOMAIN c.event.headers /\ Head(lines[m + 1]) = name
      /\ ValueIn(lines[m + 1]) = c.event.headers[name]
  <2>1. \A i \in 1..m :
            LET nm == NamesOf(c.event.headers)[i]
            IN  /\ nm \in DOMAIN c.event.headers /\ Head(lines[i + 1]) = nm
                /\ ValueIn(lines[i + 1]) = c.event.headers[nm]
    BY HeadsOfLines
  <2>2. QED
    BY <1>7, <2>1
<1> HIDE DEF name, text
<1>9. name = CL /\ c.event.headers[CL] = text
  BY <1>4, <1>7, <1>8
<1>10. QED
  BY <1>5, <1>8, <1>9 DEF NoLength

LEMMA PlacesOf ==
    ASSUME NEW S, NEW s \in Seq(S)
    PROVE  DOMAIN s = 1..Len(s)
  OBVIOUS

SameHeaders(g, h) == DOMAIN g = DOMAIN h /\ \A n \in DOMAIN g : g[n] = h[n]

\* The bytes of a command tell its line, its headers and its body.
LEMMA SameWire ==
    ASSUME NEW T, NEW c, NEW d, Writable(T, c), Writable(T, d), NoLength(c), NoLength(d),
           WireText(c) = WireText(d)
    PROVE  /\ Line(c) = Line(d) /\ c.event.body = d.event.body
           /\ SameHeaders(c.event.headers, d.event.headers)
<1> DEFINE g == c.event.headers
           h == d.event.headers
<1>1. PICK a, k, m : /\ Shows(T, a, k) /\ a # << >>
                     /\ WireText(c) = Whole(a, Content(c)) /\ Laying(k, c, m)
  BY CommandShown
<1>2. PICK b, l, n : /\ Shows(T, b, l) /\ b # << >>
                     /\ WireText(d) = Whole(b, Content(d)) /\ Laying(l, d, n)
  BY CommandShown
<1>3. LineEnd \in T /\ CleanBody(T, c.event.body) /\ CleanBody(T, d.event.body)
  BY DEF Writable, LineTokens
<1>4. Content(c) \in Seq(T) /\ Content(d) \in Seq(T)
  BY <1>3, ContentIs DEF Content
<1>5. Whole(a, Content(c)) = Whole(b, Content(d))
  BY <1>1, <1>2
<1>6. k = l /\ Content(c) = Content(d)
  BY <1>1, <1>2, <1>3, <1>4, <1>5, SameLayout
<1>7. Laying(k, c, m) /\ Laying(k, d, n)
  BY <1>1, <1>2, <1>6
<1>8. Line(c) = Line(d)
  BY <1>7 DEF Laying
<1>9. c.event.body = << >> <=> d.event.body = << >>
  BY <1>6, <1>7, SameBody
<1>10. c.event.body = d.event.body
  <2>1. CASE c.event.body = << >>
    BY <1>9, <2>1
  <2>2. CASE c.event.body # << >>
    <3>1. Content(c) = c.event.body[1] /\ Content(d) = d.event.body[1]
      BY <1>3, <1>9, <2>2, ContentIs DEF Content
    <3>2. (\E v \in Bodies : c.event.body = <<v>>) /\ (\E v \in Bodies : d.event.body = <<v>>)
      BY <1>3, <1>9, <2>2 DEF CleanBody, Options
    <3>3. c.event.body = <<c.event.body[1]>> /\ d.event.body = <<d.event.body[1]>>
      BY <3>2
    <3>4. QED
      BY <1>6, <3>1, <3>3
  <2>3. QED
    BY <2>1, <2>2
<1>11. /\ NamesOf(g) \in Seq(DOMAIN g) /\ Range(NamesOf(g)) = DOMAIN g /\ m \in Nat /\ m = Len(NamesOf(g))
       /\ \A i \in 1..m :
              /\ NamesOf(g)[i] \in DOMAIN g /\ Head(k[i + 1]) = NamesOf(g)[i]
              /\ ValueIn(k[i + 1]) = g[NamesOf(g)[i]]
       /\ c.event.body # << >> => Len(k) = m + 2
       /\ c.event.body = << >> => Len(k) = m + 1
  BY <1>7, HeadsOfLines
<1>12. /\ NamesOf(h) \in Seq(DOMAIN h) /\ Range(NamesOf(h)) = DOMAIN h /\ n \in Nat /\ n = Len(NamesOf(h))
       /\ \A i \in 1..n :
              /\ NamesOf(h)[i] \in DOMAIN h /\ Head(k[i + 1]) = NamesOf(h)[i]
              /\ ValueIn(k[i + 1]) = h[NamesOf(h)[i]]
       /\ d.event.body # << >> => Len(k) = n + 2
       /\ d.event.body = << >> => Len(k) = n + 1
  BY <1>7, HeadsOfLines
<1>13. m = n
  BY <1>9, <1>11, <1>12
<1> DEFINE p == NamesOf(g)
           q == NamesOf(h)
<1> HIDE DEF g, h
<1>14. \A i \in 1..m : p[i] = q[i] /\ g[p[i]] = h[p[i]]
  BY <1>11, <1>12, <1>13
<1>15. DOMAIN g = {p[i] : i \in 1..m} /\ DOMAIN h = {q[i] : i \in 1..m}
  <2> DEFINE G == DOMAIN g
             H == DOMAIN h
  <2>1. p \in Seq(G) /\ Range(p) = G /\ m = Len(p)
    BY <1>11
  <2>2. q \in Seq(H) /\ Range(q) = H /\ m = Len(q)
    BY <1>12, <1>13
  <2> HIDE DEF G, H, p, q
  <2>3. DOMAIN p = 1..m /\ DOMAIN q = 1..m
    <3>1. DOMAIN p = 1..Len(p) /\ DOMAIN q = 1..Len(q)
      BY ONLY <2>1, <2>2, PlacesOf
    <3>2. QED
      BY <2>1, <2>2, <3>1
  <2>4. G = {p[i] : i \in DOMAIN p} /\ H = {q[i] : i \in DOMAIN q}
    BY <2>1, <2>2 DEF Range
  <2>5. G = {p[i] : i \in 1..m} /\ H = {q[i] : i \in 1..m}
    BY <2>3, <2>4
  <2>6. QED
    BY <2>5 DEF G, H
<1> HIDE DEF p, q
<1>16. SameHeaders(g, h)
  BY <1>14, <1>15 DEF SameHeaders
<1>17. QED
  BY <1>8, <1>10, <1>16 DEF g, h

\* A function of its own domain.
IsMap(h) == h = [n \in DOMAIN h |-> h[n]]

\* A command is its kind, fields and event, and has as many fields as its kind.
Made(c) ==
    /\ c = [kind |-> c.kind, fields |-> c.fields, event |-> c.event]
    /\ c.event = [type |-> c.event.type, headers |-> c.event.headers, body |-> c.event.body]
    /\ IsMap(c.event.headers)
    /\ Shaped(c)

\* A command without the type of its event.
Untyped(c) == [c EXCEPT !.event.type = << >>]

\* Commands of the same parts mean the same.
LEMMA SameMeaning ==
    ASSUME NEW c, NEW d, Made(c), Made(d), c.kind = d.kind, c.fields = d.fields,
           c.event.body = d.event.body, SameHeaders(c.event.headers, d.event.headers)
    PROVE  Untyped(c) = Untyped(d)
<1> DEFINE E(x) == [type |-> << >>, headers |-> x.event.headers, body |-> x.event.body]
<1>1. ASSUME NEW x, Made(x)
      PROVE  Untyped(x) = [kind |-> x.kind, fields |-> x.fields, event |-> E(x)]
  <2> DEFINE e == x.event
  <2>1. x = [kind |-> x.kind, fields |-> x.fields, event |-> e]
    BY <1>1 DEF Made
  <2>2. e = [type |-> e.type, headers |-> e.headers, body |-> e.body]
    BY <1>1 DEF Made
  <2>3. [e EXCEPT !.type = << >>] = E(x)
    <3>1. DOMAIN e = {"type", "headers", "body"}
      BY <2>2
    <3>2. QED
      BY <2>2, <3>1
  <2>4. Untyped(x) = [x EXCEPT !.event = [e EXCEPT !.type = << >>]]
    BY DEF Untyped
  <2> HIDE DEF E, e
  <2>5. [x EXCEPT !.event = E(x)] = [kind |-> x.kind, fields |-> x.fields, event |-> E(x)]
    BY <2>1
  <2>6. QED
    BY <2>3, <2>4, <2>5
<1>2. c.event.headers = d.event.headers
  BY DEF Made, IsMap, SameHeaders
<1>3. E(c) = E(d)
  BY <1>2
<1> HIDE DEF E
<1>4. QED
  BY <1>1, <1>3

\* Two valid commands that mean something else are texts of their own.
LEMMA Distinct ==
    ASSUME NEW c, NEW d, Formed(c), Formed(d), Valid(c), Valid(d), Made(c), Made(d),
           ~Ambiguous(c), ~Ambiguous(d), WireText(c) = WireText(d)
    PROVE  Untyped(c) = Untyped(d)
<1> DEFINE T == Base \cup Used(c) \cup Used(d)
           S == Clean(T)
<1>1. Base \subseteq T /\ Used(c) \subseteq T /\ Used(d) \subseteq T
  OBVIOUS
<1> HIDE DEF T
<1>2. Writable(T, c) /\ Writable(T, d)
  BY <1>1, FormedIsWritable
<1>3. /\ Line(c) = Line(d) /\ c.event.body = d.event.body
      /\ SameHeaders(c.event.headers, d.event.headers)
  BY <1>2, NoLengthIs, SameWire
<1>4. LineMarks(S)
  <2>1. SP \in Seq(S) /\ COL \in Seq(S) /\ DEL \in Seq(S)
    BY <1>1, CleanMarks
  <2>2. SP = <<Space>> /\ COL = <<ColonMark>>
    BY Zenon DEF SP, COL, Space, ColonMark
  <2> HIDE DEF S
  <2>3. Space \in S /\ ColonMark \in S
    <3>1. ASSUME NEW x, <<x>> \in Seq(S)
          PROVE  x \in S
      <4>1. <<x>>[1] = x /\ 1 \in 1..Len(<<x>>)
        OBVIOUS
      <4>2. QED
        BY <3>1, <4>1
    <3>2. QED
      BY <2>1, <2>2, <3>1
  <2>4. QED
    BY <2>1, <2>3 DEF LineMarks
<1>5. ASSUME NEW x, Formed(x), Valid(x), Made(x), Used(x) \subseteq T
      PROVE  Wellmade(S, x)
  <2>1. x.kind \in DOMAIN Verb
    BY <1>5 DEF Formed
  <2>2. Verb[x.kind] \in S
    <3>1. Verb[x.kind] \in T
      BY <1>1, <2>1 DEF Base
    <3>2. QED
      BY <2>1, <3>1, CleanVerb DEF Clean
  <2>3. x.fields \in Seq(Seq(S))
    BY <1>5, CleanFields
  <2>4. EventName(x.event) \in Seq(S)
    BY <1>1, <1>5, CleanName
  <2>5. Shaped(x)
    BY <1>5 DEF Made
  <2>6. QED
    BY <2>1, <2>2, <2>3, <2>4, <2>5 DEF Wellmade
<1>6. Wellmade(S, c) /\ Wellmade(S, d)
  BY <1>1, <1>5
<1> HIDE DEF S
<1>7. c.kind = d.kind /\ c.fields = d.fields
  BY <1>3, <1>4, <1>6, SameLine
<1>8. QED
  BY <1>3, <1>7, SameMeaning

-----------------------------------------------------------------------------
(***************************************************************************)
(* Every method makes a command of its kind's shape.                       *)
(***************************************************************************)

\* As many fields as the kind has.
Fits(kind, n) ==
    /\ n \in 0..2
    /\ n = 2 => kind \in TwoFields
    /\ kind \in {"Events", "Filter", "UserAuth"} => n = 2
    /\ kind \in {"FilterDelete", "MyEvents"} => n # 0
    /\ kind = "SendEvent" => n = 0

LEMMA NoEventMade ==
    /\ NoEvent = [type |-> NoEvent.type, headers |-> NoEvent.headers, body |-> NoEvent.body]
    /\ IsMap(NoEvent.headers)
  BY DEF NoEvent, IsMap

LEMMA FieldsMade ==
    ASSUME NEW kind, NEW f, Fits(kind, Len(f))
    PROVE  Made(Command(kind, f))
<1> DEFINE c == Command(kind, f)
<1>1. c = [kind |-> kind, fields |-> f, event |-> NoEvent]
  BY DEF Command
<1> HIDE DEF c
<1>2. c.kind = kind /\ c.fields = f /\ c.event = NoEvent
  BY <1>1
<1>3. Shaped(c)
  BY <1>2 DEF Shaped, Fits
<1>4. Made(c)
  BY <1>1, <1>2, <1>3, NoEventMade DEF Made
<1>5. QED
  BY <1>4 DEF c

LEMMA ExecuteMade ==
    ASSUME NEW app, NEW args, NEW uuid, Len(uuid) \in {0, 1}
    PROVE  Made(Execute(app, args, uuid))
<1> DEFINE h0 == Put(<< >>, "call-command", <<"execute">>)
           h1 == Put(h0, "execute-app-name", app)
           h == IF args = << >> THEN h1 ELSE Put(h1, "execute-app-arg", args[1])
           e == [NoEvent EXCEPT !.headers = h]
           c == Execute(app, args, uuid)
<1>1. ASSUME NEW g, NEW n, NEW v
      PROVE  IsMap(Put(g, n, v))
  BY DEF IsMap, Put
<1>2. IsMap(h)
  BY <1>1
<1>3. c = [kind |-> "SendMsg", fields |-> uuid, event |-> e]
  BY DEF Execute, h, h0, h1
<1> HIDE DEF h, c
<1>4. e = [type |-> << >>, headers |-> h, body |-> << >>]
  BY DEF NoEvent
<1> HIDE DEF e
<1>5. c.kind = "SendMsg" /\ c.fields = uuid /\ c.event = e
  BY <1>3
<1>6. e.headers = h /\ e = [type |-> e.type, headers |-> e.headers, body |-> e.body]
  BY <1>4
<1>7. Shaped(c)
  BY <1>5 DEF Shaped
<1>8. Made(c)
  BY <1>2, <1>3, <1>5, <1>6, <1>7 DEF Made
<1>9. QED
  BY <1>8 DEF c

\* How many fields an option is, alone and behind another.
LEMMA OptionLength ==
    ASSUME NEW o \in Options(Words)
    PROVE  /\ Len(o) \in {0, 1}
           /\ \A t : IsText(t) => Len(<<t>> \o o) \in {1, 2}
<1>1. IsTexts(o)
  BY OptionTexts
<1>2. Len(o) \in {0, 1}
  BY DEF Options
<1>3. ASSUME NEW t, IsText(t)
      PROVE  Len(<<t>> \o o) \in {1, 2}
  <2> DEFINE s == <<t>>
  <2>1. IsTexts(s) /\ Len(s) = 1
    BY <1>3, OneText
  <2> HIDE DEF s
  <2>2. Len(s \o o) = Len(s) + Len(o)
    BY <1>1, <2>1, MoreTexts
  <2>3. Len(s \o o) \in {1, 2}
    BY <1>2, <2>1, <2>2
  <2>4. QED
    BY <2>3 DEF s
<1>4. QED
  BY <1>2, <1>3

LEMMA SubscriptionMade ==
    ASSUME NEW c \in Subscriptions
    PROVE  Made(c)
<1>1. ASSUME NEW a, NEW b
      PROVE  Made(Command("Events", <<a, b>>)) /\ Made(Command("Filter", <<a, b>>))
  <2>1. Len(<<a, b>>) = 2
    OBVIOUS
  <2>2. Fits("Events", 2) /\ Fits("Filter", 2)
    BY DEF Fits, TwoFields
  <2>3. QED
    BY <2>1, <2>2, FieldsMade
<1>2. \/ \E format \in {"plain", "json", "xml"}, list \in TypeLists \cup Words :
             c = Command("Events", << <<format>>, list >>)
      \/ \E header \in Words, v \in Words : c = Command("Filter", <<header, v>>)
  BY DEF Subscriptions
<1>3. QED
  BY <1>1, <1>2

LEMMA UnsubscriptionMade ==
    ASSUME NEW c \in Unsubscriptions
    PROVE  Made(c)
<1>1. ASSUME NEW list
      PROVE  Made(Command("NixEvent", <<list>>))
  <2>1. Len(<<list>>) = 1
    OBVIOUS
  <2>2. Fits("NixEvent", 1)
    BY DEF Fits
  <2>3. QED
    BY <2>1, <2>2, FieldsMade
<1>2. Made(Command("NoEvents", << >>))
  <2>1. Len(<< >>) = 0
    OBVIOUS
  <2>2. Fits("NoEvents", 0)
    BY DEF Fits
  <2>3. QED
    BY <2>1, <2>2, FieldsMade
<1>3. ASSUME NEW header \in Words \cup {<<"all">>}, NEW v \in Options(Words)
      PROVE  Made(Command("FilterDelete", <<header>> \o v))
  <2>1. IsText(header)
    BY WordText, TokenText
  <2>2. Len(<<header>> \o v) \in {1, 2}
    BY <2>1, OptionLength
  <2>3. Fits("FilterDelete", 1) /\ Fits("FilterDelete", 2)
    BY DEF Fits, TwoFields
  <2>4. QED
    BY <2>2, <2>3, FieldsMade
<1>4. \/ \E list \in TypeLists \cup Words : c = Command("NixEvent", <<list>>)
      \/ c = Command("NoEvents", << >>)
      \/ \E header \in Words \cup {<<"all">>}, v \in Options(Words) :
             c = Command("FilterDelete", <<header>> \o v)
  BY DEF Unsubscriptions
<1>5. QED
  BY <1>1, <1>2, <1>3, <1>4

LEMMA SessionMade ==
    ASSUME NEW c \in SessionCommands
    PROVE  Made(c)
<1>1. ASSUME NEW format, NEW uuid \in Options(Words)
      PROVE  Made(Command("MyEvents", << <<format>> >> \o uuid))
  <2>1. IsText(<<format>>)
    BY TokenText
  <2>2. Len(<< <<format>> >> \o uuid) \in {1, 2}
    BY <2>1, OptionLength
  <2>3. Fits("MyEvents", 1) /\ Fits("MyEvents", 2)
    BY DEF Fits, TwoFields
  <2>4. QED
    BY <2>2, <2>3, FieldsMade
<1>2. ASSUME NEW timeout \in {<< >>, << <<"10">> >>}
      PROVE  Made(Command("Linger", timeout))
  <2>1. Len(timeout) \in {0, 1}
    OBVIOUS
  <2>2. Fits("Linger", 0) /\ Fits("Linger", 1)
    BY DEF Fits
  <2>3. QED
    BY <2>1, <2>2, FieldsMade
<1>3. ASSUME NEW kind \in {"NoLinger", "Resume", "Connect"}
      PROVE  Made(Command(kind, << >>))
  <2>1. Len(<< >>) = 0
    OBVIOUS
  <2>2. Fits(kind, 0)
    BY DEF Fits
  <2>3. QED
    BY <2>1, <2>2, FieldsMade
<1>4. \/ \E format \in {"plain", "json"}, uuid \in Options(Words) :
             c = Command("MyEvents", << <<format>> >> \o uuid)
      \/ \E timeout \in {<< >>, << <<"10">> >>} : c = Command("Linger", timeout)
      \/ \E kind \in {"NoLinger", "Resume", "Connect"} : c = Command(kind, << >>)
  BY DEF SessionCommands
<1>5. QED
  BY <1>1, <1>2, <1>3, <1>4

LEMMA PlainMade ==
    ASSUME NEW c \in ControlCommands \cup ApiCommands
    PROVE  Made(c)
<1>1. ASSUME NEW t, NEW kind \in {"DivertEvents", "GetVar", "Log", "Api", "BgApi"}
      PROVE  Made(Command(kind, <<t>>))
  <2>1. Len(<<t>>) = 1
    OBVIOUS
  <2>2. Fits(kind, 1)
    BY DEF Fits
  <2>3. QED
    BY <2>1, <2>2, FieldsMade
<1>2. ASSUME NEW kind \in {"NoLog", "NoOp", "Exit"}
      PROVE  Made(Command(kind, << >>))
  <2>1. Len(<< >>) = 0
    OBVIOUS
  <2>2. Fits(kind, 0)
    BY DEF Fits
  <2>3. QED
    BY <2>1, <2>2, FieldsMade
<1>3. CASE c \in ControlCommands
  <2>1. \/ \E arg \in {"on", "off"} : c = Command("DivertEvents", << <<arg>> >>)
        \/ \E kind \in {"GetVar", "Log"}, t \in Words : c = Command(kind, <<t>>)
        \/ \E kind \in {"NoLog", "NoOp", "Exit"} : c = Command(kind, << >>)
    BY <1>3 DEF ControlCommands
  <2>2. QED
    BY <1>1, <1>2, <2>1
<1>4. CASE c \in ApiCommands
  <2>1. \/ \E kind \in {"Api", "BgApi"}, t \in Words : c = Command(kind, <<t>>)
        \/ \E t \in UuidTexts \cup ConferenceTexts : c = Command("Api", <<t>>)
    BY <1>4 DEF ApiCommands
  <2>2. QED
    BY <1>1, <2>1
<1>5. QED
  BY <1>3, <1>4

LEMMA CredentialsMade ==
    ASSUME NEW c \in Credentials
    PROVE  Made(c)
<1>1. ASSUME NEW password
      PROVE  Made(Command("Auth", <<password>>))
  <2>1. Len(<<password>>) = 1
    OBVIOUS
  <2>2. Fits("Auth", 1)
    BY DEF Fits
  <2>3. QED
    BY <2>1, <2>2, FieldsMade
<1>2. ASSUME NEW user, NEW password
      PROVE  Made(Command("UserAuth", <<user, password>>))
  <2>1. Len(<<user, password>>) = 2
    OBVIOUS
  <2>2. Fits("UserAuth", 2)
    BY DEF Fits, TwoFields
  <2>3. QED
    BY <2>1, <2>2, FieldsMade
<1>3. \/ \E password \in Words : c = Command("Auth", <<password>>)
      \/ \E user \in Words, password \in Words : c = Command("UserAuth", <<user, password>>)
  BY DEF Credentials
<1>4. QED
  BY <1>1, <1>2, <1>3

LEMMA AppMade == \A c \in AppCommands : Made(c)
<1> DEFINE A(app) == Execute(<<app>>, << >>, << >>)
           B(app, arg) == Execute(<<app>>, <<arg>>, << >>)
           C(n, v) == Execute(<<"set">>, <<n \o <<"=">> \o v>>, << >>)
           D(x, dialplan, context) ==
               Execute(<<"transfer">>, <<Joined(<<x>> \o dialplan \o context, <<" ">>)>>, << >>)
           V == {"answer", "park", "hangup"}
           W == {"hangup", "playback", "bridge"}
           O == Options(Words)
           SA == {A(app) : app \in V}
           SB == {B(app, arg) : app \in W, arg \in Words}
           SC == {C(n, v) : n \in Words, v \in Words}
           SD == {D(x, dialplan, context) : x \in Words, dialplan \in O, context \in O}
<1>1. AppCommands = SA \cup SB \cup SC \cup SD
  BY DEF AppCommands
<1>2. ASSUME NEW app, NEW args
      PROVE  Made(Execute(app, args, << >>))
  <2>1. Len(<< >>) \in {0, 1}
    OBVIOUS
  <2>2. QED
    BY <2>1, ExecuteMade
<1>3. /\ \A app \in V : Made(A(app))
      /\ \A app \in W, arg \in Words : Made(B(app, arg))
      /\ \A n \in Words, v \in Words : Made(C(n, v))
      /\ \A x \in Words, dialplan \in O, context \in O : Made(D(x, dialplan, context))
  BY <1>2
<1> HIDE DEF A, B, C, D, V, W, O
<1>4. (\A d \in SA : Made(d)) /\ (\A d \in SB : Made(d)) /\ (\A d \in SC : Made(d)) /\ (\A d \in SD : Made(d))
  BY <1>3
<1> HIDE DEF SA, SB, SC, SD
<1>5. QED
  BY <1>1, <1>4

LEMMA ExecutionMade ==
    ASSUME NEW c \in Executions \cup AppCommands
    PROVE  Made(c)
<1>1. CASE c \in Executions
  <2>1. PICK app \in Words, args \in Options(Words), uuid \in Options(Words) :
            c = Execute(app, args, uuid)
    BY <1>1 DEF Executions
  <2>2. Len(uuid) \in {0, 1}
    BY OptionLength
  <2>3. QED
    BY <2>1, <2>2, ExecuteMade
<1>2. CASE c \in AppCommands
  BY <1>2, AppMade
<1>3. QED
  BY <1>1, <1>2

LEMMA MethodsMade ==
    ASSUME NEW c \in FieldCommands
    PROVE  Made(c)
  BY SubscriptionMade, UnsubscriptionMade, SessionMade, PlainMade, CredentialsMade, ExecutionMade
     DEF FieldCommands

\* And so do those of the event built so far.
LEMMA EventMade ==
    ASSUME StackInv, NEW c \in EventCommands
    PROVE  Made(c)
<1>1. event \in Events
  BY DEF StackInv
<1>2. event = [type |-> event.type, headers |-> event.headers, body |-> event.body]
  BY <1>1 DEF Events
<1>3. PICK D \in SUBSET HeaderNames : event.headers \in [D -> Phrases]
  BY <1>1 DEF Events
<1>4. IsMap(event.headers)
  BY <1>3 DEF IsMap
<1>5. ASSUME NEW kind, NEW f, Fits(kind, Len(f)), c = [kind |-> kind, fields |-> f, event |-> event]
      PROVE  Made(c)
  <2>1. c.kind = kind /\ c.fields = f /\ c.event = event
    BY <1>5
  <2>2. Shaped(c)
    BY <1>5, <2>1 DEF Shaped, Fits
  <2>3. QED
    BY <1>2, <1>4, <1>5, <2>1, <2>2 DEF Made
<1>6. \/ \E uuid \in Options(Words) : c = [kind |-> "SendMsg", fields |-> uuid, event |-> event]
      \/ c = [kind |-> "SendEvent", fields |-> << >>, event |-> event]
  BY DEF EventCommands
<1>7. CASE \E uuid \in Options(Words) : c = [kind |-> "SendMsg", fields |-> uuid, event |-> event]
  <2>1. PICK uuid \in Options(Words) : c = [kind |-> "SendMsg", fields |-> uuid, event |-> event]
    BY <1>7
  <2>2. Fits("SendMsg", Len(uuid))
    BY OptionLength DEF Fits
  <2>3. QED
    BY <1>5, <2>1, <2>2
<1>8. CASE c = [kind |-> "SendEvent", fields |-> << >>, event |-> event]
  <2>1. Len(<< >>) = 0
    OBVIOUS
  <2>2. Fits("SendEvent", 0)
    BY DEF Fits
  <2>3. QED
    BY <1>5, <1>8, <2>1, <2>2
<1>9. QED
  BY <1>6, <1>7, <1>8

\* Every command sent is its parts, so that they can be compared.
MadeInv == \A i \in 1..Len(sent) : Made(sent[i])

PartsInv == CommandInv /\ MadeInv

LEMMA PartsInitially == CommandInit => PartsInv
<1> SUFFICES ASSUME CommandInit PROVE PartsInv
  OBVIOUS
<1>1. sent = << >>
  BY DEF CommandInit
<1>2. MadeInv
  BY <1>1 DEF MadeInv
<1>3. QED
  BY <1>2, CommandInitially DEF PartsInv

LEMMA PartsSteps == PartsInv /\ [CommandNext]_commandVars => PartsInv'
<1> SUFFICES ASSUME PartsInv, [CommandNext]_commandVars
             PROVE  PartsInv'
  OBVIOUS
<1>1. CommandInv /\ MadeInv /\ StackInv /\ List(sent)
  BY DEF PartsInv, CommandInv, SentInv
<1>2. CommandInv'
  BY <1>1, CommandSteps
<1>3. ASSUME UNCHANGED sent
      PROVE  MadeInv'
  BY <1>1, <1>3 DEF MadeInv
<1>4. CASE UNCHANGED commandVars
  BY <1>2, <1>3, <1>4 DEF commandVars, PartsInv
<1>5. CASE Build
  BY <1>2, <1>3, <1>5 DEF Build, PartsInv
<1>6. CASE SendOne(FieldCommands \cup EventCommands)
  <2>1. PICK c \in FieldCommands \cup EventCommands : Send(c)
    BY <1>6 DEF SendOne
  <2>2. Made(c)
    BY <1>1, MethodsMade, EventMade
  <2> DEFINE n == Len(sent)
             C == {sent[i] : i \in 1..n} \cup {c}
             s == Append(sent, c)
  <2>3. n \in Nat /\ sent = [i \in 1..n |-> sent[i]]
    BY <1>1 DEF List
  <2>4. sent' = s
    BY <2>1 DEF Send
  <2>5. sent \in Seq(C) /\ c \in C
    <3>1. \A i \in 1..n : sent[i] \in C
      OBVIOUS
    <3>2. c \in C
      OBVIOUS
    <3> HIDE DEF C, n
    <3>3. QED
      BY <2>3, <3>1, <3>2
  <2> HIDE DEF C
  <2>6. Len(s) = n + 1 /\ s[n + 1] = c /\ \A i \in 1..n : s[i] = sent[i]
    BY <2>5, AppendTokens
  <2> HIDE DEF s
  <2>7. \A i \in 1..Len(s) : Made(s[i])
    <3>1. ASSUME NEW i \in 1..Len(s)
          PROVE  Made(s[i])
      <4>1. i \in 1..n \/ i = n + 1
        BY <2>3, <2>6
      <4>2. QED
        BY <1>1, <2>2, <2>6, <4>1 DEF MadeInv
    <3>2. QED
      BY <3>1
  <2>8. MadeInv'
    BY <2>4, <2>7 DEF MadeInv
  <2>9. QED
    BY <1>2, <2>8 DEF PartsInv
<1>7. QED
  BY <1>4, <1>5, <1>6 DEF CommandNext

\* Different commands are different texts, whatever the application puts into
\* their fields, headers and bodies, with the exceptions Ambiguous names.
THEOREM CommandsDiffer == CommandSpec => []CommandsAreDistinct
<1>1. ASSUME PartsInv
      PROVE  CommandsAreDistinct
  <2>1. /\ List(sent)
        /\ \A i \in 1..Len(sent) : Formed(sent[i]) /\ Valid(sent[i]) /\ Made(sent[i])
    BY <1>1 DEF PartsInv, CommandInv, SentInv, MadeInv
  <2>2. DOMAIN sent = 1..Len(sent)
    BY <2>1 DEF List
  <2>3. ASSUME NEW i \in DOMAIN sent, NEW j \in DOMAIN sent
        PROVE  \/ Untyped(sent[i]) = Untyped(sent[j])
               \/ WireText(sent[i]) # WireText(sent[j])
               \/ Ambiguous(sent[i]) \/ Ambiguous(sent[j])
    BY <2>1, <2>2, Distinct
  <2>4. QED
    BY <2>3, Zenon DEF CommandsAreDistinct, Untyped
<1>2. PartsInv => CommandsAreDistinct
  BY <1>1
<1>3. CommandSpec => []PartsInv
  BY PartsInitially, PartsSteps, PTL DEF CommandSpec
<1>4. QED
  BY <1>2, <1>3, PTL

=============================================================================
