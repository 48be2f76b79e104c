-------------------------- MODULE EslParserProofs --------------------------
(***************************************************************************)
(* Proofs about the framing of EslParser, for all streams, however long,   *)
(* and all limits that leave room for an unfinished message and one more   *)
(* read: types, the buffer limit, and that the cuts of the stream make no  *)
(* difference.                                                             *)
(***************************************************************************)
EXTENDS EslParser, SequenceTheorems, WellFoundedInduction, TLAPS

(***************************************************************************)
(* The loop reads only when the awaited body is not there yet, so a body   *)
(* that waits in the buffer is shorter than the longest one accepted.      *)
(***************************************************************************)
BufferInv ==
    /\ stream \in Seq(Symbol)
    /\ fed \in 0..Len(stream)
    /\ buffer \in Seq(Symbol)
    /\ state.length \in 0..MaxMessage
    /\ phase = "read" /\ state # NoMessage => Len(buffer) < state.length
    /\ error # "none" => phase = "stopped"
    /\ OnlyHeadersOverflow

-----------------------------------------------------------------------------

\* A set of numbers has a smallest one, and what is smallest or largest is in it.
LEMMA LeastExists ==
    ASSUME NEW S \in SUBSET Nat, S # {}
    PROVE  \E n \in S : \A m \in S : n <= m
<1> DEFINE R == OpToRel(<, Nat)
<1>1. IsWellFoundedOn(R, Nat)
  BY NatLessThanWellFounded
<1>2. \A n, m \in Nat : <<m, n>> \in R <=> m < n
  BY DEF OpToRel
<1> HIDE DEF R
<1>3. PICK n \in S : \A m \in S : ~(<<m, n>> \in R)
  BY <1>1, WFMin
<1>4. ASSUME NEW m \in S
      PROVE  n <= m
  <2>1. n \in Nat /\ m \in Nat /\ ~(m < n)
    BY <1>2, <1>3
  <2>2. QED
    BY <2>1
<1>5. QED
  BY <1>4

LEMMA LeastIsMember ==
    ASSUME NEW S \in SUBSET Nat, S # {}
    PROVE  Min(S) \in S /\ \A m \in S : Min(S) <= m
  BY LeastExists DEF Min

LEMMA GreatestIsMember ==
    ASSUME NEW n \in Nat, NEW S \in SUBSET (1..n), S # {}
    PROVE  Max(S) \in S
<1> DEFINE T == {n - i : i \in S}
<1>1. T \in SUBSET Nat /\ T # {}
  <2>1. \A i \in S : n - i \in Nat
    OBVIOUS
  <2>2. QED
    BY <2>1
<1>2. PICK t \in T : \A u \in T : t <= u
  BY <1>1, LeastExists
<1>3. PICK i \in S : t = n - i
  BY <1>2
<1>4. \A j \in S : i >= j
  <2>1. TAKE j \in S
  <2>2. n - j \in T
    OBVIOUS
  <2>3. n - i <= n - j
    BY <1>2, <1>3, <2>2
  <2>4. QED
    BY <2>3
<1>5. QED
  BY <1>4 DEF Max

-----------------------------------------------------------------------------
(***************************************************************************)
(* Texts and their pieces.                                                 *)
(***************************************************************************)

SymbolSeqs == Seq(Symbol)

LEMMA LengthIsNatural ==
    ASSUME NEW s \in SymbolSeqs
    PROVE  Len(s) \in Nat
  BY DEF SymbolSeqs

LEMMA TextsAssociative ==
    ASSUME NEW s \in SymbolSeqs, NEW t \in SymbolSeqs, NEW u \in SymbolSeqs
    PROVE  (s \o t) \o u = s \o (t \o u)
  BY ConcatAssociative DEF SymbolSeqs

\* The first n symbols of a text, and what is left from the k-th on.
LEMMA FrontOfText ==
    ASSUME NEW s \in SymbolSeqs, NEW n \in 0..Len(s)
    PROVE  /\ SubSeq(s, 1, n) \in SymbolSeqs
           /\ Len(SubSeq(s, 1, n)) = n
           /\ \A i \in 1..n : SubSeq(s, 1, n)[i] = s[i]
  BY SubSeqProperties DEF SymbolSeqs

LEMMA RestOfText ==
    ASSUME NEW s \in SymbolSeqs, NEW k \in 1..(Len(s) + 1)
    PROVE  /\ SubSeq(s, k, Len(s)) \in SymbolSeqs
           /\ Len(SubSeq(s, k, Len(s))) = Len(s) - k + 1
           /\ \A i \in 1..(Len(s) - k + 1) : SubSeq(s, k, Len(s))[i] = s[k + i - 1]
  BY SubSeqProperties DEF SymbolSeqs

\* A piece of what is left is a piece of the text, and so is what is left of it.
LEMMA PieceOfRest ==
    ASSUME NEW s \in SymbolSeqs, NEW k \in 1..(Len(s) + 1), NEW n \in Nat, k + n - 1 <= Len(s)
    PROVE  LET rest == SubSeq(s, k, Len(s))
           IN  /\ SubSeq(rest, 1, n) = SubSeq(s, k, k + n - 1)
               /\ SubSeq(rest, n + 1, Len(rest)) = SubSeq(s, k + n, Len(s))
<1> DEFINE rest == SubSeq(s, k, Len(s))
<1>1. /\ Len(s) \in Nat
      /\ rest \in SymbolSeqs /\ Len(rest) = Len(s) - k + 1
      /\ \A i \in 1..(Len(s) - k + 1) : rest[i] = s[k + i - 1]
  BY RestOfText, LengthIsNatural
<1> HIDE DEF rest
<1>2. SubSeq(rest, 1, n) = SubSeq(s, k, k + n - 1)
  <2>1. /\ SubSeq(rest, 1, n) \in SymbolSeqs /\ Len(SubSeq(rest, 1, n)) = n
        /\ \A i \in 1..n : SubSeq(rest, 1, n)[i] = rest[i]
    BY <1>1, FrontOfText
  <2>2. /\ SubSeq(s, k, k + n - 1) \in SymbolSeqs /\ Len(SubSeq(s, k, k + n - 1)) = n
        /\ \A i \in 1..n : SubSeq(s, k, k + n - 1)[i] = s[k + i - 1]
    BY <1>1, SubSeqProperties DEF SymbolSeqs
  <2>3. QED
    BY <1>1, <2>1, <2>2, SeqEqual DEF SymbolSeqs
<1>3. SubSeq(rest, n + 1, Len(rest)) = SubSeq(s, k + n, Len(s))
  <2>1. /\ SubSeq(rest, n + 1, Len(rest)) \in SymbolSeqs
        /\ Len(SubSeq(rest, n + 1, Len(rest))) = Len(rest) - n
        /\ \A i \in 1..(Len(rest) - n) : SubSeq(rest, n + 1, Len(rest))[i] = rest[n + i]
    <3>1. n + 1 \in 1..(Len(rest) + 1)
      BY <1>1
    <3>2. /\ SubSeq(rest, n + 1, Len(rest)) \in SymbolSeqs
          /\ Len(SubSeq(rest, n + 1, Len(rest))) = Len(rest) - (n + 1) + 1
          /\ \A i \in 1..(Len(rest) - (n + 1) + 1) :
                 SubSeq(rest, n + 1, Len(rest))[i] = rest[(n + 1) + i - 1]
      BY <1>1, <3>1, RestOfText
    <3> DEFINE tail == SubSeq(rest, n + 1, Len(rest))
    <3>3. Len(tail) = Len(rest) - n
      BY <1>1, <3>2
    <3>4. \A i \in 1..(Len(rest) - n) : tail[i] = rest[n + i]
      <4> HIDE DEF tail
      <4>1. TAKE i \in 1..(Len(rest) - n)
      <4>2. (n + 1) + i - 1 = n + i /\ i \in 1..(Len(rest) - (n + 1) + 1)
        BY <1>1
      <4>3. tail[i] = rest[(n + 1) + i - 1]
        BY <3>2, <4>2 DEF tail
      <4>4. QED
        BY <4>2, <4>3
    <3>5. QED
      BY <3>2, <3>3, <3>4
  <2>2. /\ SubSeq(s, k + n, Len(s)) \in SymbolSeqs
        /\ Len(SubSeq(s, k + n, Len(s))) = Len(s) - (k + n) + 1
        /\ \A i \in 1..(Len(s) - (k + n) + 1) : SubSeq(s, k + n, Len(s))[i] = s[k + n + i - 1]
    BY <1>1, RestOfText
  <2>3. QED
    BY <1>1, <2>1, <2>2, SeqEqual DEF SymbolSeqs
<1>4. QED
  BY <1>2, <1>3 DEF rest

\* More symbols behind a text change neither what it begins with ...
LEMMA FrontOfConcat ==
    ASSUME NEW s \in SymbolSeqs, NEW x \in SymbolSeqs, NEW n \in 0..Len(s)
    PROVE  SubSeq(s \o x, 1, n) = SubSeq(s, 1, n)
<1> DEFINE t == s \o x
<1>1. Len(s) \in Nat /\ Len(x) \in Nat
  BY LengthIsNatural
<1>2. t \in SymbolSeqs /\ Len(t) = Len(s) + Len(x) /\ \A i \in 1..Len(s) : t[i] = s[i]
  BY <1>1, ConcatProperties DEF SymbolSeqs
<1> HIDE DEF t
<1>3. n \in 0..Len(t)
  BY <1>1, <1>2
<1>4. /\ SubSeq(t, 1, n) \in SymbolSeqs /\ Len(SubSeq(t, 1, n)) = n
      /\ \A i \in 1..n : SubSeq(t, 1, n)[i] = t[i]
  BY <1>2, <1>3, FrontOfText
<1>5. /\ SubSeq(s, 1, n) \in SymbolSeqs /\ Len(SubSeq(s, 1, n)) = n
      /\ \A i \in 1..n : SubSeq(s, 1, n)[i] = s[i]
  BY FrontOfText
<1>6. \A i \in 1..n : SubSeq(t, 1, n)[i] = SubSeq(s, 1, n)[i]
  BY <1>1, <1>2, <1>4, <1>5
<1>7. SubSeq(t, 1, n) = SubSeq(s, 1, n)
  BY <1>4, <1>5, <1>6, SeqEqual DEF SymbolSeqs
<1>8. QED
  BY <1>7 DEF t

\* ... nor what is left of it, to which they are added.
LEMMA RestOfConcat ==
    ASSUME NEW s \in SymbolSeqs, NEW x \in SymbolSeqs, NEW k \in 1..(Len(s) + 1)
    PROVE  SubSeq(s \o x, k, Len(s \o x)) = SubSeq(s, k, Len(s)) \o x
<1> DEFINE t == s \o x
           rest == SubSeq(s, k, Len(s))
           longer == SubSeq(t, k, Len(t))
           joined == rest \o x
<1>1. Len(s) \in Nat /\ Len(x) \in Nat
  BY LengthIsNatural
<1>2. /\ t \in SymbolSeqs /\ Len(t) = Len(s) + Len(x)
      /\ \A i \in 1..(Len(s) + Len(x)) : t[i] = IF i <= Len(s) THEN s[i] ELSE x[i - Len(s)]
  BY <1>1, ConcatProperties DEF SymbolSeqs
<1> HIDE DEF t
<1>3. k \in 1..(Len(t) + 1)
  BY <1>1, <1>2
<1>4. /\ longer \in SymbolSeqs /\ Len(longer) = Len(t) - k + 1
      /\ \A i \in 1..(Len(t) - k + 1) : longer[i] = t[k + i - 1]
  BY <1>2, <1>3, RestOfText
<1>5. /\ rest \in SymbolSeqs /\ Len(rest) = Len(s) - k + 1
      /\ \A i \in 1..(Len(s) - k + 1) : rest[i] = s[k + i - 1]
  BY RestOfText
<1> HIDE DEF rest, longer
<1>6. /\ joined \in SymbolSeqs /\ Len(joined) = Len(rest) + Len(x)
      /\ \A i \in 1..(Len(rest) + Len(x)) :
             joined[i] = IF i <= Len(rest) THEN rest[i] ELSE x[i - Len(rest)]
  BY <1>5, ConcatProperties DEF SymbolSeqs
<1> HIDE DEF joined
<1>7. Len(longer) = Len(joined)
  BY <1>1, <1>2, <1>4, <1>5, <1>6
<1>8. \A i \in 1..Len(longer) : longer[i] = joined[i]
  <2>1. TAKE i \in 1..Len(longer)
  <2>2. k + i - 1 \in 1..(Len(s) + Len(x)) /\ i \in 1..(Len(t) - k + 1)
    BY <1>1, <1>2, <1>4
  <2>3. longer[i] = IF k + i - 1 <= Len(s) THEN s[k + i - 1] ELSE x[k + i - 1 - Len(s)]
    <3>1. longer[i] = t[k + i - 1]
      BY <1>4, <2>2
    <3> DEFINE j == k + i - 1
    <3>2. j \in 1..(Len(s) + Len(x)) /\ longer[i] = t[j]
      BY <2>2, <3>1
    <3> HIDE DEF j
    <3>3. longer[i] = IF j <= Len(s) THEN s[j] ELSE x[j - Len(s)]
      BY <1>2, <3>2
    <3>4. QED
      BY <3>3 DEF j
  <2>4. joined[i] = IF i <= Len(rest) THEN rest[i] ELSE x[i - Len(rest)]
    BY <1>6, <1>7
  <2>5. CASE i <= Len(rest)
    BY <1>1, <1>5, <2>3, <2>4, <2>5
  <2>6. CASE ~(i <= Len(rest))
    <3>1. k + i - 1 - Len(s) = i - Len(rest) /\ ~(k + i - 1 <= Len(s))
      BY <1>1, <1>5, <2>6
    <3>2. QED
      BY <2>3, <2>4, <2>6, <3>1
  <2>7. QED
    BY <2>5, <2>6
<1>9. longer = joined
  BY <1>4, <1>6, <1>7, <1>8, SeqEqual DEF SymbolSeqs
<1>10. QED
  BY <1>9 DEF t, rest, longer, joined

-----------------------------------------------------------------------------
(***************************************************************************)
(* Header blocks.                                                          *)
(***************************************************************************)

\* find_pattern returns the first blank line of the text, if there is one.
LEMMA FirstBlankLine ==
    ASSUME NEW s \in SymbolSeqs
    PROVE  /\ Terminator(s) \in Nat
           /\ Terminator(s) = 0 <=> BlankLines(s) = {}
           /\ Terminator(s) # 0 =>
                 /\ Terminator(s) \in BlankLines(s)
                 /\ Terminator(s) + 1 <= Len(s)
                 /\ \A i \in BlankLines(s) : Terminator(s) <= i
<1>1. BlankLines(s) \in SUBSET Nat /\ \A i \in BlankLines(s) : i # 0 /\ i + 1 <= Len(s)
  BY LengthIsNatural DEF BlankLines
<1>2. CASE BlankLines(s) # {}
  BY <1>1, <1>2, LeastIsMember DEF Terminator
<1>3. CASE BlankLines(s) = {}
  BY <1>3 DEF Terminator
<1>4. QED
  BY <1>2, <1>3

LEMMA TerminatorIsNatural ==
    ASSUME NEW s \in Seq(Symbol)
    PROVE  Terminator(s) \in Nat
  BY FirstBlankLine DEF SymbolSeqs

\* What arrives behind a complete header block does not change it.
LEMMA HeadersStay ==
    ASSUME NEW s \in SymbolSeqs, NEW x \in SymbolSeqs, Terminator(s) # 0
    PROVE  Terminator(s \o x) = Terminator(s) /\ HeaderText(s \o x) = HeaderText(s)
<1> DEFINE t == s \o x
<1>1. Len(s) \in Nat /\ Len(x) \in Nat
  BY LengthIsNatural
<1>2. t \in SymbolSeqs /\ Len(t) = Len(s) + Len(x) /\ \A i \in 1..Len(s) : t[i] = s[i]
  BY <1>1, ConcatProperties DEF SymbolSeqs
<1>3. /\ Terminator(s) \in Nat /\ Terminator(s) \in BlankLines(s)
      /\ Terminator(s) + 1 <= Len(s)
      /\ \A i \in BlankLines(s) : Terminator(s) <= i
  BY FirstBlankLine
<1> HIDE DEF t
<1>4. Terminator(s) \in BlankLines(t)
  BY <1>1, <1>2, <1>3 DEF BlankLines
<1>5. /\ Terminator(t) \in Nat /\ Terminator(t) \in BlankLines(t)
      /\ \A i \in BlankLines(t) : Terminator(t) <= i
  BY <1>2, <1>4, FirstBlankLine
<1>6. Terminator(t) <= Terminator(s)
  BY <1>4, <1>5
<1>7. Terminator(t) \in BlankLines(s)
  <2>1. Terminator(t) \in 1..(Len(s) - 1) /\ Terminator(t) \in 1..Len(s)
    BY <1>1, <1>3, <1>5, <1>6 DEF BlankLines
  <2>2. Terminator(t) + 1 \in 1..Len(s)
    BY <1>1, <2>1
  <2>3. t[Terminator(t)].kind = "lf" /\ t[Terminator(t) + 1].kind = "lf"
    BY <1>5 DEF BlankLines
  <2>4. QED
    BY <1>2, <2>1, <2>2, <2>3 DEF BlankLines
<1>8. Terminator(t) = Terminator(s)
  BY <1>3, <1>5, <1>6, <1>7
<1>9. Terminator(s) - 1 \in 0..Len(s)
  BY <1>1, <1>3
<1>10. HeaderText(t) = HeaderText(s)
  BY <1>8, <1>9, FrontOfConcat DEF HeaderText, t
<1>11. QED
  BY <1>8, <1>10 DEF t

LEMMA HeadersType ==
    ASSUME NEW s \in SymbolSeqs
    PROVE  HeaderText(s) \in SymbolSeqs
<1>1. CASE Terminator(s) = 0
  <2>1. HeaderText(s) = << >>
    BY <1>1, SubSeqEmpty DEF HeaderText
  <2>2. QED
    BY <2>1 DEF SymbolSeqs
<1>2. CASE Terminator(s) # 0
  <2>1. Terminator(s) - 1 \in 0..Len(s)
    BY <1>2, FirstBlankLine, LengthIsNatural
  <2>2. QED
    BY <2>1, FrontOfText DEF HeaderText
<1>3. QED
  BY <1>1, <1>2

\* What a header block says has its type, and errors of headers are two.
LEMMA BlockType ==
    ASSUME NEW block \in SymbolSeqs
    PROVE  /\ BodyLength(block) \in Nat
           /\ HeaderError(block) \in {"none", "ProtocolError", "InvalidHeader"}
           /\ HeaderError(block) = "none" => MessageType(block) \in Nat
<1>1. Len(block) \in Nat /\ \A i \in 1..Len(block) : block[i].n \in Nat
  <2>1. \A i \in 1..Len(block) : block[i] \in Symbol
    BY ElementOfSeq DEF SymbolSeqs
  <2>2. QED
    BY <2>1, LengthIsNatural DEF Symbol
<1>2. \A kinds : Lines(block, kinds) \in SUBSET (1..Len(block))
  BY DEF Lines
<1>3. BodyLength(block) \in Nat
  <2>1. CASE Lengths(block) = {}
    BY <2>1 DEF BodyLength
  <2>2. CASE Lengths(block) # {}
    <3>1. Max(Lengths(block)) \in 1..Len(block)
      BY <1>1, <1>2, <2>2, GreatestIsMember DEF Lengths
    <3>2. QED
      BY <1>1, <2>2, <3>1 DEF BodyLength
  <2>3. QED
    BY <2>1, <2>2
<1>4. HeaderError(block) = "none" => Types(block) # {}
  BY DEF HeaderError
<1>5. Types(block) # {} => MessageType(block) \in Nat
  <2>1. SUFFICES ASSUME Types(block) # {}
                 PROVE  MessageType(block) \in Nat
    OBVIOUS
  <2>2. Max(Types(block)) \in 1..Len(block)
    BY <1>1, <1>2, <2>1, GreatestIsMember DEF Types
  <2>3. QED
    BY <1>1, <2>2 DEF MessageType
<1>6. HeaderError(block) \in {"none", "ProtocolError", "InvalidHeader"}
  BY DEF HeaderError
<1>7. QED
  BY <1>3, <1>4, <1>5, <1>6

\* A header block that is not rejected announces a length within the limit.
LEMMA AcceptedLength ==
    ASSUME NEW block, HeaderError(block) = "none"
    PROVE  BodyLength(block) \in 0..MaxMessage
  BY DEF HeaderError

\* Behind a complete message is less than the whole text.
LEMMA CompleteMessage ==
    ASSUME NEW s \in SymbolSeqs, Complete(s)
    PROVE  /\ SubSeq(s, Behind(s), Len(s)) \in SymbolSeqs
           /\ Len(SubSeq(s, Behind(s), Len(s))) < Len(s)
           /\ Behind(s) \in 1..(Len(s) + 1)
           /\ FirstMessage(s) \in Message
<1>1. Len(s) \in Nat /\ HeaderText(s) \in SymbolSeqs
  BY LengthIsNatural, HeadersType
<1>2. /\ Terminator(s) \in Nat /\ Terminator(s) # 0
      /\ BodyLength(HeaderText(s)) \in Nat /\ MessageType(HeaderText(s)) \in Nat
  BY <1>1, FirstBlankLine, BlockType DEF Complete
<1>3. /\ Behind(s) \in 1..(Len(s) + 1) /\ Behind(s) >= 2
      /\ BodyAt(s) \in Nat /\ BodyAt(s) >= 1
  BY <1>1, <1>2 DEF Complete, Behind, BodyAt
<1>4. /\ SubSeq(s, Behind(s), Len(s)) \in SymbolSeqs
      /\ Len(SubSeq(s, Behind(s), Len(s))) = Len(s) - Behind(s) + 1
  BY <1>3, RestOfText
<1>5. Body(s) \in SymbolSeqs
  <2>1. \A i \in BodyAt(s)..(Behind(s) - 1) : s[i] \in Symbol
    <3>1. TAKE i \in BodyAt(s)..(Behind(s) - 1)
    <3>2. i \in 1..Len(s)
      BY <1>1, <1>3
    <3>3. QED
      BY <3>2, ElementOfSeq DEF SymbolSeqs
  <2>2. BodyAt(s) \in Int /\ Behind(s) - 1 \in Int
    BY <1>1, <1>3
  <2>3. QED
    BY <2>1, <2>2, SubSeqProperties DEF Body, SymbolSeqs
<1>6. FirstMessage(s) \in Message
  BY <1>2, <1>5 DEF FirstMessage, Message, SymbolSeqs
<1>7. QED
  BY <1>1, <1>3, <1>4, <1>6

-----------------------------------------------------------------------------
(***************************************************************************)
(* Decode is defined by recursion on a text.  That it obeys its equation   *)
(* is shown by building it for longer and longer texts.                    *)
(***************************************************************************)

Reading == [messages : Seq(Message), error : Errors]

\* The right-hand side of the equation, with f for what follows.
Unfolded(f, s) ==
    IF Complete(s) /\ FirstError(s) = "none"
      THEN Prepend(<<FirstMessage(s)>>, f[SubSeq(s, Behind(s), Len(s))])
      ELSE [messages |-> << >>, error |-> FirstError(s)]

Shorter(n) == {s \in SymbolSeqs : Len(s) < n}

\* g obeys the equation for all texts shorter than n.
Reads(g, n) == g = [s \in Shorter(n) |-> Unfolded(g, s)]

\* Reading a text needs the readings of shorter texts only.
LEMMA UnfoldedNeedsShorter ==
    ASSUME NEW f, NEW g, NEW s \in SymbolSeqs,
           \A t \in Shorter(Len(s)) : f[t] = g[t]
    PROVE  Unfolded(f, s) = Unfolded(g, s)
<1>1. CASE Complete(s) /\ FirstError(s) = "none"
  <2> DEFINE t == SubSeq(s, Behind(s), Len(s))
  <2>1. t \in Shorter(Len(s))
    BY <1>1, CompleteMessage DEF Shorter
  <2>2. f[t] = g[t]
    BY <2>1
  <2>3. QED
    BY <2>2 DEF Unfolded
<1>2. CASE ~(Complete(s) /\ FirstError(s) = "none")
  BY <1>2 DEF Unfolded
<1>3. QED
  BY <1>1, <1>2

\* There is such a function for each n: one for n + 1 is made from one for n.
LEMMA ReadsExtends ==
    ASSUME NEW n \in Nat, NEW g, Reads(g, n)
    PROVE  \E h : Reads(h, n + 1)
<1> DEFINE h == [s \in Shorter(n + 1) |-> Unfolded(g, s)]
<1>1. \A t \in Shorter(n) : h[t] = g[t]
  <2>1. TAKE t \in Shorter(n)
  <2>2. t \in Shorter(n + 1)
    BY LengthIsNatural DEF Shorter
  <2>3. g[t] = Unfolded(g, t)
    BY DEF Reads
  <2>4. QED
    BY <2>2, <2>3
<1>2. \A s \in Shorter(n + 1) : Unfolded(h, s) = Unfolded(g, s)
  <2> HIDE DEF h
  <2>1. TAKE s \in Shorter(n + 1)
  <2>2. s \in SymbolSeqs /\ Len(s) \in Nat /\ Len(s) <= n
    BY LengthIsNatural DEF Shorter
  <2>3. \A t \in Shorter(Len(s)) : t \in Shorter(n)
    BY <2>2, LengthIsNatural DEF Shorter
  <2>4. QED
    BY <1>1, <2>2, <2>3, UnfoldedNeedsShorter
<1>3. h = [s \in Shorter(n + 1) |-> Unfolded(h, s)]
  <2>1. [s \in Shorter(n + 1) |-> Unfolded(h, s)] = [s \in Shorter(n + 1) |-> Unfolded(g, s)]
    <3> HIDE DEF h
    <3>1. QED
      BY <1>2
  <2>2. QED
    BY <2>1
<1>4. QED
  BY <1>3 DEF Reads

LEMMA ReadsExists ==
    ASSUME NEW n \in Nat
    PROVE  \E g : Reads(g, n)
<1> DEFINE None == {k \in Nat : ~ \E g : Reads(g, k)}
<1>1. SUFFICES ASSUME None # {} PROVE FALSE
  OBVIOUS
<1>2. PICK k \in None : \A m \in None : k <= m
  BY <1>1, LeastExists
<1>3. CASE k = 0
  <2> DEFINE g == [s \in Shorter(0) |-> 0]
  <2>1. \A s \in Shorter(0) : FALSE
    BY LengthIsNatural DEF Shorter
  <2>2. g = [s \in Shorter(0) |-> Unfolded(g, s)]
    BY <2>1
  <2>3. QED
    BY <1>2, <1>3, <2>2 DEF Reads
<1>4. CASE k # 0
  <2>1. k \in Nat /\ k - 1 \in Nat /\ k - 1 \notin None /\ (k - 1) + 1 = k
    BY <1>2, <1>4
  <2>2. PICK g : Reads(g, k - 1)
    BY <2>1
  <2>3. \E h : Reads(h, k)
    BY <2>1, <2>2, ReadsExtends
  <2>4. QED
    BY <1>2, <2>3
<1>5. QED
  BY <1>3, <1>4

\* All of them agree: two that differed would differ on a shortest text.
LEMMA ReadsAgree ==
    ASSUME NEW n \in Nat, NEW m \in Nat, NEW g, NEW h, Reads(g, n), Reads(h, m),
           NEW s \in SymbolSeqs, s \in Shorter(n), s \in Shorter(m)
    PROVE  g[s] = h[s]
<1> DEFINE Differ(k) == \E t \in SymbolSeqs : /\ t \in Shorter(n) /\ t \in Shorter(m)
                                        /\ Len(t) = k /\ g[t] # h[t]
           Lens == {k \in Nat : Differ(k)}
<1>1. SUFFICES ASSUME g[s] # h[s] PROVE FALSE
  OBVIOUS
<1>2. Len(s) \in Lens
  BY <1>1, LengthIsNatural
<1>3. PICK k \in Lens : \A j \in Lens : k <= j
  BY <1>2, LeastExists
<1>4. PICK t \in SymbolSeqs : /\ t \in Shorter(n) /\ t \in Shorter(m)
                        /\ Len(t) = k /\ g[t] # h[t]
  BY <1>3
<1>5. \A u \in Shorter(Len(t)) : g[u] = h[u]
  <2>1. TAKE u \in Shorter(Len(t))
  <2>2. /\ u \in SymbolSeqs /\ Len(u) \in Nat /\ Len(u) < Len(t)
        /\ Len(t) \in Nat /\ Len(t) < n /\ Len(t) < m
    BY <1>4, LengthIsNatural DEF Shorter
  <2>3. u \in Shorter(n) /\ u \in Shorter(m)
    BY <2>2 DEF Shorter
  <2>4. ~(k <= Len(u))
    BY <1>4, <2>2
  <2>5. Len(u) \notin Lens
    BY <1>3, <2>4
  <2>6. QED
    BY <2>2, <2>3, <2>5
<1>6. Unfolded(g, t) = Unfolded(h, t)
  BY <1>5, UnfoldedNeedsShorter
<1>7. g[t] = Unfolded(g, t) /\ h[t] = Unfolded(h, t)
  BY <1>4 DEF Reads
<1>8. QED
  BY <1>4, <1>6, <1>7

LEMMA DecodeUnfolds ==
    /\ Decode = [s \in SymbolSeqs |-> Unfolded(Decode, s)]
    /\ \A s \in SymbolSeqs : Decode[s] = Unfolded(Decode, s)
<1> DEFINE Upto(s) == CHOOSE g : Reads(g, Len(s) + 1)
           f == [s \in SymbolSeqs |-> Upto(s)[s]]
<1>1. ASSUME NEW s \in SymbolSeqs
      PROVE  Reads(Upto(s), Len(s) + 1) /\ Upto(s)[s] = Unfolded(Upto(s), s)
  <2>1. Len(s) + 1 \in Nat
    BY LengthIsNatural
  <2>2. Reads(Upto(s), Len(s) + 1)
    BY <2>1, ReadsExists
  <2>3. s \in Shorter(Len(s) + 1)
    BY LengthIsNatural DEF Shorter
  <2>4. QED
    BY <2>2, <2>3 DEF Reads
<1>2. ASSUME NEW s \in SymbolSeqs
      PROVE  f[s] = Unfolded(f, s)
  <2>1. \A t \in Shorter(Len(s)) : Upto(s)[t] = f[t]
    <3>1. TAKE t \in Shorter(Len(s))
    <3>2. t \in SymbolSeqs /\ Len(t) \in Nat /\ Len(s) \in Nat /\ Len(t) < Len(s)
      BY LengthIsNatural DEF Shorter
    <3>3. t \in Shorter(Len(s) + 1) /\ t \in Shorter(Len(t) + 1)
      BY <3>2 DEF Shorter
    <3>4. Reads(Upto(s), Len(s) + 1) /\ Reads(Upto(t), Len(t) + 1)
      BY <1>1, <3>2
    <3>5. Len(s) + 1 \in Nat /\ Len(t) + 1 \in Nat
      BY <3>2
    <3> HIDE DEF Upto
    <3>6. Upto(s)[t] = Upto(t)[t]
      BY <3>2, <3>3, <3>4, <3>5, ReadsAgree
    <3>7. QED
      BY <3>2, <3>6
  <2>2. Unfolded(Upto(s), s) = Unfolded(f, s)
    <3> HIDE DEF Upto, f
    <3>1. QED
      BY <2>1, UnfoldedNeedsShorter
  <2>3. f[s] = Upto(s)[s]
    OBVIOUS
  <2>4. QED
    BY <1>1, <2>2, <2>3
<1>3. f = [s \in SymbolSeqs |-> Unfolded(f, s)]
  <2>1. [s \in SymbolSeqs |-> Unfolded(f, s)] = [s \in SymbolSeqs |-> f[s]]
    BY <1>2
  <2>2. QED
    BY <2>1
<1>4. Decode = CHOOSE g : g = [s \in SymbolSeqs |-> Unfolded(g, s)]
  BY DEF Decode, Unfolded, SymbolSeqs
<1> HIDE DEF f
<1>5. Decode = [s \in SymbolSeqs |-> Unfolded(Decode, s)]
  BY <1>3, <1>4
<1>6. \A s \in SymbolSeqs : Decode[s] = Unfolded(Decode, s)
  <2> DEFINE g == [s \in SymbolSeqs |-> Unfolded(Decode, s)]
  <2>1. \A s \in SymbolSeqs : g[s] = Unfolded(Decode, s)
    OBVIOUS
  <2>2. Decode = g
    BY <1>5
  <2> HIDE DEF g
  <2>3. QED
    BY <2>1, <2>2
<1>7. QED
  BY <1>5, <1>6

\* What Decode says of a text without, and of one with a sound message in front.
LEMMA DecodeEnds ==
    ASSUME NEW s \in SymbolSeqs, ~(Complete(s) /\ FirstError(s) = "none")
    PROVE  Decode[s] = [messages |-> << >>, error |-> FirstError(s)]
  BY DecodeUnfolds DEF Unfolded

LEMMA DecodeGoesOn ==
    ASSUME NEW s \in SymbolSeqs, Complete(s), FirstError(s) = "none"
    PROVE  Decode[s] = Prepend(<<FirstMessage(s)>>, Decode[SubSeq(s, Behind(s), Len(s))])
  BY DecodeUnfolds DEF Unfolded

LEMMA FirstErrorType ==
    ASSUME NEW s \in SymbolSeqs
    PROVE  FirstError(s) \in {"none", "ProtocolError", "InvalidHeader"}
  BY HeadersType, BlockType DEF FirstError

LEMMA DecodeType ==
    ASSUME NEW s \in SymbolSeqs
    PROVE  Decode[s] \in Reading
<1> DEFINE Wrong(k) == \E t \in SymbolSeqs : Len(t) = k /\ Decode[t] \notin Reading
           Lens == {k \in Nat : Wrong(k)}
<1>1. SUFFICES ASSUME Decode[s] \notin Reading PROVE FALSE
  OBVIOUS
<1>2. Len(s) \in Lens
  BY <1>1, LengthIsNatural
<1>3. PICK k \in Lens : \A j \in Lens : k <= j
  BY <1>2, LeastExists
<1>4. PICK t \in SymbolSeqs : Len(t) = k /\ Decode[t] \notin Reading
  BY <1>3
<1>5. CASE Complete(t) /\ FirstError(t) = "none"
  <2> DEFINE rest == SubSeq(t, Behind(t), Len(t))
             m == FirstMessage(t)
  <2>1. rest \in SymbolSeqs /\ Len(rest) < Len(t) /\ m \in Message
    BY <1>5, CompleteMessage
  <2>2. Decode[t] = Prepend(<<m>>, Decode[rest])
    BY <1>5, DecodeGoesOn
  <2> HIDE DEF rest, m
  <2>3. Len(rest) \in Nat /\ ~(k <= Len(rest))
    BY <1>4, <2>1, LengthIsNatural
  <2>4. Decode[rest] \in Reading
    BY <1>3, <2>1, <2>3
  <2>5. <<m>> \in Seq(Message)
    BY <2>1
  <2>6. <<m>> \o Decode[rest].messages \in Seq(Message)
    BY <2>4, <2>5, ConcatProperties DEF Reading
  <2>7. QED
    BY <1>4, <2>2, <2>4, <2>6 DEF Prepend, Reading
<1>6. CASE ~(Complete(t) /\ FirstError(t) = "none")
  <2>1. Decode[t] = [messages |-> << >>, error |-> FirstError(t)]
    BY <1>6, DecodeEnds
  <2>2. << >> \in Seq(Message)
    BY EmptySeq
  <2>3. FirstError(t) \in Errors
    BY FirstErrorType DEF Errors
  <2>4. QED
    BY <1>4, <2>1, <2>2, <2>3 DEF Reading
<1>7. QED
  BY <1>5, <1>6

\* One message behind those delivered, or in front of those to come.
LEMMA DeliveredNext ==
    ASSUME NEW d \in Seq(Message), NEW m \in Message, NEW r \in Reading
    PROVE  Prepend(d, Prepend(<<m>>, r)) = Prepend(Append(d, m), r)
<1> DEFINE one == <<m>>
           more == r.messages
<1>1. one \in Seq(Message) /\ more \in Seq(Message)
  BY DEF Reading
<1>2. Append(d, m) = d \o one
  BY AppendIsConcat
<1> HIDE DEF one, more
<1>3. (d \o one) \o more = d \o (one \o more)
  BY <1>1, ConcatAssociative
<1>4. QED
  BY <1>2, <1>3 DEF Prepend, one, more

LEMMA NothingPrepended ==
    ASSUME NEW d \in Seq(Message), NEW e
    PROVE  Prepend(d, [messages |-> << >>, error |-> e]) = [messages |-> d, error |-> e]
  BY ConcatEmptySeq DEF Prepend

-----------------------------------------------------------------------------
(***************************************************************************)
(* The body of a message, awaited on its own, and what follows it.         *)
(***************************************************************************)

AwaitBody(type, length, t) ==
    IF Len(t) < length THEN [messages |-> << >>, error |-> "none"]
    ELSE IF Lines(SubSeq(t, 1, length), {"raw"}) # {}
      THEN [messages |-> << >>, error |-> "ProtocolError"]
    ELSE Prepend(<<[type |-> type, body |-> SubSeq(t, 1, length)]>>,
                 Decode[SubSeq(t, length + 1, Len(t))])

\* Reading a text is reading its headers, and then its body from what is behind.
LEMMA DecodeByParts ==
    ASSUME NEW s \in SymbolSeqs, Terminator(s) # 0, HeaderError(HeaderText(s)) = "none"
    PROVE  LET behind == SubSeq(s, Terminator(s) + 2, Len(s))
           IN  Decode[s] = AwaitBody(MessageType(HeaderText(s)), BodyLength(HeaderText(s)), behind)
<1> DEFINE n == BodyLength(HeaderText(s))
           k == Terminator(s) + 2
           rest == SubSeq(s, k, Len(s))
<1>1. n \in Nat /\ Len(s) \in Nat /\ k \in Nat /\ k \in 1..(Len(s) + 1)
  BY FirstBlankLine, HeadersType, BlockType, LengthIsNatural
<1>2. BodyAt(s) = k /\ Behind(s) = k + n
  BY DEF BodyAt, Behind
<1> HIDE DEF n, k
<1>3. rest \in SymbolSeqs /\ Len(rest) = Len(s) - k + 1
  BY <1>1, RestOfText
<1>4. CASE Len(rest) < n
  <2>1. ~Complete(s)
    BY <1>1, <1>2, <1>3, <1>4 DEF Complete
  <2>2. FirstError(s) = "none"
    BY <2>1 DEF FirstError
  <2>3. Decode[s] = [messages |-> << >>, error |-> "none"]
    BY <2>1, <2>2, DecodeEnds
  <2>4. QED
    BY <1>4, <2>3 DEF AwaitBody, n, k
<1>5. CASE ~(Len(rest) < n)
  <2>1. Complete(s) /\ k + n - 1 <= Len(s)
    BY <1>1, <1>2, <1>3, <1>5 DEF Complete
  <2>2. /\ SubSeq(rest, 1, n) = SubSeq(s, k, k + n - 1)
        /\ SubSeq(rest, n + 1, Len(rest)) = SubSeq(s, k + n, Len(s))
    BY <1>1, <2>1, PieceOfRest
  <2>3. Body(s) = SubSeq(rest, 1, n)
    <3> HIDE DEF rest
    <3>1. Behind(s) - 1 = k + n - 1
      BY <1>1, <1>2
    <3>2. Body(s) = SubSeq(s, k, k + n - 1)
      BY <1>2, <3>1 DEF Body
    <3>3. QED
      BY <2>2, <3>2
  <2>4. FirstError(s) = IF Lines(Body(s), {"raw"}) # {} THEN "ProtocolError" ELSE "none"
    BY <2>1 DEF FirstError
  <2>5. CASE Lines(Body(s), {"raw"}) # {}
    <3>1. Decode[s] = [messages |-> << >>, error |-> "ProtocolError"]
      BY <2>4, <2>5, DecodeEnds
    <3>2. QED
      BY <1>5, <2>3, <2>5, <3>1 DEF AwaitBody, n, k
  <2>6. CASE ~(Lines(Body(s), {"raw"}) # {})
    <3>1. Decode[s] = Prepend(<<FirstMessage(s)>>, Decode[SubSeq(s, Behind(s), Len(s))])
      BY <2>1, <2>4, <2>6, DecodeGoesOn
    <3>2. SubSeq(s, Behind(s), Len(s)) = SubSeq(rest, n + 1, Len(rest))
      BY <1>2, <2>2
    <3>3. FirstMessage(s) = [type |-> MessageType(HeaderText(s)), body |-> SubSeq(rest, 1, n)]
      BY <2>3 DEF FirstMessage
    <3>4. QED
      BY <1>5, <2>3, <2>6, <3>1, <3>2, <3>3 DEF AwaitBody, n, k
  <2>7. QED
    BY <2>5, <2>6
<1>6. QED
  BY <1>4, <1>5

\* A body that is there is read at once, whatever is behind it.
LEMMA BodyByParts ==
    ASSUME NEW t \in SymbolSeqs, NEW x \in SymbolSeqs, NEW n \in 0..Len(t), NEW type
    PROVE  AwaitBody(type, n, t \o x) =
             IF Lines(SubSeq(t, 1, n), {"raw"}) # {}
               THEN [messages |-> << >>, error |-> "ProtocolError"]
               ELSE Prepend(<<[type |-> type, body |-> SubSeq(t, 1, n)]>>,
                            Decode[SubSeq(t, n + 1, Len(t)) \o x])
<1>1. Len(t) \in Nat /\ Len(x) \in Nat /\ Len(t \o x) = Len(t) + Len(x)
  BY LengthIsNatural, ConcatProperties DEF SymbolSeqs
<1>2. ~(Len(t \o x) < n) /\ n + 1 \in 1..(Len(t) + 1)
  BY <1>1
<1>3. SubSeq(t \o x, 1, n) = SubSeq(t, 1, n)
  BY FrontOfConcat
<1>4. SubSeq(t \o x, n + 1, Len(t \o x)) = SubSeq(t, n + 1, Len(t)) \o x
  BY <1>2, RestOfConcat
<1>5. QED
  BY <1>2, <1>3, <1>4 DEF AwaitBody

-----------------------------------------------------------------------------
(***************************************************************************)
(* The buffer.                                                             *)
(***************************************************************************)

\* What is left behind an extracted header block is again a buffer.
LEMMA AfterHeadersIsBuffer ==
    ASSUME buffer \in Seq(Symbol)
    PROVE  /\ AfterHeaders \in Seq(Symbol)
           /\ Terminator(buffer) # 0 => Len(AfterHeaders) <= Len(buffer)
<1>1. Terminator(buffer) \in Nat /\ Len(buffer) \in Nat
  BY TerminatorIsNatural
<1>2. \A i \in (Terminator(buffer) + 2)..Len(buffer) : i \in 1..Len(buffer)
  BY <1>1
<1>3. /\ AfterHeaders \in Seq(Symbol)
      /\ Len(AfterHeaders) = IF Terminator(buffer) + 2 <= Len(buffer)
                               THEN Len(buffer) - (Terminator(buffer) + 2) + 1 ELSE 0
  BY <1>1, <1>2, SubSeqProperties DEF AfterHeaders
<1>4. QED
  BY <1>1, <1>3

\* The same for an extracted body.
LEMMA AfterBodyIsBuffer ==
    ASSUME buffer \in Seq(Symbol), NEW n \in Nat, n <= Len(buffer)
    PROVE  /\ SubSeq(buffer, 1, n) \in Seq(Symbol)
           /\ SubSeq(buffer, n + 1, Len(buffer)) \in Seq(Symbol)
           /\ Len(SubSeq(buffer, n + 1, Len(buffer))) <= Len(buffer)
<1>1. buffer \in SymbolSeqs /\ n \in 0..Len(buffer) /\ n + 1 \in 1..(Len(buffer) + 1)
  BY LengthIsNatural DEF SymbolSeqs
<1>2. SubSeq(buffer, 1, n) \in SymbolSeqs
  BY <1>1, FrontOfText
<1>3. /\ SubSeq(buffer, n + 1, Len(buffer)) \in SymbolSeqs
      /\ Len(SubSeq(buffer, n + 1, Len(buffer))) = Len(buffer) - (n + 1) + 1
  BY <1>1, RestOfText
<1>4. QED
  BY <1>1, <1>2, <1>3, LengthIsNatural DEF SymbolSeqs

\* A read appends symbols of the stream.
LEMMA ReadAppends ==
    ASSUME stream \in Seq(Symbol), buffer \in Seq(Symbol), fed \in Nat,
           NEW n \in Nat, fed + n <= Len(stream)
    PROVE  LET piece == SubSeq(stream, fed + 1, fed + n)
           IN  /\ buffer \o piece \in Seq(Symbol)
               /\ Len(buffer \o piece) = Len(buffer) + n
<1> DEFINE piece == SubSeq(stream, fed + 1, fed + n)
<1>1. piece \in Seq(Symbol) /\ Len(piece) = n
  BY SubSeqProperties
<1> HIDE DEF piece
<1>2. buffer \o piece \in Seq(Symbol) /\ Len(buffer \o piece) = Len(buffer) + n
  BY <1>1, ConcatProperties
<1>3. QED
  BY <1>2 DEF piece

-----------------------------------------------------------------------------

(***************************************************************************)
(* Types.                                                                  *)
(***************************************************************************)

LEMMA InitType == Init => TypeOK
<1> SUFFICES ASSUME Init PROVE TypeOK
  OBVIOUS
<1>1. stream \in Seq(Symbol) /\ fed = 0 /\ buffer = << >> /\ delivered = << >>
  BY ParserAssumption DEF Init
<1>2. buffer \in Seq(Symbol) /\ delivered \in Seq(Message) /\ Len(buffer) = 0
  BY <1>1, EmptySeq
<1>3. fed \in 0..Len(stream)
  BY <1>1
<1>4. MaxMessage \in Nat /\ MaxBuffer \in Nat
  BY ParserAssumption
<1>5. state \in [type : Nat, length : 0..MaxMessage] /\ error \in Errors /\ phase = "parse"
  BY <1>4 DEF Init, NoMessage, Errors
<1>6. QED
  BY <1>1, <1>2, <1>3, <1>4, <1>5 DEF TypeOK

LEMMA TypeStep == TypeOK /\ [Next]_vars => TypeOK'
<1> SUFFICES ASSUME TypeOK, [Next]_vars
             PROVE  TypeOK'
  OBVIOUS
<1>0. /\ stream \in Seq(Symbol) /\ Len(stream) \in Nat /\ fed \in 0..Len(stream)
      /\ buffer \in Seq(Symbol) /\ buffer \in SymbolSeqs /\ Len(buffer) \in Nat
      /\ state \in [type : Nat, length : 0..MaxMessage]
      /\ delivered \in Seq(Message) /\ error \in Errors
      /\ MaxMessage \in Nat /\ MaxBuffer \in Nat
      /\ NoMessage \in [type : Nat, length : 0..MaxMessage]
  BY ParserAssumption DEF TypeOK, SymbolSeqs, NoMessage
<1>1. CASE RejectHeaders
  <2>1. buffer' \in Seq(Symbol)
    BY <1>0, <1>1, AfterHeadersIsBuffer DEF RejectHeaders
  <2>2. error' \in Errors /\ phase' = "stopped"
    BY <1>0, <1>1, HeadersType, BlockType DEF RejectHeaders, Fail, HeaderBlock, Errors
  <2>3. QED
    BY <1>0, <1>1, <2>1, <2>2 DEF TypeOK, RejectHeaders
<1>2. CASE ParseBare
  <2>1. buffer' \in Seq(Symbol) /\ Len(buffer') <= Len(buffer)
    BY <1>0, <1>2, AfterHeadersIsBuffer DEF ParseBare, ParseReady
  <2>2. MessageType(HeaderBlock) \in Nat
    BY <1>0, <1>2, HeadersType, BlockType DEF ParseBare, HeaderBlock
  <2>3. [type |-> MessageType(HeaderBlock), body |-> << >>] \in Message
    BY <2>2, EmptySeq DEF Message
  <2>4. delivered' \in Seq(Message) /\ state' = NoMessage
    BY <1>0, <1>2, <2>3, AppendProperties DEF ParseBare, Deliver
  <2>5. UNCHANGED <<stream, fed, error, phase>> /\ Len(buffer) <= MaxBuffer /\ Len(buffer') \in Nat
    BY <1>2, <2>1 DEF TypeOK, ParseBare, ParseReady
  <2>6. QED
    BY <1>0, <2>1, <2>4, <2>5 DEF TypeOK
<1>3. CASE ParseHeaders
  <2>1. buffer' \in Seq(Symbol) /\ Len(buffer') <= Len(buffer)
    BY <1>0, <1>3, AfterHeadersIsBuffer DEF ParseHeaders, ParseReady
  <2>2. MessageType(HeaderBlock) \in Nat /\ BodyLength(HeaderBlock) \in 0..MaxMessage
    BY <1>0, <1>3, HeadersType, BlockType, AcceptedLength DEF ParseHeaders, HeaderBlock
  <2>3. state' \in [type : Nat, length : 0..MaxMessage]
    BY <1>3, <2>2 DEF ParseHeaders
  <2>4. /\ UNCHANGED <<stream, fed, delivered, error, phase>>
        /\ Len(buffer) <= MaxBuffer /\ Len(buffer') \in Nat
    BY <1>3, <2>1 DEF TypeOK, ParseHeaders, ParseReady
  <2>5. QED
    BY <1>0, <2>1, <2>3, <2>4 DEF TypeOK
<1>4. CASE ParseBody
  <2> DEFINE n == state.length
             body == SubSeq(buffer, 1, n)
  <2>1. n \in Nat /\ n <= Len(buffer) /\ buffer' = SubSeq(buffer, n + 1, Len(buffer))
    BY <1>0, <1>4 DEF ParseBody
  <2>2. body \in Seq(Symbol) /\ buffer' \in Seq(Symbol) /\ Len(buffer') <= Len(buffer)
    BY <1>0, <2>1, AfterBodyIsBuffer
  <2>3. \/ Deliver(state.type, body) /\ UNCHANGED <<error, phase>>
        \/ Fail("ProtocolError") /\ UNCHANGED <<state, delivered>>
    BY <1>4 DEF ParseBody
  <2>4. [type |-> state.type, body |-> body] \in Message
    BY <1>0, <2>2 DEF Message
  <2>5. /\ delivered' \in Seq(Message) /\ error' \in Errors
        /\ state' \in [type : Nat, length : 0..MaxMessage]
        /\ phase' \in {phase, "stopped"}
    <3> HIDE DEF n, body
    <3>1. CASE Deliver(state.type, body) /\ UNCHANGED <<error, phase>>
      <4>1. delivered' \in Seq(Message) /\ state' = NoMessage
        BY <1>0, <2>4, <3>1, AppendProperties DEF Deliver
      <4>2. QED
        BY <1>0, <3>1, <4>1
    <3>2. CASE Fail("ProtocolError") /\ UNCHANGED <<state, delivered>>
      BY <1>0, <3>2 DEF Fail, Errors
    <3>3. QED
      BY <2>3, <3>1, <3>2
  <2>6. UNCHANGED <<stream, fed>> /\ Len(buffer) <= MaxBuffer /\ Len(buffer') \in Nat /\ phase = "parse"
    BY <1>4, <2>2 DEF TypeOK, ParseBody
  <2>7. QED
    BY <1>0, <2>2, <2>5, <2>6 DEF TypeOK
<1>5. CASE NeedMore
  BY <1>5 DEF TypeOK, NeedMore
<1>6. CASE Read
  <2>1. PICK n \in 1..ReadSize : fed + n <= Len(stream) /\ fed' = fed + n /\ AddData(n)
    BY <1>6 DEF Read
  <2>2. n \in Nat /\ fed \in Nat /\ fed' \in 0..Len(stream)
    BY <1>0, <2>1, ParserAssumption
  <2>3. buffer' \in Seq(Symbol) /\ Len(buffer') \in Nat
    BY <1>0, <2>1, <2>2, ReadAppends DEF AddData
  <2>4. UNCHANGED <<stream, state, delivered>>
    BY <1>6 DEF Read
  <2>5. \/ error' = "BufferOverflow" /\ phase' = "stopped"
        \/ phase' = "parse" /\ error' = error /\ ~(Len(buffer') > MaxBuffer)
    BY <2>1 DEF AddData, Fail
  <2>6. error' \in Errors
    BY <1>0, <2>5 DEF Errors
  <2>7. QED
    BY <1>0, <2>2, <2>3, <2>4, <2>5, <2>6 DEF TypeOK
<1>7. CASE ReadEof
  BY <1>7 DEF TypeOK, ReadEof, Fail, Errors
<1>8. CASE UNCHANGED vars
  BY <1>8 DEF TypeOK, vars
<1>9. QED
  BY <1>1, <1>2, <1>3, <1>4, <1>5, <1>6, <1>7, <1>8 DEF Next

\* Every variable keeps its type: above all, the buffer never holds more than
\* MAX_BUFFER_SIZE while the loop goes on.
THEOREM TypeCorrect == Spec => []TypeOK
  BY InitType, TypeStep, PTL DEF Spec

-----------------------------------------------------------------------------
(***************************************************************************)
(* The buffer limit.                                                       *)
(***************************************************************************)

\* An empty buffer keeps the invariant.
LEMMA InitBuffer == Init => BufferInv
  BY ParserAssumption DEF Init, BufferInv, NoMessage, OnlyHeadersOverflow

\* Every step keeps it.
LEMMA BufferStep == BufferInv /\ [Next]_vars => BufferInv'
<1> SUFFICES ASSUME BufferInv, [Next]_vars
             PROVE  BufferInv'
  OBVIOUS
<1> USE DEF BufferInv, OnlyHeadersOverflow
<1>0. /\ MaxMessage \in Nat /\ ReadSize \in Nat /\ MaxBuffer \in Nat
      /\ MaxMessage + ReadSize <= MaxBuffer
      /\ NoMessage.length \in 0..MaxMessage
      /\ Len(buffer) \in Nat /\ Len(stream) \in Nat /\ fed \in Nat
  BY ParserAssumption DEF NoMessage
<1>1. CASE RejectHeaders
  <2>1. buffer' \in Seq(Symbol)
    BY <1>1, AfterHeadersIsBuffer DEF RejectHeaders
  <2>2. QED
    BY <1>1, <2>1 DEF RejectHeaders, ParseReady, Fail
<1>2. CASE ParseBare
  <2>1. buffer' \in Seq(Symbol)
    BY <1>2, AfterHeadersIsBuffer DEF ParseBare
  <2>2. QED
    BY <1>0, <1>2, <2>1 DEF ParseBare, ParseReady, Deliver
<1>3. CASE ParseHeaders
  <2>1. buffer' \in Seq(Symbol)
    BY <1>3, AfterHeadersIsBuffer DEF ParseHeaders
  <2>2. state'.length \in 0..MaxMessage
    BY <1>3, AcceptedLength DEF ParseHeaders
  <2>3. QED
    BY <1>3, <2>1, <2>2 DEF ParseHeaders, ParseReady
<1>4. CASE ParseBody
  <2>1. buffer' \in Seq(Symbol)
    <3>1. state.length \in Nat /\ buffer' = SubSeq(buffer, state.length + 1, Len(buffer))
      BY <1>0, <1>4 DEF ParseBody
    <3>2. \A i \in (state.length + 1)..Len(buffer) : i \in 1..Len(buffer)
      BY <1>0, <3>1
    <3>3. QED
      BY <1>0, <3>1, <3>2, SubSeqProperties
  <2>2. /\ UNCHANGED <<stream, fed>> /\ phase = "parse"
        /\ \/ state' = NoMessage /\ UNCHANGED <<error, phase>>
           \/ error' = "ProtocolError" /\ phase' = "stopped" /\ UNCHANGED state
    BY <1>4 DEF ParseBody, Deliver, Fail
  <2>3. QED
    BY <1>0, <2>1, <2>2
<1>5. CASE NeedMore
  BY <1>0, <1>5 DEF NeedMore
<1>6. CASE Read
  <2>1. PICK n \in 1..ReadSize : fed + n <= Len(stream) /\ fed' = fed + n /\ AddData(n)
    BY <1>6 DEF Read
  <2>2. buffer' \in Seq(Symbol) /\ Len(buffer') = Len(buffer) + n
    BY <1>0, <2>1, ReadAppends DEF AddData
  <2>3. phase = "read" /\ UNCHANGED <<stream, state>> /\ fed' \in 0..Len(stream)
    BY <1>0, <1>6, <2>1 DEF Read
  <2>4. state # NoMessage => Len(buffer') <= MaxBuffer
    BY <1>0, <2>1, <2>2, <2>3
  <2>5. \/ error' = "BufferOverflow" /\ phase' = "stopped" /\ Len(buffer') > MaxBuffer
        \/ phase' = "parse" /\ UNCHANGED error
    BY <2>1 DEF AddData, Fail
  <2>6. QED
    BY <1>0, <2>2, <2>3, <2>4, <2>5
<1>7. CASE ReadEof
  BY <1>7 DEF ReadEof, Fail
<1>8. CASE UNCHANGED vars
  BY <1>8 DEF vars
<1>9. QED
  BY <1>1, <1>2, <1>3, <1>4, <1>5, <1>6, <1>7, <1>8 DEF Next

\* check_size_limits never stops a connection in the middle of a body: with
\* room for the longest message and one read, only headers without an end
\* overflow the buffer.
THEOREM BodiesFitTheBuffer == Spec => []OnlyHeadersOverflow
<1>1. BufferInv => OnlyHeadersOverflow
  BY DEF BufferInv
<1>2. QED
  BY <1>1, InitBuffer, BufferStep, PTL DEF Spec

-----------------------------------------------------------------------------
(***************************************************************************)
(* How the bytes are cut makes no difference.  Whatever may still come     *)
(* behind what was read, reading it all is delivering what was delivered   *)
(* and then reading the buffer: CutsInv says so for every continuation x,  *)
(* so that a read, which turns the first part of x into buffer, keeps it.  *)
(***************************************************************************)

Awaited(t) ==
    IF state = NoMessage THEN Decode[t] ELSE AwaitBody(state.type, state.length, t)

WhatWasRead == SubSeq(stream, 1, fed)

CutsInv ==
    /\ phase # "stopped" =>
         /\ error = "none"
         /\ \A x \in SymbolSeqs : Decode[WhatWasRead \o x] = Prepend(delivered, Awaited(buffer \o x))
    /\ CutsMakeNoDifference

\* Reading what is in the buffer by its header block, if that is sound ...
LEMMA HeadersRead ==
    ASSUME TypeOK, ParseReady, HeaderError(HeaderBlock) = "none", NEW x \in SymbolSeqs
    PROVE  Decode[buffer \o x]
             = AwaitBody(MessageType(HeaderBlock), BodyLength(HeaderBlock), AfterHeaders \o x)
<1> DEFINE t == buffer \o x
<1>1. buffer \in SymbolSeqs /\ Terminator(buffer) # 0
  BY DEF TypeOK, SymbolSeqs, ParseReady
<1>2. t \in SymbolSeqs
  BY <1>1, ConcatProperties DEF SymbolSeqs
<1>3. Terminator(t) = Terminator(buffer) /\ HeaderText(t) = HeaderBlock
  BY <1>1, HeadersStay DEF HeaderBlock
<1>4. Terminator(buffer) + 2 \in 1..(Len(buffer) + 1)
  BY <1>1, FirstBlankLine, LengthIsNatural
<1>5. SubSeq(t, Terminator(t) + 2, Len(t)) = AfterHeaders \o x
  BY <1>1, <1>3, <1>4, RestOfConcat DEF AfterHeaders
<1> HIDE DEF t
<1>6. Decode[t] = AwaitBody(MessageType(HeaderText(t)), BodyLength(HeaderText(t)),
                           SubSeq(t, Terminator(t) + 2, Len(t)))
  BY <1>1, <1>2, <1>3, DecodeByParts
<1>7. QED
  BY <1>3, <1>5, <1>6 DEF t

\* ... and if it is not.
LEMMA HeadersRejected ==
    ASSUME TypeOK, ParseReady, HeaderError(HeaderBlock) # "none"
    PROVE  Decode[buffer] = [messages |-> << >>, error |-> HeaderError(HeaderBlock)]
<1>1. buffer \in SymbolSeqs /\ Terminator(buffer) # 0
  BY DEF TypeOK, SymbolSeqs, ParseReady
<1>2. ~Complete(buffer) /\ FirstError(buffer) = HeaderError(HeaderBlock)
  BY <1>1 DEF Complete, FirstError, HeaderBlock
<1>3. QED
  BY <1>1, <1>2, DecodeEnds

\* A text without a header block has no message.
LEMMA NothingRead ==
    ASSUME NEW s \in SymbolSeqs, Terminator(s) = 0
    PROVE  Decode[s] = [messages |-> << >>, error |-> "none"]
<1>1. ~Complete(s) /\ FirstError(s) = "none"
  BY DEF Complete, FirstError
<1>2. QED
  BY <1>1, DecodeEnds

\* While the loop goes on, what was read so far is what was delivered and what
\* the buffer holds.
LEMMA ReadSoFar ==
    ASSUME TypeOK, CutsInv, phase # "stopped"
    PROVE  /\ WhatWasRead \in SymbolSeqs
           /\ Decode[WhatWasRead] = Prepend(delivered, Awaited(buffer))
<1>1. WhatWasRead \in SymbolSeqs
  BY FrontOfText DEF TypeOK, SymbolSeqs, WhatWasRead
<1>2. << >> \in SymbolSeqs /\ buffer \in SymbolSeqs
  BY EmptySeq DEF SymbolSeqs, TypeOK
<1>3. WhatWasRead \o << >> = WhatWasRead /\ buffer \o << >> = buffer
  BY <1>1, <1>2, ConcatEmptySeq DEF SymbolSeqs
<1>4. Decode[WhatWasRead \o << >>] = Prepend(delivered, Awaited(buffer \o << >>))
  BY <1>2 DEF CutsInv
<1>5. QED
  BY <1>1, <1>3, <1>4

LEMMA InitCuts == Init => CutsInv
<1> SUFFICES ASSUME Init PROVE CutsInv
  OBVIOUS
<1>1. /\ stream \in Seq(Symbol) /\ fed = 0 /\ buffer = << >> /\ delivered = << >>
      /\ state = NoMessage /\ error = "none" /\ phase = "parse"
  BY ParserAssumption DEF Init
<1>2. WhatWasRead = << >>
  BY <1>1, SubSeqEmpty DEF WhatWasRead
<1>3. ASSUME NEW x \in SymbolSeqs
      PROVE  Decode[WhatWasRead \o x] = Prepend(delivered, Awaited(buffer \o x))
  <2>1. WhatWasRead \o x = x /\ buffer \o x = x
    BY <1>1, <1>2, ConcatEmptySeq DEF SymbolSeqs
  <2>2. Decode[x] \in Reading
    BY DecodeType
  <2>3. << >> \o Decode[x].messages = Decode[x].messages
    BY <2>2, ConcatEmptySeq DEF Reading
  <2>4. Prepend(<< >>, Decode[x]) = Decode[x]
    BY <2>2, <2>3 DEF Prepend, Reading
  <2>5. QED
    BY <1>1, <2>1, <2>4 DEF Awaited
<1>4. QED
  BY <1>1, <1>3 DEF CutsInv, CutsMakeNoDifference

\* An error of the parser ends the loop with what was delivered before it.
LEMMA RejectHeadersCuts ==
    ASSUME TypeOK, CutsInv, RejectHeaders
    PROVE  CutsInv'
<1>1. /\ ParseReady /\ phase = "parse" /\ state = NoMessage
      /\ HeaderError(HeaderBlock) # "none" /\ error' = HeaderError(HeaderBlock)
      /\ phase' = "stopped" /\ UNCHANGED <<stream, fed, delivered>>
  BY DEF RejectHeaders, ParseReady, Fail
<1>2. Decode[WhatWasRead] = Prepend(delivered, Decode[buffer])
  BY <1>1, ReadSoFar DEF Awaited
<1>3. Decode[buffer] = [messages |-> << >>, error |-> error']
  BY <1>1, HeadersRejected
<1>4. Decode[WhatWasRead] = [messages |-> delivered, error |-> error']
  BY <1>2, <1>3, NothingPrepended DEF TypeOK
<1>5. error' \in {"ProtocolError", "InvalidHeader"}
  BY <1>1, HeadersType, BlockType DEF TypeOK, HeaderBlock, SymbolSeqs
<1>6. QED
  BY <1>1, <1>4, <1>5 DEF CutsInv, CutsMakeNoDifference, WhatWasRead

LEMMA ParseBareCuts ==
    ASSUME TypeOK, CutsInv, ParseBare
    PROVE  CutsInv'
<1> DEFINE m == [type |-> MessageType(HeaderBlock), body |-> << >>]
<1>1. /\ ParseReady /\ phase = "parse" /\ state = NoMessage
      /\ HeaderError(HeaderBlock) = "none" /\ BodyLength(HeaderBlock) = 0
      /\ buffer' = AfterHeaders /\ delivered' = Append(delivered, m) /\ state' = NoMessage
      /\ UNCHANGED <<stream, fed, error, phase>>
  BY DEF ParseBare, ParseReady, Deliver
<1>2. buffer \in SymbolSeqs /\ AfterHeaders \in SymbolSeqs /\ delivered \in Seq(Message)
  BY AfterHeadersIsBuffer DEF TypeOK, SymbolSeqs
<1>3. MessageType(HeaderBlock) \in Nat
  BY <1>1, <1>2, HeadersType, BlockType DEF HeaderBlock
<1>4. m \in Message
  BY <1>3, EmptySeq DEF Message
<1>5. ASSUME NEW x \in SymbolSeqs
      PROVE  Decode[WhatWasRead \o x] = Prepend(delivered', Decode[AfterHeaders \o x])
  <2> DEFINE t == AfterHeaders
  <2>1. 0 \in 0..Len(t) /\ SubSeq(t, 1, 0) = << >> /\ SubSeq(t, 0 + 1, Len(t)) = t
    BY <1>2, LengthIsNatural, SubSeqEmpty, SubSeqFull DEF SymbolSeqs
  <2>2. Lines(SubSeq(t, 1, 0), {"raw"}) = {}
    BY <2>1 DEF Lines
  <2> HIDE DEF t
  <2>3. AwaitBody(MessageType(HeaderBlock), 0, t \o x) = Prepend(<<m>>, Decode[t \o x])
    BY <1>2, <2>1, <2>2, BodyByParts, ZenonT(30) DEF t
  <2>4. Decode[buffer \o x] = Prepend(<<m>>, Decode[t \o x])
    BY <1>1, <2>3, HeadersRead DEF t
  <2>5. Decode[WhatWasRead \o x] = Prepend(delivered, Decode[buffer \o x])
    BY <1>1 DEF CutsInv, Awaited
  <2>6. t \o x \in SymbolSeqs
    BY <1>2, ConcatProperties DEF t, SymbolSeqs
  <2>7. Decode[t \o x] \in Reading
    BY <2>6, DecodeType
  <2> HIDE DEF m
  <2>8. Prepend(delivered, Prepend(<<m>>, Decode[t \o x])) = Prepend(Append(delivered, m), Decode[t \o x])
    BY <1>2, <1>4, <2>7, DeliveredNext
  <2>9. QED
    BY <1>1, <2>4, <2>5, <2>8 DEF t
<1>6. QED
  BY <1>1, <1>5 DEF CutsInv, CutsMakeNoDifference, Awaited, WhatWasRead

LEMMA ParseHeadersCuts ==
    ASSUME TypeOK, CutsInv, ParseHeaders
    PROVE  CutsInv'
<1>1. /\ ParseReady /\ phase = "parse" /\ state = NoMessage
      /\ HeaderError(HeaderBlock) = "none" /\ BodyLength(HeaderBlock) > 0
      /\ buffer' = AfterHeaders
      /\ state' = [type |-> MessageType(HeaderBlock), length |-> BodyLength(HeaderBlock)]
      /\ UNCHANGED <<stream, fed, delivered, error, phase>>
  BY DEF ParseHeaders, ParseReady
<1>2. state' # NoMessage
  BY <1>1 DEF NoMessage
<1>3. ASSUME NEW x \in SymbolSeqs
      PROVE  /\ Decode[WhatWasRead \o x] = Prepend(delivered, Decode[buffer \o x])
             /\ Decode[buffer \o x] = AwaitBody(state'.type, state'.length, buffer' \o x)
  <2>1. Decode[WhatWasRead \o x] = Prepend(delivered, Decode[buffer \o x])
    BY <1>1 DEF CutsInv, Awaited
  <2>2. Decode[buffer \o x]
          = AwaitBody(MessageType(HeaderBlock), BodyLength(HeaderBlock), AfterHeaders \o x)
    BY <1>1, HeadersRead
  <2>3. QED
    BY <1>1, <2>1, <2>2
<1>4. QED
  BY <1>1, <1>2, <1>3 DEF CutsInv, CutsMakeNoDifference, Awaited, WhatWasRead

LEMMA ParseBodyCuts ==
    ASSUME TypeOK, CutsInv, ParseBody
    PROVE  CutsInv'
<1> DEFINE n == state.length
           body == SubSeq(buffer, 1, n)
           m == [type |-> state.type, body |-> body]
           rest == SubSeq(buffer, n + 1, Len(buffer))
<1>1. /\ phase = "parse" /\ state # NoMessage /\ n <= Len(buffer) /\ buffer' = rest
      /\ UNCHANGED <<stream, fed>>
  BY DEF TypeOK, ParseBody
<1>2. /\ buffer \in SymbolSeqs /\ n \in Nat /\ n \in 0..Len(buffer) /\ state.type \in Nat
      /\ delivered \in Seq(Message)
  BY <1>1, LengthIsNatural DEF TypeOK, SymbolSeqs
<1>3. body \in SymbolSeqs /\ rest \in SymbolSeqs
  BY <1>1, <1>2, AfterBodyIsBuffer DEF SymbolSeqs
<1>4. ASSUME NEW x \in SymbolSeqs
      PROVE  AwaitBody(state.type, n, buffer \o x) =
               IF Lines(body, {"raw"}) # {}
                 THEN [messages |-> << >>, error |-> "ProtocolError"]
                 ELSE Prepend(<<m>>, Decode[rest \o x])
  BY <1>2, BodyByParts
<1> HIDE DEF n, rest
<1>5. CASE Lines(body, {"raw"}) = {}
  <2>1. /\ delivered' = Append(delivered, m) /\ state' = NoMessage
        /\ UNCHANGED <<error, phase>>
    BY <1>5 DEF ParseBody, Deliver, n
  <2>2. m \in Message
    BY <1>2, <1>3 DEF Message, SymbolSeqs
  <2>3. ASSUME NEW x \in SymbolSeqs
        PROVE  Decode[WhatWasRead \o x] = Prepend(delivered', Decode[rest \o x])
    <3>1. Decode[WhatWasRead \o x] = Prepend(delivered, AwaitBody(state.type, n, buffer \o x))
      BY <1>1 DEF CutsInv, Awaited, n
    <3>2. AwaitBody(state.type, n, buffer \o x) = Prepend(<<m>>, Decode[rest \o x])
      BY <1>4, <1>5
    <3>3. rest \o x \in SymbolSeqs
      BY <1>3, ConcatProperties DEF SymbolSeqs
    <3>4. Decode[rest \o x] \in Reading
      BY <3>3, DecodeType
    <3> HIDE DEF m
    <3>5. Prepend(delivered, Prepend(<<m>>, Decode[rest \o x]))
            = Prepend(Append(delivered, m), Decode[rest \o x])
      BY <1>2, <2>2, <3>4, DeliveredNext
    <3>6. QED
      BY <2>1, <3>1, <3>2, <3>5
  <2>4. QED
    BY <1>1, <2>1, <2>3 DEF CutsInv, CutsMakeNoDifference, Awaited, WhatWasRead
<1>6. CASE Lines(body, {"raw"}) # {}
  <2>1. error' = "ProtocolError" /\ phase' = "stopped" /\ UNCHANGED delivered
    BY <1>6 DEF ParseBody, Fail, n
  <2>2. << >> \in SymbolSeqs /\ buffer \o << >> = buffer
    BY <1>2, EmptySeq, ConcatEmptySeq DEF SymbolSeqs
  <2>3. AwaitBody(state.type, n, buffer) = [messages |-> << >>, error |-> "ProtocolError"]
    BY <1>4, <1>6, <2>2
  <2>4. Decode[WhatWasRead] = Prepend(delivered, AwaitBody(state.type, n, buffer))
    BY <1>1, ReadSoFar DEF Awaited, n
  <2>5. Decode[WhatWasRead] = [messages |-> delivered, error |-> "ProtocolError"]
    BY <1>2, <2>3, <2>4, NothingPrepended
  <2>6. QED
    BY <1>1, <2>1, <2>5 DEF CutsInv, CutsMakeNoDifference, WhatWasRead
<1>7. QED
  BY <1>5, <1>6

\* parse_message wants more only when the buffer holds no message.
LEMMA NeedMoreCuts ==
    ASSUME TypeOK, CutsInv, NeedMore
    PROVE  CutsInv'
<1>1. /\ phase = "parse" /\ phase' = "read"
      /\ IF state = NoMessage THEN Terminator(buffer) = 0 ELSE Len(buffer) < state.length
      /\ UNCHANGED <<stream, fed, buffer, state, delivered, error>>
  BY DEF NeedMore
<1>2. Awaited(buffer) = [messages |-> << >>, error |-> "none"]
  BY <1>1, NothingRead DEF Awaited, AwaitBody, TypeOK, SymbolSeqs
<1>3. Decode[WhatWasRead] = [messages |-> delivered, error |-> "none"]
  BY <1>1, <1>2, ReadSoFar, NothingPrepended DEF TypeOK
<1>4. QED
  BY <1>1, <1>3 DEF CutsInv, CutsMakeNoDifference, Awaited, WhatWasRead

\* A read moves the front of what may come into the buffer.
LEMMA ReadCuts ==
    ASSUME TypeOK, CutsInv, Read
    PROVE  CutsInv'
<1>1. PICK n \in 1..ReadSize : fed + n <= Len(stream) /\ fed' = fed + n /\ AddData(n)
  BY DEF Read
<1> DEFINE piece == SubSeq(stream, fed + 1, fed + n)
           read == SubSeq(stream, 1, fed)
<1>2. /\ phase = "read" /\ UNCHANGED <<stream, state, delivered>> /\ buffer' = buffer \o piece
      /\ \/ error' = "BufferOverflow" /\ phase' = "stopped"
         \/ phase' = "parse" /\ error' = error
  BY <1>1 DEF Read, AddData, Fail
<1>3. /\ stream \in SymbolSeqs /\ buffer \in SymbolSeqs /\ fed \in Nat /\ n \in Nat
      /\ Len(stream) \in Nat
  BY <1>1, ParserAssumption DEF TypeOK, SymbolSeqs
<1>4. piece \in SymbolSeqs
  <2>1. \A i \in (fed + 1)..(fed + n) : stream[i] \in Symbol
    BY <1>1, <1>3, ElementOfSeq DEF SymbolSeqs
  <2>2. fed + 1 \in Int /\ fed + n \in Int
    BY <1>3
  <2>3. QED
    BY <2>1, <2>2, SubSeqProperties DEF SymbolSeqs
<1>5. read \in SymbolSeqs /\ SubSeq(stream, 1, fed + n) = read \o piece
  <2>1. fed \in 0..Len(stream) /\ fed \in (1 - 1)..Len(stream) /\ fed + n \in fed..Len(stream)
        /\ 1 \in 1..(Len(stream) + 1)
    BY <1>1, <1>3
  <2>2. QED
    BY <1>3, <2>1, FrontOfText, ConcatAdjacentSubSeq DEF SymbolSeqs
<1> HIDE DEF piece, read
<1>6. ASSUME NEW x \in SymbolSeqs
      PROVE  Decode[(read \o piece) \o x] = Prepend(delivered, Awaited((buffer \o piece) \o x))
  <2>1. piece \o x \in SymbolSeqs
    BY <1>4, ConcatProperties DEF SymbolSeqs
  <2>2. Decode[read \o (piece \o x)] = Prepend(delivered, Awaited(buffer \o (piece \o x)))
    BY <1>2, <2>1 DEF CutsInv, WhatWasRead, read
  <2>3. /\ (read \o piece) \o x = read \o (piece \o x)
        /\ (buffer \o piece) \o x = buffer \o (piece \o x)
    BY <1>3, <1>4, <1>5, TextsAssociative
  <2>4. QED
    BY <2>2, <2>3
<1>7. SubSeq(stream', 1, fed') = read \o piece
  BY <1>1, <1>2, <1>5
<1>8. phase # "stopped" => error = "none"
  BY DEF CutsInv
<1>9. CASE phase' = "stopped"
  BY <1>2, <1>9 DEF CutsInv, CutsMakeNoDifference
<1>10. CASE phase' # "stopped"
  BY <1>2, <1>6, <1>7, <1>8, <1>10 DEF CutsInv, CutsMakeNoDifference, Awaited, WhatWasRead
<1>11. QED
  BY <1>9, <1>10

LEMMA ReadEofCuts ==
    ASSUME CutsInv, ReadEof
    PROVE  CutsInv'
  BY DEF ReadEof, Fail, CutsInv, CutsMakeNoDifference, WhatWasRead

LEMMA CutsStep == TypeOK /\ CutsInv /\ [Next]_vars => CutsInv'
<1> SUFFICES ASSUME TypeOK, CutsInv, [Next]_vars
             PROVE  CutsInv'
  OBVIOUS
<1>1. CASE UNCHANGED vars
  BY <1>1 DEF vars, CutsInv, CutsMakeNoDifference, Awaited, WhatWasRead
<1>2. CASE Next
  BY <1>2, RejectHeadersCuts, ParseBareCuts, ParseHeadersCuts, ParseBodyCuts, NeedMoreCuts,
     ReadCuts, ReadEofCuts DEF Next
<1>3. QED
  BY <1>1, <1>2

\* Whatever the server sends, however the network cuts it and wherever it ends:
\* the messages delivered are those that the bytes read so far hold, none is
\* split, merged, lost or held back, and the loop fails exactly on what is wrong.
THEOREM CutsDoNotMatter == Spec => []CutsMakeNoDifference
<1>1. CutsInv => CutsMakeNoDifference
  BY DEF CutsInv
<1>2. QED
  BY <1>1, InitType, TypeStep, InitCuts, CutsStep, PTL DEF Spec

=============================================================================
