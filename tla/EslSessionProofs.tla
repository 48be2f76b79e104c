-------------------------- MODULE EslSessionProofs --------------------------
(***************************************************************************)
(* Proofs about the session: what arrives is acted upon once and in order  *)
(* through the hand-over of the parser, the reason of the end comes before *)
(* the end, and the liveness check neither accuses a live peer nor misses  *)
(* a dead one.  They hold for every timeout, tick, clock resolution and    *)
(* set of durations, for every size of the buffer and of a read, and for   *)
(* a server that sends any number of messages, however they are cut.       *)
(***************************************************************************)
EXTENDS EslSession, SequenceTheorems, WellFoundedInduction, TLAPS

(***************************************************************************)
(* The end of the event stream is the last thing but the report of a       *)
(* panic, and a reader task that returns has sent its reason.              *)
(***************************************************************************)
EndInv ==
    /\ eventEnd => phase \in {"unwinding", "ended"}
    /\ phase \in {"returning", "ended"} => status \notin {"none", "Connected"}

\* Before the first read nothing is in the parser.
StartInv == phase \in {"start", "connecting", "listening"} => parser = << >>

(***************************************************************************)
(* No time passes between the arrival of bytes and the read that takes     *)
(* them, so last_recv is as old as the silence.  The reader task looked at *)
(* it when the wait of the moment began, unless it has the timeout only    *)
(* since then.                                                             *)
(***************************************************************************)
ClockInv ==
    phase = "running" =>
        /\ threshold = wanted \div Milli
        /\ IF wire = << >> THEN silence = sinceRecv ELSE silence = 0
        /\ wanted >= Milli => sinceRecv <= wanted + waited \/ sinceSet <= waited

(***************************************************************************)
(* What authenticate has taken from the server: nothing, the request, and  *)
(* then an answer that is no rejection, by which the session begins.       *)
(***************************************************************************)
Authenticating == {"start", "connecting", "awaitRequest", "sendAuth", "awaitAnswer"}

Requested == \E i \in Ends(handled) : Ends(handled) = {i} /\ handled[i] = "authRequest"

AuthInv ==
    mode = "inbound" =>
        /\ phase # "listening"
        /\ phase \in {"start", "connecting", "awaitRequest"} => Ends(handled) = {}
        /\ phase \in {"sendAuth", "awaitAnswer"} => Requested
        /\ phase = "awaitAnswer" => asked
        /\ status = "none" <=> phase \in Authenticating \cup {"failed"}

SessionInv ==
    TypeOK /\ EndInv /\ StartInv /\ NothingLostAtHandOver /\ ClockInv /\ AuthInv /\ EnteredOnAnswer

-----------------------------------------------------------------------------
(***************************************************************************)
(* Sequences and arithmetic.                                               *)
(***************************************************************************)

\* A set of numbers that is not empty has a least one.
LEMMA NatHasLeast ==
    ASSUME NEW S \in SUBSET Nat, S # {}
    PROVE  \E n \in S : \A m \in S : n <= m
<1> DEFINE R == OpToRel(<, Nat)
<1>1. IsWellFoundedOn(R, Nat)
  BY NatLessThanWellFounded
<1>2. \A n, m \in Nat : <<m, n>> \in R <=> m < n
  BY DEF OpToRel
<1> HIDE DEF R
<1>3. PICK n \in S : \A m \in S : ~(<<m, n>> \in R)
  BY <1>1, WFMin
<1>4. ASSUME NEW m \in S
      PROVE  n <= m
  <2>1. n \in Nat /\ m \in Nat /\ ~(<<m, n>> \in R)
    BY <1>3
  <2>2. ~(m < n)
    BY <1>2, <2>1
  <2>3. QED
    BY <2>1, <2>2
<1>5. QED
  BY <1>4

\* It is the minimum of the set.
LEMMA MinIsMember ==
    ASSUME NEW S \in SUBSET Nat, S # {}
    PROVE  Min(S) \in S /\ \A n \in S : Min(S) <= n
<1>1. \E n \in S : \A m \in S : n <= m
  BY NatHasLeast
<1>2. QED
  BY <1>1 DEF Min

\* A sequence is what its first n elements and the others make.
LEMMA SplitAnywhere ==
    ASSUME NEW S, NEW s \in Seq(S), NEW n \in 0..Len(s)
    PROVE  /\ SubSeq(s, 1, n) \in Seq(S)
           /\ SubSeq(s, n + 1, Len(s)) \in Seq(S)
           /\ SubSeq(s, 1, n) \o SubSeq(s, n + 1, Len(s)) = s
<1>1. SubSeq(s, 1, n) \in Seq(S)
  BY SubSeqProperties
<1>2. SubSeq(s, n + 1, Len(s)) \in Seq(S)
  BY SubSeqProperties
<1>3. SubSeq(s, 1, n) \o SubSeq(s, n + 1, Len(s)) = SubSeq(s, 1, Len(s))
  <2>1. /\ 1 \in 1..(Len(s) + 1)
        /\ n \in (1 - 1)..Len(s)
        /\ Len(s) \in n..Len(s)
    OBVIOUS
  <2>2. QED
    BY <2>1, ConcatAdjacentSubSeq
<1>4. QED
  BY <1>1, <1>2, <1>3, SubSeqFull

\* Concatenation of pieces is associative.
LEMMA PiecesAssociate ==
    \A s, t, u \in Seq(Pieces) : (s \o t) \o u = s \o (t \o u)
  BY ConcatAssociative

\* parse_message takes the first whole message from the parser.
LEMMA ParsedSplits ==
    ASSUME parser \in Seq(Pieces), HasMessage
    PROVE  LET first == SubSeq(parser, 1, Min(Ends(parser)))
           IN  /\ first \in Seq(Pieces)
               /\ Rest \in Seq(Pieces)
               /\ first \o Rest = parser
               /\ Len(Rest) <= Len(parser)
<1> DEFINE first == SubSeq(parser, 1, Min(Ends(parser)))
<1>1. Ends(parser) \in SUBSET Nat
  BY DEF Ends
<1>2. Min(Ends(parser)) \in Ends(parser)
  BY <1>1, MinIsMember DEF HasMessage
<1>3. Min(Ends(parser)) \in 0..Len(parser)
  BY <1>2 DEF Ends
<1>4. first \in Seq(Pieces) /\ Rest \in Seq(Pieces) /\ first \o Rest = parser
  BY <1>3, SplitAnywhere DEF Rest
<1> HIDE DEF first
<1>5. Len(Rest) <= Len(parser)
  <2>1. Len(first \o Rest) = Len(first) + Len(Rest)
    BY <1>4, ConcatProperties
  <2>2. Len(first) \in Nat /\ Len(Rest) \in Nat
    BY <1>4
  <2>3. QED
    BY <1>4, <2>1, <2>2
<1>6. QED
  BY <1>4, <1>5 DEF first

\* The milliseconds stored for d are those of d, rounded down.
LEMMA WholeMilliseconds ==
    ASSUME NEW d \in Nat, NEW m \in Nat \ {0}
    PROVE  LET t == d \div m
           IN  /\ t \in Nat
               /\ t > 0 <=> d >= m
               /\ t * m <= d
               /\ d < t * m + m
<1>1. d \div m \in Nat /\ d % m \in 0..(m - 1) /\ d = m * (d \div m) + (d % m)
  OBVIOUS
<1> DEFINE t == d \div m
<1>2. t \in Nat /\ t * m <= d /\ d < t * m + m
  BY <1>1
<1>3. t > 0 <=> d >= m
  BY <1>2
<1>4. QED
  BY <1>2, <1>3

-----------------------------------------------------------------------------
(***************************************************************************)
(* Type correctness.                                                       *)
(***************************************************************************)

\* What the server and the client have of the stream, as one.
StreamOK ==
    /\ {sent, wire, parser, handled} \subseteq Seq(Pieces)
    /\ Len(wire) <= MaxOnWire /\ Len(parser) <= MaxBuffer

\* The clocks.
TimesOK ==
    /\ waited \in 0..(IF phase = "running" THEN ReaderTick
                      ELSE IF phase = "connecting" THEN ConnectWait
                      ELSE HandshakeWait) + Lag
    /\ {sinceRecv, silence, sinceSet} \subseteq 0..MaxSilence
    /\ wanted \in Durations \cup {0}
    /\ threshold \in Nat

\* Where the session is, and how it ends.
PlaceOK ==
    /\ mode \in Modes
    /\ phase \in Phases
    /\ error \in Errors
    /\ {asked, closed, eventEnd} \subseteq BOOLEAN
    /\ status \in StatusValues

LEMMA TypeIsThree == TypeOK <=> StreamOK /\ TimesOK /\ PlaceOK
  BY DEF TypeOK, StreamOK, TimesOK, PlaceOK

\* A step that takes a message from the parser leaves sequences of pieces, and
\* their order.
LEMMA ParsedStep ==
    ASSUME StreamOK, NEW m, Parsed(m), parser' = Rest, UNCHANGED <<sent, wire>>
    PROVE  StreamOK' /\ (NothingLostAtHandOver => NothingLostAtHandOver')
<1> DEFINE first == SubSeq(parser, 1, Min(Ends(parser)))
<1>1. parser \in Seq(Pieces) /\ handled \in Seq(Pieces) /\ wire \in Seq(Pieces)
  BY DEF StreamOK
<1>2. /\ first \in Seq(Pieces) /\ Rest \in Seq(Pieces) /\ first \o Rest = parser
      /\ Len(Rest) <= Len(parser)
  BY <1>1, ParsedSplits DEF Parsed
<1>3. handled' = handled \o first
  BY DEF Parsed
<1> HIDE DEF first
<1>4. handled' \in Seq(Pieces)
  BY <1>1, <1>2, <1>3, ConcatProperties
<1>5. (handled \o first) \o Rest = handled \o (first \o Rest)
  BY <1>1, <1>2, PiecesAssociate
<1>6. handled' \o parser' = handled \o parser
  BY <1>2, <1>3, <1>5
<1>7. Len(parser') <= MaxBuffer
  BY <1>1, <1>2, SessionAssumption DEF StreamOK
<1>8. QED
  BY <1>2, <1>4, <1>6, <1>7 DEF StreamOK, NothingLostAtHandOver

\* A read moves the first bytes of the wire to the parser.
LEMMA ReceiveStep ==
    ASSUME StreamOK, Receive
    PROVE  StreamOK' /\ (NothingLostAtHandOver => NothingLostAtHandOver')
<1>1. PICK n \in Readable : /\ Fits(n)
                            /\ parser' = parser \o SubSeq(wire, 1, n)
                            /\ wire' = SubSeq(wire, n + 1, Len(wire))
  BY DEF Receive
<1>2. UNCHANGED <<sent, handled>>
  BY DEF Receive
<1> DEFINE first == SubSeq(wire, 1, n)
           rest == SubSeq(wire, n + 1, Len(wire))
<1>3. parser \in Seq(Pieces) /\ handled \in Seq(Pieces) /\ wire \in Seq(Pieces)
  BY DEF StreamOK
<1>4. n \in 0..Len(wire)
  BY <1>1, <1>3, SessionAssumption DEF Readable
<1>5. first \in Seq(Pieces) /\ rest \in Seq(Pieces) /\ first \o rest = wire
  BY <1>3, <1>4, SplitAnywhere
<1>6. parser' = parser \o first /\ wire' = rest
  BY <1>1
<1>7. Len(first) = n /\ Len(rest) = Len(wire) - n
  BY <1>3, <1>4, SubSeqProperties
<1> HIDE DEF first, rest
<1>8. parser' \in Seq(Pieces) /\ handled \o parser \in Seq(Pieces)
  BY <1>3, <1>5, <1>6, ConcatProperties
<1>9. (handled \o parser) \o first = handled \o (parser \o first)
  BY <1>3, <1>5, PiecesAssociate, SMTT(30)
<1>10. ((handled \o parser) \o first) \o rest = (handled \o parser) \o (first \o rest)
  BY <1>5, <1>8, PiecesAssociate
<1>11. (handled' \o parser') \o wire' = (handled \o parser) \o wire
  BY <1>2, <1>5, <1>6, <1>9, <1>10
<1>12. Len(wire') <= MaxOnWire /\ Len(parser') <= MaxBuffer
  <2>1. Len(parser') = Len(parser) + n /\ Len(wire') = Len(wire) - n
    BY <1>3, <1>5, <1>6, <1>7, ConcatProperties
  <2>2. QED
    BY <1>1, <1>3, <1>4, <2>1, SessionAssumption DEF StreamOK, Fits
<1>13. QED
  BY <1>2, <1>5, <1>6, <1>8, <1>11, <1>12 DEF StreamOK, NothingLostAtHandOver

\* What the server sends comes behind all it has sent.
LEMMA ServerSendStep ==
    ASSUME StreamOK, ServerSend
    PROVE  StreamOK' /\ (NothingLostAtHandOver => NothingLostAtHandOver')
<1>1. PICK p \in Pieces : sent' = Append(sent, p) /\ wire' = Append(wire, p)
  BY DEF ServerSend
<1>2. UNCHANGED <<parser, handled>> /\ Len(wire) < MaxOnWire
  BY DEF ServerSend
<1>3. /\ parser \in Seq(Pieces) /\ handled \in Seq(Pieces)
      /\ wire \in Seq(Pieces) /\ sent \in Seq(Pieces)
  BY DEF StreamOK
<1>4. /\ sent' \in Seq(Pieces) /\ wire' \in Seq(Pieces)
      /\ Len(wire') = Len(wire) + 1
      /\ wire' = wire \o <<p>>
      /\ sent' = sent \o <<p>>
  BY <1>1, <1>3, AppendProperties, AppendIsConcat
<1>5. handled \o parser \in Seq(Pieces) /\ <<p>> \in Seq(Pieces)
  BY <1>3, ConcatProperties
<1>6. (handled \o parser) \o (wire \o <<p>>) = ((handled \o parser) \o wire) \o <<p>>
  BY <1>3, <1>5, ConcatAssociative
<1>7. MaxOnWire \in Nat /\ Len(wire) \in Nat
  BY <1>3, SessionAssumption
<1>8. Len(wire') <= MaxOnWire
  BY <1>2, <1>4, <1>7
<1>9. QED
  BY <1>2, <1>3, <1>4, <1>6, <1>8 DEF StreamOK, NothingLostAtHandOver

\* The actions that take a message from the parser.
LEMMA ParsingSteps ==
    ASSUME \/ TakeRequest \/ NotARequest \/ TakeAnswer \/ Rejected \/ BrokenAnswer
           \/ ReadPlain \/ ReadNotice \/ ReadBroken
    PROVE  (\E m : Parsed(m)) /\ parser' = Rest /\ UNCHANGED <<sent, wire>>
<1>1. CASE TakeRequest
  BY <1>1 DEF TakeRequest, server
<1>2. CASE NotARequest
  BY <1>2 DEF NotARequest, server
<1>3. CASE TakeAnswer
  BY <1>3 DEF TakeAnswer, SpawnReader, server
<1>4. CASE Rejected
  BY <1>4 DEF Rejected, server
<1>5. CASE BrokenAnswer
  BY <1>5 DEF BrokenAnswer, server
<1>6. CASE ReadPlain
  BY <1>6 DEF ReadPlain, server
<1>7. CASE ReadNotice
  BY <1>7 DEF ReadNotice, server
<1>8. CASE ReadBroken
  BY <1>8 DEF ReadBroken, server
<1>9. QED
  BY <1>1, <1>2, <1>3, <1>4, <1>5, <1>6, <1>7, <1>8

\* No step loses or reorders what the server sent.
LEMMA StreamStep ==
    ASSUME StreamOK, StartInv, [Next]_vars
    PROVE  StreamOK' /\ (NothingLostAtHandOver => NothingLostAtHandOver')
<1>1. CASE \/ TakeRequest \/ NotARequest \/ TakeAnswer \/ Rejected \/ BrokenAnswer
           \/ ReadPlain \/ ReadNotice \/ ReadBroken
  BY <1>1, ParsingSteps, ParsedStep
<1>2. CASE Receive
  BY <1>2, ReceiveStep
<1>3. CASE ServerSend
  BY <1>3, ServerSendStep
<1>4. CASE UNCHANGED <<sent, wire, parser, handled>>
  BY <1>4 DEF StreamOK, NothingLostAtHandOver
<1>5. CASE Accept
  <2>1. parser = << >>
    BY <1>5 DEF Accept, StartInv
  <2>2. UNCHANGED <<sent, wire, parser, handled>>
    BY <1>5, <2>1 DEF Accept, SpawnReader, server
  <2>3. QED
    BY <1>4, <2>2
<1>6. CASE RefuseUser \/ Begin \/ Connect \/ NoConnection \/ ConnectTimeout
  BY <1>4, <1>6 DEF RefuseUser, Begin, Connect, NoConnection, ConnectTimeout, server
<1>7. CASE \/ HandshakeTimeout \/ HandshakeLost \/ HandshakeOverflow
           \/ CredentialsRefused \/ WriteAuth \/ WriteAuthFails
  BY <1>4, <1>7 DEF HandshakeTimeout, HandshakeLost, HandshakeOverflow, CredentialsRefused,
                    WriteAuth, WriteAuthFails, server
<1>8. CASE \/ ReadLost \/ ReadOverflow \/ TickPasses \/ TickExpires \/ ReaderReturn
           \/ Panic \/ ReportPanic
  BY <1>4, <1>8 DEF ReadLost, ReadOverflow, TickPasses, TickExpires, ReaderReturn, Panic,
                    ReportPanic, server
<1>9. CASE SetLiveness \/ ServerClose \/ Pass
  BY <1>4, <1>9 DEF SetLiveness, ServerClose, Pass, server
<1>10. CASE UNCHANGED vars
  BY <1>4, <1>10 DEF vars, server
<1>11. QED
  BY <1>1, <1>2, <1>3, <1>5, <1>6, <1>7, <1>8, <1>9, <1>10
     DEF Next, Client, Environment, Handshake, Reader

\* The steps of the parser and of the end leave every variable of their kind in
\* its type.
LEMMA PlaceStep ==
    ASSUME PlaceOK, EndInv, StartInv, [Next]_vars
    PROVE  PlaceOK' /\ EndInv' /\ StartInv'
<1> USE DEF PlaceOK, EndInv, StartInv, Phases, Handshaking, Modes, Errors, StatusValues
<1>1. CASE RefuseUser \/ Begin \/ Connect \/ NoConnection \/ ConnectTimeout \/ Accept
  <2>1. CASE RefuseUser
    BY <2>1 DEF RefuseUser, FailWith, server
  <2>2. CASE Begin
    BY <2>2 DEF Begin, Await, server, sessionVars
  <2>3. CASE Connect
    BY <2>3 DEF Connect, Await, server
  <2>4. CASE NoConnection
    BY <2>4 DEF NoConnection, FailWith, server
  <2>5. CASE ConnectTimeout
    BY <2>5 DEF ConnectTimeout, FailWith, server
  <2>6. CASE Accept
    BY <2>6 DEF Accept, SpawnReader, Await, server
  <2>7. QED
    BY <1>1, <2>1, <2>2, <2>3, <2>4, <2>5, <2>6
<1>2. CASE TakeRequest
  BY <1>2 DEF TakeRequest, silences, setting, server
<1>3. CASE NotARequest
  BY <1>3 DEF NotARequest, FailWith, server
<1>4. CASE Rejected
  BY <1>4 DEF Rejected, FailWith, server
<1>5. CASE BrokenAnswer
  BY <1>5 DEF BrokenAnswer, FailWith, server
<1>6. CASE TakeAnswer
  BY <1>6 DEF TakeAnswer, SpawnReader, Await, server
<1>7. CASE HandshakeTimeout
  BY <1>7 DEF HandshakeTimeout, FailWith, server
<1>8. CASE HandshakeLost
  BY <1>8 DEF HandshakeLost, FailWith, server
<1>9. CASE WriteAuth
  BY <1>9 DEF WriteAuth, Await, server
<1>10. CASE WriteAuthFails
  BY <1>10 DEF WriteAuthFails, FailWith, server
<1>11. CASE ReadPlain
  BY <1>11 DEF ReadPlain, server
<1>12. CASE ReadNotice
  BY <1>12 DEF ReadNotice, EndWith, server
<1>13. CASE ReadBroken
  BY <1>13 DEF ReadBroken, EndWith, server
<1>14. CASE ReadLost
  BY <1>14 DEF ReadLost, EndWith, server
<1>15. CASE TickPasses
  BY <1>15 DEF TickPasses, TickDue, sessionVars, server
<1>16. CASE TickExpires
  BY <1>16 DEF TickExpires, TickDue, EndWith, server
<1>17. CASE ReaderReturn
  BY <1>17 DEF ReaderReturn, server
<1>18. CASE Panic
  BY <1>18 DEF Panic, server
<1>19. CASE ReportPanic
  BY <1>19 DEF ReportPanic, server
<1>20. CASE Receive
  BY <1>20 DEF Receive, InRead, Reading, server
<1>21. CASE SetLiveness
  BY <1>21 DEF SetLiveness, server
<1>22. CASE ServerSend
  BY <1>22 DEF ServerSend, server
<1>23. CASE ServerClose
  BY <1>23 DEF ServerClose, server
<1>24. CASE Pass
  BY <1>24 DEF Pass, server
<1>25. CASE UNCHANGED vars
  BY <1>25 DEF vars, server
<1>26. CASE HandshakeOverflow
  BY <1>26 DEF HandshakeOverflow, FailWith, server
<1>27. CASE CredentialsRefused
  BY <1>27 DEF CredentialsRefused, FailWith, server
<1>28. CASE ReadOverflow
  BY <1>28 DEF ReadOverflow, EndWith, server
<1>29. QED
  BY <1>1, <1>2, <1>3, <1>4, <1>5, <1>6, <1>7, <1>8, <1>9, <1>10, <1>11, <1>12, <1>13, <1>14, <1>15, <1>16, <1>17, <1>18, <1>19, <1>20, <1>21, <1>22, <1>23, <1>24, <1>25, <1>26, <1>27, <1>28
     DEF Next, Client, Environment, Handshake, Reader

-----------------------------------------------------------------------------
(***************************************************************************)
(* The clocks.                                                             *)
(***************************************************************************)

\* A clock counts by one up to its bound.
LEMMA LaterCounts ==
    ASSUME NEW c \in 0..MaxSilence
    PROVE  Later(c) \in 0..MaxSilence /\ Later(c) <= c + 1
  BY SessionAssumption DEF Later

\* The steps after which nobody waits.
LEMMA StoppedClocks ==
    ASSUME TimesOK, ClocksStop, UNCHANGED setting
    PROVE  TimesOK'
  BY SessionAssumption DEF TimesOK, ClocksStop, setting

\* A session begins with all its clocks at zero and no liveness timeout.
LEMMA SpawnedClocks ==
    ASSUME NEW rest, SpawnReader(rest)
    PROVE  TimesOK' /\ ClockInv'
<1>1. /\ phase' = "running" /\ waited' = 0
      /\ sinceRecv' = 0 /\ silence' = 0 /\ sinceSet' = 0
      /\ threshold' = 0 /\ wanted' = 0
  BY DEF SpawnReader, Await
<1>2. 0 \div Milli = 0
  BY SessionAssumption, WholeMilliseconds
<1>3. TimesOK'
  BY <1>1, SessionAssumption DEF TimesOK
<1>4. ClockInv'
  BY <1>1, <1>2 DEF ClockInv
<1>5. QED
  BY <1>3, <1>4

LEMMA TimesStep ==
    ASSUME TimesOK, [Next]_vars
    PROVE  TimesOK'
<1> USE SessionAssumption
<1>1. CASE RefuseUser \/ NoConnection \/ ConnectTimeout
  BY <1>1, StoppedClocks DEF RefuseUser, NoConnection, ConnectTimeout, FailWith
<1>2. CASE Begin
  BY <1>2 DEF Begin, Await, sessionVars, setting, TimesOK
<1>3. CASE Connect
  BY <1>3 DEF Connect, Await, setting, TimesOK
<1>4. CASE Accept \/ TakeAnswer
  BY <1>4, SpawnedClocks DEF Accept, TakeAnswer
<1>5. CASE TakeRequest
  BY <1>5 DEF TakeRequest, silences, setting, TimesOK
<1>6. CASE NotARequest \/ Rejected \/ BrokenAnswer \/ HandshakeTimeout \/ WriteAuthFails
  BY <1>6, StoppedClocks
     DEF NotARequest, Rejected, BrokenAnswer, HandshakeTimeout, WriteAuthFails, FailWith
<1>7. CASE HandshakeLost \/ HandshakeOverflow \/ CredentialsRefused
  BY <1>7, StoppedClocks DEF HandshakeLost, HandshakeOverflow, CredentialsRefused, FailWith
<1>8. CASE WriteAuth
  BY <1>8 DEF WriteAuth, Await, setting, TimesOK
<1>9. CASE ReadPlain
  BY <1>9 DEF ReadPlain, clocks, silences, setting, TimesOK
<1>10. CASE ReadNotice \/ ReadBroken \/ TickExpires
  BY <1>10, StoppedClocks DEF ReadNotice, ReadBroken, TickExpires, EndWith
<1>11. CASE ReadLost \/ ReadOverflow
  BY <1>11, StoppedClocks DEF ReadLost, ReadOverflow, EndWith
<1>12. CASE TickPasses
  BY <1>12 DEF TickPasses, sessionVars, setting, TimesOK
<1>13. CASE ReaderReturn \/ ReportPanic
  <2>1. UNCHANGED <<waited, sinceRecv, silence, sinceSet, setting>>
    BY <1>13 DEF ReaderReturn, ReportPanic, clocks, silences
  <2>2. phase' = "ended" /\ phase \in {"returning", "unwinding"}
    BY <1>13 DEF ReaderReturn, ReportPanic
  <2>3. QED
    BY <2>1, <2>2 DEF TimesOK, setting
<1>14. CASE Panic
  BY <1>14, StoppedClocks DEF Panic
<1>15. CASE Receive
  BY <1>15, SMTT(30) DEF Receive, setting, TimesOK
<1>16. CASE SetLiveness
  <2>1. PICK d \in Durations : wanted' = d /\ threshold' = d \div Milli
    BY <1>16 DEF SetLiveness
  <2>2. threshold' \in Nat
    BY <2>1, WholeMilliseconds
  <2>3. QED
    BY <1>16, <2>1, <2>2 DEF SetLiveness, TimesOK
<1>17. CASE ServerSend
  BY <1>17 DEF ServerSend, setting, TimesOK
<1>18. CASE ServerClose
  BY <1>18 DEF ServerClose, clocks, silences, setting, TimesOK
<1>19. CASE Pass
  <2>1. {sinceRecv', silence', sinceSet'} \subseteq 0..MaxSilence
    BY <1>19, LaterCounts DEF Pass, TimesOK
  <2>2. waited' = waited + 1 /\ waited < Patience + Lag /\ UNCHANGED <<phase, setting>>
    BY <1>19 DEF Pass
  <2>3. phase \in Handshaking \cup {"connecting", "running"}
    BY <1>19 DEF Pass, Idle, InRead, Reading
  <2>4. QED
    BY <2>1, <2>2, <2>3 DEF TimesOK, Patience, setting, Handshaking
<1>20. CASE UNCHANGED vars
  BY <1>20 DEF vars, clocks, silences, setting, TimesOK
<1>21. QED
  BY <1>1, <1>2, <1>3, <1>4, <1>5, <1>6, <1>7, <1>8, <1>9, <1>10, <1>11, <1>12, <1>13, <1>14, <1>15, <1>16, <1>17, <1>18, <1>19, <1>20
     DEF Next, Client, Environment, Handshake, Reader

\* The wire is a sequence, and what a read leaves of it is shorter.
LEMMA ReadEmptiesNothing ==
    ASSUME StreamOK, Receive
    PROVE  wire # << >>
  BY SessionAssumption DEF StreamOK, Receive, Readable

LEMMA ClockStep ==
    ASSUME TypeOK, ClockInv, [Next]_vars
    PROVE  ClockInv'
<1> USE SessionAssumption
<1>1. SUFFICES ASSUME phase' = "running"
               PROVE  ClockInv'
  BY DEF ClockInv
<1>2. StreamOK /\ TimesOK
  BY TypeIsThree
<1>3. /\ waited \in Nat /\ sinceRecv \in 0..MaxSilence /\ silence \in 0..MaxSilence
      /\ sinceSet \in 0..MaxSilence /\ wanted \in Nat /\ threshold \in Nat
  BY <1>2 DEF TimesOK
<1>4. CASE Accept \/ TakeAnswer
  BY <1>4, SpawnedClocks DEF Accept, TakeAnswer
<1>5. CASE ReadPlain
  BY <1>5 DEF ReadPlain, ClockInv, clocks, silences, setting, server
<1>6. CASE TickPasses
  <2>1. /\ phase = "running" /\ wire = << >> /\ waited' = 0
        /\ UNCHANGED <<wire, sinceRecv, silence, sinceSet, threshold, wanted>>
    BY <1>6 DEF TickPasses, TickDue, Idle, server, sessionVars, setting
  <2>2. wanted >= Milli => sinceRecv <= wanted
    <3>1. threshold = wanted \div Milli
      BY <2>1 DEF ClockInv
    <3>2. /\ threshold > 0 <=> wanted >= Milli
          /\ threshold * Milli <= wanted
      BY <1>3, <3>1, WholeMilliseconds
    <3>3. threshold > 0 => ~(sinceRecv > threshold * Milli)
      BY <1>6 DEF TickPasses, Expired
    <3>4. threshold * Milli \in Nat
      BY <1>3
    <3>5. QED
      BY <1>3, <3>2, <3>3, <3>4
  <2>3. QED
    BY <1>3, <2>1, <2>2 DEF ClockInv
<1>7. CASE Receive
  <2>1. /\ phase = "running" /\ sinceRecv' = 0 /\ waited' = 0
        /\ UNCHANGED <<silence, sinceSet, threshold, wanted>>
    BY <1>1, <1>7 DEF Receive, setting
  <2>2. silence = 0
    BY <1>2, <1>7, <2>1, ReadEmptiesNothing DEF ClockInv
  <2>3. QED
    BY <1>3, <2>1, <2>2 DEF ClockInv
<1>8. CASE SetLiveness
  <2>1. PICK d \in Durations : wanted' = d /\ threshold' = d \div Milli
    BY <1>8 DEF SetLiveness
  <2>2. /\ phase = "running" /\ sinceSet' = 0
        /\ UNCHANGED <<wire, waited, sinceRecv, silence>>
    BY <1>8 DEF SetLiveness, server
  <2>3. QED
    BY <1>3, <2>1, <2>2 DEF ClockInv
<1>9. CASE ServerSend
  <2>1. /\ silence' = 0
        /\ UNCHANGED <<phase, waited, sinceRecv, sinceSet, threshold, wanted>>
    BY <1>9 DEF ServerSend, setting
  <2>2. wire' # << >>
    <3>1. PICK p \in Pieces : wire' = Append(wire, p)
      BY <1>9 DEF ServerSend
    <3>2. wire \in Seq(Pieces)
      BY <1>2 DEF StreamOK
    <3>3. QED
      BY <3>1, <3>2, AppendProperties
  <2>3. QED
    BY <1>1, <2>1, <2>2 DEF ClockInv
<1>10. CASE ServerClose
  BY <1>10 DEF ServerClose, ClockInv, clocks, silences, setting
<1>11. CASE Pass
  <2>1. /\ phase = "running" /\ wire = << >> /\ wire' = wire
        /\ waited' = waited + 1
        /\ sinceRecv' = Later(sinceRecv) /\ silence' = Later(silence)
        /\ sinceSet' = Later(sinceSet)
        /\ UNCHANGED <<threshold, wanted>>
    BY <1>1, <1>11 DEF Pass, Idle, server, setting
  <2>2. silence' = sinceRecv'
    BY <2>1 DEF ClockInv
  <2>3. wanted' >= Milli => sinceRecv' <= wanted' + waited' \/ sinceSet' <= waited'
    <3>1. wanted >= Milli => sinceRecv <= wanted + waited \/ sinceSet <= waited
      BY <2>1 DEF ClockInv
    <3>2. /\ sinceRecv' \in Nat /\ sinceRecv' <= sinceRecv + 1
          /\ sinceSet' \in Nat /\ sinceSet' <= sinceSet + 1
      BY <1>3, <2>1, LaterCounts
    <3>3. QED
      BY <1>3, <2>1, <3>1, <3>2
  <2>4. threshold' = wanted' \div Milli
    BY <2>1 DEF ClockInv
  <2>5. QED
    BY <2>1, <2>2, <2>3, <2>4 DEF ClockInv
<1>12. CASE UNCHANGED vars
  BY <1>12 DEF vars, clocks, silences, setting, server, ClockInv
<1>13. CASE RefuseUser \/ NoConnection \/ ConnectTimeout \/ Begin \/ Connect
  BY <1>1, <1>13 DEF RefuseUser, NoConnection, ConnectTimeout, Begin, Connect, FailWith, Await
<1>14. CASE \/ TakeRequest \/ NotARequest \/ Rejected \/ BrokenAnswer
            \/ HandshakeTimeout \/ HandshakeLost \/ HandshakeOverflow
            \/ CredentialsRefused \/ WriteAuth \/ WriteAuthFails
  BY <1>1, <1>14 DEF TakeRequest, NotARequest, Rejected, BrokenAnswer, HandshakeTimeout,
                     HandshakeLost, HandshakeOverflow, CredentialsRefused, WriteAuth,
                     WriteAuthFails, FailWith, Await
<1>15. CASE \/ ReadNotice \/ ReadBroken \/ ReadLost \/ ReadOverflow \/ TickExpires
            \/ ReaderReturn \/ Panic \/ ReportPanic
  BY <1>1, <1>15 DEF ReadNotice, ReadBroken, ReadLost, ReadOverflow, TickExpires, ReaderReturn,
                     Panic, ReportPanic, EndWith
<1>16. QED
  BY <1>4, <1>5, <1>6, <1>7, <1>8, <1>9, <1>10, <1>11, <1>12, <1>13, <1>14, <1>15
     DEF Next, Client, Environment, Handshake, Reader

-----------------------------------------------------------------------------
(***************************************************************************)
(* The authentication.                                                     *)
(***************************************************************************)

\* A message that is handled is the last one.
LEMMA ParsedIsLast ==
    ASSUME StreamOK, NEW m, Parsed(m)
    PROVE  \E j \in Nat :
               /\ Ends(handled') = Ends(handled) \cup {j}
               /\ handled'[j] = m
               /\ \A i \in Ends(handled) : i \in Nat /\ i < j /\ handled'[i] = handled[i]
<1> DEFINE n == Min(Ends(parser))
           first == SubSeq(parser, 1, n)
           j == Len(handled) + n
<1>1. parser \in Seq(Pieces) /\ handled \in Seq(Pieces)
  BY DEF StreamOK
<1>2. Ends(parser) \in SUBSET Nat /\ n \in Ends(parser)
  <2>1. Ends(parser) \in SUBSET Nat
    BY DEF Ends
  <2>2. QED
    BY <2>1, MinIsMember DEF Parsed, HasMessage
<1>3. \A i \in Ends(parser) : n <= i
  <2>1. Ends(parser) \in SUBSET Nat
    BY <1>2
  <2>2. QED
    BY <1>2, <2>1, MinIsMember
<1>4. n \in 1..Len(parser) /\ parser[n] = m /\ m # "part"
  BY <1>2 DEF Parsed, Ends
<1>5. \A i \in 1..(n - 1) : parser[i] = "part"
  BY <1>1, <1>3, <1>4 DEF Ends
<1> HIDE DEF n
<1>6. first \in Seq(Pieces) /\ Len(first) = n /\ \A i \in 1..n : first[i] = parser[i]
  BY <1>1, <1>4, SubSeqProperties
<1>7. handled' = handled \o first
  BY DEF Parsed, n
<1> HIDE DEF first
<1>8. /\ Len(handled') = Len(handled) + n
      /\ \A i \in 1..Len(handled) : handled'[i] = handled[i]
      /\ \A i \in 1..n : handled'[Len(handled) + i] = first[i]
      /\ Len(handled) \in Nat
  <2>1. /\ Len(handled \o first) = Len(handled) + Len(first)
        /\ \A i \in 1..(Len(handled) + Len(first)) : (handled \o first)[i] =
               IF i <= Len(handled) THEN handled[i] ELSE first[i - Len(handled)]
    BY <1>1, <1>6, ConcatProperties
  <2>2. Len(handled) \in Nat /\ n \in Nat /\ Len(first) = n
    BY <1>1, <1>4, <1>6
  <2>3. \A i \in 1..n : /\ Len(handled) + i \in 1..(Len(handled) + n)
                        /\ ~(Len(handled) + i <= Len(handled))
                        /\ (Len(handled) + i) - Len(handled) = i
    BY <2>2
  <2>4. \A i \in 1..Len(handled) : i \in 1..(Len(handled) + n) /\ i <= Len(handled)
    BY <2>2
  <2>5. QED
    BY <1>7, <2>1, <2>2, <2>3, <2>4
<1>9. j \in Nat /\ j \in Ends(handled') /\ handled'[j] = m
  <2>1. j \in 1..Len(handled') /\ handled'[j] = m
    BY <1>4, <1>6, <1>8
  <2>2. QED
    BY <1>4, <1>8, <2>1 DEF Ends
<1>10. \A i \in 1..Len(handled') : i \in Ends(handled') <=> i \in Ends(handled) \/ i = j
  <2>1. TAKE i \in 1..Len(handled')
  <2>2. CASE i \in 1..Len(handled)
    BY <1>4, <1>8, <2>2 DEF Ends
  <2>3. CASE i > Len(handled) /\ i # j
    <3>1. i - Len(handled) \in 1..(n - 1) /\ i = Len(handled) + (i - Len(handled))
      BY <1>4, <1>8, <2>3
    <3>2. i - Len(handled) \in 1..n
      BY <1>4, <3>1
    <3>3. handled'[i] = "part"
      BY <1>5, <1>6, <1>8, <3>1, <3>2
    <3>4. QED
      BY <1>8, <2>3, <3>3 DEF Ends
  <2>4. CASE i = j
    BY <1>9, <2>4
  <2>5. QED
    BY <1>8, <2>2, <2>3, <2>4
<1>11. \A i \in Ends(handled) : i \in Nat /\ i < j /\ handled'[i] = handled[i]
                                /\ i \in 1..Len(handled')
  BY <1>4, <1>8 DEF Ends
<1>12. Ends(handled') = Ends(handled) \cup {j}
  <2>1. \A i \in Ends(handled') : i \in 1..Len(handled')
    BY DEF Ends
  <2>2. \A i : i \in Ends(handled') <=> i \in Ends(handled) \/ i = j
    BY <1>9, <1>10, <1>11, <2>1
  <2>3. QED
    BY <2>2
<1>13. QED
  BY <1>9, <1>11, <1>12

\* A message that is handled later is neither the first nor the second.
LEMMA EnteredStays ==
    ASSUME StreamOK, EnteredOnAnswer, mode = "inbound" /\ status # "none",
           UNCHANGED <<mode, asked>>,
           UNCHANGED handled \/ \E m : Parsed(m)
    PROVE  EnteredOnAnswer'
<1>1. CASE UNCHANGED handled
  BY <1>1 DEF EnteredOnAnswer
<1>2. CASE \E m : Parsed(m)
  <2>1. PICK j \in Nat :
            /\ Ends(handled') = Ends(handled) \cup {j}
            /\ \A i \in Ends(handled) : i \in Nat /\ i < j /\ handled'[i] = handled[i]
    BY <1>2, ParsedIsLast
  <2>2. PICK first \in Ends(handled), second \in Ends(handled) :
            /\ first < second
            /\ \A other \in Ends(handled) \ {first} : second <= other
            /\ handled[first] = "authRequest"
            /\ handled[second] \notin {"reject", "broken"}
    BY DEF EnteredOnAnswer
  <2>3. \A other \in Ends(handled') \ {first} : second <= other
    BY <2>1, <2>2
  <2>4. first \in Ends(handled') /\ second \in Ends(handled')
    BY <2>1
  <2>5. handled'[first] = "authRequest" /\ handled'[second] \notin {"reject", "broken"}
    BY <2>1, <2>2
  <2>6. asked'
    BY DEF EnteredOnAnswer
  <2>7. QED
    BY <2>2, <2>3, <2>4, <2>5, <2>6 DEF EnteredOnAnswer
<1>3. QED
  BY <1>1, <1>2

\* The answer is taken: the session begins.
LEMMA AnswerStep ==
    ASSUME StreamOK, PlaceOK, AuthInv, TakeAnswer
    PROVE  AuthInv' /\ EnteredOnAnswer'
<1>1. SUFFICES ASSUME mode = "inbound"
               PROVE  AuthInv' /\ EnteredOnAnswer'
  BY DEF AuthInv, EnteredOnAnswer, TakeAnswer
<1>2. /\ phase = "awaitAnswer" /\ phase' = "running" /\ status' = "Connected"
      /\ UNCHANGED <<mode, asked>>
  BY DEF TakeAnswer, SpawnReader, Await
<1>3. PICK m \in Messages \ {"reject", "broken"} : Parsed(m)
  BY DEF TakeAnswer
<1>4. asked /\ Requested
  BY <1>1, <1>2 DEF AuthInv
<1>5. PICK first \in Ends(handled) : Ends(handled) = {first} /\ handled[first] = "authRequest"
  BY <1>4 DEF Requested
<1>6. PICK second \in Nat :
          /\ Ends(handled') = Ends(handled) \cup {second}
          /\ handled'[second] = m
          /\ \A i \in Ends(handled) : i \in Nat /\ i < second /\ handled'[i] = handled[i]
  BY <1>3, ParsedIsLast
<1>7. Ends(handled') = {first, second} /\ first < second /\ handled'[first] = "authRequest"
  BY <1>5, <1>6
<1>8. \A other \in Ends(handled') \ {first} : second <= other
  BY <1>6, <1>7
<1>9. EnteredOnAnswer'
  BY <1>2, <1>3, <1>4, <1>6, <1>7, <1>8 DEF EnteredOnAnswer
<1>10. AuthInv'
  BY <1>2 DEF AuthInv, Authenticating
<1>11. QED
  BY <1>9, <1>10

LEMMA AuthStep ==
    ASSUME StreamOK, PlaceOK, AuthInv, EnteredOnAnswer, [Next]_vars
    PROVE  AuthInv' /\ EnteredOnAnswer'
<1>1. SUFFICES ASSUME mode = "inbound", mode' = mode
               PROVE  AuthInv' /\ EnteredOnAnswer'
  <2>1. mode' = mode
    BY DEF Next, Client, Environment, Handshake, Reader, vars, RefuseUser, Begin, Connect,
       NoConnection, ConnectTimeout, Accept, Receive, TakeRequest, NotARequest, TakeAnswer,
       Rejected, BrokenAnswer, HandshakeTimeout, HandshakeLost, HandshakeOverflow,
       CredentialsRefused, WriteAuth, WriteAuthFails, ReadPlain, ReadNotice, ReadBroken,
       ReadLost, ReadOverflow, TickPasses, TickExpires, ReaderReturn,
       Panic, ReportPanic, SetLiveness, ServerSend, ServerClose, Pass
  <2>2. QED
    BY <2>1 DEF AuthInv, EnteredOnAnswer
<1>2. /\ phase # "listening"
      /\ phase \in {"start", "connecting", "awaitRequest"} => Ends(handled) = {}
      /\ phase \in {"sendAuth", "awaitAnswer"} => Requested
      /\ phase = "awaitAnswer" => asked
      /\ status = "none" <=> phase \in Authenticating \cup {"failed"}
  BY <1>1 DEF AuthInv
<1>3. CASE \/ RefuseUser \/ NoConnection \/ ConnectTimeout \/ NotARequest \/ Rejected
           \/ BrokenAnswer \/ HandshakeTimeout \/ HandshakeLost \/ HandshakeOverflow
           \/ CredentialsRefused \/ WriteAuthFails
  <2>1. phase' = "failed" /\ status' = "none"
    BY <1>2, <1>3 DEF RefuseUser, NoConnection, ConnectTimeout, NotARequest, Rejected,
       BrokenAnswer, HandshakeTimeout, HandshakeLost, HandshakeOverflow, CredentialsRefused,
       WriteAuthFails, FailWith, Authenticating, Handshaking
  <2>2. QED
    BY <2>1 DEF AuthInv, EnteredOnAnswer, Authenticating
<1>4. CASE Begin \/ Connect
  <2>1. /\ phase \in {"start", "connecting"} /\ phase' \in {"connecting", "awaitRequest"}
        /\ UNCHANGED <<handled, status>>
    BY <1>1, <1>4 DEF Begin, Connect, Await, sessionVars
  <2>2. status' = "none" /\ Ends(handled') = {}
    BY <1>2, <2>1 DEF Authenticating
  <2>3. QED
    BY <2>1, <2>2 DEF AuthInv, EnteredOnAnswer, Authenticating
<1>5. CASE TakeRequest
  <2>1. /\ phase = "awaitRequest" /\ phase' = "sendAuth" /\ Parsed("authRequest")
        /\ status' = status
    BY <1>5 DEF TakeRequest
  <2>2. Ends(handled) = {} /\ status' = "none"
    BY <1>2, <2>1 DEF Authenticating
  <2>3. PICK j \in Nat : Ends(handled') = Ends(handled) \cup {j} /\ handled'[j] = "authRequest"
    BY <2>1, ParsedIsLast
  <2>4. Requested'
    BY <2>2, <2>3 DEF Requested
  <2>5. QED
    BY <2>1, <2>2, <2>4 DEF AuthInv, EnteredOnAnswer, Authenticating
<1>6. CASE WriteAuth
  <2>1. /\ phase = "sendAuth" /\ phase' = "awaitAnswer" /\ asked'
        /\ UNCHANGED <<handled, status>>
    BY <1>6 DEF WriteAuth, Await
  <2>2. status' = "none" /\ Requested'
    BY <1>2, <2>1 DEF Authenticating, Requested
  <2>3. QED
    BY <2>1, <2>2 DEF AuthInv, EnteredOnAnswer, Authenticating
<1>7. CASE TakeAnswer
  BY <1>7, AnswerStep
<1>8. CASE Accept
  BY <1>2, <1>8 DEF Accept
<1>9. CASE \/ ReadPlain \/ ReadNotice \/ ReadBroken \/ ReadLost \/ ReadOverflow
           \/ TickPasses \/ TickExpires \/ ReaderReturn \/ Panic \/ ReportPanic \/ SetLiveness
  <2>1. /\ phase \in {"running", "returning", "unwinding"}
        /\ phase' \in {"running", "returning", "unwinding", "ended"}
        /\ status' \in {status, "ServerNotice", "IoError", "ConnectionClosed",
                        "HeartbeatExpired"}
        /\ UNCHANGED asked
        /\ UNCHANGED handled \/ \E m : Parsed(m)
    <3>1. CASE ReadPlain \/ ReadNotice \/ ReadBroken
      BY <3>1 DEF ReadPlain, ReadNotice, ReadBroken, EndWith
    <3>2. CASE ReadLost \/ ReadOverflow \/ TickPasses \/ TickExpires
      BY <3>2 DEF ReadLost, ReadOverflow, TickPasses, TickExpires, TickDue, EndWith, sessionVars
    <3>3. CASE ReaderReturn \/ Panic \/ ReportPanic \/ SetLiveness
      BY <3>3 DEF ReaderReturn, Panic, ReportPanic, SetLiveness
    <3>4. QED
      BY <1>9, <3>1, <3>2, <3>3
  <2>2. status # "none" /\ status' # "none"
    BY <1>2, <2>1 DEF Authenticating
  <2>3. EnteredOnAnswer'
    BY <1>1, <2>1, <2>2, EnteredStays
  <2>4. AuthInv'
    BY <2>1, <2>2 DEF AuthInv, Authenticating
  <2>5. QED
    BY <2>3, <2>4
<1>10. CASE UNCHANGED <<mode, phase, asked, handled, status>>
  BY <1>10 DEF AuthInv, EnteredOnAnswer, Requested
<1>11. CASE Receive \/ ServerSend \/ ServerClose \/ Pass
  BY <1>10, <1>11 DEF Receive, ServerSend, ServerClose, Pass
<1>12. CASE UNCHANGED vars
  BY <1>10, <1>12 DEF vars
<1>13. QED
  BY <1>3, <1>4, <1>5, <1>6, <1>7, <1>8, <1>9, <1>11, <1>12
     DEF Next, Client, Environment, Handshake, Reader

-----------------------------------------------------------------------------
(***************************************************************************)
(* The invariant.                                                          *)
(***************************************************************************)

LEMMA SessionInit ==
    ASSUME Init
    PROVE  SessionInv
<1> USE DEF Init
<1>1. TypeOK
  <2>1. StreamOK
    BY SessionAssumption, EmptySeq DEF StreamOK
  <2>2. TimesOK
    BY SessionAssumption DEF TimesOK
  <2>3. PlaceOK
    BY DEF PlaceOK, Phases, Modes, Errors, StatusValues
  <2>4. QED
    BY <2>1, <2>2, <2>3, TypeIsThree
<1>2. EndInv /\ StartInv /\ ClockInv
  BY DEF EndInv, StartInv, ClockInv
<1>3. NothingLostAtHandOver
  BY DEF NothingLostAtHandOver
<1>4. AuthInv /\ EnteredOnAnswer
  <2>1. Ends(handled) = {}
    BY EmptySeq DEF Ends
  <2>2. QED
    BY <2>1 DEF AuthInv, EnteredOnAnswer, Authenticating
<1>5. QED
  BY <1>1, <1>2, <1>3, <1>4 DEF SessionInv

LEMMA SessionStep ==
    ASSUME SessionInv, [Next]_vars
    PROVE  SessionInv'
<1>1. /\ TypeOK /\ EndInv /\ StartInv /\ NothingLostAtHandOver /\ ClockInv
      /\ AuthInv /\ EnteredOnAnswer /\ StreamOK /\ TimesOK /\ PlaceOK
  BY TypeIsThree DEF SessionInv
<1>2. StreamOK' /\ NothingLostAtHandOver'
  BY <1>1, StreamStep
<1>3. PlaceOK' /\ EndInv' /\ StartInv'
  BY <1>1, PlaceStep
<1>4. TimesOK'
  BY <1>1, TimesStep
<1>5. ClockInv'
  BY <1>1, ClockStep
<1>6. TypeOK'
  BY <1>2, <1>3, <1>4 DEF TypeOK, StreamOK, TimesOK, PlaceOK
<1>7. AuthInv' /\ EnteredOnAnswer'
  BY <1>1, AuthStep DEF SessionInv
<1>8. QED
  BY <1>2, <1>3, <1>5, <1>6, <1>7 DEF SessionInv

\* A session keeps its types, its stream, the order of its end and the meaning of
\* its clocks, for all timeouts, durations and messages.
THEOREM SessionInvariant == Spec => []SessionInv
<1>1. Init => SessionInv
  BY SessionInit
<1>2. SessionInv /\ [Next]_vars => SessionInv'
  BY SessionStep
<1>3. QED
  BY <1>1, <1>2, PTL DEF Spec

\* Every variable has its type: no clock runs past the timer it is measured by,
\* in connect, the handshake and the reader task.
THEOREM SessionTypeCorrect == Spec => []TypeOK
<1>1. SessionInv => TypeOK
  BY DEF SessionInv
<1>2. QED
  BY <1>1, SessionInvariant, PTL

\* What the server sends is acted upon once and in order, by the handshake or by
\* the reader task, however it is cut into reads.
THEOREM HandOverLosesNothing == Spec => []NothingLostAtHandOver
<1>1. SessionInv => NothingLostAtHandOver
  BY DEF SessionInv
<1>2. QED
  BY <1>1, SessionInvariant, PTL

\* authenticate: a session that was connected has sent its credentials after the
\* server asked for them, and what it took for the answer was no rejection.
THEOREM NoEntryWithoutAnswer == Spec => []EnteredOnAnswer
<1>1. SessionInv => EnteredOnAnswer
  BY DEF SessionInv
<1>2. QED
  BY <1>1, SessionInvariant, PTL

\* An application that sees its event stream end reads a Disconnected status,
\* unless a panic of the reader task is still being reported.
THEOREM EndHasItsReason == Spec => []NoneMeansDisconnected
<1>1. SessionInv => NoneMeansDisconnected
  BY DEF SessionInv, EndInv, NoneMeansDisconnected
<1>2. QED
  BY <1>1, SessionInvariant, PTL

\* A silent peer is given up within a tick of the liveness timeout, or of its
\* setting, for every tick and timeout of at least a millisecond.
THEOREM SilenceIsDetected == Spec => []DetectedInTime
<1>1. SessionInv => DetectedInTime
  <2>1. SUFFICES ASSUME SessionInv, phase = "running", wanted >= Milli
                 PROVE  \/ silence <= wanted + ReaderTick + Lag
                        \/ sinceSet <= ReaderTick + Lag
    BY DEF DetectedInTime
  <2>2. /\ waited \in 0..(ReaderTick + Lag)
        /\ sinceRecv \in Nat /\ sinceSet \in Nat /\ wanted \in Nat
        /\ ReaderTick \in Nat /\ Lag \in Nat
    BY <2>1, SessionAssumption DEF SessionInv, TypeOK
  <2>3. /\ silence = sinceRecv \/ silence = 0
        /\ sinceRecv <= wanted + waited \/ sinceSet <= waited
    BY <2>1 DEF SessionInv, ClockInv
  <2>4. QED
    BY <2>2, <2>3
<1>2. QED
  BY <1>1, SessionInvariant, PTL

\* The reader task never gives up a peer that was silent for less than the
\* whole milliseconds of the timeout that is set.
THEOREM NoLivePeerIsGivenUp == Spec => NoFalseAlarm
<1> DEFINE Alarm == status' = "HeartbeatExpired" /\ status # "HeartbeatExpired"
           Late == wanted >= Milli /\ silence + Milli > wanted
<1>1. SessionInv /\ [Next]_vars => (Alarm => Late)
  <2>1. SUFFICES ASSUME SessionInv, Next, Alarm
                 PROVE  Late
    BY DEF vars
  <2>2. TickExpires
    BY <2>1 DEF Next, Client, Environment, Handshake, Reader, RefuseUser, Begin, Connect,
                NoConnection, ConnectTimeout, Accept, SpawnReader, Receive, TakeRequest,
                NotARequest, TakeAnswer, Rejected, BrokenAnswer, HandshakeTimeout,
                HandshakeLost, HandshakeOverflow, CredentialsRefused, WriteAuth,
                WriteAuthFails, ReadPlain, ReadNotice, ReadBroken, ReadLost, ReadOverflow,
                TickPasses, ReaderReturn, Panic, ReportPanic, SetLiveness,
                ServerSend, ServerClose, Pass, EndWith, sessionVars
  <2>3. /\ phase = "running" /\ wire = << >>
        /\ threshold > 0 /\ sinceRecv > threshold * Milli
    BY <2>2 DEF TickExpires, TickDue, Idle, Expired
  <2>4. threshold = wanted \div Milli /\ silence = sinceRecv
    BY <2>1, <2>3 DEF SessionInv, ClockInv
  <2>5. /\ wanted \in Nat /\ Milli \in Nat \ {0} /\ sinceRecv \in Nat
        /\ threshold \in Nat /\ threshold * Milli \in Nat
    BY <2>1, SessionAssumption DEF SessionInv, TypeOK
  <2>6. /\ wanted >= Milli
        /\ wanted < threshold * Milli + Milli
    BY <2>3, <2>4, <2>5, WholeMilliseconds
  <2>7. QED
    BY <2>3, <2>4, <2>5, <2>6
<1>2. SessionInv /\ [Next]_vars => [Alarm => Late]_vars
  BY <1>1
<1>3. QED
  BY <1>2, SessionInvariant, PTL DEF Spec, NoFalseAlarm

=============================================================================
