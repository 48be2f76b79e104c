------------------------ MODULE EslConnectionProofs ------------------------
(***************************************************************************)
(* Proofs about the command channel of EslConnection, for every set of     *)
(* calls and of disconnects, every choice of what may be cancelled, and    *)
(* every transport capacity; and that it implements CommandService.       *)
(***************************************************************************)
EXTENDS EslConnection, SequenceTheorems, TLAPS

-----------------------------------------------------------------------------
(* Sequences: what leaving the queue of the mutex does to it.              *)

\* A cancelled waiter leaves the queue: everybody else keeps his order.
LEMMA RemoveAtProps ==
    ASSUME NEW S, NEW s \in Seq(S), NEW i \in DOMAIN s
    PROVE  /\ RemoveAt(s, i) \in Seq(S)
           /\ Len(RemoveAt(s, i)) = Len(s) - 1
           /\ \A j \in 1..(Len(s) - 1) :
                  RemoveAt(s, i)[j] = IF j < i THEN s[j] ELSE s[j + 1]
<1> DEFINE front == SubSeq(s, 1, i - 1)
          back  == SubSeq(s, i + 1, Len(s))
<1>1. i \in Nat /\ 1 <= i /\ i <= Len(s) /\ Len(s) \in Nat
  OBVIOUS
<1>2. /\ front \in Seq(S) /\ Len(front) = i - 1
      /\ \A j \in 1..(i - 1) : front[j] = s[j]
  BY <1>1
<1>3. /\ back \in Seq(S) /\ Len(back) = Len(s) - i
      /\ \A j \in 1..(Len(s) - i) : back[j] = s[i + j]
  BY <1>1
<1> HIDE DEF front, back
<1>4. /\ front \o back \in Seq(S)
      /\ Len(front \o back) = Len(s) - 1
      /\ \A j \in 1..(Len(s) - 1) :
             (front \o back)[j] = IF j < i THEN front[j] ELSE back[j - (i - 1)]
  <2>1. /\ front \o back \in Seq(S)
        /\ Len(front \o back) = Len(front) + Len(back)
        /\ \A j \in 1..(Len(front) + Len(back)) :
               (front \o back)[j] = IF j <= Len(front) THEN front[j] ELSE back[j - Len(front)]
    BY <1>2, <1>3
  <2>2. Len(front) + Len(back) = Len(s) - 1
    BY <1>1, <1>2, <1>3
  <2>3. \A j \in 1..(Len(s) - 1) : j <= Len(front) <=> j < i
    BY <1>1, <1>2
  <2>4. QED
    BY <1>2, <2>1, <2>2, <2>3
<1>5. \A j \in 1..(Len(s) - 1) :
          (front \o back)[j] = IF j < i THEN s[j] ELSE s[j + 1]
  <2> SUFFICES ASSUME NEW j \in 1..(Len(s) - 1)
               PROVE  (front \o back)[j] = IF j < i THEN s[j] ELSE s[j + 1]
    OBVIOUS
  <2>1. CASE j < i
    <3>1. j \in 1..(i - 1)
      BY <2>1, <1>1
    <3>2. QED
      BY <3>1, <2>1, <1>2, <1>4
  <2>2. CASE j >= i
    <3>1. j - (i - 1) \in 1..(Len(s) - i) /\ i + (j - (i - 1)) = j + 1
      BY <2>2, <1>1
    <3>2. ~(j < i)
      BY <2>2, <1>1
    <3>3. (front \o back)[j] = back[j - (i - 1)]
      BY <3>2, <1>4
    <3>4. back[j - (i - 1)] = s[j + 1]
      BY <3>1, <1>3
    <3>5. QED
      BY <3>2, <3>3, <3>4
  <2>3. j < i \/ j >= i
    BY <1>1
  <2>4. QED
    BY <2>1, <2>2, <2>3
<1>6. QED
  BY <1>4, <1>5 DEF RemoveAt, front, back

\* The holder leaves the queue: the next waiter is first.
LEMMA TailProps ==
    ASSUME NEW S, NEW s \in Seq(S), s # << >>
    PROVE  /\ Tail(s) \in Seq(S)
           /\ Len(Tail(s)) = Len(s) - 1
           /\ \A j \in 1..(Len(s) - 1) : Tail(s)[j] = s[j + 1]
           /\ Head(s) = s[1] /\ 1 \in DOMAIN s
  OBVIOUS

-----------------------------------------------------------------------------

\* split_and_spawn_with_options makes a well-typed connection.
LEMMA InitType == Init => TypeOK
<1> SUFFICES ASSUME Init PROVE TypeOK
  OBVIOUS
<1>1. /\ << >> \in Seq(Tasks) /\ << >> \in Seq(Calls) /\ << >> \in Seq(Message)
      /\ Len(<< >>) = 0 /\ 0 <= SendBuf /\ 0 <= WireCap
  BY ConnectionAssumption
<1>2. /\ [t \in Tasks |-> "idle"] \in [Tasks -> PcValues]
      /\ [t \in Tasks |-> "none"] \in [Tasks -> Outcomes]
      /\ [c \in Calls |-> None] \in [Calls -> Calls \cup {None}]
  BY DEF PcValues, Outcomes
<1>3. QED
  BY <1>1, <1>2 DEF Init, TypeOK, StatusValues

\* The invariant holds on a fresh connection: nothing is sent or queued.
LEMMA InitInv == Init => CommandInv
<1> SUFFICES ASSUME Init PROVE CommandInv
  OBVIOUS
<1>0. ReturnInv
  BY DEF Init, ReturnInv
<1>1. WriterInv
  BY DEF Init, WriterInv, Tasks
<1>2. SlotInv
  BY DEF Init, SlotInv, WaitingIsRegistered, Alive, Tasks
<1>3. WireInv
  BY DEF Init, WireInv, OnWire
<1>4. DeliveryInv
  BY DEF Init, DeliveryInv, OwnReplyUnlessAbandoned
<1>5. QED
  BY <1>0, <1>1, <1>2, <1>3, <1>4 DEF CommandInv

-----------------------------------------------------------------------------
(* Type correctness.  That Tail is only taken of a queue somebody is in    *)
(* needs the part of the invariant about the mutex.                        *)

\* Every step keeps the types and the capacities of the wire.
LEMMA TypeStep == TypeOK /\ WriterInv /\ [Next]_vars => TypeOK'
<1> SUFFICES ASSUME TypeOK, WriterInv, [Next]_vars
             PROVE  TypeOK'
  OBVIOUS
<1>0. /\ SendBuf \in Nat /\ WireCap \in Nat /\ Calls \subseteq Tasks /\ Closers \subseteq Tasks
      /\ Len(writer) \in Nat /\ Len(c2s) \in Nat /\ Len(s2c) \in Nat
  BY ConnectionAssumption DEF Tasks, TypeOK
<1> USE DEF TypeOK, PcValues, Outcomes, StatusValues, clientVars, wireVars, readerVars
<1>1. ASSUME NEW c \in Calls, CallStep(c)
      PROVE  TypeOK'
  <2>1. CASE Arm(c)
    BY <2>1, <1>0 DEF Arm, GoTo
  <2>2. CASE StartWrite(c)
    BY <2>2, <1>0 DEF StartWrite, GoTo
  <2>3. CASE FinishWrite(c)
    <3>1. Append(c2s, c) \in Seq(Calls) /\ Len(Append(c2s, c)) <= SendBuf
      BY <2>3, <1>0 DEF FinishWrite
    <3>2. QED
      BY <2>3, <3>1, <1>0 DEF FinishWrite, GoTo
  <2>4. ASSUME pc[c] \in {"armed", "writing", "waiting", "expired"}, writer' = Tail(writer)
        PROVE  writer' \in Seq(Tasks)
    BY <2>4, TailProps DEF WriterInv, Holds
  <2>5. CASE WriteError(c)
    BY <2>5, <2>4, <1>0 DEF WriteError, Return
  <2>6. CASE ReceiveReply(c)
    BY <2>6, <2>4, <1>0 DEF ReceiveReply, Return
  <2>7. CASE Expire(c)
    BY <2>7, <1>0 DEF Expire, GoTo
  <2>8. CASE Cleanup(c)
    BY <2>8, <2>4, <1>0 DEF Cleanup, Return
  <2>9. QED
    BY <1>1, <2>1, <2>2, <2>3, <2>5, <2>6, <2>7, <2>8 DEF CallStep
<1>2. ASSUME NEW d \in Closers, Shutdown(d)
      PROVE  TypeOK'
  <2>1. writer' \in Seq(Tasks)
    BY <1>2, TailProps DEF Shutdown, Holds
  <2>2. QED
    BY <1>2, <2>1, <1>0 DEF Shutdown, Return
<1>3. ASSUME NEW c \in Calls, CallRefused(c) \/ CallMalformed(c) \/ CallStart(c)
      PROVE  TypeOK'
  <2>1. CASE CallRefused(c) \/ CallMalformed(c)
    BY <2>1, <1>0 DEF CallRefused, CallMalformed, Return
  <2>2. CASE CallStart(c)
    <3>1. Append(writer, c) \in Seq(Tasks)
      BY <1>0
    <3>2. QED
      BY <2>2, <3>1, <1>0 DEF CallStart, GoTo
  <2>3. QED
    BY <1>3, <2>1, <2>2
<1>4. ASSUME NEW d \in Closers, DisconnectStart(d)
      PROVE  TypeOK'
  BY <1>4, <1>0 DEF DisconnectStart, GoTo
<1>5. ASSUME NEW t \in Tasks, Cancel(t)
      PROVE  TypeOK'
  <2>1. writer' \in Seq(Tasks)
    BY <1>5, RemoveAtProps DEF Cancel
  <2>2. QED
    BY <1>5, <2>1, <1>0 DEF Cancel, Return
<1>6. CASE DropClients \/ DropStream
  BY <1>6, <1>0 DEF DropClients, DropStream
<1>7. CASE ServerAnswer
  <2>1. /\ Head(c2s) \in Calls
        /\ Tail(c2s) \in Seq(Calls) /\ Len(Tail(c2s)) <= SendBuf
    BY <1>7, TailProps, <1>0 DEF ServerAnswer
  <2>2. [type |-> "reply", call |-> Head(c2s)] \in Message
    BY <2>1 DEF Message, MsgTypes
  <2>3. s2c' \in Seq(Message) /\ Len(s2c') <= WireCap
    BY <1>7, <2>2, <1>0 DEF ServerAnswer
  <2>4. QED
    BY <1>7, <2>1, <2>3, <1>0 DEF ServerAnswer
<1>8. CASE ServerSend
  <2>1. \A type \in MsgTypes : [type |-> type, call |-> None] \in Message
    BY DEF Message
  <2>2. s2c' \in Seq(Message) /\ Len(s2c') <= WireCap
    BY <1>8, <2>1, <1>0 DEF ServerSend
  <2>3. QED
    BY <1>8, <2>2, <1>0 DEF ServerSend
<1>9. CASE ServerClose
  <2>1. \A n \in 0..Len(s2c) : SubSeq(s2c, 1, n) \in Seq(Message)
                               /\ Len(SubSeq(s2c, 1, n)) = n
    BY <1>0
  <2>2. s2c' \in Seq(Message) /\ Len(s2c') <= WireCap
    BY <1>9, <2>1, <1>0 DEF ServerClose
  <2>3. c2s' \in Seq(Calls) /\ Len(c2s') <= SendBuf
    <3>1. << >> \in Seq(Calls) /\ Len(<< >>) = 0
      OBVIOUS
    <3>2. QED
      BY <1>9, <3>1, <1>0 DEF ServerClose
  <2>4. QED
    BY <1>9, <2>2, <2>3, <1>0 DEF ServerClose
<1>10. ASSUME NEW type, Incoming(type)
       PROVE  s2c' \in Seq(Message) /\ Len(s2c') <= WireCap /\ Head(s2c) \in Message
  BY <1>10, TailProps, <1>0 DEF Incoming
<1>11. CASE ReaderInput
  <2>1. CASE ReadReply
    <3>1. Head(s2c).call \in Calls \cup {None}
      BY <2>1, <1>10 DEF ReadReply, Message
    <3>2. QED
      BY <2>1, <3>1, <1>10, <1>0 DEF ReadReply
  <2>2. CASE ReadEvent
    BY <2>2, <1>10, <1>0 DEF ReadEvent, Incoming
  <2>3. CASE ReadNotice \/ ReadMalformed
    BY <2>3, <1>10, <1>0 DEF ReadNotice, ReadMalformed, Stop
  <2>4. CASE ReadIgnored
    BY <2>4, <1>10, <1>0 DEF ReadIgnored
  <2>5. CASE ReadEof \/ ReadError
    BY <2>5, <1>0 DEF ReadEof, ReadError, Stop
  <2>6. QED
    BY <1>11, <2>1, <2>2, <2>3, <2>4, <2>5 DEF ReaderInput
<1>12. CASE LivenessExpire \/ ReaderReturn
  BY <1>12, <1>0 DEF LivenessExpire, ReaderReturn, Stop
<1>13. CASE UNCHANGED vars
  BY <1>13, <1>0 DEF vars
<1>14. QED
  BY <1>1, <1>2, <1>3, <1>4, <1>5, <1>6, <1>7, <1>8, <1>9, <1>11, <1>12, <1>13
  DEF Next, ClientStep, Application, Server, Reader

-----------------------------------------------------------------------------
(* The mutex.  Four ways a step changes the queue, then the actions.       *)

\* An invocation asks for the mutex: it goes behind all others.
LEMMA EnqueueKeepsWriterInv ==
    ASSUME TypeOK, WriterInv, NEW t \in Tasks, pc[t] = "idle",
           writer' = Append(writer, t), pc' = [pc EXCEPT ![t] = "queued"]
    PROVE  WriterInv'
<1> USE DEF TypeOK
<1>1. \A i \in DOMAIN writer : writer[i] # t
  BY DEF WriterInv
<1>2. /\ DOMAIN writer' = 1..(Len(writer) + 1) /\ DOMAIN writer = 1..Len(writer)
      /\ Len(writer) \in Nat
      /\ \A i \in DOMAIN writer : writer'[i] = writer[i]
      /\ writer'[Len(writer) + 1] = t
  OBVIOUS
<1>3. \A i, j \in DOMAIN writer' : writer'[i] = writer'[j] => i = j
  BY <1>1, <1>2 DEF WriterInv
<1>4. \A i \in DOMAIN writer' : pc'[writer'[i]] \notin {"idle", "done"}
  BY <1>1, <1>2 DEF WriterInv
<1>5. ASSUME NEW c \in Calls, Holds(c)
      PROVE  Holds(c)'
  <2>1. 1 \in DOMAIN writer /\ writer[1] = c
    BY <1>5 DEF Holds
  <2>2. 1 \in DOMAIN writer' /\ writer'[1] = c
    BY <1>2, <2>1
  <2>3. writer' # << >> /\ Head(writer') = writer'[1]
    BY <2>2
  <2>4. QED
    BY <2>2, <2>3 DEF Holds
<1>6. QED
  BY <1>3, <1>4, <1>5 DEF WriterInv, Tasks

\* The holder moves on inside send_command.
LEMMA MoveKeepsWriterInv ==
    ASSUME TypeOK, WriterInv, NEW c \in Calls, Holds(c), UNCHANGED writer,
           NEW label \in {"armed", "writing", "waiting", "expired"},
           pc' = [pc EXCEPT ![c] = label]
    PROVE  WriterInv'
  BY ConnectionAssumption DEF TypeOK, WriterInv, Holds, Tasks

\* An invocation leaves the queue from any place, by being dropped.
LEMMA LeaveKeepsWriterInv ==
    ASSUME TypeOK, WriterInv, NEW t \in Tasks, NEW i \in DOMAIN writer, writer[i] = t,
           writer' = RemoveAt(writer, i), pc' = [pc EXCEPT ![t] = "done"]
    PROVE  WriterInv'
<1> USE DEF TypeOK
<1>1. /\ Len(writer) \in Nat /\ DOMAIN writer = 1..Len(writer)
      /\ writer' \in Seq(Tasks)
      /\ DOMAIN writer' = 1..(Len(writer) - 1)
      /\ \A j \in DOMAIN writer' : writer'[j] = IF j < i THEN writer[j] ELSE writer[j + 1]
  <2>1. /\ writer' \in Seq(Tasks)
        /\ Len(writer') = Len(writer) - 1
        /\ \A j \in 1..(Len(writer) - 1) :
               writer'[j] = IF j < i THEN writer[j] ELSE writer[j + 1]
    BY RemoveAtProps
  <2>2. DOMAIN writer' = 1..Len(writer') /\ DOMAIN writer = 1..Len(writer) /\ Len(writer) \in Nat
    BY <2>1
  <2>3. QED
    BY <2>1, <2>2
<1>2. \A j \in DOMAIN writer' : writer'[j] # t
  <2> SUFFICES ASSUME NEW j \in DOMAIN writer'
               PROVE  writer'[j] # t
    OBVIOUS
  <2> DEFINE old == IF j < i THEN j ELSE j + 1
  <2>1. old \in DOMAIN writer /\ old # i /\ writer'[j] = writer[old]
    BY <1>1
  <2> HIDE DEF old
  <2>2. QED
    BY <2>1 DEF WriterInv
<1>3. \A j, k \in DOMAIN writer' : writer'[j] = writer'[k] => j = k
  <2> SUFFICES ASSUME NEW j \in DOMAIN writer', NEW k \in DOMAIN writer',
                      writer'[j] = writer'[k]
               PROVE  j = k
    OBVIOUS
  <2> DEFINE old(x) == IF x < i THEN x ELSE x + 1
  <2>1. old(j) \in DOMAIN writer /\ old(k) \in DOMAIN writer
    BY <1>1
  <2>2. writer[old(j)] = writer[old(k)]
    BY <1>1
  <2>3. old(j) = old(k)
    BY <2>1, <2>2 DEF WriterInv
  <2>4. QED
    BY <2>3, <1>1
<1>4. \A j \in DOMAIN writer' : pc'[writer'[j]] \notin {"idle", "done"}
  BY <1>1, <1>2 DEF WriterInv
<1>5. ASSUME NEW c \in Calls, pc'[c] \in {"armed", "writing", "waiting", "expired"}
      PROVE  Holds(c)'
  <2>1. c # t /\ Holds(c)
    BY <1>5 DEF WriterInv, Tasks
  <2>2. writer[1] = c /\ 1 \in DOMAIN writer /\ i # 1
    BY <2>1, <1>1 DEF Holds
  <2>3. 1 \in DOMAIN writer' /\ writer'[1] = c
    <3>1. 1 < i /\ 1 <= Len(writer) - 1
      BY <2>2, <1>1
    <3>2. QED
      BY <2>2, <3>1, <1>1
  <2>4. QED
    BY <2>3, <1>1 DEF Holds
<1>6. \A d \in Closers : pc'[d] \in {"idle", "queued", "done"}
  BY DEF WriterInv, Tasks
<1>7. QED
  BY <1>3, <1>4, <1>5, <1>6 DEF WriterInv

\* The holder returns and releases the mutex.
LEMMA ReleaseKeepsWriterInv ==
    ASSUME TypeOK, WriterInv, NEW t \in Tasks, Holds(t),
           writer' = Tail(writer), pc' = [pc EXCEPT ![t] = "done"]
    PROVE  WriterInv'
<1> USE DEF TypeOK
<1>1. 1 \in DOMAIN writer /\ writer[1] = t
  BY DEF Holds
<1>2. RemoveAt(writer, 1) = Tail(writer)
  BY <1>1 DEF RemoveAt
<1>3. QED
  BY <1>1, <1>2, LeaveKeepsWriterInv

\* A call returns before it asked for the mutex.
LEMMA ReturnKeepsWriterInv ==
    ASSUME TypeOK, WriterInv, NEW c \in Calls, pc[c] = "idle", UNCHANGED writer,
           pc' = [pc EXCEPT ![c] = "done"]
    PROVE  WriterInv'
  BY ConnectionAssumption DEF TypeOK, WriterInv, Holds, Tasks

\* Every step keeps the mutex exclusive: one holder, and the others wait.
LEMMA WriterStep == TypeOK /\ WriterInv /\ [Next]_vars => WriterInv'
<1> SUFFICES ASSUME TypeOK, WriterInv, [Next]_vars
             PROVE  WriterInv'
  OBVIOUS
<1>0. Calls \subseteq Tasks /\ Closers \subseteq Tasks
  BY DEF Tasks
<1>1. ASSUME NEW c \in Calls, CallStep(c)
      PROVE  WriterInv'
  <2>1. pc[c] \in {"armed", "writing", "waiting", "expired"} => Holds(c)
    BY DEF WriterInv
  <2>2. CASE Arm(c) \/ StartWrite(c) \/ FinishWrite(c) \/ Expire(c)
    BY <2>1, <2>2, MoveKeepsWriterInv
    DEF Arm, StartWrite, FinishWrite, Expire, GoTo
  <2>3. CASE WriteError(c) \/ ReceiveReply(c) \/ Cleanup(c)
    BY <2>1, <2>3, <1>0, ReleaseKeepsWriterInv
    DEF WriteError, ReceiveReply, Cleanup, Return
  <2>4. QED
    BY <1>1, <2>2, <2>3 DEF CallStep
<1>2. ASSUME NEW d \in Closers, Shutdown(d)
      PROVE  WriterInv'
  BY <1>0, <1>2, ReleaseKeepsWriterInv DEF Shutdown, Return
<1>3. ASSUME NEW c \in Calls, CallRefused(c) \/ CallMalformed(c) \/ CallStart(c)
      PROVE  WriterInv'
  BY <1>0, <1>3, ReturnKeepsWriterInv, EnqueueKeepsWriterInv
  DEF CallRefused, CallMalformed, CallStart, Return, GoTo
<1>4. ASSUME NEW d \in Closers, DisconnectStart(d)
      PROVE  WriterInv'
  BY <1>0, <1>4, EnqueueKeepsWriterInv DEF DisconnectStart, GoTo
<1>5. ASSUME NEW t \in Tasks, Cancel(t)
      PROVE  WriterInv'
  BY <1>5, LeaveKeepsWriterInv DEF Cancel, Return
<1>6. CASE UNCHANGED <<pc, writer>>
  BY <1>6 DEF WriterInv, Holds
<1>7. DropClients \/ DropStream \/ Server \/ Reader \/ UNCHANGED vars
        => UNCHANGED <<pc, writer>>
  BY DEF DropClients, DropStream, Server, ServerAnswer, ServerSend, ServerClose,
         Reader, ReaderInput, ReadReply, ReadEvent, ReadNotice, ReadIgnored,
         ReadMalformed, ReadEof, ReadError, LivenessExpire, ReaderReturn, vars, clientVars
<1>8. QED
  BY <1>1, <1>2, <1>3, <1>4, <1>5, <1>6, <1>7 DEF Next, ClientStep, Application

-----------------------------------------------------------------------------
(* The calls: what a step does to where a call is and what it returned.    *)

\* The steps that change no program counter.
LEMMA PcUnchanged ==
    DropClients \/ DropStream \/ Server \/ Reader \/ UNCHANGED vars
      => UNCHANGED <<pc, outcome>>
  BY DEF DropClients, DropStream, Server, ServerAnswer, ServerSend, ServerClose,
         Reader, ReaderInput, ReadReply, ReadEvent, ReadNotice, ReadIgnored,
         ReadMalformed, ReadEof, ReadError, LivenessExpire, ReaderReturn, vars, clientVars

\* Every step keeps this: an invocation has an outcome iff it has returned.
LEMMA ReturnStep == TypeOK /\ ReturnInv /\ [Next]_vars => ReturnInv'
<1> SUFFICES ASSUME TypeOK, ReturnInv, [Next]_vars
             PROVE  ReturnInv'
  OBVIOUS
<1> USE DEF TypeOK, ReturnInv
<1>0. Calls \subseteq Tasks /\ Closers \subseteq Tasks
  BY DEF Tasks
<1>1. ASSUME NEW t \in Tasks, NEW r \in Outcomes \ {"none"}, Return(t, r)
      PROVE  ReturnInv'
  BY <1>1 DEF Return
<1>2. ASSUME NEW t \in Tasks, NEW l \in PcValues \ {"done"}, pc[t] # "done", GoTo(t, l)
      PROVE  ReturnInv'
  BY <1>2 DEF GoTo
<1>3. ASSUME NEW c \in Calls, CallStep(c)
      PROVE  ReturnInv'
  <2>1. CASE Arm(c) \/ StartWrite(c) \/ FinishWrite(c) \/ Expire(c)
    BY <1>0, <1>2, <2>1 DEF Arm, StartWrite, FinishWrite, Expire, PcValues
  <2>2. CASE WriteError(c) \/ ReceiveReply(c) \/ Cleanup(c)
    BY <1>0, <1>1, <2>2 DEF WriteError, ReceiveReply, Cleanup, Outcomes
  <2>3. QED
    BY <1>3, <2>1, <2>2 DEF CallStep
<1>4. ASSUME NEW d \in Closers, Shutdown(d) \/ DisconnectStart(d)
      PROVE  ReturnInv'
  BY <1>0, <1>1, <1>2, <1>4 DEF Shutdown, DisconnectStart, Outcomes, PcValues
<1>5. ASSUME NEW c \in Calls, CallRefused(c) \/ CallMalformed(c) \/ CallStart(c)
      PROVE  ReturnInv'
  BY <1>0, <1>1, <1>2, <1>5 DEF CallRefused, CallMalformed, CallStart, Outcomes, PcValues
<1>6. ASSUME NEW t \in Tasks, Cancel(t)
      PROVE  ReturnInv'
  BY <1>1, <1>6 DEF Cancel, Outcomes
<1>7. CASE UNCHANGED <<pc, outcome>>
  BY <1>7
<1>8. QED
  BY <1>3, <1>4, <1>5, <1>6, <1>7, PcUnchanged DEF Next, ClientStep, Application

\* A call that has given up stays so.
LEMMA AbandonedStays ==
    ASSUME TypeOK, ReturnInv, [Next]_vars, NEW c \in Calls, Abandoned(c)
    PROVE  Abandoned(c)'
<1> USE DEF TypeOK, Abandoned
<1>0. /\ Calls \subseteq Tasks /\ Closers \subseteq Tasks /\ Calls \cap Closers = {}
      /\ pc[c] \in {"expired", "done"} /\ (pc[c] = "done" => outcome[c] \in {"Timeout", "Cancelled"})
      /\ (pc[c] = "expired" => outcome[c] = "none")
  BY ConnectionAssumption DEF Tasks, ReturnInv
<1>1. ASSUME NEW b \in Calls, CallStep(b)
      PROVE  Abandoned(c)'
  <2>1. CASE Arm(b) \/ StartWrite(b) \/ FinishWrite(b) \/ Expire(b)
    BY <1>0, <2>1 DEF Arm, StartWrite, FinishWrite, Expire, GoTo
  <2>2. CASE WriteError(b) \/ ReceiveReply(b) \/ Cleanup(b)
    BY <1>0, <2>2 DEF WriteError, ReceiveReply, Cleanup, Return
  <2>3. QED
    BY <1>1, <2>1, <2>2 DEF CallStep
<1>2. ASSUME NEW d \in Closers, Shutdown(d) \/ DisconnectStart(d)
      PROVE  Abandoned(c)'
  BY <1>0, <1>2 DEF Shutdown, DisconnectStart, Return, GoTo
<1>3. ASSUME NEW b \in Calls, CallRefused(b) \/ CallMalformed(b) \/ CallStart(b)
      PROVE  Abandoned(c)'
  BY <1>0, <1>3 DEF CallRefused, CallMalformed, CallStart, Return, GoTo
<1>4. ASSUME NEW t \in Tasks, Cancel(t)
      PROVE  Abandoned(c)'
  BY <1>0, <1>4 DEF Cancel, Return
<1>5. CASE UNCHANGED <<pc, outcome>>
  BY <1>5
<1>6. QED
  BY <1>1, <1>2, <1>3, <1>4, <1>5, PcUnchanged DEF Next, ClientStep, Application

-----------------------------------------------------------------------------
(* The slot.                                                               *)

\* Two calls between Arm and return would both be the holder of the mutex.
LEMMA HolderIsUnique ==
    ASSUME WriterInv, NEW b \in Calls, NEW c \in Calls,
           pc[b] \in {"armed", "writing", "waiting", "expired"},
           pc[c] \in {"armed", "writing", "waiting", "expired"}
    PROVE  b = c
  BY DEF WriterInv, Holds

\* The reply at the head of the wire answers some call.
LEMMA HeadReply ==
    ASSUME TypeOK, WireInv, Incoming("reply")
    PROVE  /\ s2c # << >> /\ s2c \in Seq(Message) /\ 1 \in DOMAIN s2c
           /\ Head(s2c) = s2c[1] /\ s2c[1].call \in Calls
<1>1. s2c # << >> /\ s2c \in Seq(Message) /\ Head(s2c).type = "reply"
  BY DEF TypeOK, Incoming
<1>2. 1 \in DOMAIN s2c /\ Head(s2c) = s2c[1] /\ s2c[1] \in Message
  BY <1>1
<1>3. s2c[1].call # None
  BY <1>1, <1>2 DEF WireInv
<1>4. QED
  BY <1>1, <1>2, <1>3 DEF Message

\* Every step keeps the slot: it holds the sender of an unanswered call that
\* has armed, and of the waiting call if there is one.
LEMMA SlotStep ==
    TypeOK /\ WriterInv /\ SlotInv /\ DeliveryInv /\ WireInv /\ [Next]_vars => SlotInv'
<1> SUFFICES ASSUME TypeOK, WriterInv, SlotInv, DeliveryInv, WireInv, [Next]_vars
             PROVE  SlotInv'
  OBVIOUS
<1>0. /\ Calls \subseteq Tasks /\ Closers \subseteq Tasks /\ Calls \cap Closers = {}
      /\ None \notin Calls
  BY ConnectionAssumption DEF Tasks
<1> USE DEF TypeOK, SlotInv, WaitingIsRegistered, Alive
<1>1. ASSUME NEW c \in Calls, CallStep(c)
      PROVE  SlotInv'
  <2>1. CASE Arm(c)
    <3>1. rx[c] = None
      BY <2>1 DEF Arm, DeliveryInv
    <3>2. \A b \in Calls : Alive(b)' => b = c
      <4> SUFFICES ASSUME NEW b \in Calls, b # c, pc[b] \in {"armed", "writing", "waiting"}
                   PROVE  FALSE
        BY <2>1, <1>0 DEF Arm, GoTo
      <4>1. Holds(b) /\ Holds(c)
        BY <2>1 DEF WriterInv, Arm
      <4>2. QED
        BY <4>1 DEF Holds
    <3>3. QED
      BY <2>1, <3>1, <3>2, <1>0 DEF Arm, GoTo
  <2>2. CASE StartWrite(c) \/ FinishWrite(c) \/ Expire(c)
    BY <2>2, <1>0 DEF StartWrite, FinishWrite, Expire, GoTo
  <2>3. CASE WriteError(c) \/ ReceiveReply(c)
    BY <2>3, <1>0 DEF WriteError, ReceiveReply, Return
  <2>4. CASE Cleanup(c)
    <3>1. \A b \in Calls : ~Alive(b)
      BY <2>4, HolderIsUnique DEF Cleanup
    <3>2. QED
      BY <2>4, <3>1, <1>0 DEF Cleanup, Return
  <2>5. QED
    BY <1>1, <2>1, <2>2, <2>3, <2>4 DEF CallStep
<1>2. ASSUME NEW d \in Closers, Shutdown(d) \/ DisconnectStart(d)
      PROVE  SlotInv'
  BY <1>0, <1>2 DEF Shutdown, DisconnectStart, Return, GoTo
<1>3. ASSUME NEW c \in Calls, CallRefused(c) \/ CallMalformed(c) \/ CallStart(c)
      PROVE  SlotInv'
  BY <1>0, <1>3 DEF CallRefused, CallMalformed, CallStart, Return, GoTo
<1>4. ASSUME NEW t \in Tasks, Cancel(t)
      PROVE  SlotInv'
  BY <1>0, <1>4 DEF Cancel, Return
<1>5. CASE ReadReply
  <2>1. Head(s2c).call \in Calls
    BY <1>5, HeadReply DEF ReadReply
  <2>2. QED
    BY <1>5, <2>1, <1>0 DEF ReadReply
<1>6. CASE UNCHANGED <<pc, rx, pending>>
  BY <1>6
<1>7. DropClients \/ DropStream \/ Server \/ (Reader /\ ~ReadReply) \/ UNCHANGED vars
        => UNCHANGED <<pc, rx, pending>>
  BY DEF DropClients, DropStream, Server, ServerAnswer, ServerSend, ServerClose,
         Reader, ReaderInput, ReadEvent, ReadNotice, ReadIgnored,
         ReadMalformed, ReadEof, ReadError, LivenessExpire, ReaderReturn, vars, clientVars
<1>8. QED
  BY <1>1, <1>2, <1>3, <1>4, <1>5, <1>6, <1>7 DEF Next, ClientStep, Application

-----------------------------------------------------------------------------
(* The order in which a call moves, and who writes the channels.           *)

\* A call never goes back, and leaves its wait with a reply or abandoned.
LEMMA PcOrder ==
    ASSUME TypeOK, [Next]_vars, NEW c \in Calls
    PROVE  /\ pc'[c] \in {"idle", "queued"} => pc[c] \in {"idle", "queued"}
           /\ pc[c] \in {"waiting", "expired", "done"}
                => pc'[c] \in {"waiting", "expired", "done"}
           /\ pc[c] = "waiting" => pc'[c] = "waiting" \/ Abandoned(c)' \/ rx[c] # None
<1> USE DEF TypeOK, Abandoned
<1>0. Calls \subseteq Tasks /\ Closers \subseteq Tasks /\ Calls \cap Closers = {}
  BY ConnectionAssumption DEF Tasks
<1> DEFINE Goal == /\ pc'[c] \in {"idle", "queued"} => pc[c] \in {"idle", "queued"}
                   /\ pc[c] \in {"waiting", "expired", "done"}
                        => pc'[c] \in {"waiting", "expired", "done"}
                   /\ pc[c] = "waiting" => \/ pc'[c] = "waiting" \/ Abandoned(c)'
                                           \/ rx[c] # None
<1>1. ASSUME NEW b \in Calls, CallStep(b)
      PROVE  Goal
  <2>1. CASE Arm(b) \/ StartWrite(b) \/ FinishWrite(b) \/ Expire(b)
    BY <1>0, <2>1 DEF Arm, StartWrite, FinishWrite, Expire, GoTo
  <2>2. CASE WriteError(b) \/ ReceiveReply(b) \/ Cleanup(b)
    BY <1>0, <2>2 DEF WriteError, ReceiveReply, Cleanup, Return
  <2>3. QED
    BY <1>1, <2>1, <2>2 DEF CallStep
<1>2. ASSUME NEW d \in Closers, Shutdown(d) \/ DisconnectStart(d)
      PROVE  Goal
  BY <1>0, <1>2 DEF Shutdown, DisconnectStart, Return, GoTo
<1>3. ASSUME NEW b \in Calls, CallRefused(b) \/ CallMalformed(b) \/ CallStart(b)
      PROVE  Goal
  BY <1>0, <1>3 DEF CallRefused, CallMalformed, CallStart, Return, GoTo
<1>4. ASSUME NEW t \in Tasks, Cancel(t)
      PROVE  Goal
  BY <1>0, <1>4 DEF Cancel, Return
<1>5. CASE UNCHANGED <<pc, outcome>>
  BY <1>5
<1>6. QED
  BY <1>1, <1>2, <1>3, <1>4, <1>5, PcUnchanged DEF Next, ClientStep, Application

\* Only the reader task writes a oneshot channel.
LEMMA RxUnchanged == [Next]_vars => ReadReply \/ UNCHANGED rx
  BY DEF Next, vars, clientVars, wireVars, readerVars, ClientStep, CallStep, Arm, StartWrite,
         FinishWrite, WriteError, ReceiveReply, Expire, Cleanup, Shutdown, Application,
         CallRefused, CallMalformed, CallStart, DisconnectStart, Cancel, DropClients,
         DropStream, Server, ServerAnswer, ServerSend, ServerClose, Reader, ReaderInput,
         ReadEvent, ReadNotice, ReadIgnored, ReadMalformed, ReadEof, ReadError,
         LivenessExpire, ReaderReturn

\* The wire changes when a write ends, when the server acts, and when the
\* reader parses.
LEMMA WireUnchanged ==
    [Next]_vars => \/ \E c \in Calls : FinishWrite(c)
                   \/ Server
                   \/ \E type \in MsgTypes : Incoming(type) /\ UNCHANGED c2s
                   \/ UNCHANGED <<c2s, s2c>>
<1> SUFFICES ASSUME [Next]_vars
             PROVE  \/ \E c \in Calls : FinishWrite(c)
                    \/ Server
                    \/ \E type \in MsgTypes : Incoming(type) /\ UNCHANGED c2s
                    \/ UNCHANGED <<c2s, s2c>>
  OBVIOUS
<1>1. CASE ClientStep
  BY <1>1 DEF ClientStep, CallStep, Arm, StartWrite, WriteError, ReceiveReply, Expire,
              Cleanup, Shutdown, wireVars
<1>2. CASE Application
  BY <1>2 DEF Application, CallRefused, CallMalformed, CallStart, DisconnectStart, Cancel,
              DropClients, DropStream, wireVars
<1>3. CASE Reader
  <2>1. CASE ReadReply \/ ReadEvent \/ ReadNotice \/ ReadIgnored \/ ReadMalformed
    BY <2>1 DEF ReadReply, ReadEvent, ReadNotice, ReadIgnored, ReadMalformed, MsgTypes
  <2>2. CASE ReadEof \/ ReadError \/ LivenessExpire \/ ReaderReturn
    BY <2>2 DEF ReadEof, ReadError, LivenessExpire, ReaderReturn, wireVars
  <2>3. QED
    BY <1>3, <2>1, <2>2 DEF Reader, ReaderInput
<1>4. CASE UNCHANGED vars
  BY <1>4 DEF vars, wireVars
<1>5. QED
  BY <1>1, <1>2, <1>3, <1>4 DEF Next

-----------------------------------------------------------------------------
(* The channels.                                                           *)

\* Every step keeps the channels: while nobody gave up, a reply answers the
\* call that receives it.
LEMMA DeliveryStep ==
    TypeOK /\ CommandInv /\ [Next]_vars => DeliveryInv'
<1> SUFFICES ASSUME TypeOK, CommandInv, [Next]_vars
             PROVE  DeliveryInv'
  OBVIOUS
<1> USE DEF TypeOK, CommandInv
<1>0. None \notin Calls
  BY ConnectionAssumption DEF Tasks
<1>1. (\A c \in Calls : ~Abandoned(c))' => \A c \in Calls : ~Abandoned(c)
  BY AbandonedStays
<1>2. CASE UNCHANGED rx
  <2>1. \A c \in Calls : pc'[c] \in {"idle", "queued"} => rx'[c] = None
    BY <1>2, PcOrder DEF DeliveryInv
  <2>2. \A c \in Calls : rx'[c] # None => pc'[rx'[c]] \in {"waiting", "expired", "done"}
    BY <1>2, PcOrder DEF DeliveryInv
  <2>3. OwnReplyUnlessAbandoned'
    BY <1>1, <1>2 DEF DeliveryInv, OwnReplyUnlessAbandoned
  <2>4. QED
    BY <2>1, <2>2, <2>3 DEF DeliveryInv
<1>3. CASE ReadReply
  <2> DEFINE r == s2c[1].call
  <2>1. r \in Calls /\ Head(s2c) = s2c[1] /\ OnWire(r) /\ UNCHANGED <<pc, outcome>>
    BY <1>3, HeadReply DEF ReadReply, OnWire
  <2> HIDE DEF r
  <2>2. /\ pc[r] \in {"waiting", "expired", "done"}
        /\ pc[r] = "waiting" \/ Abandoned(r) \/ rx[r] # None
        /\ \A c \in Calls : rx[c] # r
    BY <2>1 DEF WireInv
  <2>3. \/ UNCHANGED rx
        \/ pending \in Calls /\ Alive(pending) /\ rx' = [rx EXCEPT ![pending] = r]
    BY <1>3, <2>1 DEF ReadReply, r
  <2>4. \A c \in Calls : pc'[c] \in {"idle", "queued"} => rx'[c] = None
    BY <2>1, <2>3 DEF DeliveryInv, Alive
  <2>5. \A c \in Calls : rx'[c] # None => pc'[rx'[c]] \in {"waiting", "expired", "done"}
    BY <2>1, <2>2, <2>3 DEF DeliveryInv
  <2>6. OwnReplyUnlessAbandoned'
    <3> SUFFICES ASSUME (\A c \in Calls : ~Abandoned(c))',
                        pending \in Calls, Alive(pending),
                        rx' = [rx EXCEPT ![pending] = r]
                 PROVE  r = pending
      BY <1>1, <2>3 DEF DeliveryInv, OwnReplyUnlessAbandoned
    <3>1. \A c \in Calls : ~Abandoned(c) /\ rx[c] \in {None, c}
      BY <1>1 DEF DeliveryInv, OwnReplyUnlessAbandoned
    <3>2. pc[r] = "waiting"
      BY <2>1, <2>2, <3>1
    <3>3. QED
      BY <2>1, <3>2, HolderIsUnique DEF Alive
  <2>7. QED
    BY <2>4, <2>5, <2>6 DEF DeliveryInv
<1>4. QED
  BY <1>2, <1>3, RxUnchanged

-----------------------------------------------------------------------------
(* The wire.                                                               *)

\* What WireInv says of one call, apart from how often it is on the wire.
MayBeAnswered(r) ==
    /\ pc[r] = "waiting" \/ Abandoned(r) \/ rx[r] # None
    /\ pc[r] \in {"waiting", "expired", "done"}
    /\ \A c \in Calls : rx[c] # r

\* It stays true unless the reader hands the reply over.
LEMMA MayBeAnsweredStays ==
    ASSUME TypeOK, CommandInv, [Next]_vars, UNCHANGED rx,
           NEW r \in Calls, MayBeAnswered(r)
    PROVE  MayBeAnswered(r)'
  BY PcOrder, AbandonedStays DEF MayBeAnswered, CommandInv

\* Every step keeps the wire: one answer per call, for a call that has written.
LEMMA WireStep ==
    TypeOK /\ CommandInv /\ [Next]_vars => WireInv'
<1> SUFFICES ASSUME TypeOK, CommandInv, [Next]_vars
             PROVE  WireInv'
  OBVIOUS
<1>0. /\ None \notin Calls /\ WireInv
      /\ Len(c2s) \in Nat /\ DOMAIN c2s = 1..Len(c2s) /\ c2s \in Seq(Calls)
      /\ Len(s2c) \in Nat /\ DOMAIN s2c = 1..Len(s2c) /\ s2c \in Seq(Message)
  BY ConnectionAssumption DEF Tasks, CommandInv, TypeOK
<1>1. \A r \in Calls : OnWire(r) => MayBeAnswered(r)
  BY <1>0 DEF WireInv, MayBeAnswered
<1>2. CASE UNCHANGED <<c2s, s2c>>
  <2>1. UNCHANGED rx
    <3>1. ~ReadReply
      <4> SUFFICES ASSUME ReadReply PROVE FALSE
        OBVIOUS
      <4>1. s2c # << >> /\ s2c' = Tail(s2c)
        BY DEF ReadReply, Incoming
      <4>2. QED
        BY <4>1, <1>0, <1>2, TailProps
    <3>2. QED
      BY <3>1, RxUnchanged
  <2>2. \A r \in Calls : OnWire(r)' => OnWire(r)
    BY <1>2 DEF OnWire
  <2>3. \A r \in Calls : OnWire(r)' => MayBeAnswered(r)'
    BY <2>1, <2>2, <1>1, MayBeAnsweredStays
  <2>4. QED
    BY <2>3, <1>0, <1>2 DEF WireInv, MayBeAnswered
<1>3. ASSUME NEW c \in Calls, FinishWrite(c)
      PROVE  WireInv'
  <2>1. /\ UNCHANGED <<rx, s2c>> /\ pc[c] = "writing" /\ pc'[c] = "waiting"
        /\ c2s' = Append(c2s, c) \/ UNCHANGED c2s
    BY <1>3 DEF FinishWrite, GoTo, TypeOK, Tasks
  <2>2. ~OnWire(c) /\ \A b \in Calls : rx[b] # c
    BY <2>1, <1>0 DEF WireInv, CommandInv, DeliveryInv
  <2>3. CASE UNCHANGED c2s
    BY <1>2, <2>1, <2>3
  <2>4. CASE c2s' = Append(c2s, c)
    <3>1. /\ DOMAIN c2s' = 1..(Len(c2s) + 1)
          /\ \A i \in 1..Len(c2s) : c2s'[i] = c2s[i]
          /\ c2s'[Len(c2s) + 1] = c
      BY <2>4, <1>0
    <3>2. /\ \A i \in 1..Len(c2s) : c2s[i] # c
          /\ \A i \in DOMAIN s2c : s2c[i].call # c
      BY <2>2, <1>0 DEF OnWire
    <3>3. \A r \in Calls : OnWire(r)' => r = c \/ OnWire(r)
      BY <3>1, <2>1, <1>0 DEF OnWire
    <3>4. \A r \in Calls : OnWire(r)' => MayBeAnswered(r)'
      <4>1. MayBeAnswered(c)'
        BY <2>1, <2>2 DEF MayBeAnswered
      <4>2. QED
        BY <4>1, <3>3, <2>1, <1>1, MayBeAnsweredStays
    <3>5. \A i, j \in DOMAIN c2s' : c2s'[i] = c2s'[j] => i = j
      BY <3>1, <3>2, <1>0 DEF WireInv
    <3>6. \A i \in DOMAIN c2s', j \in DOMAIN s2c' : c2s'[i] # s2c'[j].call
      BY <3>1, <3>2, <2>1, <1>0 DEF WireInv
    <3>7. QED
      BY <3>4, <3>5, <3>6, <2>1, <1>0 DEF WireInv, MayBeAnswered
  <2>5. QED
    BY <2>1, <2>3, <2>4
<1>4. ASSUME UNCHANGED rx,
             DOMAIN s2c' \subseteq DOMAIN s2c, UNCHANGED c2s \/ c2s' = << >>,
             \E n \in {0, 1} : \A i \in DOMAIN s2c' : i + n \in DOMAIN s2c /\ s2c'[i] = s2c[i + n]
      PROVE  WireInv'
  <2>1. PICK n \in {0, 1} :
            \A i \in DOMAIN s2c' : i + n \in DOMAIN s2c /\ s2c'[i] = s2c[i + n]
    BY <1>4
  <2>2. /\ DOMAIN c2s' \subseteq DOMAIN c2s
        /\ \A i \in DOMAIN c2s' : c2s'[i] = c2s[i]
    BY <1>4
  <2>3. \A r \in Calls : OnWire(r)' => OnWire(r)
    BY <2>1, <2>2 DEF OnWire
  <2>4. \A r \in Calls : OnWire(r)' => MayBeAnswered(r)'
    BY <2>3, <1>1, <1>4, MayBeAnsweredStays
  <2>5. \A i \in DOMAIN s2c' : s2c'[i].type = "reply" <=> s2c'[i].call # None
    BY <2>1, <1>0 DEF WireInv
  <2>6. \A i, j \in DOMAIN c2s' : c2s'[i] = c2s'[j] => i = j
    BY <2>2, <1>0 DEF WireInv
  <2>7. \A i, j \in DOMAIN s2c' :
            s2c'[i].call = s2c'[j].call /\ s2c'[i].call # None => i = j
    <3>1. \A i, j \in DOMAIN s2c' :
              s2c'[i].call = s2c'[j].call /\ s2c'[i].call # None => i + n = j + n
      BY <2>1, <1>0 DEF WireInv
    <3>2. QED
      BY <3>1, <1>0, <1>4
  <2>8. \A i \in DOMAIN c2s', j \in DOMAIN s2c' : c2s'[i] # s2c'[j].call
    BY <2>1, <2>2, <1>0 DEF WireInv
  <2>9. QED
    BY <2>4, <2>5, <2>6, <2>7, <2>8 DEF WireInv, MayBeAnswered
<1>5. CASE ServerAnswer
  <2> DEFINE h == Head(c2s)
             m == [type |-> "reply", call |-> h]
  <2>1. /\ c2s # << >> /\ s2c' = Append(s2c, m) /\ c2s' = Tail(c2s) /\ UNCHANGED rx
    BY <1>5 DEF ServerAnswer, clientVars
  <2>2. /\ h \in Calls /\ c2s[1] = h /\ 1 \in DOMAIN c2s
        /\ DOMAIN c2s' = 1..(Len(c2s) - 1)
        /\ \A i \in DOMAIN c2s' : /\ c2s'[i] = c2s[i + 1]
                                  /\ i + 1 \in DOMAIN c2s /\ i + 1 # 1
    BY <2>1, <1>0, TailProps
  <2>3. /\ DOMAIN s2c' = 1..(Len(s2c) + 1)
        /\ \A i \in 1..Len(s2c) : s2c'[i] = s2c[i]
        /\ s2c'[Len(s2c) + 1] = m /\ m.type = "reply" /\ m.call = h
    BY <2>1, <1>0
  <2> HIDE DEF h, m
  <2>4. /\ \A i \in DOMAIN c2s' : c2s'[i] # h
        /\ \A i \in 1..Len(s2c) : s2c[i].call # h
    <3>1. \A i \in DOMAIN c2s' : c2s[i + 1] # c2s[1]
      BY <2>2, <1>0 DEF WireInv
    <3>2. QED
      BY <3>1, <2>2, <1>0 DEF WireInv
  <2>5. \A r \in Calls : OnWire(r)' => OnWire(r)
    <3> SUFFICES ASSUME NEW r \in Calls, OnWire(r)' PROVE OnWire(r)
      OBVIOUS
    <3>1. CASE \E i \in DOMAIN c2s' : c2s'[i] = r
      BY <3>1, <2>2 DEF OnWire
    <3>2. CASE \E i \in DOMAIN s2c' : s2c'[i].call = r
      BY <3>2, <2>2, <2>3, <1>0 DEF OnWire
    <3>3. QED
      BY <3>1, <3>2 DEF OnWire
  <2>6. \A r \in Calls : OnWire(r)' => MayBeAnswered(r)'
    BY <2>1, <2>5, <1>1, MayBeAnsweredStays
  <2>7. \A i \in DOMAIN s2c' : s2c'[i].type = "reply" <=> s2c'[i].call # None
    BY <2>2, <2>3, <1>0 DEF WireInv
  <2>8. \A i, j \in DOMAIN c2s' : c2s'[i] = c2s'[j] => i = j
    BY <2>2, <1>0 DEF WireInv
  <2>9. \A i, j \in DOMAIN s2c' :
            s2c'[i].call = s2c'[j].call /\ s2c'[i].call # None => i = j
    BY <2>3, <2>4, <1>0 DEF WireInv
  <2>10. \A i \in DOMAIN c2s', j \in DOMAIN s2c' : c2s'[i] # s2c'[j].call
    BY <2>2, <2>3, <2>4, <1>0 DEF WireInv
  <2>11. QED
    BY <2>6, <2>7, <2>8, <2>9, <2>10 DEF WireInv, MayBeAnswered
<1>6. CASE ServerSend
  <2>1. PICK type \in MsgTypes \ {"reply"} :
            s2c' = Append(s2c, [type |-> type, call |-> None])
    BY <1>6 DEF ServerSend
  <2>2. UNCHANGED <<rx, c2s>>
    BY <1>6 DEF ServerSend, clientVars
  <2>3. /\ DOMAIN s2c' = 1..(Len(s2c) + 1)
        /\ \A i \in 1..Len(s2c) : s2c'[i] = s2c[i]
        /\ s2c'[Len(s2c) + 1].type # "reply" /\ s2c'[Len(s2c) + 1].call = None
    BY <2>1, <1>0
  <2>4. \A r \in Calls : OnWire(r)' => OnWire(r)
    BY <2>2, <2>3, <1>0 DEF OnWire
  <2>5. \A r \in Calls : OnWire(r)' => MayBeAnswered(r)'
    BY <2>2, <2>4, <1>1, MayBeAnsweredStays
  <2>6. \A i \in DOMAIN c2s', j \in DOMAIN s2c' : c2s'[i] # s2c'[j].call
    BY <2>2, <2>3, <1>0 DEF WireInv
  <2>7. QED
    BY <2>2, <2>3, <2>5, <2>6, <1>0 DEF WireInv, MayBeAnswered
<1>7. CASE ServerClose
  <2>1. PICK n \in 0..Len(s2c) : s2c' = SubSeq(s2c, 1, n)
    BY <1>7 DEF ServerClose
  <2>2. DOMAIN s2c' = 1..n /\ \A i \in 1..n : s2c'[i] = s2c[i]
    BY <2>1, <1>0
  <2>3. UNCHANGED rx /\ c2s' = << >>
    BY <1>7 DEF ServerClose, clientVars
  <2>4. DOMAIN s2c' \subseteq DOMAIN s2c
        /\ \A i \in DOMAIN s2c' : i + 0 \in DOMAIN s2c /\ s2c'[i] = s2c[i + 0]
    BY <2>2, <1>0
  <2>5. QED
    BY <2>3, <2>4, <1>4
<1>8. ASSUME NEW type \in MsgTypes, Incoming(type), UNCHANGED c2s
      PROVE  WireInv'
  <2>1. /\ s2c # << >> /\ s2c' = Tail(s2c)
    BY <1>8 DEF Incoming
  <2>2. /\ DOMAIN s2c' = 1..(Len(s2c) - 1)
        /\ \A i \in DOMAIN s2c' : /\ s2c'[i] = s2c[i + 1]
                                  /\ i + 1 \in DOMAIN s2c /\ i + 1 # 1
    BY <2>1, <1>0, TailProps
  <2>3. CASE UNCHANGED rx
    <3>1. DOMAIN s2c' \subseteq DOMAIN s2c
          /\ \A i \in DOMAIN s2c' : i + 1 \in DOMAIN s2c /\ s2c'[i] = s2c[i + 1]
      BY <2>2, <1>0
    <3>2. QED
      BY <1>4, <1>8, <2>3, <3>1
  <2>4. CASE ReadReply
    <3> DEFINE h == s2c[1].call
    <3>1. h \in Calls /\ Head(s2c) = s2c[1] /\ 1 \in DOMAIN s2c /\ UNCHANGED <<pc, outcome>>
      BY <2>4, <1>0, HeadReply DEF ReadReply
    <3>2. \/ UNCHANGED rx
          \/ pending \in Calls /\ rx[pending] = None /\ rx' = [rx EXCEPT ![pending] = h]
      BY <2>4, <3>1 DEF ReadReply, TypeOK, CommandInv, SlotInv
    <3>3. /\ \A i \in DOMAIN c2s : c2s[i] # h
          /\ \A i \in DOMAIN s2c : s2c[i].call = h => i = 1
      BY <3>1, <1>0 DEF WireInv
    <3> HIDE DEF h
    <3>4. \A r \in Calls : OnWire(r)' => OnWire(r) /\ r # h
      <4> SUFFICES ASSUME NEW r \in Calls, OnWire(r)' PROVE OnWire(r) /\ r # h
        OBVIOUS
      <4>1. CASE \E i \in DOMAIN c2s' : c2s'[i] = r
        BY <4>1, <3>3, <1>8 DEF OnWire
      <4>2. CASE \E i \in DOMAIN s2c' : s2c'[i].call = r
        BY <4>2, <3>3, <2>2 DEF OnWire
      <4>3. QED
        BY <4>1, <4>2 DEF OnWire
    <3>5. \A r \in Calls : OnWire(r)' => MayBeAnswered(r)'
      BY <3>1, <3>2, <3>4, <1>1, <1>0 DEF MayBeAnswered, Abandoned, TypeOK
    <3>6. \A i \in DOMAIN s2c' : s2c'[i].type = "reply" <=> s2c'[i].call # None
      BY <2>2, <1>0 DEF WireInv
    <3>7. \A i, j \in DOMAIN s2c' :
              s2c'[i].call = s2c'[j].call /\ s2c'[i].call # None => i = j
      <4>1. \A i, j \in DOMAIN s2c' :
                s2c'[i].call = s2c'[j].call /\ s2c'[i].call # None => i + 1 = j + 1
        BY <2>2, <1>0 DEF WireInv
      <4>2. QED
        BY <4>1, <2>2, <1>0
    <3>8. \A i \in DOMAIN c2s', j \in DOMAIN s2c' : c2s'[i] # s2c'[j].call
      BY <2>2, <1>0, <1>8 DEF WireInv
    <3>9. QED
      BY <3>5, <3>6, <3>7, <3>8, <1>0, <1>8 DEF WireInv, MayBeAnswered
  <2>5. QED
    BY <2>3, <2>4, RxUnchanged
<1>9. QED
  BY <1>2, <1>3, <1>5, <1>6, <1>7, <1>8, WireUnchanged DEF Server

-----------------------------------------------------------------------------
(* The theorems about the command channel.                                 *)

\* The inductive invariant: mutex, slot, wire and channels fit together in
\* every reachable state.
THEOREM CommandChannelInvariant == Spec => [](TypeOK /\ CommandInv)
<1>1. Init => TypeOK /\ CommandInv
  BY InitType, InitInv
<1>2. TypeOK /\ CommandInv /\ [Next]_vars => (TypeOK /\ CommandInv)'
  <2> SUFFICES ASSUME TypeOK, CommandInv, [Next]_vars
               PROVE  TypeOK' /\ CommandInv'
    OBVIOUS
  <2>1. ReturnInv /\ WriterInv /\ SlotInv /\ WireInv /\ DeliveryInv
    BY DEF CommandInv
  <2>2. TypeOK' /\ WriterInv' /\ ReturnInv' /\ SlotInv'
    BY <2>1, TypeStep, WriterStep, ReturnStep, SlotStep
  <2>3. WireInv' /\ DeliveryInv'
    BY WireStep, DeliveryStep
  <2>4. QED
    BY <2>2, <2>3 DEF CommandInv
<1>3. QED
  BY <1>1, <1>2, PTL DEF Spec

\* Every variable keeps to its type, and neither direction of the wire holds
\* more than its capacity.
THEOREM TypeCorrect == Spec => []TypeOK
  BY CommandChannelInvariant, PTL

\* The mutex held from write to reply makes the uncorrelated slot safe: while
\* no call has timed out or been dropped, each gets the reply to its command.
THEOREM RepliesReachTheirCall == Spec => []OwnReplyUnlessAbandoned
<1>1. CommandInv => OwnReplyUnlessAbandoned
  BY DEF CommandInv, DeliveryInv
<1>2. QED
  BY <1>1, CommandChannelInvariant, PTL

\* No sender is dropped under a call that can still receive: the branch of
\* send_command that returns ConnectionClosed is dead code.
THEOREM SenderOutlivesReceiver == Spec => []WaitingIsRegistered
<1>1. CommandInv => WaitingIsRegistered
  BY DEF CommandInv, SlotInv
<1>2. QED
  BY <1>1, CommandChannelInvariant, PTL

\* The write half is shut down between commands only.
THEOREM ShutdownCutsNoCommand == Spec => ShutdownBetweenCommands
<1>1. TypeOK /\ CommandInv /\ [Next]_vars
        => [writeOpen /\ ~writeOpen'
              => \A c \in Calls : pc[c] \in {"idle", "queued", "done"}]_vars
  <2> SUFFICES ASSUME TypeOK, CommandInv, Next, writeOpen, ~writeOpen', NEW c \in Calls
               PROVE  pc[c] \in {"idle", "queued", "done"}
    BY DEF vars, clientVars
  <2>1. (\E d \in Closers : Shutdown(d)) \/ DropClients
    BY DEF Next, ClientStep, CallStep, Arm, StartWrite, FinishWrite, WriteError,
           ReceiveReply, Expire, Cleanup, Application, CallRefused, CallMalformed,
           CallStart, DisconnectStart, Cancel, DropStream, Server, ServerAnswer,
           ServerSend, ServerClose, Reader, ReaderInput, ReadReply, ReadEvent,
           ReadNotice, ReadIgnored, ReadMalformed, ReadEof, ReadError,
           LivenessExpire, ReaderReturn, clientVars
  <2>2. CASE DropClients
    BY <2>2 DEF DropClients, Tasks
  <2>3. ASSUME NEW d \in Closers, Shutdown(d)
        PROVE  pc[c] \in {"idle", "queued", "done"}
    <3>1. ~Holds(c)
      BY <2>3, ConnectionAssumption DEF Shutdown, Holds
    <3>2. QED
      BY <3>1 DEF CommandInv, WriterInv, TypeOK, PcValues, Tasks
  <2>4. QED
    BY <2>1, <2>2, <2>3
<1>2. QED
  BY <1>1, CommandChannelInvariant, PTL DEF Spec, ShutdownBetweenCommands

-----------------------------------------------------------------------------
(* The reader task and the status it reports.                              *)

\* Every step keeps the reader task's promise: a status before it returns.
LEMMA ReaderStep == ReaderInv /\ [Next]_vars => ReaderInv'
<1> SUFFICES ASSUME ReaderInv, [Next]_vars
             PROVE  ReaderInv'
  OBVIOUS
<1> USE DEF ReaderInv, NoneMeansDisconnected
<1>1. CASE UNCHANGED readerVars
  BY <1>1 DEF readerVars
<1>2. CASE DropStream
  BY <1>2 DEF DropStream
<1>3. CASE Reader
  BY <1>3 DEF Reader, ReaderInput, ReadReply, ReadEvent, ReadNotice, ReadIgnored,
              ReadMalformed, ReadEof, ReadError, LivenessExpire, ReaderReturn,
              Stop, SocketIdle, Incoming, readerVars
<1>4. ClientStep \/ Server \/ (Application /\ ~DropStream) \/ UNCHANGED vars
        => UNCHANGED readerVars
  BY DEF ClientStep, CallStep, Arm, StartWrite, FinishWrite, WriteError, ReceiveReply,
         Expire, Cleanup, Shutdown, Application, CallRefused, CallMalformed,
         CallStart, DisconnectStart, Cancel, DropClients, Server, ServerAnswer,
         ServerSend, ServerClose, vars
<1>5. QED
  BY <1>1, <1>2, <1>3, <1>4 DEF Next

\* The reader task never stops silently while the event stream is held.
LEMMA ReaderInvariant == Spec => []ReaderInv
<1>1. Init => ReaderInv
  BY DEF Init, ReaderInv, NoneMeansDisconnected
<1>2. QED
  BY <1>1, ReaderStep, PTL DEF Spec

\* A recv() that returns None tells the truth: the status is Disconnected.
THEOREM NoneTellsDisconnected == Spec => []NoneMeansDisconnected
<1>1. ReaderInv => NoneMeansDisconnected
  BY DEF ReaderInv
<1>2. QED
  BY <1>1, ReaderInvariant, PTL

\* The first disconnect reason is the last.
THEOREM FirstReasonStays == Spec => StatusIsFinal
<1>1. ReaderInv /\ [Next]_vars => [status # "Connected" => status' = status]_vars
  <2> SUFFICES ASSUME ReaderInv, Next, status # "Connected"
               PROVE  status' = status
    OBVIOUS
  <2>1. reader # "running"
    BY DEF ReaderInv
  <2>2. CASE Reader
    BY <2>1, <2>2 DEF Reader, ReaderInput, ReadReply, ReadEvent, ReadNotice, ReadIgnored,
              ReadMalformed, ReadEof, ReadError, LivenessExpire, ReaderReturn,
              SocketIdle, Incoming
  <2>3. ClientStep \/ Server \/ Application => UNCHANGED status
    BY DEF ClientStep, CallStep, Arm, StartWrite, FinishWrite, WriteError, ReceiveReply,
           Expire, Cleanup, Shutdown, Application, CallRefused, CallMalformed,
           CallStart, DisconnectStart, Cancel, DropClients, DropStream, Server,
           ServerAnswer, ServerSend, ServerClose, readerVars
  <2>4. QED
    BY <2>2, <2>3 DEF Next
<1>2. QED
  BY <1>1, ReaderInvariant, PTL DEF Spec, StatusIsFinal

-----------------------------------------------------------------------------
(* Whole commands.                                                         *)

\* The command timeout cannot leave half a command on the wire, for it does
\* not run while write_all does; only a caller that drops the future can.
THEOREM TimeoutTearsNothing == Spec => []OnlyCancellationTearsTheStream
<1> USE DEF OnlyCancellationTearsTheStream
<1>1. Init => OnlyCancellationTearsTheStream
  BY DEF Init
<1>2. TypeOK /\ CommandInv /\ OnlyCancellationTearsTheStream /\ [Next]_vars
        => OnlyCancellationTearsTheStream'
  <2> SUFFICES ASSUME TypeOK, CommandInv, OnlyCancellationTearsTheStream, [Next]_vars,
                      torn' \/ garbled' # {}
               PROVE  \E c \in Calls : outcome'[c] = "Cancelled"
    OBVIOUS
  <2>1. ASSUME NEW c \in Calls, outcome[c] = "Cancelled"
        PROVE  outcome'[c] = "Cancelled"
    <3>1. /\ pc[c] = "done" /\ Calls \subseteq Tasks /\ Closers \subseteq Tasks
          /\ Calls \cap Closers = {} /\ outcome \in [Tasks -> Outcomes]
      BY <2>1, ConnectionAssumption DEF CommandInv, ReturnInv, Tasks, TypeOK
    <3>2. ASSUME NEW b \in Calls, CallStep(b)
          PROVE  outcome'[c] = "Cancelled"
      BY <2>1, <3>1, <3>2 DEF CallStep, Arm, StartWrite, FinishWrite, Expire, WriteError,
                              ReceiveReply, Cleanup, Return, GoTo
    <3>3. ASSUME NEW d \in Closers, Shutdown(d) \/ DisconnectStart(d)
          PROVE  outcome'[c] = "Cancelled"
      BY <2>1, <3>1, <3>3 DEF Shutdown, DisconnectStart, Return, GoTo
    <3>4. ASSUME NEW b \in Calls, CallRefused(b) \/ CallMalformed(b) \/ CallStart(b)
          PROVE  outcome'[c] = "Cancelled"
      BY <2>1, <3>1, <3>4 DEF CallRefused, CallMalformed, CallStart, Return, GoTo
    <3>5. ASSUME NEW t \in Tasks, Cancel(t)
          PROVE  outcome'[c] = "Cancelled"
      BY <2>1, <3>1, <3>5 DEF Cancel, Return
    <3>6. QED
      BY <2>1, <3>2, <3>3, <3>4, <3>5, PcUnchanged DEF Next, ClientStep, Application
  <2>2. CASE torn \/ garbled # {}
    BY <2>1, <2>2
  <2>3. CASE ~torn /\ garbled = {}
    <3>1. \E t \in Tasks : Cancel(t) /\ pc[t] = "writing"
      <4>1. ASSUME NEW c \in Calls, CallStep(c)
            PROVE  FALSE
        BY <2>3, <4>1 DEF CallStep, Arm, StartWrite, FinishWrite, WriteError,
             ReceiveReply, Expire, Cleanup
      <4>2. CASE UNCHANGED <<torn, garbled>>
        BY <2>3, <4>2
      <4>3. (\E d \in Closers : Shutdown(d)) \/ Server \/ Reader \/ UNCHANGED vars
              => UNCHANGED <<torn, garbled>>
        BY DEF Shutdown, Server, ServerAnswer, ServerSend, ServerClose, Reader,
             ReaderInput, ReadReply, ReadEvent, ReadNotice, ReadIgnored, ReadMalformed,
             ReadEof, ReadError, LivenessExpire, ReaderReturn, clientVars, vars
      <4>4. Application /\ ~(\E t \in Tasks : Cancel(t)) => UNCHANGED <<torn, garbled>>
        BY DEF Application, CallRefused, CallMalformed, CallStart, DisconnectStart,
             DropClients, DropStream, clientVars
      <4>5. PICK t \in Tasks : Cancel(t)
        BY <4>1, <4>2, <4>3, <4>4 DEF Next, ClientStep
      <4>6. pc[t] = "writing"
        BY <2>3, <4>5 DEF Cancel
      <4>7. QED
        BY <4>5, <4>6
    <3>2. PICK t \in Tasks : Cancel(t) /\ pc[t] = "writing"
      BY <3>1
    <3>3. t \in Calls
      BY <3>2 DEF CommandInv, WriterInv, Tasks
    <3>4. outcome'[t] = "Cancelled"
      BY <3>2 DEF Cancel, Return, TypeOK
    <3>5. QED
      BY <3>3, <3>4
  <2>4. QED
    BY <2>2, <2>3
<1>3. QED
  BY <1>1, <1>2, CommandChannelInvariant, PTL DEF Spec

-----------------------------------------------------------------------------
(***************************************************************************)
(* EslConnection implements CommandService: each of its steps is a step of *)
(* the abstract service or leaves it alone, for all calls and disconnects. *)
(***************************************************************************)

(* What the mapping depends on.                                            *)

\* The listener changes with the slot and with who can receive only.
LEMMA ListenerSame ==
    ASSUME TypeOK, UNCHANGED pending, \A c \in Calls : Alive(c)' <=> Alive(c)
    PROVE  Listener' = Listener
  BY DEF TypeOK, Listener

\* Nobody gives up unless a call changes.
LEMMA GaveUpSame ==
    ASSUME \A c \in Calls : Abandoned(c)' <=> Abandoned(c)
    PROVE  GaveUp' = GaveUp
  BY DEF GaveUp

\* The answers to come change with the wire only.
LEMMA OwedSame ==
    ASSUME UNCHANGED <<c2s, s2c>>
    PROVE  Owed' = Owed
  BY DEF Owed, OnWire

\* When c holds the mutex, nobody but c listens.
LEMMA OnlyHolderListens ==
    ASSUME TypeOK, CommandInv, NEW c \in Calls, Holds(c)
    PROVE  Listener \in {c, None}
  BY DEF CommandInv, WriterInv, Listener, Alive, Holds, TypeOK

\* The listener is a call, and None is none.
LEMMA ListenerIsCall ==
    ASSUME TypeOK
    PROVE  /\ Listener # None <=> pending # None /\ Alive(pending)
           /\ Listener # None => Listener = pending /\ Listener \in Calls
  BY ConnectionAssumption DEF TypeOK, Listener, Tasks

\* A step that leaves the calls, the slot, the wire and the channels alone
\* leaves the service alone.
LEMMA Stutter ==
    ASSUME TypeOK, UNCHANGED <<pending, c2s, s2c, rx>>,
           \A c \in Calls : Alive(c)' <=> Alive(c),
           \A c \in Calls : Abandoned(c)' <=> Abandoned(c)
    PROVE  UNCHANGED Service!vars
  BY ListenerSame, GaveUpSame, OwedSame DEF Service!vars

-----------------------------------------------------------------------------

\* A fresh connection is a fresh service.
LEMMA ServiceInit == Init => Service!Init
<1> SUFFICES ASSUME Init PROVE Service!Init
  OBVIOUS
<1>1. Listener = None
  BY DEF Init, Listener
<1>2. Owed = {}
  BY DEF Init, Owed, OnWire
<1>3. ~GaveUp
  BY DEF Init, GaveUp, Abandoned, Tasks
<1>4. rx = [c \in Calls |-> None]
  BY DEF Init
<1>5. QED
  BY <1>1, <1>2, <1>3, <1>4 DEF Service!Init

\* The steps of a call.
LEMMA CallMaps ==
    ASSUME TypeOK, CommandInv, NEW c \in Calls, CallStep(c)
    PROVE  Service!Next \/ UNCHANGED Service!vars
<1> USE DEF TypeOK
<1>0. /\ None \notin Calls /\ c \in Tasks /\ Calls \subseteq Tasks
      /\ \A b \in Calls : b # c => (Alive(b)' <=> Alive(b)) /\ (Abandoned(b)' <=> Abandoned(b))
  BY ConnectionAssumption
     DEF Tasks, Alive, Abandoned, CallStep, Arm, StartWrite, FinishWrite, WriteError,
         ReceiveReply, Expire, Cleanup, GoTo, Return
<1>00. Holds(c) \/ pc[c] = "queued"
  BY DEF CommandInv, WriterInv, CallStep, Arm, StartWrite, FinishWrite, WriteError,
         ReceiveReply, Expire, Cleanup
<1>1. CASE Arm(c)
  <2>1. /\ pc[c] = "queued" /\ Holds(c) /\ pc' = [pc EXCEPT ![c] = "armed"] /\ pending' = c
        /\ UNCHANGED <<outcome, rx, c2s, s2c>>
    BY <1>1 DEF Arm, GoTo, wireVars
  <2>2. Listener = None
    BY <1>0, <2>1, OnlyHolderListens DEF Listener, Alive
  <2>3. Listener' = c
    BY <1>0, <2>1 DEF Listener, Alive
  <2>4. rx[c] = None
    BY <2>1 DEF CommandInv, DeliveryInv
  <2>5. outcome[c] = "none"
    BY <1>0, <2>1 DEF CommandInv, ReturnInv
  <2>6. GaveUp' = GaveUp
    <3>1. Abandoned(c)' <=> Abandoned(c)
      BY <1>0, <2>1, <2>5 DEF Abandoned
    <3>2. QED
      BY <1>0, <3>1, GaveUpSame
  <2>7. Owed' = Owed
    BY <2>1, OwedSame
  <2>8. QED
    BY <2>1, <2>2, <2>3, <2>4, <2>6, <2>7 DEF Service!Next, Service!Listen
<1>2. CASE StartWrite(c)
  <2>1. /\ pc[c] = "armed" /\ pc' = [pc EXCEPT ![c] = "writing"]
        /\ UNCHANGED <<outcome, pending, rx, c2s, s2c>>
    BY <1>2 DEF StartWrite, GoTo, wireVars
  <2>2. (Alive(c)' <=> Alive(c)) /\ (Abandoned(c)' <=> Abandoned(c))
    BY <1>0, <2>1 DEF Alive, Abandoned
  <2>3. QED
    BY <1>0, <2>1, <2>2, Stutter
<1>3. CASE FinishWrite(c)
  <2>1. /\ pc[c] = "writing" /\ pc' = [pc EXCEPT ![c] = "waiting"]
        /\ UNCHANGED <<outcome, pending, rx, s2c>>
        /\ c2s' = IF serverUp THEN Append(c2s, c) ELSE c2s
    BY <1>3 DEF FinishWrite, GoTo
  <2>2. (Alive(c)' <=> Alive(c)) /\ (Abandoned(c)' <=> Abandoned(c))
    BY <1>0, <2>1 DEF Alive, Abandoned
  <2>3. CASE ~serverUp
    BY <1>0, <2>1, <2>2, <2>3, Stutter
  <2>4. CASE serverUp
    <3>1. Listener' = Listener /\ GaveUp' = GaveUp
      BY <1>0, <2>1, <2>2, ListenerSame, GaveUpSame
    <3>2. c \notin Owed
      BY <2>1 DEF Owed, CommandInv, WireInv
    <3>3. \A b \in Calls : rx[b] # c
      BY <1>0, <2>1 DEF CommandInv, DeliveryInv
    <3>4. Listener = c \/ rx[c] # None
      BY <1>0, <2>1 DEF CommandInv, SlotInv, WaitingIsRegistered, Alive, Listener
    <3>5. Owed' = Owed \cup {c}
      <4>1. /\ DOMAIN c2s' = 1..(Len(c2s) + 1) /\ DOMAIN c2s = 1..Len(c2s) /\ Len(c2s) \in Nat
            /\ \A i \in 1..Len(c2s) : c2s'[i] = c2s[i]
            /\ c2s'[Len(c2s) + 1] = c
        BY <2>1, <2>4
      <4>2. \A b \in Calls : (\E i \in DOMAIN c2s' : c2s'[i] = b)
                                <=> b = c \/ \E i \in DOMAIN c2s : c2s[i] = b
        <5>1. ASSUME NEW b \in Calls, NEW i \in DOMAIN c2s', c2s'[i] = b
              PROVE  b = c \/ \E j \in DOMAIN c2s : c2s[j] = b
          <6>1. CASE i = Len(c2s) + 1
            BY <4>1, <5>1, <6>1
          <6>2. CASE i # Len(c2s) + 1
            BY <4>1, <5>1, <6>2
          <6>3. QED
            BY <6>1, <6>2
        <5>2. Len(c2s) + 1 \in DOMAIN c2s' /\ c2s'[Len(c2s) + 1] = c
          BY <4>1
        <5>3. \A j \in DOMAIN c2s : j \in DOMAIN c2s' /\ c2s'[j] = c2s[j]
          BY <4>1
        <5>4. QED
          BY <5>1, <5>2, <5>3
      <4>3. \A b \in Calls : OnWire(b)' <=> OnWire(b) \/ b = c
        BY <2>1, <4>2 DEF OnWire
      <4>4. QED
        BY <4>3 DEF Owed
    <3>6. QED
      BY <2>1, <3>1, <3>2, <3>3, <3>4, <3>5 DEF Service!Next, Service!Send
  <2>5. QED
    BY <2>3, <2>4
<1>4. CASE WriteError(c)
  <2>1. /\ pc[c] \in {"armed", "writing"} /\ pc' = [pc EXCEPT ![c] = "done"]
        /\ outcome' = [outcome EXCEPT ![c] = "Io"]
        /\ UNCHANGED <<pending, rx, c2s, s2c>>
    BY <1>4 DEF WriteError, Return, wireVars
  <2>2. Listener' = None
    BY <1>0, <1>00, <2>1, OnlyHolderListens DEF Listener, Alive
  <2>3. Abandoned(c)' <=> Abandoned(c)
    BY <1>0, <2>1 DEF Abandoned, CommandInv, ReturnInv
  <2>4. GaveUp' = GaveUp /\ Owed' = Owed
    BY <1>0, <2>1, <2>3, GaveUpSame, OwedSame
  <2>5. QED
    BY <2>1, <2>2, <2>4 DEF Service!Next, Service!Fail
<1>5. CASE ReceiveReply(c)
  <2>1. /\ pc[c] = "waiting" /\ rx[c] # None /\ pc' = [pc EXCEPT ![c] = "done"]
        /\ outcome' = [outcome EXCEPT ![c] = "Ok"]
        /\ UNCHANGED <<pending, rx, c2s, s2c>>
    BY <1>5 DEF ReceiveReply, Return, wireVars
  <2>2. pending # c
    BY <1>0, <2>1 DEF CommandInv, SlotInv
  <2>3. Listener' = Listener
    BY <1>0, <2>1, <2>2 DEF Listener
  <2>4. Abandoned(c)' <=> Abandoned(c)
    BY <1>0, <2>1 DEF Abandoned, CommandInv, ReturnInv
  <2>5. GaveUp' = GaveUp /\ Owed' = Owed
    BY <1>0, <2>1, <2>4, GaveUpSame, OwedSame
  <2>6. QED
    BY <2>1, <2>3, <2>5 DEF Service!vars
<1>6. CASE Expire(c)
  <2>1. /\ pc[c] = "waiting" /\ pc' = [pc EXCEPT ![c] = "expired"]
        /\ UNCHANGED <<pending, rx, c2s, s2c>>
    BY <1>6 DEF Expire, GoTo, wireVars
  <2>2. Listener' = None
    BY <1>0, <1>00, <2>1, OnlyHolderListens DEF Listener, Alive
  <2>3. GaveUp'
    BY <1>0, <2>1 DEF GaveUp, Abandoned
  <2>4. Owed' = Owed
    BY <2>1, OwedSame
  <2>5. QED
    BY <2>1, <2>2, <2>3, <2>4 DEF Service!Next, Service!GiveUp
<1>7. CASE Cleanup(c)
  <2>1. /\ pending' = None /\ outcome' = [outcome EXCEPT ![c] = "Timeout"]
        /\ UNCHANGED <<rx, c2s, s2c>>
    BY <1>7 DEF Cleanup, Return, wireVars
  <2>2. Listener' = None
    BY <2>1 DEF Listener
  <2>3. GaveUp'
    BY <1>0, <2>1 DEF GaveUp, Abandoned
  <2>4. Owed' = Owed
    BY <2>1, OwedSame
  <2>5. QED
    BY <2>1, <2>2, <2>3, <2>4 DEF Service!Next, Service!GiveUp
<1>8. QED
  BY <1>1, <1>2, <1>3, <1>4, <1>5, <1>6, <1>7 DEF CallStep

\* The steps of the application: only dropping a call's future shows.
LEMMA ApplicationMaps ==
    ASSUME TypeOK, CommandInv, Application \/ \E d \in Closers : Shutdown(d)
    PROVE  Service!Next \/ UNCHANGED Service!vars
<1> USE DEF TypeOK
<1>0. Calls \subseteq Tasks /\ Closers \subseteq Tasks /\ Calls \cap Closers = {} /\ None \notin Calls
  BY ConnectionAssumption DEF Tasks
<1>1. ASSUME NEW c \in Calls, CallRefused(c) \/ CallMalformed(c) \/ CallStart(c)
      PROVE  UNCHANGED Service!vars
  <2>1. /\ pc[c] = "idle" /\ UNCHANGED <<pending, rx, c2s, s2c>>
        /\ \/ pc' = [pc EXCEPT ![c] = "queued"] /\ UNCHANGED outcome
           \/ /\ pc' = [pc EXCEPT ![c] = "done"]
              /\ \/ outcome' = [outcome EXCEPT ![c] = "NotConnected"]
                 \/ outcome' = [outcome EXCEPT ![c] = "ProtocolError"]
    BY <1>1 DEF CallRefused, CallMalformed, CallStart, GoTo, Return, wireVars
  <2>2. outcome[c] = "none"
    BY <1>0, <2>1 DEF CommandInv, ReturnInv
  <2>3. \A b \in Calls : (Alive(b)' <=> Alive(b)) /\ (Abandoned(b)' <=> Abandoned(b))
    BY <1>0, <2>1, <2>2 DEF Alive, Abandoned
  <2>4. QED
    BY <2>1, <2>3, Stutter
<1>2. ASSUME NEW d \in Closers, DisconnectStart(d) \/ Shutdown(d)
      PROVE  UNCHANGED Service!vars
  <2>1. /\ UNCHANGED <<pending, rx, c2s, s2c>>
        /\ \A b \in Calls : pc'[b] = pc[b] /\ outcome'[b] = outcome[b]
    BY <1>0, <1>2 DEF DisconnectStart, Shutdown, GoTo, Return, wireVars
  <2>2. \A b \in Calls : (Alive(b)' <=> Alive(b)) /\ (Abandoned(b)' <=> Abandoned(b))
    BY <2>1 DEF Alive, Abandoned
  <2>3. QED
    BY <2>1, <2>2, Stutter
<1>3. ASSUME NEW t \in Tasks, Cancel(t)
      PROVE  Service!Next \/ UNCHANGED Service!vars
  <2>1. /\ UNCHANGED <<pending, rx, c2s, s2c>>
        /\ pc' = [pc EXCEPT ![t] = "done"] /\ outcome' = [outcome EXCEPT ![t] = "Cancelled"]
    BY <1>3 DEF Cancel, Return, wireVars
  <2>2. CASE t \in Calls
    <3>1. Listener' \in {Listener, None}
      BY <1>0, <2>1, <2>2 DEF Listener, Alive
    <3>2. GaveUp'
      BY <1>0, <2>1, <2>2 DEF GaveUp, Abandoned
    <3>3. Owed' = Owed
      BY <2>1, OwedSame
    <3>4. QED
      BY <2>1, <3>1, <3>2, <3>3 DEF Service!Next, Service!GiveUp
  <2>3. CASE t \notin Calls
    <3>1. \A b \in Calls : (Alive(b)' <=> Alive(b)) /\ (Abandoned(b)' <=> Abandoned(b))
      BY <1>0, <2>1, <2>3 DEF Alive, Abandoned
    <3>2. QED
      BY <2>1, <3>1, Stutter
  <2>4. QED
    BY <2>2, <2>3
<1>4. CASE DropClients \/ DropStream
  <2>1. UNCHANGED <<pc, outcome, pending, rx, c2s, s2c>>
    BY <1>4 DEF DropClients, DropStream, clientVars, wireVars
  <2>2. \A b \in Calls : (Alive(b)' <=> Alive(b)) /\ (Abandoned(b)' <=> Abandoned(b))
    BY <2>1 DEF Alive, Abandoned
  <2>3. QED
    BY <2>1, <2>2, Stutter
<1>5. QED
  BY <1>1, <1>2, <1>3, <1>4 DEF Application

\* A step that only shortens or lengthens the wire.
LEMMA WireOnly ==
    ASSUME TypeOK, UNCHANGED clientVars
    PROVE  Listener' = Listener /\ GaveUp' = GaveUp /\ UNCHANGED rx
<1>1. UNCHANGED <<pc, outcome, pending, rx>>
  BY DEF clientVars
<1>2. \A b \in Calls : (Alive(b)' <=> Alive(b)) /\ (Abandoned(b)' <=> Abandoned(b))
  BY <1>1 DEF Alive, Abandoned
<1>3. QED
  BY <1>1, <1>2, ListenerSame, GaveUpSame

\* The server moves commands to answers, adds what nobody asked for, or goes.
LEMMA ServerMaps ==
    ASSUME TypeOK, CommandInv, Server
    PROVE  Service!Next \/ UNCHANGED Service!vars
<1> USE DEF TypeOK
<1>0. /\ None \notin Calls /\ UNCHANGED clientVars
      /\ Len(c2s) \in Nat /\ DOMAIN c2s = 1..Len(c2s)
      /\ Len(s2c) \in Nat /\ DOMAIN s2c = 1..Len(s2c)
  BY ConnectionAssumption DEF Tasks, Server, ServerAnswer, ServerSend, ServerClose
<1>1. Listener' = Listener /\ GaveUp' = GaveUp /\ UNCHANGED rx
  BY <1>0, WireOnly
<1>2. CASE ServerAnswer
  <2> DEFINE answer == [type |-> "reply", call |-> Head(c2s)]
  <2>1. /\ c2s # << >> /\ c2s' = Tail(c2s) /\ s2c' = Append(s2c, answer)
    BY <1>2 DEF ServerAnswer
  <2>2. /\ DOMAIN c2s' = 1..(Len(c2s) - 1) /\ 1 \in DOMAIN c2s
        /\ \A i \in 1..(Len(c2s) - 1) : c2s'[i] = c2s[i + 1]
        /\ answer.call = c2s[1]
    BY <1>0, <2>1
  <2> HIDE DEF answer
  <2>3. /\ DOMAIN s2c' = 1..(Len(s2c) + 1)
        /\ \A i \in 1..Len(s2c) : s2c'[i] = s2c[i]
        /\ s2c'[Len(s2c) + 1] = answer
    BY <1>0, <2>1
  <2>4. \A b \in Calls : (\E i \in DOMAIN c2s : c2s[i] = b)
                            <=> b = c2s[1] \/ \E i \in DOMAIN c2s' : c2s'[i] = b
    <3>1. ASSUME NEW b \in Calls, NEW i \in DOMAIN c2s, c2s[i] = b
          PROVE  b = c2s[1] \/ \E j \in DOMAIN c2s' : c2s'[j] = b
      <4>1. CASE i = 1
        BY <3>1, <4>1
      <4>2. CASE i # 1
        <5>1. i - 1 \in DOMAIN c2s' /\ c2s'[i - 1] = c2s[i]
          BY <1>0, <2>2, <4>2
        <5>2. QED
          BY <3>1, <5>1
      <4>3. QED
        BY <4>1, <4>2
    <3>2. ASSUME NEW b \in Calls, NEW i \in DOMAIN c2s', c2s'[i] = b
          PROVE  \E j \in DOMAIN c2s : c2s[j] = b
      <4>1. i + 1 \in DOMAIN c2s /\ c2s[i + 1] = b
        BY <1>0, <2>2, <3>2
      <4>2. QED
        BY <4>1
    <3>3. QED
      BY <2>2, <3>1, <3>2
  <2>5. \A b \in Calls : (\E i \in DOMAIN s2c' : s2c'[i].call = b)
                            <=> b = c2s[1] \/ \E i \in DOMAIN s2c : s2c[i].call = b
    <3>1. ASSUME NEW b \in Calls, NEW i \in DOMAIN s2c', s2c'[i].call = b
          PROVE  b = c2s[1] \/ \E j \in DOMAIN s2c : s2c[j].call = b
      <4>1. CASE i = Len(s2c) + 1
        BY <2>2, <2>3, <3>1, <4>1
      <4>2. CASE i # Len(s2c) + 1
        <5>1. i \in DOMAIN s2c /\ s2c[i].call = b
          BY <1>0, <2>3, <3>1, <4>2
        <5>2. QED
          BY <5>1
      <4>3. QED
        BY <4>1, <4>2
    <3>2. ASSUME NEW b \in Calls, b = c2s[1]
          PROVE  \E i \in DOMAIN s2c' : s2c'[i].call = b
      <4>1. Len(s2c) + 1 \in DOMAIN s2c' /\ s2c'[Len(s2c) + 1].call = b
        BY <1>0, <2>2, <2>3, <3>2
      <4>2. QED
        BY <4>1
    <3>3. ASSUME NEW b \in Calls, NEW j \in DOMAIN s2c, s2c[j].call = b
          PROVE  \E i \in DOMAIN s2c' : s2c'[i].call = b
      <4>1. j \in DOMAIN s2c' /\ s2c'[j].call = b
        BY <1>0, <2>3, <3>3
      <4>2. QED
        BY <4>1
    <3>4. QED
      BY <3>1, <3>2, <3>3
  <2>6. Owed' = Owed
    BY <2>4, <2>5 DEF Owed, OnWire
  <2>7. QED
    BY <1>1, <2>6 DEF Service!vars
<1>3. CASE ServerSend
  <2>1. PICK type \in MsgTypes \ {"reply"} :
            s2c' = Append(s2c, [type |-> type, call |-> None]) /\ UNCHANGED c2s
    BY <1>3 DEF ServerSend
  <2>2. /\ DOMAIN s2c' = 1..(Len(s2c) + 1)
        /\ \A i \in 1..Len(s2c) : s2c'[i] = s2c[i]
        /\ s2c'[Len(s2c) + 1].call = None
    BY <1>0, <2>1
  <2>3. \A b \in Calls : (\E i \in DOMAIN s2c' : s2c'[i].call = b)
                            <=> \E i \in DOMAIN s2c : s2c[i].call = b
    <3>1. ASSUME NEW b \in Calls, NEW i \in DOMAIN s2c', s2c'[i].call = b
          PROVE  \E j \in DOMAIN s2c : s2c[j].call = b
      <4>1. i \in DOMAIN s2c /\ s2c[i].call = b
        BY <1>0, <2>2, <3>1
      <4>2. QED
        BY <4>1
    <3>2. ASSUME NEW b \in Calls, NEW j \in DOMAIN s2c, s2c[j].call = b
          PROVE  \E i \in DOMAIN s2c' : s2c'[i].call = b
      <4>1. j \in DOMAIN s2c' /\ s2c'[j].call = b
        BY <1>0, <2>2, <3>2
      <4>2. QED
        BY <4>1
    <3>3. QED
      BY <3>1, <3>2
  <2>4. Owed' = Owed
    BY <2>1, <2>3 DEF Owed, OnWire
  <2>5. QED
    BY <1>1, <2>4 DEF Service!vars
<1>4. CASE ServerClose
  <2>1. PICK n \in 0..Len(s2c) : s2c' = SubSeq(s2c, 1, n) /\ c2s' = << >>
    BY <1>4 DEF ServerClose
  <2>2. DOMAIN s2c' = 1..n /\ (\A i \in 1..n : i \in DOMAIN s2c /\ s2c'[i] = s2c[i])
    BY <1>0, <2>1
  <2>3. \A b \in Calls : OnWire(b)' => OnWire(b)
    BY <2>1, <2>2 DEF OnWire
  <2>4. Owed' \in SUBSET Owed
    BY <2>3 DEF Owed
  <2>5. QED
    BY <1>1, <2>4 DEF Service!Next, Service!Lose
<1>5. QED
  BY <1>2, <1>3, <1>4 DEF Server

\* A message leaves the wire: the calls owed an answer lose the one in it.
LEMMA TakenFromWire ==
    ASSUME TypeOK, CommandInv, s2c # << >>, s2c' = Tail(s2c), UNCHANGED c2s
    PROVE  Owed' = Owed \ {s2c[1].call}
<1> USE DEF TypeOK
<1>0. /\ Len(s2c) \in Nat /\ DOMAIN s2c = 1..Len(s2c) /\ 1 \in DOMAIN s2c
      /\ DOMAIN s2c' = 1..(Len(s2c) - 1)
      /\ \A i \in 1..(Len(s2c) - 1) : i + 1 \in DOMAIN s2c /\ s2c'[i] = s2c[i + 1]
  OBVIOUS
<1>1. ASSUME NEW b \in Calls, OnWire(b), b # s2c[1].call
      PROVE  OnWire(b)'
  <2>1. CASE \E i \in DOMAIN c2s : c2s[i] = b
    BY <2>1 DEF OnWire
  <2>2. CASE \E i \in DOMAIN s2c : s2c[i].call = b
    <3>1. PICK i \in DOMAIN s2c : s2c[i].call = b
      BY <2>2
    <3>2. i - 1 \in DOMAIN s2c' /\ s2c'[i - 1] = s2c[i]
      BY <1>0, <1>1, <3>1
    <3>3. QED
      BY <3>1, <3>2 DEF OnWire
  <2>3. QED
    BY <1>1, <2>1, <2>2 DEF OnWire
<1>2. ASSUME NEW b \in Calls, OnWire(b)'
      PROVE  OnWire(b) /\ b # s2c[1].call
  <2>0. None \notin Calls
    BY ConnectionAssumption DEF Tasks
  <2>1. CASE \E i \in DOMAIN c2s : c2s[i] = b
    BY <1>0, <2>1 DEF OnWire, CommandInv, WireInv
  <2>2. CASE \E i \in DOMAIN s2c' : s2c'[i].call = b
    <3>1. PICK i \in DOMAIN s2c' : s2c'[i].call = b
      BY <2>2
    <3>2. i + 1 \in DOMAIN s2c /\ s2c[i + 1].call = b /\ i + 1 # 1
      BY <1>0, <3>1
    <3>3. s2c[1].call # b
      BY <1>0, <2>0, <3>2 DEF CommandInv, WireInv
    <3>4. QED
      BY <3>2, <3>3 DEF OnWire
  <2>3. QED
    BY <1>2, <2>1, <2>2 DEF OnWire
<1>3. QED
  BY <1>1, <1>2 DEF Owed

\* The reader task: a reply is the Answer of the service, whatever else it
\* parses or meets leaves the service alone.
LEMMA ReaderMaps ==
    ASSUME TypeOK, CommandInv, Reader
    PROVE  Service!Next \/ UNCHANGED Service!vars
<1> USE DEF TypeOK
<1>0. None \notin Calls
  BY ConnectionAssumption DEF Tasks
<1>1. CASE ReadReply
  <2> DEFINE r == s2c[1].call
  <2>1. /\ s2c # << >> /\ 1 \in DOMAIN s2c /\ Head(s2c) = s2c[1] /\ r \in Calls
    BY <1>1, HeadReply DEF ReadReply, CommandInv
  <2>2. /\ pending' = None /\ s2c' = Tail(s2c) /\ UNCHANGED <<pc, outcome, c2s>>
        /\ rx' = IF pending # None /\ Alive(pending) THEN [rx EXCEPT ![pending] = r] ELSE rx
    BY <1>1, <2>1 DEF ReadReply, Incoming
  <2>3. Owed' = Owed \ {r}
    BY <2>1, <2>2, TakenFromWire
  <2>4. OnWire(r)
    BY <2>1 DEF OnWire
  <2> HIDE DEF r
  <2>5. r \in Owed
    BY <2>1, <2>4 DEF Owed
  <2>6. GaveUp \/ r = Listener
    <3> SUFFICES ASSUME ~GaveUp PROVE r = Listener
      OBVIOUS
    <3>1. ~Abandoned(r) /\ (\A c \in Calls : rx[c] \in {None, c})
      BY <2>1 DEF GaveUp, CommandInv, DeliveryInv, OwnReplyUnlessAbandoned
    <3>2. (pc[r] = "waiting" \/ rx[r] # None) /\ rx[r] # r
      BY <2>1, <2>4, <3>1 DEF CommandInv, WireInv
    <3>3. pc[r] = "waiting" /\ rx[r] = None
      BY <2>1, <3>1, <3>2
    <3>4. QED
      BY <1>0, <2>1, <3>3 DEF CommandInv, SlotInv, WaitingIsRegistered, Alive, Listener
  <2>7. rx' = IF Listener = None THEN rx ELSE [rx EXCEPT ![Listener] = r]
    BY <2>2, ListenerIsCall
  <2>8. Listener' = None
    BY <2>2 DEF Listener
  <2>9. GaveUp' = GaveUp
    BY <2>2 DEF GaveUp, Abandoned
  <2>10. QED
    BY <2>1, <2>3, <2>5, <2>6, <2>7, <2>8, <2>9 DEF Service!Next, Service!Answer
<1>2. CASE ReadEvent \/ ReadNotice \/ ReadIgnored \/ ReadMalformed
  <2>1. PICK type \in MsgTypes \ {"reply"} : Incoming(type) /\ UNCHANGED <<clientVars, c2s>>
    BY <1>2 DEF ReadEvent, ReadNotice, ReadIgnored, ReadMalformed, MsgTypes
  <2>2. s2c # << >> /\ s2c' = Tail(s2c) /\ s2c[1].type # "reply" /\ 1 \in DOMAIN s2c
    BY <2>1 DEF Incoming
  <2>3. s2c[1].call = None
    BY <2>2 DEF CommandInv, WireInv
  <2>4. Owed' = Owed
    BY <1>0, <2>1, <2>2, <2>3, TakenFromWire DEF Owed
  <2>5. Listener' = Listener /\ GaveUp' = GaveUp /\ UNCHANGED rx
    BY <2>1, WireOnly
  <2>6. QED
    BY <2>4, <2>5 DEF Service!vars
<1>3. CASE ReadEof \/ ReadError \/ LivenessExpire \/ ReaderReturn
  <2>1. UNCHANGED clientVars /\ UNCHANGED <<c2s, s2c>>
    BY <1>3 DEF ReadEof, ReadError, LivenessExpire, ReaderReturn, wireVars
  <2>2. Listener' = Listener /\ GaveUp' = GaveUp /\ UNCHANGED rx /\ Owed' = Owed
    BY <2>1, WireOnly, OwedSame
  <2>3. QED
    BY <2>2 DEF Service!vars
<1>4. QED
  BY <1>1, <1>2, <1>3 DEF Reader, ReaderInput

-----------------------------------------------------------------------------

\* The command channel keeps the promise of CommandService, however many tasks
\* call, time out, are dropped or disconnect.
THEOREM ChannelImplementsService == Spec => ImplementsService
<1>1. TypeOK /\ CommandInv /\ [Next]_vars => [Service!Next]_(Service!vars)
  <2> SUFFICES ASSUME TypeOK, CommandInv, [Next]_vars
               PROVE  Service!Next \/ UNCHANGED Service!vars
    OBVIOUS
  <2>1. CASE UNCHANGED vars
    <3>1. UNCHANGED clientVars /\ UNCHANGED <<c2s, s2c>>
      BY <2>1 DEF vars, wireVars
    <3>2. QED
      BY <3>1, WireOnly, OwedSame DEF Service!vars
  <2>2. CASE Next
    BY <2>2, CallMaps, ApplicationMaps, ServerMaps, ReaderMaps DEF Next, ClientStep
  <2>3. QED
    BY <2>1, <2>2
<1>2. QED
  BY <1>1, ServiceInit, CommandChannelInvariant, PTL DEF Spec, ImplementsService, Service!Spec

=============================================================================
