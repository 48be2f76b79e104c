-------------------------- MODULE EventQueueProofs --------------------------
(***************************************************************************)
(* Proofs about the event channel of EventQueue, for every queue size and  *)
(* every number of events.                                                 *)
(***************************************************************************)
EXTENDS EventQueue, FiniteSetTheorems, TLAPS

(***************************************************************************)
(* What the properties need to be inductive: a notification is only ever   *)
(* attempted with the flag up, no QueueFull counts drops that have not     *)
(* happened, and a channel whose sender is gone accepts nothing.           *)
(***************************************************************************)
QueueInv ==
    /\ dispatch = "notify" => overflow
    /\ dispatch # "none" => reader
    /\ \A i \in Positions("full") : accepted[i].n <= dropped
    /\ LossIsRemembered
    /\ NotificationsAreNews
    /\ ended => ~reader
    /\ NothingLeftBehind

-----------------------------------------------------------------------------
(* The channel's history, when try_send adds to it.                        *)

\* One more item: those before it keep their places.
LEMMA AppendPositions ==
    ASSUME TypeOK, NEW x \in Item, accepted' = Append(accepted, x), NEW kind
    PROVE  /\ Positions(kind)' = IF x.kind = kind
                                   THEN Positions(kind) \cup {Len(accepted) + 1}
                                   ELSE Positions(kind)
           /\ \A i \in Positions(kind) : accepted'[i] = accepted[i]
           /\ accepted'[Len(accepted) + 1] = x
           /\ Len(accepted) + 1 \notin Positions(kind)
           /\ \A i \in Positions(kind) : i \in Nat /\ i < Len(accepted) + 1
<1>1. accepted \in Seq(Item) /\ Len(accepted) \in Nat
  BY DEF TypeOK
<1>2. /\ DOMAIN accepted = 1..Len(accepted)
      /\ DOMAIN accepted' = 1..(Len(accepted) + 1)
      /\ \A i \in 1..Len(accepted) : accepted'[i] = accepted[i]
      /\ accepted'[Len(accepted) + 1] = x
  BY <1>1
<1>3. QED
  BY <1>1, <1>2 DEF Positions

\* The positions of a kind are finitely many.
LEMMA PositionsFinite ==
    ASSUME TypeOK, NEW kind
    PROVE  IsFiniteSet(Positions(kind)) /\ Cardinality(Positions(kind)) \in Nat
<1>1. DOMAIN accepted = 1..Len(accepted) /\ Len(accepted) \in Nat
  BY DEF TypeOK
<1>2. IsFiniteSet(1..Len(accepted))
  BY <1>1, FS_Interval
<1>3. Positions(kind) \subseteq 1..Len(accepted)
  BY <1>1 DEF Positions
<1>4. QED
  BY <1>2, <1>3, FS_Subset, FS_CardinalityType

-----------------------------------------------------------------------------
(* Type correctness.                                                       *)

\* A new connection has an empty, well-typed queue.
LEMMA InitType == Init => TypeOK
<1> SUFFICES ASSUME Init PROVE TypeOK
  OBVIOUS
<1>1. Capacity \in Nat /\ << >> \in Seq(Item) /\ Len(<< >>) = 0
  BY QueueAssumption DEF Capacity
<1>2. accepted \in Seq(Item) /\ received = 0 /\ Len(accepted) = 0
  BY <1>1 DEF Init
<1>3. Queued <= Capacity /\ received <= Len(accepted) /\ received \in Nat
  BY <1>1, <1>2 DEF Queued
<1>4. /\ overflow \in BOOLEAN /\ reader \in BOOLEAN /\ streamOpen \in BOOLEAN
      /\ ended \in BOOLEAN /\ dropped \in Nat /\ dispatched \in Nat
      /\ dispatch \in {"none", "notify", "item"}
  BY DEF Init
<1>5. QED
  BY <1>2, <1>3, <1>4 DEF TypeOK

\* Every step keeps the types, and the queue within its capacity.
LEMMA TypeStep == TypeOK /\ [Next]_vars => TypeOK'
<1> SUFFICES ASSUME TypeOK, [Next]_vars
             PROVE  TypeOK'
  OBVIOUS
<1> USE DEF TypeOK, Queued
<1>0. Capacity \in Nat /\ Len(accepted) \in Nat /\ MaxEvents \in Nat
  BY QueueAssumption DEF Capacity
<1>1. CASE Dispatch
  BY <1>0, <1>1 DEF Dispatch
<1>2. CASE Closed
  BY <1>0, <1>2 DEF Closed
<1>3. CASE NotifyOk
  <2>1. [kind |-> "full", n |-> dropped] \in Item
    BY DEF Item
  <2>2. accepted' \in Seq(Item) /\ Len(accepted') = Len(accepted) + 1
    BY <1>3, <2>1 DEF NotifyOk
  <2>3. /\ Len(accepted) - received < Capacity
        /\ UNCHANGED <<received, dropped, dispatched, reader, streamOpen, ended>>
        /\ overflow' = FALSE /\ dispatch' = "item"
    BY <1>3 DEF NotifyOk, HasRoom
  <2>4. Len(accepted') - received' <= Capacity /\ received' <= Len(accepted')
    BY <1>0, <2>2, <2>3
  <2>5. QED
    BY <2>2, <2>3, <2>4
<1>4. CASE NotifyFull
  BY <1>0, <1>4 DEF NotifyFull
<1>5. CASE ItemOk
  <2>1. [kind |-> "event", n |-> dispatched] \in Item
    BY DEF Item
  <2>2. accepted' \in Seq(Item) /\ Len(accepted') = Len(accepted) + 1
    BY <1>5, <2>1 DEF ItemOk
  <2>3. QED
    BY <1>0, <1>5, <2>2 DEF ItemOk, HasRoom
<1>6. CASE ItemFull
  BY <1>0, <1>6 DEF ItemFull
<1>7. CASE ReaderReturn
  BY <1>0, <1>7 DEF ReaderReturn
<1>8. CASE Recv
  <2>1. CASE RecvItem
    <3>1. received' = received + 1 /\ received' \in Nat /\ received' <= Len(accepted)
      BY <1>0, <2>1 DEF RecvItem
    <3>2. Len(accepted) - received' <= Capacity
      BY <1>0, <3>1
    <3>3. QED
      BY <2>1, <3>1, <3>2 DEF RecvItem
  <2>2. CASE RecvEnd
    BY <2>2 DEF RecvEnd
  <2>3. QED
    BY <1>8, <2>1, <2>2 DEF Recv
<1>9. CASE DropStream
  BY <1>0, <1>9 DEF DropStream
<1>10. CASE UNCHANGED vars
  BY <1>0, <1>10 DEF vars
<1>11. QED
  BY <1>1, <1>2, <1>3, <1>4, <1>5, <1>6, <1>7, <1>8, <1>9, <1>10
     DEF Next, Notify, SendItem

\* The queue never holds more than its capacity, and every variable keeps to
\* its type.
THEOREM TypeCorrect == Spec => []TypeOK
  BY InitType, TypeStep, PTL DEF Spec

-----------------------------------------------------------------------------
(* The overflow flag, the notifications and the end of the stream.         *)

\* Nothing was dropped, so nothing is to be told.
LEMMA InitQueueInv == Init => QueueInv
  BY DEF Init, QueueInv, LossIsRemembered, NotificationsAreNews, NothingLeftBehind,
         Announced, Positions

\* Every step keeps the flag, the counter and the notifications in agreement.
LEMMA QueueStep == TypeOK /\ QueueInv /\ [Next]_vars => QueueInv'
<1> SUFFICES ASSUME TypeOK, QueueInv, [Next]_vars
             PROVE  QueueInv'
  OBVIOUS
<1> USE DEF QueueInv, LossIsRemembered, NotificationsAreNews, NothingLeftBehind
<1>0. /\ dropped \in Nat /\ dispatched \in Nat /\ received \in Nat /\ Len(accepted) \in Nat
      /\ \A i \in Positions("full") : i \in Nat /\ accepted[i].n \in Nat
  <2>1. /\ dropped \in Nat /\ dispatched \in Nat /\ received \in Nat
        /\ accepted \in Seq(Item) /\ Len(accepted) \in Nat
    BY DEF TypeOK
  <2>2. \A i \in DOMAIN accepted : i \in Nat /\ accepted[i] \in Item
    BY <2>1
  <2>3. QED
    BY <2>1, <2>2 DEF Positions, Item
<1>1. CASE Dispatch
  BY <1>1 DEF Dispatch, Announced, Positions
<1>2. CASE Closed
  BY <1>2 DEF Closed, Announced, Positions
<1>3. CASE dispatch = "notify" /\ NotifyOk
  <2> DEFINE x == [kind |-> "full", n |-> dropped]
             last == Len(accepted) + 1
  <2>1. x \in Item /\ x.kind = "full" /\ x.n = dropped /\ accepted' = Append(accepted, x)
    BY <1>0, <1>3 DEF Item, NotifyOk
  <2> HIDE DEF x
  <2>2. /\ Positions("full")' = Positions("full") \cup {last}
        /\ \A i \in Positions("full") : accepted'[i] = accepted[i] /\ i < last
        /\ accepted'[last] = x
    BY <2>1, AppendPositions
  <2>3. /\ dropped > 0
        /\ \A i \in Positions("full") : accepted[i].n < dropped
    BY <1>0, <1>3 DEF Announced
  <2>4. NotificationsAreNews'
    <3>1. \A i \in Positions("full")' : accepted'[i].n > 0
      BY <2>1, <2>2, <2>3
    <3>2. ASSUME NEW i \in Positions("full")', NEW j \in Positions("full")', i < j
          PROVE  accepted'[i].n < accepted'[j].n
      <4>1. last \in Nat /\ i \in Positions("full")
        BY <1>0, <2>2, <3>2
      <4>2. QED
        BY <2>1, <2>2, <2>3, <3>2, <4>1
    <3>3. QED
      BY <3>1, <3>2
  <2>5. LossIsRemembered'
    BY <1>3, <2>1, <2>2 DEF Announced, NotifyOk
  <2>6. \A i \in Positions("full")' : accepted'[i].n <= dropped'
    <3>1. dropped' = dropped /\ dropped <= dropped
      BY <1>0, <1>3 DEF NotifyOk
    <3>2. \A i \in Positions("full") : accepted'[i].n <= dropped
      BY <2>2
    <3>3. accepted'[last].n <= dropped
      BY <2>1, <2>2, <3>1
    <3>4. QED
      BY <2>2, <3>1, <3>2, <3>3
  <2>7. QED
    BY <1>3, <2>4, <2>5, <2>6 DEF NotifyOk
<1>4. CASE dispatch = "notify" /\ NotifyFull
  BY <1>4 DEF NotifyFull, Announced, Positions
<1>5. CASE dispatch = "item" /\ ItemOk
  <2> DEFINE x == [kind |-> "event", n |-> dispatched]
  <2>1. x \in Item /\ x.kind # "full" /\ accepted' = Append(accepted, x)
    BY <1>0, <1>5 DEF Item, ItemOk
  <2> HIDE DEF x
  <2>2. /\ Positions("full")' = Positions("full")
        /\ \A i \in Positions("full") : accepted'[i] = accepted[i]
    BY <2>1, AppendPositions
  <2>3. NotificationsAreNews' /\ LossIsRemembered'
    BY <1>5, <2>2 DEF ItemOk, Announced
  <2>4. QED
    BY <1>5, <2>2, <2>3 DEF ItemOk
<1>6. CASE ItemFull
  <2>1. /\ dropped' = dropped + 1 /\ overflow' /\ UNCHANGED accepted
        /\ dispatch' = "none" /\ UNCHANGED <<received, reader, ended>>
    BY <1>6 DEF ItemFull
  <2>2. Positions("full")' = Positions("full")
    BY <2>1 DEF Positions
  <2>3. ~Announced(dropped)'
    BY <1>0, <2>1, <2>2 DEF Announced
  <2>4. QED
    BY <1>0, <2>1, <2>2, <2>3
<1>7. CASE ReaderReturn
  BY <1>7 DEF ReaderReturn, Announced, Positions
<1>8. CASE RecvItem
  BY <1>0, <1>8 DEF RecvItem, Announced, Positions, Queued
<1>9. CASE RecvEnd
  BY <1>0, <1>9 DEF RecvEnd, Announced, Positions, Queued, TypeOK
<1>10. CASE DropStream
  BY <1>10 DEF DropStream, Announced, Positions
<1>11. CASE UNCHANGED vars
  BY <1>11 DEF vars, Announced, Positions
<1>12. QED
  BY <1>1, <1>2, <1>3, <1>4, <1>5, <1>6, <1>7, <1>8, <1>9, <1>10, <1>11
     DEF Next, Notify, SendItem, Recv

\* The invariant of the flag, the notifications and the end.
LEMMA QueueInvariant == Spec => []QueueInv
  BY InitType, TypeStep, InitQueueInv, QueueStep, PTL DEF Spec

\* dispatch_event never forgets a drop: until a QueueFull that covers it is in
\* the channel, the flag asks for one, whatever the two try_send calls find.
THEOREM DropsAreRemembered == Spec => []LossIsRemembered
<1>1. QueueInv => LossIsRemembered
  BY DEF QueueInv
<1>2. QED
  BY <1>1, QueueInvariant, PTL

\* No QueueFull repeats what the one before it said.
THEOREM EveryNoticeIsNews == Spec => []NotificationsAreNews
<1>1. QueueInv => NotificationsAreNews
  BY DEF QueueInv
<1>2. QED
  BY <1>1, QueueInvariant, PTL

\* None comes after the last item the channel accepted.
THEOREM EndComesLast == Spec => []NothingLeftBehind
<1>1. QueueInv => NothingLeftBehind
  BY DEF QueueInv
<1>2. QED
  BY <1>1, QueueInvariant, PTL

-----------------------------------------------------------------------------
(* The counter.                                                            *)

\* Every step accounts for the item it dispatches, delivers or drops.
LEMMA CounterStep == TypeOK /\ EveryLossIsCounted /\ [Next]_vars => EveryLossIsCounted'
<1> SUFFICES ASSUME TypeOK, EveryLossIsCounted, [Next]_vars, streamOpen'
             PROVE  EveryLossIsCounted'
  BY DEF EveryLossIsCounted
<1> DEFINE Events == Positions("event")
           InHand == IF dispatch = "none" THEN 0 ELSE 1
<1>0. /\ dropped \in Nat /\ dispatched \in Nat /\ Len(accepted) \in Nat
      /\ IsFiniteSet(Events) /\ Cardinality(Events) \in Nat
  BY PositionsFinite DEF TypeOK
<1>1. streamOpen
  BY DEF Next, Dispatch, Notify, NotifyOk, NotifyFull, Closed, SendItem, ItemOk, ItemFull,
         ReaderReturn, Recv, RecvItem, RecvEnd, DropStream, vars
<1>2. dispatched = Cardinality(Events) + dropped + InHand
  BY <1>1 DEF EveryLossIsCounted
<1>3. CASE Dispatch
  <2>1. Events' = Events
    BY <1>3 DEF Dispatch, Positions
  <2> HIDE DEF Events
  <2>2. /\ dispatch = "none" /\ dispatch' \in {"notify", "item"}
        /\ dispatched' = dispatched + 1 /\ dropped' = dropped
    BY <1>3 DEF Dispatch
  <2>3. dispatched' = Cardinality(Events)' + dropped' + InHand'
    BY <1>0, <1>2, <2>1, <2>2
  <2>4. QED
    BY <2>3 DEF EveryLossIsCounted, Events
<1>4. CASE dispatch = "notify" /\ NotifyOk
  <2>1. [kind |-> "full", n |-> dropped] \in Item
    BY <1>0 DEF Item
  <2>2. Events' = Events
    BY <1>4, <2>1, AppendPositions DEF NotifyOk
  <2>3. QED
    BY <1>2, <1>4, <2>2 DEF NotifyOk, EveryLossIsCounted
<1>5. CASE dispatch = "notify" /\ NotifyFull
  BY <1>2, <1>5 DEF NotifyFull, Positions, EveryLossIsCounted
<1>6. CASE dispatch = "item" /\ ItemOk
  <2>1. [kind |-> "event", n |-> dispatched] \in Item
    BY <1>0 DEF Item
  <2>2. Events' = Events \cup {Len(accepted) + 1} /\ Len(accepted) + 1 \notin Events
    BY <1>6, <2>1, AppendPositions DEF ItemOk
  <2>3. Cardinality(Events') = Cardinality(Events) + 1
    BY <1>0, <2>2, FS_AddElement
  <2> HIDE DEF Events
  <2>4. dispatched' = Cardinality(Events)' + dropped' + InHand'
    BY <1>0, <1>2, <1>6, <2>3 DEF ItemOk
  <2>5. QED
    BY <2>4 DEF EveryLossIsCounted, Events
<1>7. CASE dispatch = "item" /\ ItemFull
  <2>1. Events' = Events
    BY <1>7 DEF ItemFull, Positions
  <2> HIDE DEF Events
  <2>2. dispatched' = Cardinality(Events)' + dropped' + InHand'
    BY <1>0, <1>2, <1>7, <2>1 DEF ItemFull
  <2>3. QED
    BY <2>2 DEF EveryLossIsCounted, Events
<1>8. CASE UNCHANGED <<accepted, dropped, dispatched, dispatch>>
  BY <1>2, <1>8 DEF Positions, EveryLossIsCounted
<1>9. QED
  BY <1>1, <1>3, <1>4, <1>5, <1>6, <1>7, <1>8
     DEF Next, Notify, SendItem, Closed, ReaderReturn, Recv, RecvItem, RecvEnd, DropStream, vars

\* dropped_event_count is exact for every queue size: what was dispatched was
\* delivered, counted as dropped, or is in hand.
THEOREM CounterIsExact == Spec => []EveryLossIsCounted
<1>1. Init => EveryLossIsCounted
  <2>1. ASSUME Init PROVE Positions("event") = {}
    BY <2>1 DEF Init, Positions
  <2>2. Cardinality({}) = 0
    BY FS_EmptySet
  <2>3. ASSUME Init
        PROVE  dispatched = 0 /\ dropped = 0 /\ dispatch = "none"
    BY <2>3 DEF Init
  <2>4. QED
    BY <2>1, <2>2, <2>3 DEF EveryLossIsCounted
<1>2. QED
  BY <1>1, InitType, TypeStep, CounterStep, PTL DEF Spec

=============================================================================
