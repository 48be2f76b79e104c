----------------------------- MODULE EventQueue -----------------------------
(***************************************************************************)
(* The bounded event channel between the reader task and EslEventStream:   *)
(* dispatch_event, recv and the drop notification (src/src/connection.rs). *)
(*                                                                         *)
(* The reader task never waits for the application.  An item that finds    *)
(* the channel full is dropped and counted, and a flag is left behind; the *)
(* next dispatch first tries to put a QueueFull error into the channel.    *)
(* dispatch_event makes two try_send calls and the application may receive *)
(* between them, so a dispatch is two steps.                               *)
(*                                                                         *)
(* The channel is kept as everything it ever accepted and how many of      *)
(* those the application has received; what lies between is the queue.     *)
(***************************************************************************)
EXTENDS Naturals, Sequences, FiniteSets

CONSTANTS
    QueueSize, \* EslConnectOptions.event_queue_size
    MaxEvents  \* bound: the items the reader task dispatches

ASSUME QueueAssumption == QueueSize \in Nat /\ MaxEvents \in Nat

\* split_and_spawn_with_options: a capacity of zero would make mpsc panic.
Capacity == IF QueueSize < 1 THEN 1 ELSE QueueSize

VARIABLES
    accepted,   \* the items try_send has taken, in order
    received,   \* how many of them recv has returned
    overflow,   \* SharedState.event_overflow
    dropped,    \* SharedState.dropped_event_count
    dispatched, \* the items dispatch_event has been called with
    dispatch,   \* where dispatch_event is: "none", "notify", "item"
    reader,     \* the reader task holds event_tx
    streamOpen, \* the application holds the EslEventStream
    ended       \* recv has returned None

vars == <<accepted, received, overflow, dropped, dispatched, dispatch, reader,
          streamOpen, ended>>

\* An event (or parse error) by its number, or a QueueFull error with the
\* value of dropped_event_count when it was sent.
Item == [kind : {"event", "full"}, n : Nat]

Queued == Len(accepted) - received

TypeOK ==
    /\ accepted \in Seq(Item)
    /\ received \in Nat /\ received <= Len(accepted)
    /\ Queued <= Capacity
    /\ overflow \in BOOLEAN
    /\ dropped \in Nat
    /\ dispatched \in Nat
    /\ dispatch \in {"none", "notify", "item"}
    /\ reader \in BOOLEAN
    /\ streamOpen \in BOOLEAN
    /\ ended \in BOOLEAN

Init ==
    /\ accepted = << >>
    /\ received = 0
    /\ overflow = FALSE
    /\ dropped = 0
    /\ dispatched = 0
    /\ dispatch = "none"
    /\ reader = TRUE
    /\ streamOpen = TRUE
    /\ ended = FALSE

-----------------------------------------------------------------------------

HasRoom == Queued < Capacity

\* The reader task parsed an event: dispatch_event looks at the flag.
Dispatch ==
    /\ reader
    /\ dispatch = "none"
    /\ dispatched < MaxEvents
    /\ dispatched' = dispatched + 1
    /\ dispatch' = IF overflow THEN "notify" ELSE "item"
    /\ UNCHANGED <<accepted, received, overflow, dropped, reader, streamOpen, ended>>

\* The receiver is gone: dispatch_event is false and the reader task returns.
Closed ==
    /\ ~streamOpen
    /\ dispatch' = "none"
    /\ reader' = FALSE
    /\ UNCHANGED <<accepted, received, overflow, dropped, dispatched, streamOpen, ended>>

\* Mutant of NotifyOk: the flag stays up after the notification is sent.
NotifyOkKeepsFlag ==
    /\ streamOpen /\ HasRoom
    /\ accepted' = Append(accepted, [kind |-> "full", n |-> dropped])
    /\ dispatch' = "item"
    /\ UNCHANGED <<received, overflow, dropped, dispatched, reader, streamOpen, ended>>

\* The first try_send: QueueFull goes in and the flag goes down.
NotifyOk ==
    /\ streamOpen /\ HasRoom
    /\ accepted' = Append(accepted, [kind |-> "full", n |-> dropped])
    /\ overflow' = FALSE
    /\ dispatch' = "item"
    /\ UNCHANGED <<received, dropped, dispatched, reader, streamOpen, ended>>

\* Mutant of NotifyFull: the flag goes down whether or not there was room.
NotifyFullClearsFlag ==
    /\ streamOpen /\ ~HasRoom
    /\ overflow' = FALSE
    /\ dispatch' = "item"
    /\ UNCHANGED <<accepted, received, dropped, dispatched, reader, streamOpen, ended>>

\* The first try_send finds no room: the flag stays for the next dispatch.
NotifyFull ==
    /\ streamOpen /\ ~HasRoom
    /\ dispatch' = "item"
    /\ UNCHANGED <<accepted, received, overflow, dropped, dispatched, reader,
                   streamOpen, ended>>

Notify == dispatch = "notify" /\ (NotifyOk \/ NotifyFull \/ Closed)

\* Mutant of ItemOk: the second try_send does not look for room.
ItemOkUnbounded ==
    /\ streamOpen
    /\ accepted' = Append(accepted, [kind |-> "event", n |-> dispatched])
    /\ dispatch' = "none"
    /\ UNCHANGED <<received, overflow, dropped, dispatched, reader, streamOpen, ended>>

\* The second try_send: the item itself.
ItemOk ==
    /\ streamOpen /\ HasRoom
    /\ accepted' = Append(accepted, [kind |-> "event", n |-> dispatched])
    /\ dispatch' = "none"
    /\ UNCHANGED <<received, overflow, dropped, dispatched, reader, streamOpen, ended>>

\* Mutant of ItemFull: drops after the first of an episode are not counted.
ItemFullCountsEpisodes ==
    /\ streamOpen /\ ~HasRoom
    /\ overflow' = TRUE
    /\ dropped' = IF overflow THEN dropped ELSE dropped + 1
    /\ dispatch' = "none"
    /\ UNCHANGED <<accepted, received, dispatched, reader, streamOpen, ended>>

\* The second try_send finds no room: the item is lost, flagged and counted.
ItemFull ==
    /\ streamOpen /\ ~HasRoom
    /\ overflow' = TRUE
    /\ dropped' = dropped + 1
    /\ dispatch' = "none"
    /\ UNCHANGED <<accepted, received, dispatched, reader, streamOpen, ended>>

SendItem == dispatch = "item" /\ (ItemOk \/ ItemFull \/ Closed)

\* The reader task ends for a reason of its own; event_tx is dropped.
ReaderReturn ==
    /\ reader
    /\ dispatch = "none"
    /\ reader' = FALSE
    /\ UNCHANGED <<accepted, received, overflow, dropped, dispatched, dispatch,
                   streamOpen, ended>>

\* recv() or poll_next() returns the oldest item.
RecvItem ==
    /\ streamOpen
    /\ Queued > 0
    /\ received' = received + 1
    /\ UNCHANGED <<accepted, overflow, dropped, dispatched, dispatch, reader,
                   streamOpen, ended>>

\* Mutant of RecvEnd: the end of the stream overtakes what is queued.
RecvEndEarly ==
    /\ streamOpen
    /\ ~reader /\ ~ended
    /\ ended' = TRUE
    /\ UNCHANGED <<accepted, received, overflow, dropped, dispatched, dispatch,
                   reader, streamOpen>>

\* Mutant of RecvEnd: a pending drop notification holds back the end.
RecvEndAfterNotice ==
    /\ streamOpen
    /\ ~reader /\ ~ended
    /\ Queued = 0 /\ ~overflow
    /\ ended' = TRUE
    /\ UNCHANGED <<accepted, received, overflow, dropped, dispatched, dispatch,
                   reader, streamOpen>>

\* recv() returns None: the sender is gone and everything has been received.
RecvEnd ==
    /\ streamOpen
    /\ ~reader /\ ~ended
    /\ Queued = 0
    /\ ended' = TRUE
    /\ UNCHANGED <<accepted, received, overflow, dropped, dispatched, dispatch,
                   reader, streamOpen>>

Recv == RecvItem \/ RecvEnd

\* The application drops the stream; what is queued goes with it.
DropStream ==
    /\ streamOpen
    /\ streamOpen' = FALSE
    /\ UNCHANGED <<accepted, received, overflow, dropped, dispatched, dispatch,
                   reader, ended>>

Next == Dispatch \/ Notify \/ SendItem \/ ReaderReturn \/ Recv \/ DropStream

Spec == Init /\ [][Next]_vars

\* The reader task finishes a dispatch it has begun, and the application keeps
\* receiving.  Nobody promises a further event.
FairSpec == Spec /\ WF_vars(Notify \/ SendItem) /\ WF_vars(Recv)

-----------------------------------------------------------------------------
(***************************************************************************)
(* Properties.                                                             *)
(***************************************************************************)

Positions(kind) == {i \in DOMAIN accepted : accepted[i].kind = kind}

\* dropped_event_count is exact: every item dispatched to a live stream was
\* accepted, was counted as dropped, or is being dispatched.
EveryLossIsCounted ==
    streamOpen =>
        dispatched = Cardinality(Positions("event")) + dropped
                       + (IF dispatch = "none" THEN 0 ELSE 1)

\* How many drops the application has been or will be told of.
Announced(d) == d = 0 \/ \E i \in Positions("full") : accepted[i].n = d

\* A drop is never forgotten: either a QueueFull sent after it is in the
\* channel, or the flag asks for one.  And the flag never cries wolf.
LossIsRemembered == overflow <=> ~Announced(dropped)

\* Each QueueFull tells of at least one drop the one before it did not.
NotificationsAreNews ==
    /\ \A i \in Positions("full") : accepted[i].n > 0
    /\ \A i, j \in Positions("full") : i < j => accepted[i].n < accepted[j].n

\* recv() returns None only after the application has every accepted item.
NothingLeftBehind == ended => received = Len(accepted)

\* Once the reader task has ended, a receiving application reaches None.
StreamEnds == ~reader ~> ended \/ ~streamOpen

(***************************************************************************)
(* What the repository says of the queue and the code does not do.         *)
(***************************************************************************)

\* QueueFull is a one-time notification per overflow episode: what recv()
\* returns next is a real event.
QueueFullThenEvents ==
    \A i \in 1..(received - 1) :
        ~(accepted[i].kind = "full" /\ accepted[i + 1].kind = "full")

\* recv() returns QueueFull if events were dropped.
LossIsReported == dropped > 0 ~> ~streamOpen \/ \E i \in 1..received : accepted[i].kind = "full"

=============================================================================
