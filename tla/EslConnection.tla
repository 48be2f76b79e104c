--------------------------- MODULE EslConnection ---------------------------
(***************************************************************************)
(* The command channel of EslClient and the reader task                    *)
(* (src/src/connection.rs).                                                *)
(*                                                                         *)
(* Every clone of EslClient sends commands through one writer mutex, which *)
(* a call keeps from before it writes until it has its reply.  A call      *)
(* leaves the sending half of a oneshot channel in the single slot         *)
(* `pending_reply`; the background reader task takes whatever sender the   *)
(* slot holds when a reply arrives and sends the reply there.  Nothing in  *)
(* the protocol names the command a reply belongs to: calls and replies    *)
(* are matched by position alone.                                          *)
(*                                                                         *)
(* A call is a future: its caller may drop it at any of its awaits.  The   *)
(* server is external: it answers the commands it has read in order, once  *)
(* each, and may send anything else, stall or go away at any moment.       *)
(***************************************************************************)
EXTENDS Naturals, Sequences, SequencesExt

CONSTANTS
    Calls,       \* invocations of send_command, each by a task of its own
    Closers,     \* invocations of EslClient::disconnect
    Cancellable, \* the invocations whose future may be dropped
    None,        \* no call: an empty slot, an empty oneshot channel
    SendBuf,     \* commands the transport holds unread before a write blocks
    WireCap      \* messages the server may have on the wire to the client

Tasks == Calls \cup Closers

ASSUME ConnectionAssumption ==
    /\ Calls \cap Closers = {}
    /\ Cancellable \subseteq Tasks
    /\ None \notin Tasks
    /\ SendBuf \in Nat \ {0}
    /\ WireCap \in Nat \ {0}

VARIABLES
    pc,         \* where the code of each invocation is
    outcome,    \* what each invocation returned
    rx,         \* the reply in each call's oneshot channel, as the call it answers
    writer,     \* the writer mutex: its holder and, behind it, the waiters, FIFO
    pending,    \* SharedState.pending_reply: the call whose sender is in the slot
    writeOpen,  \* the write half has not been shut down
    torn,       \* the last bytes sent are a command without its end
    garbled,    \* the calls whose command followed such bytes
    c2s,        \* commands the server has not read, oldest first
    s2c,        \* messages the reader task has not parsed, oldest first
    serverUp,   \* the server keeps its end of the connection open
    reader,     \* the reader task
    status,     \* the ConnectionStatus of the watch channel
    streamOpen  \* the application holds the EslEventStream

clientVars == <<pc, outcome, rx, writer, pending, writeOpen, torn, garbled>>
wireVars == <<c2s, s2c, serverUp>>
readerVars == <<reader, status, streamOpen>>
vars == <<clientVars, wireVars, readerVars>>

PcValues == {"idle", "queued", "armed", "writing", "waiting", "expired", "done"}

Outcomes == {"none", "Ok", "NotConnected", "ProtocolError", "Io", "Timeout",
             "Cancelled"}

StatusValues == {"Connected", "ServerNotice", "HeartbeatExpired", "IoError",
                 "ConnectionClosed", "ClientRequested"}

MsgTypes == {"reply", "event", "notice", "linger", "ignored", "malformed"}

Message == [type : MsgTypes, call : Calls \cup {None}]

TypeOK ==
    /\ pc \in [Tasks -> PcValues]
    /\ outcome \in [Tasks -> Outcomes]
    /\ rx \in [Calls -> Calls \cup {None}]
    /\ writer \in Seq(Tasks)
    /\ pending \in Calls \cup {None}
    /\ writeOpen \in BOOLEAN
    /\ torn \in BOOLEAN
    /\ garbled \in SUBSET Calls
    /\ c2s \in Seq(Calls) /\ Len(c2s) <= SendBuf
    /\ s2c \in Seq(Message) /\ Len(s2c) <= WireCap
    /\ serverUp \in BOOLEAN
    /\ reader \in {"running", "exiting", "exited"}
    /\ status \in StatusValues
    /\ streamOpen \in BOOLEAN

Init ==
    /\ pc = [t \in Tasks |-> "idle"]
    /\ outcome = [t \in Tasks |-> "none"]
    /\ rx = [c \in Calls |-> None]
    /\ writer = << >>
    /\ pending = None
    /\ writeOpen = TRUE
    /\ torn = FALSE
    /\ garbled = {}
    /\ c2s = << >>
    /\ s2c = << >>
    /\ serverUp = TRUE
    /\ reader = "running"
    /\ status = "Connected"
    /\ streamOpen = TRUE

-----------------------------------------------------------------------------
(***************************************************************************)
(* send_command.  Between two awaits its code runs without interference    *)
(* from other steps of the same call, and what it shares with other tasks  *)
(* it touches once, so each stretch between awaits is one action.          *)
(***************************************************************************)

Holds(t) == writer # << >> /\ Head(writer) = t

\* The receiving half of c's oneshot channel exists.
Alive(c) == pc[c] \in {"armed", "writing", "waiting"}

Return(t, result) ==
    /\ pc' = [pc EXCEPT ![t] = "done"]
    /\ outcome' = [outcome EXCEPT ![t] = result]

GoTo(t, label) ==
    /\ pc' = [pc EXCEPT ![t] = label]
    /\ UNCHANGED outcome

\* is_connected() says no: the call ends before it touches anything shared.
CallRefused(c) ==
    /\ pc[c] = "idle"
    /\ status # "Connected"
    /\ Return(c, "NotConnected")
    /\ UNCHANGED <<rx, writer, pending, writeOpen, torn, garbled, wireVars, readerVars>>

\* to_wire_format() rejects a field with a newline, before the lock.
CallMalformed(c) ==
    /\ pc[c] = "idle"
    /\ status = "Connected"
    /\ Return(c, "ProtocolError")
    /\ UNCHANGED <<rx, writer, pending, writeOpen, torn, garbled, wireVars, readerVars>>

\* Mutant of CallStart: the sender goes into the slot before the lock.
CallStartRegistersFirst(c) ==
    /\ pc[c] = "idle"
    /\ status = "Connected"
    /\ GoTo(c, "queued")
    /\ writer' = Append(writer, c)
    /\ pending' = c
    /\ UNCHANGED <<rx, writeOpen, torn, garbled, wireVars, readerVars>>

\* The call passes both checks and asks for the writer mutex.
CallStart(c) ==
    /\ pc[c] = "idle"
    /\ status = "Connected"
    /\ GoTo(c, "queued")
    /\ writer' = Append(writer, c)
    /\ UNCHANGED <<rx, pending, writeOpen, torn, garbled, wireVars, readerVars>>

\* Mutant of Arm: no mutex.
ArmUnlocked(c) ==
    /\ pc[c] = "queued"
    /\ GoTo(c, "armed")
    /\ pending' = c
    /\ UNCHANGED <<rx, writer, writeOpen, torn, garbled, wireVars, readerVars>>

\* The mutex is granted; the sender goes into the slot, over what is there.
Arm(c) ==
    /\ pc[c] = "queued"
    /\ Holds(c)
    /\ GoTo(c, "armed")
    /\ pending' = c
    /\ UNCHANGED <<rx, writer, writeOpen, torn, garbled, wireVars, readerVars>>

\* write_all has handed a proper prefix of the command to the transport.
StartWrite(c) ==
    /\ pc[c] = "armed"
    /\ writeOpen
    /\ GoTo(c, "writing")
    /\ UNCHANGED <<rx, writer, pending, writeOpen, torn, garbled, wireVars, readerVars>>

\* Mutant of FinishWrite: the transport never pushes back.
FinishWriteUnbounded(c) ==
    /\ pc[c] = "writing"
    /\ GoTo(c, "waiting")
    /\ c2s' = IF serverUp THEN Append(c2s, c) ELSE c2s
    /\ garbled' = IF torn THEN garbled \cup {c} ELSE garbled
    /\ torn' = FALSE
    /\ UNCHANGED <<rx, writer, pending, writeOpen, s2c, serverUp, readerVars>>

\* write_all returns.  With the server gone the bytes vanish.
FinishWrite(c) ==
    /\ pc[c] = "writing"
    /\ Len(c2s) < SendBuf
    /\ GoTo(c, "waiting")
    /\ c2s' = IF serverUp THEN Append(c2s, c) ELSE c2s
    /\ garbled' = IF torn THEN garbled \cup {c} ELSE garbled
    /\ torn' = FALSE
    /\ UNCHANGED <<rx, writer, pending, writeOpen, s2c, serverUp, readerVars>>

\* write_all fails: `?` returns at once, and the sender stays in the slot.
WriteError(c) ==
    /\ pc[c] \in {"armed", "writing"}
    /\ ~writeOpen \/ ~serverUp
    /\ Return(c, "Io")
    /\ writer' = Tail(writer)
    /\ UNCHANGED <<rx, pending, writeOpen, torn, garbled, wireVars, readerVars>>

\* The oneshot channel yields a reply before the command timeout does.
ReceiveReply(c) ==
    /\ pc[c] = "waiting"
    /\ rx[c] # None
    /\ Return(c, "Ok")
    /\ writer' = Tail(writer)
    /\ UNCHANGED <<rx, pending, writeOpen, torn, garbled, wireVars, readerVars>>

\* Mutant of Expire: the timeout covers write_all as well as the reply.
ExpireCoversWrite(c) ==
    /\ pc[c] \in {"writing", "waiting"}
    /\ rx[c] = None
    /\ GoTo(c, "expired")
    /\ torn' = (torn \/ pc[c] = "writing")
    /\ UNCHANGED <<rx, writer, pending, writeOpen, garbled, wireVars, readerVars>>

\* The command timeout fires; the receiving half is dropped with the Timeout
\* future, and the call goes on to lock the slot.
Expire(c) ==
    /\ pc[c] = "waiting"
    /\ rx[c] = None
    /\ GoTo(c, "expired")
    /\ UNCHANGED <<rx, writer, pending, writeOpen, torn, garbled, wireVars, readerVars>>

\* Mutant of Cleanup: the timeout path forgets the mutex.
CleanupKeepsLock(c) ==
    /\ pc[c] = "expired"
    /\ pending' = None
    /\ Return(c, "Timeout")
    /\ UNCHANGED <<rx, writer, writeOpen, torn, garbled, wireVars, readerVars>>

\* The slot is emptied, then the mutex released.
Cleanup(c) ==
    /\ pc[c] = "expired"
    /\ pending' = None
    /\ Return(c, "Timeout")
    /\ writer' = Tail(writer)
    /\ UNCHANGED <<rx, writeOpen, torn, garbled, wireVars, readerVars>>

\* disconnect() asks for the writer mutex.
DisconnectStart(d) ==
    /\ pc[d] = "idle"
    /\ GoTo(d, "queued")
    /\ writer' = Append(writer, d)
    /\ UNCHANGED <<rx, pending, writeOpen, torn, garbled, wireVars, readerVars>>

\* Mutant of Shutdown: the write half is shut down without the mutex.
ShutdownUnlocked(d) ==
    /\ pc[d] = "queued"
    /\ writeOpen' = FALSE
    /\ Return(d, "Ok")
    /\ \E i \in DOMAIN writer : writer[i] = d /\ writer' = RemoveAt(writer, i)
    /\ UNCHANGED <<rx, pending, torn, garbled, wireVars, readerVars>>

\* disconnect() has the mutex, shuts the write half down and returns; on a
\* connection that is gone the shutdown may fail.
Shutdown(d) ==
    /\ pc[d] = "queued"
    /\ Holds(d)
    /\ \/ Return(d, "Ok") /\ writeOpen' = FALSE
       \/ Return(d, "Io") /\ ~serverUp /\ UNCHANGED writeOpen
    /\ writer' = Tail(writer)
    /\ UNCHANGED <<rx, pending, torn, garbled, wireVars, readerVars>>

\* The caller drops the future at an await: a waiter leaves the queue, the
\* holder releases the mutex, and the slot keeps the sender.
Cancel(t) ==
    /\ t \in Cancellable
    /\ pc[t] \notin {"idle", "done"}
    /\ Return(t, "Cancelled")
    /\ \E i \in DOMAIN writer : writer[i] = t /\ writer' = RemoveAt(writer, i)
    /\ torn' = (torn \/ pc[t] = "writing")
    /\ UNCHANGED <<rx, pending, writeOpen, garbled, wireVars, readerVars>>

\* The last EslClient is dropped: with it goes the write half.
DropClients ==
    /\ writeOpen
    /\ \A t \in Tasks : pc[t] = "done"
    /\ writeOpen' = FALSE
    /\ UNCHANGED <<pc, outcome, rx, writer, pending, torn, garbled, wireVars, readerVars>>

\* The application drops the EslEventStream.
DropStream ==
    /\ streamOpen
    /\ streamOpen' = FALSE
    /\ UNCHANGED <<clientVars, wireVars, reader, status>>

-----------------------------------------------------------------------------
(***************************************************************************)
(* The server and the transport (external).                                *)
(***************************************************************************)

ServerAnswer ==
    /\ serverUp
    /\ c2s # << >>
    /\ Len(s2c) < WireCap
    /\ s2c' = Append(s2c, [type |-> "reply", call |-> Head(c2s)])
    /\ c2s' = Tail(c2s)
    /\ UNCHANGED <<clientVars, serverUp, readerVars>>

ServerSend ==
    /\ serverUp
    /\ Len(s2c) < WireCap
    /\ \E type \in MsgTypes \ {"reply"} :
           s2c' = Append(s2c, [type |-> type, call |-> None])
    /\ UNCHANGED <<clientVars, c2s, serverUp, readerVars>>

\* A close or a reset: any tail of what is on the wire may be lost.
ServerClose ==
    /\ serverUp
    /\ serverUp' = FALSE
    /\ c2s' = << >>
    /\ \E n \in 0..Len(s2c) : s2c' = SubSeq(s2c, 1, n)
    /\ UNCHANGED <<clientVars, readerVars>>

-----------------------------------------------------------------------------
(***************************************************************************)
(* The reader task: reader_loop_inner.  It parses what it has before it    *)
(* reads the socket, so end of file, read errors and the liveness check    *)
(* come only when no complete message is left.                             *)
(***************************************************************************)

Incoming(type) ==
    /\ reader = "running"
    /\ s2c # << >>
    /\ Head(s2c).type = type
    /\ s2c' = Tail(s2c)

\* Mutant of Stop: the `return` after status_tx.send is missing.
StopWithoutReturn(reason) ==
    /\ status' = reason
    /\ UNCHANGED reader

\* status_tx.send, then return: the event channel closes in a later step.
Stop(reason) ==
    /\ status' = reason
    /\ reader' = "exiting"

ReadReply ==
    /\ Incoming("reply")
    /\ pending' = None
    /\ rx' = IF pending # None /\ Alive(pending)
               THEN [rx EXCEPT ![pending] = Head(s2c).call]
               ELSE rx
    /\ UNCHANGED <<pc, outcome, writer, writeOpen, torn, garbled, c2s, serverUp, readerVars>>

\* dispatch_event: with the stream dropped the task returns, status untouched.
ReadEvent ==
    /\ Incoming("event")
    /\ reader' = IF streamOpen THEN reader ELSE "exited"
    /\ UNCHANGED <<clientVars, c2s, serverUp, status, streamOpen>>

ReadNotice ==
    /\ Incoming("notice")
    /\ Stop("ServerNotice")
    /\ UNCHANGED <<clientVars, c2s, serverUp, streamOpen>>

\* A notice with disposition linger, an auth/request, an unknown type.
ReadIgnored ==
    /\ Incoming("linger") \/ Incoming("ignored")
    /\ UNCHANGED <<clientVars, c2s, serverUp, readerVars>>

ReadMalformed ==
    /\ Incoming("malformed")
    /\ Stop("IoError")
    /\ UNCHANGED <<clientVars, c2s, serverUp, streamOpen>>

SocketIdle == reader = "running" /\ s2c = << >>

\* Mutant of ReadEof: the event channel closes with no status sent.
ReadEofSilent ==
    /\ SocketIdle
    /\ ~serverUp
    /\ reader' = "exited"
    /\ UNCHANGED <<clientVars, wireVars, status, streamOpen>>

\* read() returns 0 bytes.
ReadEof ==
    /\ SocketIdle
    /\ ~serverUp
    /\ Stop("ConnectionClosed")
    /\ UNCHANGED <<clientVars, wireVars, streamOpen>>

\* read() fails: the connection was reset.
ReadError ==
    /\ SocketIdle
    /\ ~serverUp
    /\ Stop("IoError")
    /\ UNCHANGED <<clientVars, wireVars, streamOpen>>

\* A read timed out with the last traffic longer ago than the threshold.
LivenessExpire ==
    /\ SocketIdle
    /\ Stop("HeartbeatExpired")
    /\ UNCHANGED <<clientVars, wireVars, streamOpen>>

\* reader_loop_inner's locals are dropped, event_tx among them.
ReaderReturn ==
    /\ reader = "exiting"
    /\ reader' = "exited"
    /\ UNCHANGED <<clientVars, wireVars, status, streamOpen>>

-----------------------------------------------------------------------------

\* The steps a started call or disconnect takes by itself.
CallStep(c) ==
    \/ Arm(c) \/ StartWrite(c) \/ FinishWrite(c) \/ WriteError(c)
    \/ ReceiveReply(c) \/ Expire(c) \/ Cleanup(c)

ClientStep ==
    \/ \E c \in Calls : CallStep(c)
    \/ \E d \in Closers : Shutdown(d)

Application ==
    \/ \E c \in Calls : CallRefused(c) \/ CallMalformed(c) \/ CallStart(c)
    \/ \E d \in Closers : DisconnectStart(d)
    \/ \E t \in Tasks : Cancel(t)
    \/ DropClients
    \/ DropStream

Server == ServerAnswer \/ ServerSend \/ ServerClose

\* What the reader does with input; LivenessExpire needs silence instead.
ReaderInput ==
    \/ ReadReply \/ ReadEvent \/ ReadNotice \/ ReadIgnored \/ ReadMalformed
    \/ ReadEof \/ ReadError

Reader == ReaderInput \/ LivenessExpire \/ ReaderReturn

Next == ClientStep \/ Application \/ Server \/ Reader

Spec == Init /\ [][Next]_vars

\* The runtime polls every woken task and fires every timer.  Nothing is
\* assumed of the server or of the application.
Fairness ==
    /\ \A c \in Calls : WF_vars(CallStep(c))
    /\ \A d \in Closers : WF_vars(Shutdown(d))
    /\ WF_vars(ReaderInput)
    /\ WF_vars(ReaderReturn)

FairSpec == Spec /\ Fairness

-----------------------------------------------------------------------------
(***************************************************************************)
(* Properties.                                                             *)
(***************************************************************************)

\* c gave up on a command that may have reached the server.
Abandoned(c) == pc[c] = "expired" \/ outcome[c] \in {"Timeout", "Cancelled"}

\* An answer to c is still to be read by the server or by the reader task.
OnWire(c) ==
    \/ \E i \in DOMAIN c2s : c2s[i] = c
    \/ \E i \in DOMAIN s2c : s2c[i].call = c

\* As long as no call has timed out or been dropped, every reply in a call's
\* channel answers that very call: the mutex kept from write to reply makes the
\* single uncorrelated slot safe.
OwnReplyUnlessAbandoned ==
    (\A c \in Calls : ~Abandoned(c)) => \A c \in Calls : rx[c] \in {None, c}

\* A call that can still receive has its sender in the slot or its reply in
\* hand.  The sender is never dropped under a waiting call, so the branch that
\* returns ConnectionClosed (the receiver's error) is never taken.
WaitingIsRegistered ==
    \A c \in Calls : Alive(c) => pending = c \/ rx[c] # None

\* Bytes of a command without its end are only ever sent by a call whose future
\* was dropped inside write_all: the command timeout does not reach the write.
OnlyCancellationTearsTheStream ==
    torn \/ garbled # {} => \E c \in Calls : outcome[c] = "Cancelled"

\* What an application may conclude from recv() returning None: the status it
\* then reads is Disconnected.  The watch value is set before event_tx drops.
NoneMeansDisconnected ==
    streamOpen /\ reader = "exited" => status # "Connected"

\* The first reason reported stays: nothing overwrites it.
StatusIsFinal == [][status # "Connected" => status' = status]_vars

\* disconnect() and the drop of the last client shut the write half down
\* between commands: no command is cut in half and no waiting call is cut off.
ShutdownBetweenCommands ==
    [][writeOpen /\ ~writeOpen'
         => \A c \in Calls : pc[c] \in {"idle", "queued", "done"}]_vars

\* Whatever the server does, a call or disconnect that has asked for the mutex
\* returns, provided the transport has room for every command.
EveryCallReturns == \A t \in Tasks : pc[t] = "queued" ~> pc[t] = "done"

\* The call that would receive a reply if one came now.
Listener == IF pending # None /\ Alive(pending) THEN pending ELSE None

\* The calls whose answer may still reach the reader task.
Owed == {c \in Calls : OnWire(c)}

GaveUp == \E c \in Calls : Abandoned(c)

Service == INSTANCE CommandService WITH
    listener <- Listener, owed <- Owed, reply <- rx, gaveUp <- GaveUp

\* The mutex, the single slot and the reader task together keep the promise of
\* CommandService: one listener at a time, each answer delivered at most once,
\* and to its own call while nobody has given up.
ImplementsService == Service!Spec

(***************************************************************************)
(* What the repository says of the program and the code does not do.       *)
(***************************************************************************)

\* A call that returns a reply returns its own ("Timeout" is documented as
\* recoverable, with the connection still usable for the next command).
OkMeansOwnReply == \A c \in Calls : outcome[c] = "Ok" => rx[c] = c

\* A call gives up with Timeout only while the connection is alive; a call in
\* flight when the reader ends is told that the connection is closed.
TimeoutMeansConnected ==
    [][\A c \in Calls : pc[c] = "waiting" /\ pc'[c] = "expired"
                          => status = "Connected"]_vars

\* While is_connected() says yes, a reader task serves the connection.
ConnectedMeansServed == status = "Connected" => reader # "exited"

(***************************************************************************)
(* The inductive invariant behind the safety properties.                   *)
(***************************************************************************)

\* An invocation has an outcome when it has returned, and not before.
ReturnInv == \A t \in Tasks : pc[t] = "done" <=> outcome[t] # "none"

\* The mutex: the holder is the one call between Arm and its return, all
\* others in the queue wait.
WriterInv ==
    /\ \A i, j \in DOMAIN writer : writer[i] = writer[j] => i = j
    /\ \A i \in DOMAIN writer : pc[writer[i]] \notin {"idle", "done"}
    /\ \A c \in Calls : pc[c] \in {"armed", "writing", "waiting", "expired"} => Holds(c)
    /\ \A d \in Closers : pc[d] \in {"idle", "queued", "done"}

\* The slot: never the sender of a call that has not armed or is answered.
SlotInv ==
    /\ pending # None => pc[pending] \notin {"idle", "queued"} /\ rx[pending] = None
    /\ WaitingIsRegistered

\* The wire: at most one answer per call, and only for a call that has written
\* and waits, gave up, or was given another call's reply.
WireInv ==
    /\ \A i \in DOMAIN s2c : s2c[i].type = "reply" <=> s2c[i].call # None
    /\ \A i, j \in DOMAIN c2s : c2s[i] = c2s[j] => i = j
    /\ \A i, j \in DOMAIN s2c : s2c[i].call = s2c[j].call /\ s2c[i].call # None => i = j
    /\ \A i \in DOMAIN c2s, j \in DOMAIN s2c : c2s[i] # s2c[j].call
    /\ \A r \in Calls : OnWire(r) =>
           /\ pc[r] = "waiting" \/ Abandoned(r) \/ rx[r] # None
           /\ pc[r] \in {"waiting", "expired", "done"}
           /\ \A c \in Calls : rx[c] # r

\* The channels: a reply is delivered once, after its command was written.
DeliveryInv ==
    /\ \A c \in Calls : pc[c] \in {"idle", "queued"} => rx[c] = None
    /\ \A c \in Calls : rx[c] # None => pc[rx[c]] \in {"waiting", "expired", "done"}
    /\ OwnReplyUnlessAbandoned

\* The reader task: once it has reported a reason it is on its way out, and it
\* leaves silently only when the application has dropped the event stream.
ReaderInv ==
    /\ status # "Connected" => reader # "running"
    /\ reader = "exiting" => status # "Connected"
    /\ NoneMeansDisconnected

\* Every command is written whole, answered at most once, and its reply given
\* at most once, to the holder of the mutex at that moment.
CommandInv == ReturnInv /\ WriterInv /\ SlotInv /\ WireInv /\ DeliveryInv

=============================================================================
