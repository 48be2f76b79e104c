# TLA+ models of freeswitch-esl-tokio

This directory specifies the FreeSWITCH Event Socket (ESL) client library in
`src/` in TLA+. TLC model-checks the modules on small instances, TLAPS proves
the most important results for all instances. Paths are relative to the
directory that holds the repository (`src/`) and this project (`tla/`);
`PROJECT.json` gives for every definition the lines it models.

    tlc -workers 2 -config conn_safety.cfg MCEslConnection.tla    # one run
    tlapm EslConnectionProofs.tla                                 # the proofs

## The system

One TCP connection to FreeSWITCH is served by one background task and used by
any number of application tasks.

| Part | State | Operations | Interacts with |
|---|---|---|---|
| **Command channel** (`EslClient`, `connection.rs`) | writer mutex around the TCP write half, the slot `pending_reply`, the command timeout | `send_command` and the forty methods over it, `disconnect`, drop | reader task through the slot, a oneshot channel per call, the watch channel; the server through TCP |
| **Reader task** (`reader_loop`, `connection.rs`) | parser, time of the last traffic | parse, route, read, stop | owns the read half, the watch sender and the event sender |
| **Event stream** (`EslEventStream`, `dispatch_event`) | bounded mpsc channel, `event_overflow`, `dropped_event_count` | `dispatch_event`, `recv`, `poll_next`, drop | reader task to application, never blocks the reader |
| **Framing** (`buffer.rs`, `protocol.rs`) | byte buffer, `ParseState` | `add_data`, `parse_message` | fed by the handshake, then by the reader task |
| **Connection setup** (`connect_inner`, `authenticate`, `accept_outbound`) | parser | two receives, one write | hands the parser with what is left in it to the reader task |
| **Event decoding** (`parse_event`, `event.rs`) | none | plain, JSON, XML bodies to `EslEvent` | reader task |
| **Commands and replies** (`command.rs`, `error.rs`) | none | wire format, reply classes, error classes | command channel |
| **Builders** (`commands/`, `app/`) | none | strings for originate, uuid_*, conference and back | applications |
| **Variables** (`variables/`) | none | `ARRAY::a\|:b` and multipart, both ways | events, builders |
| **Channel types** (`channel.rs`) | none | names of states, timetable | events |
| **Channel tracker** (`examples/channel_tracker.rs`) | channels, pending dumps | follow events, `bgapi uuid_dump` | an application of all of the above |

### What is hard, and what makes each part correct

* **Command channel.** ESL replies carry no identifier: calls and replies are
  matched by position only, through one slot that every call overwrites. All
  correctness rests on the writer mutex being held from before the slot is
  filled until the call returns, while callers may drop the future at any await
  (before the lock, inside `write_all`, while waiting), a timeout may race the
  reply, `disconnect` may queue between calls, and the server may answer late
  or never. Correct means: a call gets the reply to its own command, always
  returns, never damages the byte stream for others, and learns that the
  connection is dead.
* **Reader task.** Five ways to stop, each with a reason to report before the
  event channel closes. Correct means: the first reason stays, and an
  application woken by `None` finds it.
* **Event stream.** Two `try_send` calls per dispatch with the consumer running
  between them, a flag and a counter updated separately. Correct means: no loss
  is miscounted, forgotten or announced twice, and the end comes after the last
  item and does come.
* **Framing.** TCP cuts the stream anywhere. Correct means: the messages depend
  on the bytes alone, a complete message never waits for more traffic, a legal
  message never trips a limit, and a framing error never costs what was
  complete before it.
* **Connection setup.** Time limits per read, not per handshake; the type of the
  answer to `auth` is not looked at; bytes that arrive behind the answer belong
  to the reader task.
* **Commands, builders, variables.** Escaping and quoting must round-trip, and no
  field may smuggle a line feed into the wire format.
* **Channel tracker.** Replies and events of one job travel by different
  channels and may be handled in either order or be dropped.

The hazards, each at its line and with the properties that cover it, are listed
in `PROJECT.json`.

## Modules

| Module | Models | Checked by |
|---|---|---|
| `EslConnection` | command channel, reader task's routing and status | `MCEslConnection` |
| `EslConnectionProofs` | theorems about `EslConnection`, and that it implements `CommandService` | TLAPS |
| `CommandService` | what the command channel promises, without mutex, slot, wire and reader | `EslConnection` refines it |
| `EventQueue` | event channel, overflow, drop counter, end of stream | directly |
| `EventQueueProofs` | theorems about `EventQueue` | TLAPS |
| `EslParser` | framing and the parse/read loop | `MCEslParser` |
| `EslParserProofs` | theorems about `EslParser`: types, the buffer limit, independence of the cuts | TLAPS |
| `EslSession` | connect, accept, authentication, hand-over to the reader task, the clocks, the panic path | directly |
| `EslSessionProofs` | theorems about `EslSession` | TLAPS |
| `ChannelTracker` | the reference application over an instance of `CommandService` and a bounded event queue | `MCChannelTracker` |
| `ChannelTrackerProofs` | theorems about `ChannelTracker`: types, requests and their dumps, the map | TLAPS |
| `EslEvents` | `EslEvent`, `EslArray`, plain text, the plain, JSON and XML parsers | `MCWire` |
| `EslCommands` | commands as text, newline checks, the methods that make them (extends `EslEvents`) | `MCWire` |
| `TextProofs` | theorems about the texts of `EslEvents` and `EslCommands` | TLAPS |
| `Originate` | the originate builder and its parser | `MCWire` |
| `OriginateProofs` | theorems about the texts of `Originate` (extends `TextProofs`) | TLAPS |
| `MCWire` | one run over `EslParser`, `EslCommands` and `Originate` | |
| `WireProofs` | that this run follows the specifications it is made of | TLAPS |

### EslConnection

One program counter per invocation of `send_command` (`Calls`) or `disconnect`
(`Closers`). An action is the stretch of code between two awaits, of which each
touches shared state once:

| `pc` | Code | Leaves by |
|---|---|---|
| `idle` | before the call | `CallRefused`, `CallMalformed`, `CallStart`, `DisconnectStart` |
| `queued` | at `writer.lock().await` | `Arm` (slot filled), `Shutdown` |
| `armed` | slot filled, nothing written | `StartWrite`, `WriteError` |
| `writing` | inside `write_all`, a proper prefix sent | `FinishWrite`, `WriteError` |
| `waiting` | at `timeout(.., rx)` | `ReceiveReply`, `Expire` |
| `expired` | timed out, at `pending_reply.lock().await` | `Cleanup` |

`Shutdown` may fail with `Io` once the server is gone. `Cancel` drops the future at
any of these awaits. `writer` is the tokio mutex: its
holder followed by the waiters in FIFO order, which is how tokio grants it.
`pending` is the slot, named by the call whose sender is in it, `rx[c]` the
oneshot channel of `c`, holding the call whose answer it is. A sender whose receiver is
gone swallows the reply (`Alive`). `torn` and `garbled` record what a dropped
`write_all` does to the commands on the wire.

The server and TCP are external: commands are answered in order, once each, and
the server may at any time send an event, a disconnect notice (with or without
linger), something ignored or something malformed, stall, or go away losing any
tail of what it sent. The wire to the server holds `SendBuf` commands before
writes block, the wire back `WireCap` messages.

The reader's actions are the branches of `reader_loop_inner`, in its order: the
socket is looked at only when no message is left. `Stop` is `status_tx.send`
followed by `return`; the event channel closes one step later (`ReaderReturn`),
because an application can run in between.

The command timeout and the liveness timeout may fire at any moment: their
setters (`set_command_timeout`, `set_liveness_timeout`) need no state then.

### CommandService

The promise an application relies on when it sends commands: at most one call
listens at a time, a command is sent at most once, and an answer is delivered
at most once, to the call it answers as long as no call has timed out or been
dropped. `ImplementsService` in `EslConnection` maps to it: the listener is the
call in the slot whose receiver still exists (`Listener`), the commands owed an
answer are those on the wire in either direction (`Owed`), the replies are the
oneshot channels, and giving up is the outcome `Timeout` or `Cancelled`, or a
call on its way there (`GaveUp`).

### EventQueue

`dispatch_event` is two steps, `Notify` (the `QueueFull` notification, when the flag
is up) and `SendItem`, with `recv` possible between them. The channel is kept as
the sequence of all items it accepted and the number received. A notification is
recorded with the value of the drop counter, which tells the drops it covers.

### EslParser

The bytes are symbols: line feed, one per header line, text. `ParseState` is the
message whose body is awaited, or `NoMessage`. One call of `parse_message` is
`RejectHeaders`, `ParseBare`, `ParseHeaders` followed by `ParseBody` (the code's
recursive call), `ParseBody`, or `NeedMore`; then `Read` appends what one socket
read returns and checks the limit. This loop is shared by `recv_message` and
`reader_loop_inner`. Every extraction is followed by `compact`, so the buffer's
`position` is always back at zero and the model has none. A header line is one
symbol; two lines glued together without a line feed are not modelled, since
every body in the streams ends with a line feed.

### EslSession

`phase` is where `connect_inner`, `accept_outbound` or the reader task is:

| `phase` | Code | Leaves by |
|---|---|---|
| `start` | before the call | `Begin`, `RefuseUser` |
| `connecting` | `tcp_connect_with_timeout` | `Connect`, `NoConnection`, `ConnectTimeout` |
| `listening` | `accept_outbound`, in `accept()` | `Accept`, `NoConnection` |
| `awaitRequest` | `recv_message`, for `auth/request` | `TakeRequest`, `NotARequest`, `HandshakeTimeout`, `HandshakeLost`, `HandshakeOverflow` |
| `sendAuth` | `to_wire_format` and `write_all` of the credentials | `CredentialsRefused`, `WriteAuth`, `WriteAuthFails` |
| `awaitAnswer` | `recv_message`, for the answer | `TakeAnswer`, `Rejected`, `BrokenAnswer`, `HandshakeTimeout`, `HandshakeLost`, `HandshakeOverflow` |
| `running` | `reader_loop_inner` | `ReadNotice`, `ReadBroken`, `ReadLost`, `ReadOverflow`, `TickExpires`, `Panic` |
| `returning` | status sent, task not yet over | `ReaderReturn` |
| `unwinding` | a panic has dropped `event_tx` | `ReportPanic` |

Messages come in pieces: a `part` is followed, some time, by the rest. `Receive`
takes some or all of what has arrived, and what was not parsed goes to the reader
task with the parser (`SpawnReader`). `handled` records the pieces parsed and
acted upon. The parser holds at most `MaxBuffer` pieces: a read that brings more
fails (`HandshakeOverflow`, `ReadOverflow`). During the handshake the server may
send parts for ever, each in time to start the read's two seconds again: `MaxSent`
does not count them, and only the buffer ends it.

The clock counts in units of `1/Milli` millisecond, because
`set_liveness_timeout` stores whole milliseconds. Time passes (`Pass`) only while
the client waits for the connect or in a read with nothing to read: what it does
between two waits takes no time. `tokio::time::timeout` polls the read before the
timer, so a timer fires only in `Idle`, and at most `Lag` units late.
`sinceRecv` is `last_recv.elapsed()`; `silence` is the real silence, counted from
the last piece the server sent, and the properties compare the two through the
status. The write of the credentials has no timer in the code and none here.

### ChannelTracker

`examples/channel_tracker.rs` is the one application in the repository that keeps
state from the library's events and replies. `main` is one task: it subscribes,
asks for `show channels`, makes one `bgapi uuid_dump` after the other, and receives
only between calls (`pc`, `todo`). `asked` is the calls in the order in which they
were made; a call is its number. The command channel is an instance of
`CommandService`, so that a call may time out and its late reply reach the next,
exactly as `EslConnection` was proved to behave; the event queue is
`dispatch_event` in one step, the receive between its two halves being the subject of
`EventQueue`. The server may reject any command (`Refuse`): without a subscription
`main` returns, without a list it goes on with an empty map, and a rejected `bgapi`
names no job (`CallRefused`, `NamesJob`). FreeSWITCH is external: a change and its event are one
step, while a job runs on its own thread (`RunJob`, then `EndJob`), and its event
shows the channel as it was when it ran.

A channel's headers are abstracted to a version, counted up by each change, and
whether `Other-Leg-Unique-ID` is set. `old` and `foreign` are history: data of an
older version, or of another channel, was merged. `lost` is history too: the channels
and jobs of which an event was dropped. `Ask` has a bound on the number of
requests that never blocks, because each channel is dumped at most once for its row
and once for its `CHANNEL_CREATE`.

### EslEvents, EslCommands, Originate and MCWire

Texts are sequences of tokens: one for each mark the format gives a meaning (space,
line feed, colon, `|:`, `ARRAY::`, quotes, backslash, comma), and one for each word.
Conversions are modelled by what they do to these: percent-encoding protects
exactly the tokens of `Escaped`, trimming removes spaces, a split cuts at each mark
whatever wrote it there.

`EslEvents` has the methods of `EslEvent` that change it, `to_plain_format`, and the
three parsers. Its `Echo` sends the event through FreeSWITCH and back, so that
values are stacked on values that have been text. `quick_xml` and `serde_json`
are external: `ToXml` and `ToJson` are the documents FreeSWITCH writes, as the
sequence of tags and characters, or the object, the libraries hand over.

`EslCommands` turns every command into its line, headers and body, and rejects
line feeds where the code does. `SendOne` writes any command that a method of
`EslClient` or a builder of `commands/` and `app/` makes. `ServerReads`, the
reference definition, reads the bytes as a server must: by lines, blank line and
`Content-Length`, with no knowledge of what was meant.

`Originate` builds an originate field by field, writes it and parses it back with
the code's own splitting and unquoting.

`MCWire` checks these with `EslParser` in one run: a behaviour follows the reader,
the commands or the originate side; they share no state, so nothing is lost by not
interleaving them.

## Runs

| Run | Instance | Shows |
|---|---|---|
| `conn_safety` | 3 calls, 1 disconnect, all cancellable, 2 commands and 2 messages on the wire | type invariant; own reply unless somebody gave up; a waiting call is registered; only cancellation tears the stream; `None` means disconnected; status final; shutdown between commands |
| `conn_live` | 2 calls, 1 disconnect, fair | every invocation that asked for the mutex returns; `CommandService` is implemented |
| `conn_late_reply` | violation | a late reply reaches the next caller |
| `conn_timeout_dead` | violation | a call in flight at the end of the connection gets `Timeout` |
| `conn_unserved` | violation | dropping the event stream leaves a `Connected` status with no reader |
| `conn_stalled` | violation, fair, 1 command on the wire | `write_all` blocks outside the timeout |
| `queue` | capacity 2, 6 items, fair | counter exact; no drop forgotten; each notification is news; `None` last, and it comes |
| `queue_repeats` | violation | consecutive `QueueFull` errors |
| `queue_silent_loss` | violation, fair, capacity 1 | a loss that is never reported |
| `parser_safety` | 2000 streams of up to 4 messages, reads of 1 to 4 symbols; events built in 3 steps, or any command and any other but a builder's text behind it; originates built in 3 steps, or any 5 fields | framing independent of the cuts; only headers overflow; texts of events, arrays, commands, variables and originates come back as what they were; no command is taken for part of another |
| `session` | both directions, 3 pieces beside those of a trickle, buffer of 2, fair | nothing lost at the hand-over; no false alarm and no missed silence; entered on an answer only; end, reason and their order, with a panic; the handshake returns; a loss is noticed |
| `tracker` | 2 channels, queue of 2, 2 changes | no ghost and no missing channel; stale only by a late dump; dumps are merged where they belong; no entry waits for nothing |

**Bounds.** Three calls are the fewest in which one call holds the mutex, one
waits behind it and a third has already given up: late replies, stale senders
and queueing all occur, with two messages on the wire to be reordered against
them. Each call is made once; a task that calls again is another call, since
nothing in the client remembers who called. `SendBuf` is 2 in `conn_safety`, so
that writes block there too, and no smaller than the number of calls in
`conn_live`, which then asks what happens when the transport always has room;
`conn_stalled` is the other case. In `conn_live` one call and the disconnect may
be cancelled, the other call is the one left behind them. Six items over a queue of two give two
overflow episodes with a notification between them. `MaxBuffer = 8`,
`MaxMessage = 3` and `ReadSize = 4` keep the order of the code's 16 MB, 8 MB and
64 KB where the proofs and the overflow property need it
(`MaxMessage + ReadSize <= MaxBuffer`), and a stream without a terminator
exceeds the buffer. `MaxLength = 5` is the largest length a command's text can
state; no body of `parser_safety` is longer, and `CommandsArriveWhole` is proved
for every value.

In `session` the waits of 2, 2 and 3 units make the tick of the reader the longest
of them, as a mistaken timer would show; `Milli = 2` and the durations 1 and 5 give a
timeout below a millisecond, and one that is no whole number of them and longer
than a tick, so that a silence spans several reads. `MaxSilence = 10` is above the
longest duration plus tick plus lag, where nothing depends on the clock any more.
Three pieces are a request, an answer and what comes in the same read, or a message
in three parts. `ReadSize`, `MaxBuffer` and `MaxOnWire` are 2: a read of two pieces
joins the answer and what is behind it, the network fills, a message of two parts and
the next read overflow the buffer, and a server that trickles fills it.

In `tracker` one channel may exist before the list and one be born after the
subscription; two changes are a birth and a death, a change behind a dump, or a
bridge and its end; a queue of 2 overflows. `QueueSize` is far above this in the
code, which only makes losses rarer. The two channels are interchangeable
(`Symmetry`); the run has no temporal property.

In `parser_safety` a token's meaning depends at most on its neighbour, so that
values of up to two marks, and some of three, reach every branch of quoting,
splitting and escaping; two commands are what it takes for one to disturb another;
three steps are a stack of three, or a header set, an echo and another header; five
fields are all of an originate's.

`CHECK_DEADLOCK FALSE` is set everywhere: calls are finite in number and a
finished connection stops.

**Fairness.** `FairSpec` of `EslConnection` assumes weak fairness of each call's
own steps, of `Shutdown`, of the reader's reaction to input and of its return:
the tokio runtime polls woken tasks, grants its mutex in FIFO order and fires
timers. It assumes nothing of the server (which may never answer), of the
application (which need not call or cancel) or of the liveness timeout (off by
default). `EventQueue` assumes that the reader task finishes a dispatch it has
begun, which never awaits, and that the application keeps receiving. `EslSession`
assumes weak fairness of the client's own steps (the runtime polls a task that can
go on) and of `Pass` (time goes by while the client waits): nothing of the server,
the network or the application, and neither `Connect` nor `WriteAuth` is fair: a
server that does not read holds the write of the credentials for ever, so
`HandshakeReturns` leaves that phase out. In the other phases of `connect()` it holds
for two reasons. A server that falls silent is ended by the timeout of the read; one that
never falls silent, so that no timeout fires, fills the buffer with a message it does
not end. The code bounds the bytes of a handshake, then, and not its time: at a byte
every other second the limit of 16 MB is a year away, and no property says more than
"not for ever".

## Where the code departs from what it says

The violation runs are disagreements between the code and its documentation,
quoted in `PROJECT.json` under `findings`. In short: `Timeout` is called
recoverable, but the reply that was late is given to the next command; a call in
flight when the connection ends also gets `Timeout`; dropping the event stream
silently ends the reader task; the command timeout does not cover the write;
`QueueFull` may repeat, or never come.

Two smaller ones can be read off the model and have no run: no action sets the
status to `ClientRequested` (`src/src/connection.rs:53`), so the end of a connection
the client shut down is `ConnectionClosed`; and `Shutdown` waits for the mutex
like any call, while `src/src/connection.rs:1035` calls it immediate.

The properties of the other modules hold with exceptions, which their comments
state because a reader should know them:

* the answer to `auth` may be any message: an event or a notice that comes first is
  read as a success, and the answer is left to the reader task (`EnteredOnAnswer`);
* a liveness timeout below one millisecond is stored as zero, which is off
  (`DetectedInTime`, `NoFalseAlarm`);
* between the unwinding of a panic of the reader task and its report, the event
  stream has ended while the status is `Connected` (`NoneMeansDisconnected`);
* the tracker merges a dump of another channel after a late reply, into the channel whose
  `bgapi` was handed it (`DumpsAreOwn`), and an older dump over newer events
  (`StaleOnlyByDump`); it never lists the channels again, so one of which an event was
  dropped may stay a ghost or unseen (`TrackedIsLive`), and the entry of a job whose event
  was dropped stays (`PendingIsOwed`): the properties say that no other channel or job is
  harmed;
* a command is torn only by a caller that drops its future inside `write_all`
  (`OnlyCancellationTearsTheStream`);
* the time of a handshake has no bound (`HandshakeReturns`);
* an event with a `Content-Length` header of its own that is not the length of its
  body shifts the commands behind it (`OneCommandEach`);
* fields with spaces, a colon in a user's name, a header named `delete`, or an event
  without a body whose `Content-Length` header says 0, which is the text of one with an
  empty body, make two commands the same text (`CommandsAreDistinct`);
* plain text loses an empty body and the type of an event made by `with_type`
  (`PlainTextComesBack`), JSON has no body but a header `_body`, XML takes a header
  named `body` for it and one named `headers` for the end of them (`FormatsAgree`), and a value with `|:` is two in a stack (`StacksKeepTheirOrder`);
* an optional field of an originate that is left out before one that is given
  shifts the later ones (`FieldsReachTheirPlace`), and a value that ends in a
  backslash swallows the comma behind it (`VariablesComeBack`);
* keys of variables and names of applications are not escaped, and a brace in a variable
  ends the block early (`OriginateComesBack`).

## Proofs

`EslConnectionProofs` holds for every set of calls and disconnects, every
choice of cancellable invocations and every capacity, under
`ConnectionAssumption` only (calls and disconnects differ, `None` is neither,
capacities are positive).

`OwnReplyUnlessAbandoned` is not inductive: to know that the reply at the head of
the wire is the waiting call's one must know that the slot holds that call,
that nobody else can be between `Arm` and return, and that no other reply is in
flight. `CommandInv` says so in five parts:

* `ReturnInv`: an invocation has an outcome iff it has returned;
* `WriterInv`: no invocation is in the mutex's queue twice, everybody in it is
  in the middle of an invocation, and a call between `Arm` and its return is
  at the head;
* `SlotInv`: the slot never holds a call that has not armed or that has its
  reply, and a call that can still receive is in the slot or has its reply;
* `WireInv`: a call has at most one command or reply in flight, only after it
  wrote, and while it waits, was abandoned or was given another call's reply;
* `DeliveryInv`: channels are empty before `Arm`, and the property itself.

`TypeOK /\ CommandInv` is inductive (`CommandChannelInvariant`): one lemma for each
part (`TypeStep`, `WriterStep`, `ReturnStep`, `SlotStep`, `WireStep`,
`DeliveryStep`), one step per action under it. From it follow `TypeCorrect`,
`RepliesReachTheirCall`, `SenderOutlivesReceiver`, `ShutdownCutsNoCommand` and
`TimeoutTearsNothing`; the reader's `ReaderInv` gives `NoneTellsDisconnected` and
`FirstReasonStays`.

The same module has the refinement (`ChannelImplementsService`): one lemma per group
of steps (`CallMaps`, `ApplicationMaps`, `ServerMaps`, `ReaderMaps`) shows that each step of `EslConnection` is a step of
`CommandService` or leaves its variables alone. `CommandInv` is needed for
`ReadReply`: the reply at the head of the wire is one that is owed and, unless
somebody gave up, the listener's.

`EventQueueProofs` holds for every queue size and number of events.
`QueueInv` adds to the three properties what they need between the two `try_send`
calls: a notification is being sent only while the flag is up, no notification in
the channel covers more than the counter, and `None` was returned only after the
reader task ended. From it follow `DropsAreRemembered`, `EveryNoticeIsNews` and
`EndComesLast`. `CounterIsExact` is inductive by itself: it compares the counter
with the number of events in the channel's history, a cardinality.

`EslParserProofs` proves `OnlyHeadersOverflow` (`BodiesFitTheBuffer`) from the
assumption `MaxMessage + ReadSize <= MaxBuffer`, which the code's constants
satisfy (8 MB + 64 KB against 16 MB). `BufferInv` says that a read happens only
when the awaited body is not yet complete, so the buffer is below
`MaxMessage + ReadSize` after it. `TypeCorrect` goes with it.

Its other theorem, `CutsDoNotMatter`, is about all streams and all ways TCP may cut
them: what the reader has delivered, its error and what is left in its buffer are
what `Decode`, the reference definition, gives for all the bytes at once.
`CutsInv` is the inductive form: whatever text is still to come, decoding all that
was read and that text is the messages delivered, followed by what decoding the
buffer and that text gives. `Decode` is a function defined by recursion on the
length of a text, which the prover knows nothing of until its equation is proved:
the lemmas build the function for longer and longer texts, by induction written as
a least counterexample.

`EslSessionProofs` holds for every timeout, tick, lag, clock resolution and set of
durations, and any number of pieces, under `SessionAssumption`. The clock
properties are not inductive: that a silence is noticed in time depends on what the
last look at the clock saw. `ClockInv` says it: `last_recv` is exactly as old as the
silence when nothing lies on the wire (bytes that arrive are read before time goes
on), and it is no older than the timeout plus the wait of the moment, or else the
timeout was set during that wait. From it follow `SilenceIsDetected` and
`NoLivePeerIsGivenUp`, both by integer division of the duration into milliseconds.
`HandOverLosesNothing` is inductive together with `StartInv`: what is handled, in
the parser and on the wire is always, end to end, what was sent. `AuthInv` counts the
messages that are complete in `handled` in each phase of the handshake: none before
the request was taken, exactly the request while the credentials are sent and the
answer is awaited; `NoEntryWithoutAnswer` follows.

`ChannelTrackerProofs` holds for every finite set of channels, every queue size and
any number of changes, under `TrackerAssumption`. `TrackerInv` follows a request
through the system: `OrderInv` (whatever exists of a request exists after it was
made), `ReplyInv` (a reply is handed out at most once, and stays with the call that took
it: from `Late`, a call with the reply of another, the harm of a late reply is traced),
`OwnInv` (for a job whose reply is its own call's, the channel asked for is the one in
the entry, the job and its event; a map entry with the data of another has a late
call for its channel) and `OwedInv` (an entry is owed an event that runs or is queued,
unless that event was dropped; between the reply to a `bgapi` and its entry nothing is
received, so its event cannot pass by). None of them is given up when a call times out
or the queue overflows, which is why `lost` is kept by channel and job. Each step has
its lemma;
`DumpsReachTheirChannel` and `NoEntryWaitsForNothing` follow.

Its second part proves, from the same assumptions, that the map tells the truth
(`NoGhostNoGap`, `StaleOnlyAfterDump`). `TrackInv` has three parts: `CallInv`, the
order in which `main` subscribes, lists and dumps; `UnbornInv`, nothing is known of a
channel before it is created; and `MapInv`, which reads queue, list, map and dumps for
one channel at a time, as long as no event of that channel was dropped. `NewsOK` says that the last
create or destroy queued agrees with the server (with none queued, the map or the list
that is about to become the map does); `EventsOK` and `EntryOK` that the last event
queued, or else the entry, has the server's data, unless the entry is marked old or
foreign; `DumpOK` that a dump on its way is of a version that existed, and that if it
tells of a bridge that is no more, either the end of that bridge is queued with a newer
version or merging the dump will mark the entry as old (`Overtaken`). The list is not
stale because `main` subscribes before it lists, and a late dump makes no ghost because
it is only merged into an entry that is there. Of the assumptions, `UntrackedAssumption`
says only that a map entry is never mistaken for none, and `TrackerAssumption` that no
channel has the name of one of `main`'s own requests, or is the number of a call.

`TextProofs` is about the texts of `EslEvents`, for all names, values, bodies and types,
under `EventAssumption`: names, types and lengths are words, so no mark of a format is
among them; no token is the escape of another, and two marks have two escapes. The
code has this by construction: percent-encoding leaves only letters, digits and `%`,
and `%` is itself encoded. `StackInv` is the inductive invariant of `EventSpec`: the
event has its type, and each header `Holds` its stack, which is the value itself if
there is one, and an array that splits into the pieces of all its values if there are
more. `EventTypeCorrect` and `StacksInOrder` follow from it at once; that `Echo` keeps
it needs the round trip. `PlainTextIsFaithful` and `FormatsReadTheSame` are about what
the parsers do with whole texts, where the code, and the model, fold a step over a
sequence. A lemma per fold (`SplitAtSteps`, `JoinedSteps`, `FlattenSteps`,
`HeadersSteps`, `XmlSteps`) gives its values at the prefixes of the sequence, and each
later lemma counts these up:

* `SplitBehind`, `ItemsSplit`, `ArrayComesBack`: what a text is split into does not
  depend on what was split before it, so an array splits into the pieces of its items,
  in order;
* `EncodedComesBack`, `HeaderLine`, `HeadersWritten`: the line of a header has one colon
  behind one word, and decodes to that header; the text of the headers so far says
  exactly these (`Written`), whatever is in their values;
* `BlankLineFound`, `WholeParsed`: no header line is empty, so the first blank line is
  the one before the body, and the body is what stands behind it, line feeds and all;
* `ElementRead`, `HeadersRead`, `XmlRead`: each element of the XML leaves the parser
  between elements, with that header or body read and no tag in mind.

The second part of `TextProofs` is about the bytes of all commands, whichever methods made them
(`CommandSpec`), for all fields, headers, values and bodies, and any number of commands.
`CommandAssumption` says that texts are sequences, that no body is longer than
`MaxLength`, and that different numbers are written differently. `CommandInv` is the
inductive invariant: the event is one that can be built (`StackInv`), every command sent
is `Formed` and passed `Valid`, and the bytes are the texts of the commands, one behind
the other. Every method makes a formed command (`MethodsFormed`, a lemma for each group
of them; `EventFormed`). `CommandsArriveWhole` follows, for every such sequence:

* `LineIsClean`, `FormedIsWritable`: what passed `Valid` leaves no line feed in the
  command's line or in a header, and no line is empty, whatever the fields join to;
* `CommandShown`, `LinesTaken`, `FrontTaken`: so the first blank line is the one the
  builder wrote, and the lines before it are the line, the headers and the length;
* `LengthsAgree`: the length the server picks is the length of the body, unless the event
  is `Disputed`; with a body, the last of the lengths is always right, because `build`
  writes it behind the headers;
* `CommandTaken`, `PartsInPlace`, `ReadToTheEnd`: so each command is taken from the front
  of the bytes with nothing of the rest, and the next one is found where it begins.

Without the check for line feeds of any one field or header value, `LineIsClean` fails.

`CommandsDiffer` says that two commands sent are the same text only if they are the same
command, but for those `Ambiguous` names. `CommandInv` is not enough for it: a command
that is `Formed` may have headers that no method writes. `MadeInv` adds that each command
sent is one a method made, from an event that can be built, and `PartsInv` is both.
The argument reads the text back:

* `SameWire`: the same bytes have the same line, the same header lines and the same rest,
  because the first line feeds end them, and no line holds one;
* `LineIs`, `SameLine`: the words of a line tell the kind of the command and its fields,
  one kind at a time, unless a field has a space or the line says more than it should;
* the header lines of an event give its headers back, and what the last of them says
  whether there is a body.

The last step failed at first for an event without a body and with a header
`Content-Length: 0`: `build` writes that line for an event with an empty body too. The run
is too short to build such an event; `Ambiguous` now names it.

`OriginateProofs` is about the text of an `Originate`, whichever setters are called.
`VariablesReturn` is about the block of variables in it, for all values, scopes and numbers of variables, and for keys with neither `=` nor `,`, which
the code escapes in values only. `OriginateAssumption` says no more than that texts are
sequences. The invariant it needs is `DialTypeCorrect`: the fields have their types, and
no key occurs twice, because `insert` replaces. The argument has the order of the code:

* `EscapedComesBack`, `ValueComesBack`: `unescape_value` looks at the last token it has
  kept, and an escaped value, quoted or not, comes back whatever it ends in;
* `CommasBehind`, `GuardedBehind`: the parser splits at a comma unless a backslash stands
  before it, so every comma of an escaped value is guarded, and the only comma between
  items that is guarded too is the one behind an unquoted value that ends in a backslash
  (`Swallows`);
* `ItemParts`, `PartsOfBlock`: so the parts of the first k items are these items if none of
  them swallows, and there are fewer parts than variables otherwise;
* `BlockComesBack`: inserting the items of distinct keys one by one gives the variables in
  their order, and fewer parts cannot give as many variables: hence the property is an
  equivalence, and the exception is exact.

`FieldsArrive` and `OriginatesComeBack` are about the whole text, for all values,
arguments, names, contexts and any number of variables and applications. Their invariant
adds to the types that there is always an application. `Carried` names what the format
can carry, and the argument goes through the text once from the splitter's side and once
from the parser's:

* `SplitAppend`, `EvenThrough`, `GuardedThrough`, `ItemsSplitOff`: the splitter's state is
  the quote it is in and the last token; an *item* is a text in which every separator is
  inside quotes and whose quotes are even or guarded, and from any state outside quotes
  the splitter reads through it, so items with the separator between them come apart;
* `ValueThrough`, `VariablesThrough`, `EndpointItem`, `XmlApps`, `InlineApps`: every part of
  the text is an item, whatever quotes, commas, spaces and backslashes the values hold,
  although `originate_quote` is applied once to a whole that may itself contain quotes;
* `WordsComeApart`: so the words of the text are the parts, and `PlacesOfFields` counts
  them: a field is at its place exactly when all before it are given, which is
  `FieldsArrive`;
* `TextRead`: what the parser splits, with the command's name cut off and the rest
  trimmed, is these words without the first;
* `EndpointReturns`, `UnquoteReturns`, `AppsReturn`: the parsers of the second and third
  word undo what wrote them, up to `Normal`;
* `ThirdWord`, `DialplanFound`, `FourPlaces`: the third word names a dialplan if one was
  given or the context reads like one, and four fields are in their places exactly when
  there is no gap: hence the property is an equivalence, and the exception is exact.

Two hypotheses were found by the proof. `OriginateComesBack` was false for names of
applications and keys that have a mark of the format in them, because only values are
escaped (`PlainNames`), and for variables with braces, because `Endpoint`'s parser takes
the first brace that closes for the end of the block (`Braceless`). The run has no such
name or value, so it had not shown either.

`WireProofs` closes the gap between the run `parser_safety` and the theorems.
`WireFollows`: every behaviour of the run is one of the reader, of the events, of the
commands and of the originates, for the run leaves steps out (a turn limit, commands
that may follow an event) but takes none they do not have. So all that is proved of
the four holds in it, and `WireTypeCorrect` follows.

Every invariant and every action property of the passing runs is stated by a listed
theorem. Only model-checked is liveness (`EveryCallReturns`, `StreamEnds`,
`EndIsAnnounced`, `HandshakeReturns`, `LossIsNoticed`): TLAPS has no rule for fairness.

## Not modelled

* The tables: the names of event types, `into_result`, `is_recoverable` and
  `is_connection_error` of replies and errors, the enumerations of `channel.rs`
  and its timetable, which is a record of timestamps.
* Accessors of events, their priorities, `MultipartBody` (a filter over the items of
  an array), header names of several characters, and the words of the dialplan
  applications' transfers.
* The text of a `log/data` message: it is decoded as a plain event, which keeps of
  the text only lines with a colon; nothing is left to relate a property to.
* Percent-decoding of header lines in the framing, logging, tracing and `Debug`.
* The other examples, the mock server and the tests: they add no state of their own
  to what the library keeps; read as documentation of what it promises.
* Reconnecting: left to the application, for which it is a new session.

## Plan

1. Done: `EslConnection`, `EventQueue`, `EslParser`, `CommandService`, with their proofs
   and the refinement.
2. Done: `EslSession` (handshake, hand-over, liveness clock, panic path) and its
   proofs.
3. Done: `EslEvents`, `EslCommands`, `Originate`, `MCWire`.
4. Done: `ChannelTracker` over `CommandService` and a bounded queue, and its proofs.
5. Done: the map of the tracker, the independence of the cuts, the entry on an answer,
   the round trips of events (`TextProofs`) and of originates (`OriginateProofs`), the bytes
   of commands and that different commands are different texts (`TextProofs`).
6. Left: a refinement of `EslConnection` with `EventQueue` composed, where today their
   shared events (the reader's return, the drop of the stream) are in both.
