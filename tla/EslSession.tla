----------------------------- MODULE EslSession -----------------------------
(***************************************************************************)
(* The life of one session (src/src/connection.rs): connect or accept, the *)
(* authentication exchange, the hand-over of socket and parser to the      *)
(* reader task, and the clock of its reads until the session ends.         *)
(*                                                                         *)
(* Time is counted in units, Milli of which make a millisecond.  It passes *)
(* only while the client waits, and a timer fires at most Lag units late:  *)
(* what the client does between two waits takes no time.  tokio's timeout  *)
(* polls the read before the timer, so bytes that are there always win.    *)
(*                                                                         *)
(* Commands and the event queue are in EslConnection and EventQueue; here  *)
(* the application keeps its event stream.  The server is external.        *)
(***************************************************************************)
EXTENDS Naturals, Sequences, SequencesExt

CONSTANTS
    Milli,         \* clock units in a millisecond
    ConnectWait,   \* DEFAULT_TIMEOUT_MS, for the TCP connect
    HandshakeWait, \* DEFAULT_TIMEOUT_MS, for each read of the handshake
    ReaderTick,    \* the two seconds of each read of the reader task
    Lag,           \* how late a timer may fire
    Durations,     \* what the application passes to set_liveness_timeout
    ReadSize,      \* SOCKET_BUF_SIZE, in pieces of messages
    MaxBuffer,     \* MAX_BUFFER_SIZE, in pieces
    MaxSilence,    \* bound: where the clocks of the session stop counting
    MaxOnWire,     \* bound: how many pieces the network holds
    MaxSent        \* bound: how many pieces the server sends, beside those by
                   \* which it never ends a message of the handshake

ASSUME SessionAssumption ==
    /\ Milli \in Nat \ {0}
    /\ {ConnectWait, HandshakeWait, ReaderTick} \subseteq Nat \ {0}
    /\ Lag \in Nat
    /\ Durations \subseteq Nat
    /\ {ReadSize, MaxBuffer, MaxOnWire} \subseteq Nat \ {0}
    /\ MaxSilence \in Nat
    /\ MaxSent \in Nat
    /\ \A d \in Durations : d + ReaderTick + Lag < MaxSilence

VARIABLES
    mode,      \* how the session is asked for
    phase,     \* where connect_inner, accept_outbound or the reader task is
    error,     \* the EslError of a connect or accept that failed
    asked,     \* the credentials are written to the socket
    sent,      \* all the server has sent, piece by piece
    wire,      \* what of it the client has not read
    parser,    \* what is read and not parsed
    handled,   \* what was parsed and acted upon
    closed,    \* the server has closed its end
    waited,    \* how long the wait of the moment has lasted
    sinceRecv, \* last_recv.elapsed()
    silence,   \* how long nothing has arrived, since the phase began or after
    threshold, \* liveness_timeout_ms
    wanted,    \* the duration that was asked for
    sinceSet,  \* how long ago it was set
    status,    \* the watch channel of the ConnectionStatus
    eventEnd   \* event_tx is dropped: recv() returns None

silences == <<sinceRecv, silence, sinceSet>>
clocks == <<waited, silences>>
setting == <<threshold, wanted>>
server == <<sent, wire, closed>>
vars == <<mode, phase, error, asked, server, parser, handled, clocks, setting,
          status, eventEnd>>

\* "part" is a piece of a message whose end is still to come; any other name
\* stands for a whole message, or the last piece of one.  "broken" is one the
\* parser rejects; "event" is any that the reader task lets pass and that has
\* no Reply-Text.
Messages == {"authRequest", "accept", "reject", "event", "notice", "broken"}
Pieces == Messages \cup {"part"}

Handshaking == {"awaitRequest", "awaitAnswer"}

Phases == {"start", "connecting", "listening", "sendAuth", "running", "returning",
           "unwinding", "ended", "failed"} \cup Handshaking

Errors == {"none", "Io", "Timeout", "ConnectionClosed", "ProtocolError",
           "AuthenticationFailed", "BufferOverflow"}

\* What the session is asked for with: credentials, credentials with a line feed
\* in them, a user without a domain; or a connection of the server's is awaited.
Modes == {"inbound", "lineFeed", "badUser", "outbound"}

StatusValues == {"none", "Connected", "ServerNotice", "HeartbeatExpired", "IoError",
                 "ConnectionClosed"}

\* The clocks stay within their timers, whichever phase of connect_inner or of
\* the reader task they are in, the parser within its buffer, and every variable has
\* its type.
TypeOK ==
    /\ mode \in Modes
    /\ phase \in Phases
    /\ error \in Errors
    /\ {asked, closed, eventEnd} \subseteq BOOLEAN
    /\ {sent, wire, parser, handled} \subseteq Seq(Pieces)
    /\ Len(wire) <= MaxOnWire /\ Len(parser) <= MaxBuffer
    /\ waited \in 0..(IF phase = "running" THEN ReaderTick
                      ELSE IF phase = "connecting" THEN ConnectWait
                      ELSE HandshakeWait) + Lag
    /\ {sinceRecv, silence, sinceSet} \subseteq 0..MaxSilence
    /\ wanted \in Durations \cup {0}
    /\ threshold \in Nat
    /\ status \in StatusValues

Init ==
    /\ mode \in Modes
    /\ phase = "start"
    /\ error = "none"
    /\ asked = FALSE
    /\ sent = << >> /\ wire = << >> /\ parser = << >> /\ handled = << >>
    /\ closed = FALSE
    /\ waited = 0 /\ sinceRecv = 0 /\ silence = 0 /\ sinceSet = 0
    /\ threshold = 0 /\ wanted = 0
    /\ status = "none"
    /\ eventEnd = FALSE

-----------------------------------------------------------------------------
(***************************************************************************)
(* connect_inner and accept_outbound.                                      *)
(***************************************************************************)

\* Nobody looks at a clock any more.
ClocksStop == waited' = 0 /\ sinceRecv' = 0 /\ silence' = 0 /\ sinceSet' = 0

\* connect or accept returns an error; socket and parser are dropped.
FailWith(e) ==
    /\ phase' = "failed"
    /\ error' = e
    /\ ClocksStop

\* A wait begins.
Await(p) == phase' = p /\ waited' = 0

sessionVars == <<sinceRecv, silence, sinceSet, setting, status, eventEnd>>

RefuseUser ==
    /\ phase = "start"
    /\ mode = "badUser"
    /\ FailWith("AuthenticationFailed")
    /\ UNCHANGED <<mode, asked, server, parser, handled, setting, status, eventEnd>>

Begin ==
    /\ phase = "start"
    /\ mode # "badUser"
    /\ Await(IF mode = "outbound" THEN "listening" ELSE "connecting")
    /\ UNCHANGED <<mode, error, asked, server, parser, handled, sessionVars>>

Connect ==
    /\ phase = "connecting"
    /\ Await("awaitRequest")
    /\ silence' = 0
    /\ UNCHANGED <<mode, error, asked, server, parser, handled, sinceRecv, sinceSet,
                   setting, status, eventEnd>>

\* The connect or the accept is refused by the system.
NoConnection ==
    /\ phase \in {"connecting", "listening"}
    /\ FailWith("Io")
    /\ UNCHANGED <<mode, asked, server, parser, handled, setting, status, eventEnd>>

ConnectTimeout ==
    /\ phase = "connecting"
    /\ waited >= ConnectWait
    /\ FailWith("Timeout")
    /\ UNCHANGED <<mode, asked, server, parser, handled, setting, status, eventEnd>>

\* Mutant of SpawnReader: the reader task starts with a parser of its own.
SpawnReaderNewParser(rest) ==
    /\ Await("running")
    /\ parser' = << >>
    /\ sinceRecv' = 0 /\ silence' = 0 /\ sinceSet' = 0
    /\ threshold' = 0 /\ wanted' = 0
    /\ status' = "Connected"
    /\ eventEnd' = FALSE

\* split_and_spawn_with_options: rest is what is in the parser.
SpawnReader(rest) ==
    /\ Await("running")
    /\ parser' = rest
    /\ sinceRecv' = 0 /\ silence' = 0 /\ sinceSet' = 0
    /\ threshold' = 0 /\ wanted' = 0
    /\ status' = "Connected"
    /\ eventEnd' = FALSE

\* accept_outbound: whoever connects is served, without authentication.
Accept ==
    /\ phase = "listening"
    /\ SpawnReader(<< >>)
    /\ UNCHANGED <<mode, error, asked, server, handled>>

-----------------------------------------------------------------------------
(***************************************************************************)
(* The parse and read loop that recv_message and the reader task share.    *)
(***************************************************************************)

Reading == phase \in Handshaking \cup {"running"}

Ends(s) == {i \in 1..Len(s) : s[i] # "part"}
HasMessage == Ends(parser) # {}

\* parse_message: the next whole message m leaves the parser.
Parsed(m) ==
    /\ Reading
    /\ HasMessage
    /\ parser[Min(Ends(parser))] = m
    /\ handled' = handled \o SubSeq(parser, 1, Min(Ends(parser)))

Rest == SubSeq(parser, Min(Ends(parser)) + 1, Len(parser))

\* The parser has no whole message: the client waits in read().
InRead == Reading /\ ~HasMessage

\* How much a read may return: some or all of what has arrived.
Readable == {n \in 1..ReadSize : n <= Len(wire)}

\* check_size_limits, after n more are in the buffer.
Fits(n) == Len(parser) + n <= MaxBuffer

\* Mutant of Receive: last_recv is not renewed.
ReceiveKeepsClock ==
    /\ InRead
    /\ \E n \in Readable :
           /\ Fits(n)
           /\ parser' = parser \o SubSeq(wire, 1, n)
           /\ wire' = SubSeq(wire, n + 1, Len(wire))
    /\ waited' = 0
    /\ UNCHANGED <<mode, phase, error, asked, sent, closed, handled, sinceRecv, silence,
                   sinceSet, setting, status, eventEnd>>

\* A read returns bytes, and the buffer takes them.
Receive ==
    /\ InRead
    /\ \E n \in Readable :
           /\ Fits(n)
           /\ parser' = parser \o SubSeq(wire, 1, n)
           /\ wire' = SubSeq(wire, n + 1, Len(wire))
    /\ waited' = 0
    /\ sinceRecv' = 0
    /\ UNCHANGED <<mode, phase, error, asked, sent, closed, handled, silence,
                   sinceSet, setting, status, eventEnd>>

\* A read returns more than the buffer may hold: add_data fails.
Overflows == InRead /\ \E n \in Readable : ~Fits(n)

\* Nothing to read and the end is not reached.
Idle == InRead /\ wire = << >> /\ ~closed

-----------------------------------------------------------------------------
(***************************************************************************)
(* authenticate.                                                           *)
(***************************************************************************)

\* Mutant of TakeRequest: any first message is taken for the request.
TakeRequestAny ==
    /\ phase = "awaitRequest"
    /\ \E m \in Messages \ {"broken"} : Parsed(m)
    /\ parser' = Rest
    /\ phase' = "sendAuth"
    /\ waited' = 0
    /\ UNCHANGED <<mode, error, asked, server, silences, setting, status, eventEnd>>

TakeRequest ==
    /\ phase = "awaitRequest"
    /\ Parsed("authRequest")
    /\ parser' = Rest
    /\ phase' = "sendAuth"
    /\ waited' = 0
    /\ UNCHANGED <<mode, error, asked, server, silences, setting, status, eventEnd>>

NotARequest ==
    /\ phase = "awaitRequest"
    /\ \E m \in Messages \ {"authRequest"} : Parsed(m)
    /\ parser' = Rest
    /\ FailWith("ProtocolError")
    /\ UNCHANGED <<mode, asked, server, setting, status, eventEnd>>

\* to_wire_format refuses a line feed, once the request is read.
CredentialsRefused ==
    /\ phase = "sendAuth"
    /\ mode = "lineFeed"
    /\ FailWith("ProtocolError")
    /\ UNCHANGED <<mode, asked, server, parser, handled, setting, status, eventEnd>>

\* write_all: no timer runs while the server does not read.
WriteAuth ==
    /\ phase = "sendAuth"
    /\ mode # "lineFeed"
    /\ ~closed
    /\ asked' = TRUE
    /\ Await("awaitAnswer")
    /\ silence' = 0
    /\ UNCHANGED <<mode, error, server, parser, handled, sinceRecv, sinceSet, setting,
                   status, eventEnd>>

WriteAuthFails ==
    /\ phase = "sendAuth"
    /\ mode # "lineFeed"
    /\ closed
    /\ FailWith("Io")
    /\ UNCHANGED <<mode, asked, server, parser, handled, setting, status, eventEnd>>

\* The next message is the answer, whatever it is: without a Reply-Text it
\* counts as a success.
TakeAnswer ==
    /\ phase = "awaitAnswer"
    /\ \E m \in Messages \ {"reject", "broken"} : Parsed(m)
    /\ SpawnReader(Rest)
    /\ UNCHANGED <<mode, error, asked, server>>

Rejected ==
    /\ phase = "awaitAnswer"
    /\ Parsed("reject")
    /\ parser' = Rest
    /\ FailWith("AuthenticationFailed")
    /\ UNCHANGED <<mode, asked, server, setting, status, eventEnd>>

BrokenAnswer ==
    /\ phase = "awaitAnswer"
    /\ Parsed("broken")
    /\ parser' = Rest
    /\ FailWith("ProtocolError")
    /\ UNCHANGED <<mode, asked, server, setting, status, eventEnd>>

\* Mutant of HandshakeTimeout: the read is tried again.
HandshakeTimeoutRetries ==
    /\ Idle
    /\ phase \in Handshaking
    /\ waited >= HandshakeWait
    /\ waited' = 0
    /\ UNCHANGED <<mode, phase, error, asked, server, parser, handled, sessionVars>>

\* Each read of the handshake has its own two seconds.
HandshakeTimeout ==
    /\ Idle
    /\ phase \in Handshaking
    /\ waited >= HandshakeWait
    /\ FailWith("Timeout")
    /\ UNCHANGED <<mode, asked, server, parser, handled, setting, status, eventEnd>>

\* Mutant of HandshakeLost: a read of zero bytes is read on.
HandshakeLostReadsOn ==
    /\ InRead
    /\ phase \in Handshaking
    /\ closed
    /\ \/ wire = << >> /\ waited' = 0 /\ UNCHANGED <<phase, error, sinceRecv, silence, sinceSet>>
       \/ wire # << >> /\ FailWith("Io")
    /\ UNCHANGED <<mode, asked, server, parser, handled, setting, status, eventEnd>>

\* read() returns zero bytes, or an error once the peer is gone.
HandshakeLost ==
    /\ InRead
    /\ phase \in Handshaking
    /\ closed
    /\ \/ wire = << >> /\ FailWith("ConnectionClosed")
       \/ FailWith("Io")
    /\ UNCHANGED <<mode, asked, server, parser, handled, setting, status, eventEnd>>

HandshakeOverflow ==
    /\ Overflows
    /\ phase \in Handshaking
    /\ FailWith("BufferOverflow")
    /\ UNCHANGED <<mode, asked, server, parser, handled, setting, status, eventEnd>>

-----------------------------------------------------------------------------
(***************************************************************************)
(* reader_loop and reader_loop_inner.                                      *)
(***************************************************************************)

\* The reader task sends its reason, then returns.
EndWith(reason) ==
    /\ status' = reason
    /\ phase' = "returning"
    /\ ClocksStop

\* Replies, events and what is ignored: the loop goes on.
ReadPlain ==
    /\ phase = "running"
    /\ \E m \in Messages \ {"notice", "broken"} : Parsed(m)
    /\ parser' = Rest
    /\ UNCHANGED <<mode, phase, error, asked, server, clocks, setting, status, eventEnd>>

ReadNotice ==
    /\ phase = "running"
    /\ Parsed("notice")
    /\ parser' = Rest
    /\ EndWith("ServerNotice")
    /\ UNCHANGED <<mode, error, asked, server, setting, eventEnd>>

ReadBroken ==
    /\ phase = "running"
    /\ Parsed("broken")
    /\ parser' = Rest
    /\ EndWith("IoError")
    /\ UNCHANGED <<mode, error, asked, server, setting, eventEnd>>

\* Mutant of ReadLost: the end of file is not announced.
ReadLostSilent ==
    /\ InRead
    /\ phase = "running"
    /\ closed
    /\ \/ wire = << >> /\ phase' = "returning" /\ ClocksStop /\ UNCHANGED status
       \/ EndWith("IoError")
    /\ UNCHANGED <<mode, error, asked, server, parser, handled, setting, eventEnd>>

ReadLost ==
    /\ InRead
    /\ phase = "running"
    /\ closed
    /\ \/ wire = << >> /\ EndWith("ConnectionClosed")
       \/ EndWith("IoError")
    /\ UNCHANGED <<mode, error, asked, server, parser, handled, setting, eventEnd>>

ReadOverflow ==
    /\ Overflows
    /\ phase = "running"
    /\ EndWith("IoError")
    /\ UNCHANGED <<mode, error, asked, server, parser, handled, setting, eventEnd>>

\* The read times out.
TickDue == Idle /\ phase = "running" /\ waited >= ReaderTick

Expired == threshold > 0 /\ sinceRecv > threshold * Milli

\* Mutant of TickPasses: the timeout of a read counts as traffic.
TickPassesRenews ==
    /\ TickDue
    /\ ~Expired
    /\ waited' = 0
    /\ sinceRecv' = 0
    /\ UNCHANGED <<mode, phase, error, asked, server, parser, handled, silence,
                   sinceSet, setting, status, eventEnd>>

TickPasses ==
    /\ TickDue
    /\ ~Expired
    /\ waited' = 0
    /\ UNCHANGED <<mode, phase, error, asked, server, parser, handled, sessionVars>>

TickExpires ==
    /\ TickDue
    /\ Expired
    /\ EndWith("HeartbeatExpired")
    /\ UNCHANGED <<mode, error, asked, server, parser, handled, setting, eventEnd>>

\* The task ends: its senders are dropped.
ReaderReturn ==
    /\ phase = "returning"
    /\ phase' = "ended"
    /\ eventEnd' = TRUE
    /\ UNCHANGED <<mode, error, asked, server, parser, handled, clocks, setting, status>>

\* A panic while a message is parsed or handled: the unwinding drops what
\* reader_loop_inner owns, event_tx among it.
Panic ==
    /\ phase = "running"
    /\ HasMessage
    /\ phase' = "unwinding"
    /\ ClocksStop
    /\ eventEnd' = TRUE
    /\ UNCHANGED <<mode, error, asked, server, parser, handled, setting, status>>

\* Mutant of ReportPanic: the panic is caught and logged.
ReportPanicLogs ==
    /\ phase = "unwinding"
    /\ phase' = "ended"
    /\ UNCHANGED <<mode, error, asked, server, parser, handled, clocks, setting,
                   status, eventEnd>>

\* catch_unwind: reader_loop says so.
ReportPanic ==
    /\ phase = "unwinding"
    /\ phase' = "ended"
    /\ status' = "IoError"
    /\ UNCHANGED <<mode, error, asked, server, parser, handled, clocks, setting, eventEnd>>

\* set_liveness_timeout: a whole number of milliseconds is stored.  Once the
\* reader task has ended nothing reads it.
SetLiveness ==
    /\ phase = "running"
    /\ \E d \in Durations :
           /\ wanted' = d
           /\ threshold' = d \div Milli
    /\ sinceSet' = 0
    /\ UNCHANGED <<mode, phase, error, asked, server, parser, handled, waited, sinceRecv,
                   silence, status, eventEnd>>

-----------------------------------------------------------------------------
(***************************************************************************)
(* The server and time.                                                    *)
(***************************************************************************)

Linked == phase \in Handshaking \cup {"sendAuth", "running"}

\* The server answers credentials it has been sent, once; otherwise it sends
\* what it likes, in whatever pieces, as fast or as slowly as it likes.
ServerSend ==
    /\ Linked
    /\ ~closed
    /\ Len(wire) < MaxOnWire
    /\ \E p \in Pieces :
           /\ Len(sent) < MaxSent \/ (p = "part" /\ phase # "running")
           /\ p \in {"accept", "reject"} =>
                  asked /\ ~Contains(sent, "accept") /\ ~Contains(sent, "reject")
           /\ sent' = Append(sent, p)
           /\ wire' = Append(wire, p)
    /\ silence' = 0
    /\ UNCHANGED <<mode, phase, error, asked, closed, parser, handled, waited, sinceRecv,
                   sinceSet, setting, status, eventEnd>>

ServerClose ==
    /\ Linked
    /\ ~closed
    /\ closed' = TRUE
    /\ UNCHANGED <<mode, phase, error, asked, sent, wire, parser, handled, clocks, setting,
                   status, eventEnd>>

\* Mutant of Patience: the handshake reads with the reader task's timer.
PatienceOfReader == IF phase = "connecting" THEN ConnectWait ELSE ReaderTick

\* The timer of the wait of the moment.
Patience == CASE phase = "connecting" -> ConnectWait
              [] phase = "running" -> ReaderTick
              [] OTHER -> HandshakeWait

Later(c) == IF c < MaxSilence THEN c + 1 ELSE c

Pass ==
    /\ Idle \/ phase = "connecting"
    /\ waited < Patience + Lag
    /\ waited' = waited + 1
    /\ silence' = Later(silence)
    /\ IF phase = "running"
         THEN sinceRecv' = Later(sinceRecv) /\ sinceSet' = Later(sinceSet)
         ELSE UNCHANGED <<sinceRecv, sinceSet>>
    /\ UNCHANGED <<mode, phase, error, asked, server, parser, handled, setting, status, eventEnd>>

-----------------------------------------------------------------------------

Handshake ==
    \/ TakeRequest \/ NotARequest \/ TakeAnswer \/ Rejected \/ BrokenAnswer
    \/ HandshakeTimeout \/ HandshakeLost \/ HandshakeOverflow
    \/ CredentialsRefused \/ WriteAuthFails

Reader ==
    \/ ReadPlain \/ ReadNotice \/ ReadBroken \/ ReadLost \/ ReadOverflow
    \/ TickPasses \/ TickExpires \/ ReaderReturn \/ ReportPanic

Client == RefuseUser \/ Begin \/ ConnectTimeout \/ Receive \/ Handshake \/ Reader

Environment ==
    \/ Connect \/ NoConnection \/ Accept \/ WriteAuth \/ Panic \/ SetLiveness
    \/ ServerSend \/ ServerClose

Next == Client \/ Environment \/ Pass

Spec == Init /\ [][Next]_vars

\* The runtime polls a task that can go on, and time goes by.  Of the server, the
\* network and the application nothing is assumed: the server may answer, trickle
\* bytes, fall silent or stop reading, and a write that waits for it (WriteAuth)
\* need never be done.
FairSpec == Spec /\ WF_vars(Client) /\ WF_vars(Pass)

-----------------------------------------------------------------------------
(***************************************************************************)
(* Properties.                                                             *)
(***************************************************************************)

\* The reader task reports HeartbeatExpired only after a silence longer than
\* the whole milliseconds of the timeout that is set, wherever in its tick the
\* traffic stopped and however often the timeout was changed.
NoFalseAlarm ==
    [][status' = "HeartbeatExpired" /\ status # "HeartbeatExpired"
         => wanted >= Milli /\ silence + Milli > wanted]_vars

\* A peer that has fallen silent is given up at the latest one tick after the
\* timeout has run out, or after it was set if that was later.  A timeout of
\* less than a millisecond is stored as zero and never gives up.
DetectedInTime ==
    phase = "running" /\ wanted >= Milli =>
        \/ silence <= wanted + ReaderTick + Lag
        \/ sinceSet <= ReaderTick + Lag

\* Whatever the server sent is acted upon once and in order, by the handshake or
\* by the reader task: what came in the same read as the answer to the
\* authentication is not lost when the parser changes hands.
NothingLostAtHandOver == handled \o parser \o wire = sent

\* A connect that succeeds has sent its credentials, on request, and the next
\* message was no rejection.  It need not be an acceptance: an event or a notice
\* that comes before the answer is taken for it, and the answer is left to the
\* reader task.
EnteredOnAnswer ==
    mode = "inbound" /\ status # "none" =>
        /\ asked
        /\ \E first, second \in Ends(handled) :
               /\ first < second
               /\ \A other \in Ends(handled) \ {first} : second <= other
               /\ handled[first] = "authRequest"
               /\ handled[second] \notin {"reject", "broken"}

\* An application that sees its event stream end reads a Disconnected status,
\* except between the unwinding of a panic and its report.
NoneMeansDisconnected ==
    eventEnd => status \notin {"none", "Connected"} \/ phase = "unwinding"

\* The end of the event stream is always followed by a reason.
EndIsAnnounced == eventEnd ~> status # "Connected"

\* connect() does not stay for ever in the TCP connect or in the reads of the
\* handshake.  No timeout covers them as a whole, each read has its own, and a
\* server may feed every one of them: what ends it then is the limit of the
\* buffer, which bytes that never make a message fill.  How long that takes is not
\* bounded here.  The write of the credentials between the two messages
\* (phase "sendAuth") is left out: it has no timer, and a server that does not
\* read holds it for ever.
HandshakeReturns == []<>(phase \notin Handshaking \cup {"connecting"})

\* When the server closes the connection, connect() fails or the session ends.
LossIsNoticed == closed ~> phase \in {"failed", "ended"}

=============================================================================
