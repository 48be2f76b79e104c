------------------------------ MODULE EslParser ------------------------------
(***************************************************************************)
(* The ESL framing: EslBuffer and EslParser (src/src/buffer.rs,            *)
(* src/src/protocol.rs) inside the loop that feeds them, which             *)
(* recv_message and reader_loop_inner share (src/src/connection.rs):       *)
(* parse until the parser wants more, then read the socket once.           *)
(*                                                                         *)
(* The server's bytes arrive in pieces of any size, cut anywhere: inside   *)
(* the blank line that ends the headers, inside a body that itself holds   *)
(* blank lines or looks like a message, or behind a message already        *)
(* complete.  What the parser delivers may depend on the bytes only.       *)
(*                                                                         *)
(* A symbol stands for a line feed, for a whole header line without its    *)
(* line feed, or for a piece of text that is no header line.               *)
(***************************************************************************)
EXTENDS Naturals, Sequences, SequencesExt

CONSTANTS
    Streams,    \* what the server may send over the life of a connection
    ReadSize,   \* SOCKET_BUF_SIZE
    MaxMessage, \* MAX_MESSAGE_SIZE
    MaxBuffer   \* MAX_BUFFER_SIZE

\* "type" and "length" are the Content-Type and Content-Length lines with their
\* values, "number" a Content-Length that is no number, "header" any other
\* line with a colon, "text" one without, and "raw" is not UTF-8.
Symbol == [kind : {"lf", "type", "length", "number", "header", "text", "raw"}, n : Nat]

\* The limits leave room for an unfinished message and one more read.
ASSUME ParserAssumption ==
    /\ Streams \subseteq Seq(Symbol)
    /\ ReadSize \in Nat \ {0}
    /\ MaxMessage \in Nat
    /\ MaxBuffer \in Nat
    /\ MaxMessage + ReadSize <= MaxBuffer

VARIABLES
    stream,    \* what the server sends in this behaviour
    fed,       \* how much of it has been read from the socket
    buffer,    \* EslBuffer: the bytes read and not consumed
    state,     \* ParseState: the message whose body is awaited, or NoMessage
    delivered, \* the messages parse_message has returned
    error,     \* the EslError that ended the loop
    phase      \* the loop: "parse", about to "read", or "stopped"

vars == <<stream, fed, buffer, state, delivered, error, phase>>

\* WaitingForHeaders.
NoMessage == [type |-> 0, length |-> 0]

\* A message without a body has an empty one here.
Message == [type : Nat, body : Seq(Symbol)]

Errors == {"none", "ProtocolError", "InvalidHeader", "BufferOverflow", "ConnectionClosed"}

TypeOK ==
    /\ stream \in Seq(Symbol)
    /\ fed \in 0..Len(stream)
    /\ buffer \in Seq(Symbol)
    /\ state \in [type : Nat, length : 0..MaxMessage]
    /\ delivered \in Seq(Message)
    /\ error \in Errors
    /\ phase \in {"parse", "read", "stopped"}
    /\ phase # "stopped" => Len(buffer) <= MaxBuffer

-----------------------------------------------------------------------------
(***************************************************************************)
(* What a header block, the symbols before the first blank line, means.    *)
(***************************************************************************)

BlankLines(s) == {i \in 1..(Len(s) - 1) : s[i].kind = "lf" /\ s[i + 1].kind = "lf"}

\* find_pattern: where the first blank line begins, or 0.
Terminator(s) == IF BlankLines(s) = {} THEN 0 ELSE Min(BlankLines(s))

HeaderText(s) == SubSeq(s, 1, Terminator(s) - 1)

\* Where the lines of some kinds are.
Lines(block, kinds) == {i \in 1..Len(block) : block[i].kind \in kinds}

\* parse_headers fills a map: a repeated header has its last value.
Types(block) == Lines(block, {"type"})
Lengths(block) == Lines(block, {"length", "number"})

MessageType(block) == block[Max(Types(block))].n

BodyLength(block) == IF Lengths(block) = {} THEN 0 ELSE block[Max(Lengths(block))].n

\* Mutant of HeaderError: Content-Length has no limit.
HeaderErrorUnlimited(block) ==
    IF Lines(block, {"raw"}) # {} THEN "ProtocolError"
    ELSE IF Lines(block, {"text"}) # {} THEN "InvalidHeader"
    ELSE IF Types(block) = {} THEN "ProtocolError"
    ELSE IF Lengths(block) # {} /\ block[Max(Lengths(block))].kind = "number"
      THEN "InvalidHeader"
    ELSE "none"

\* The checks of parse_message, in its order.
HeaderError(block) ==
    IF Lines(block, {"raw"}) # {} THEN "ProtocolError"
    ELSE IF Lines(block, {"text"}) # {} THEN "InvalidHeader"
    ELSE IF Types(block) = {} THEN "ProtocolError"
    ELSE IF Lengths(block) # {} /\ block[Max(Lengths(block))].kind = "number"
      THEN "InvalidHeader"
    ELSE IF BodyLength(block) \notin 0..MaxMessage THEN "ProtocolError"
    ELSE "none"

-----------------------------------------------------------------------------

Init ==
    /\ stream \in Streams
    /\ fed = 0
    /\ buffer = << >>
    /\ state = NoMessage
    /\ delivered = << >>
    /\ error = "none"
    /\ phase = "parse"

Fail(e) == error' = e /\ phase' = "stopped"

Deliver(type, body) ==
    /\ delivered' = Append(delivered, [type |-> type, body |-> body])
    /\ state' = NoMessage

\* extract_until_pattern and compact: the block and its blank line go.
HeaderBlock == HeaderText(buffer)

\* Mutant of AfterHeaders: the second line feed of the blank line stays.
AfterHeadersLeavesNewline == SubSeq(buffer, Terminator(buffer) + 1, Len(buffer))

AfterHeaders == SubSeq(buffer, Terminator(buffer) + 2, Len(buffer))

\* parse_message in WaitingForHeaders has a header block in the buffer.
ParseReady == phase = "parse" /\ state = NoMessage /\ Terminator(buffer) # 0

RejectHeaders ==
    /\ ParseReady
    /\ HeaderError(HeaderBlock) # "none"
    /\ buffer' = AfterHeaders
    /\ Fail(HeaderError(HeaderBlock))
    /\ UNCHANGED <<stream, fed, state, delivered>>

\* No Content-Length, or zero: the message is complete.
ParseBare ==
    /\ ParseReady
    /\ HeaderError(HeaderBlock) = "none"
    /\ BodyLength(HeaderBlock) = 0
    /\ buffer' = AfterHeaders
    /\ Deliver(MessageType(HeaderBlock), << >>)
    /\ UNCHANGED <<stream, fed, error, phase>>

\* Mutant of ParseHeaders: the body is not looked for in what is there.
ParseHeadersThenRead ==
    /\ ParseReady
    /\ HeaderError(HeaderBlock) = "none"
    /\ BodyLength(HeaderBlock) > 0
    /\ buffer' = AfterHeaders
    /\ state' = [type |-> MessageType(HeaderBlock), length |-> BodyLength(HeaderBlock)]
    /\ phase' = "read"
    /\ UNCHANGED <<stream, fed, delivered, error>>

\* WaitingForBody; parse_message calls itself to try the body at once.
ParseHeaders ==
    /\ ParseReady
    /\ HeaderError(HeaderBlock) = "none"
    /\ BodyLength(HeaderBlock) > 0
    /\ buffer' = AfterHeaders
    /\ state' = [type |-> MessageType(HeaderBlock), length |-> BodyLength(HeaderBlock)]
    /\ UNCHANGED <<stream, fed, delivered, error, phase>>

\* extract_bytes has the whole body: deliver it if it is UTF-8.
ParseBody ==
    /\ phase = "parse"
    /\ state # NoMessage
    /\ Len(buffer) >= state.length
    /\ buffer' = SubSeq(buffer, state.length + 1, Len(buffer))
    /\ LET body == SubSeq(buffer, 1, state.length)
       IN  IF Lines(body, {"raw"}) = {}
             THEN Deliver(state.type, body) /\ UNCHANGED <<error, phase>>
             ELSE Fail("ProtocolError") /\ UNCHANGED <<state, delivered>>
    /\ UNCHANGED <<stream, fed>>

\* parse_message returns Ok(None).
NeedMore ==
    /\ phase = "parse"
    /\ IF state = NoMessage THEN Terminator(buffer) = 0 ELSE Len(buffer) < state.length
    /\ phase' = "read"
    /\ UNCHANGED <<stream, fed, buffer, state, delivered, error>>

\* Mutant of AddData: check_size_limits is not called.
AddDataUnchecked(n) ==
    /\ buffer' = buffer \o SubSeq(stream, fed + 1, fed + n)
    /\ phase' = "parse"
    /\ UNCHANGED error

\* add_data: the bytes go in before the limit is checked.
AddData(n) ==
    /\ buffer' = buffer \o SubSeq(stream, fed + 1, fed + n)
    /\ IF Len(buffer') > MaxBuffer
         THEN Fail("BufferOverflow")
         ELSE phase' = "parse" /\ UNCHANGED error

\* A read returns some of what the server has sent.
Read ==
    /\ phase = "read"
    /\ \E n \in 1..ReadSize :
           /\ fed + n <= Len(stream)
           /\ fed' = fed + n
           /\ AddData(n)
    /\ UNCHANGED <<stream, state, delivered>>

\* A read returns nothing: the connection ended, after any byte.
ReadEof ==
    /\ phase = "read"
    /\ Fail("ConnectionClosed")
    /\ UNCHANGED <<stream, fed, buffer, state, delivered>>

Next == RejectHeaders \/ ParseBare \/ ParseHeaders \/ ParseBody \/ NeedMore \/ Read \/ ReadEof

Spec == Init /\ [][Next]_vars

-----------------------------------------------------------------------------
(***************************************************************************)
(* Properties.                                                             *)
(***************************************************************************)

\* What the message at the front of text s consists of.
BodyAt(s) == Terminator(s) + 2
Behind(s) == BodyAt(s) + BodyLength(HeaderText(s))
Body(s) == SubSeq(s, BodyAt(s), Behind(s) - 1)
FirstMessage(s) == [type |-> MessageType(HeaderText(s)), body |-> Body(s)]

Complete(s) ==
    Terminator(s) # 0 /\ HeaderError(HeaderText(s)) = "none" /\ Behind(s) <= Len(s) + 1

\* What is wrong with it, as soon as that can be told.
FirstError(s) ==
    IF Terminator(s) # 0 /\ HeaderError(HeaderText(s)) # "none" THEN HeaderError(HeaderText(s))
    ELSE IF Complete(s) /\ Lines(Body(s), {"raw"}) # {} THEN "ProtocolError"
    ELSE "none"

Prepend(messages, reading) ==
    [messages |-> messages \o reading.messages, error |-> reading.error]

\* The protocol's own reading of a whole text s: the messages it holds, and the
\* error that ends them, if any.
Decode[s \in Seq(Symbol)] ==
    IF Complete(s) /\ FirstError(s) = "none"
      THEN Prepend(<<FirstMessage(s)>>, Decode[SubSeq(s, Behind(s), Len(s))])
      ELSE [messages |-> << >>, error |-> FirstError(s)]

\* Whenever the loop is about to read the socket, and when it stops, the
\* application has every message contained in the bytes read so far, and an
\* error exactly when these bytes hold one: how the bytes were cut into reads
\* makes no difference, and no complete message waits in the buffer for more
\* traffic or is lost with the connection.
CutsMakeNoDifference ==
    LET read == Decode[SubSeq(stream, 1, fed)]
    IN  /\ phase = "read" => read = [messages |-> delivered, error |-> "none"]
        /\ phase = "stopped" /\ error # "BufferOverflow" =>
             /\ delivered = read.messages
             /\ read.error = (IF error = "ConnectionClosed" THEN "none" ELSE error)

\* The buffer limit is hit only by a header block without an end: a body whose
\* Content-Length was accepted always fits, however it arrives.
OnlyHeadersOverflow == error = "BufferOverflow" => state = NoMessage

=============================================================================
