---------------------------- MODULE EslCommands ----------------------------
(***************************************************************************)
(* Commands as text (src/src/command.rs) and the methods of EslClient that *)
(* make them (src/src/connection.rs): a command is a line, some headers, a *)
(* blank line and perhaps a body, and the server has nothing but the bytes *)
(* to tell where one command ends and the next begins.  The texts of the   *)
(* builders (src/src/commands/, src/src/app/dptools.rs) are fields of      *)
(* commands.                                                               *)
(*                                                                         *)
(* The application builds an event (EslEvents) and sends it, or a command  *)
(* made of its fields.  A command's fields are in the order of the source, *)
(* optional ones last and left out when they are None.                     *)
(***************************************************************************)
EXTENDS EslEvents

CONSTANTS
    Words,     \* what the application puts into the fields of a command
    MaxSent,   \* how many commands it sends
    MaxLength  \* the largest number a text says: no body is longer

\* Different numbers are written differently.
ASSUME CommandAssumption ==
    /\ MaxSent \in Nat /\ MaxLength \in Nat
    /\ \A t \in Words : t \in Seq(Range(t))
    /\ \A b \in Bodies : Len(b) <= MaxLength
    /\ \A j, k \in 0..MaxLength : ToString(j) = ToString(k) => j = k

VARIABLES
    wire, \* the bytes written to the socket
    sent  \* the commands written, in order

commandVars == <<event, stacked, wire, sent>>

NoEvent == [type |-> << >>, headers |-> << >>, body |-> << >>]

Command(kind, fields) == [kind |-> kind, fields |-> fields, event |-> NoEvent]

-----------------------------------------------------------------------------
(***************************************************************************)
(* EslCommand::to_wire_format.                                             *)
(***************************************************************************)

Verb == [
    Auth |-> "auth", UserAuth |-> "userauth", Api |-> "api", BgApi |-> "bgapi",
    Events |-> "event", NixEvent |-> "nixevent", NoEvents |-> "noevents",
    Filter |-> "filter", FilterDelete |-> "filter", MyEvents |-> "myevents",
    DivertEvents |-> "divert_events", GetVar |-> "getvar", Log |-> "log",
    NoLog |-> "nolog", NoOp |-> "noop", Exit |-> "exit", Linger |-> "linger",
    NoLinger |-> "nolinger", Resume |-> "resume", Connect |-> "connect",
    SendMsg |-> "sendmsg", SendEvent |-> "sendevent" ]

\* The name sendevent gives: the type, or the Event-Name header, or CUSTOM.
EventName(e) ==
    IF e.type # << >> THEN e.type
    ELSE IF "Event-Name" \in DOMAIN e.headers THEN e.headers["Event-Name"]
    ELSE <<"CUSTOM">>

\* Mutant of Arguments: filter delete forgets its value.
ArgumentsWithoutValue(c) ==
    CASE c.kind = "UserAuth" -> <<c.fields[1] \o <<":">> \o c.fields[2]>>
      [] c.kind = "MyEvents" -> Reverse(c.fields)
      [] c.kind = "FilterDelete" -> << <<"delete">>, Head(c.fields) >>
      [] c.kind = "SendEvent" -> <<EventName(c.event)>>
      [] OTHER -> c.fields

\* What follows the verb: most often the fields as they are.  The uuid of
\* myevents comes before its format, and a filter on all headers has no value.
Arguments(c) ==
    CASE c.kind = "UserAuth" -> <<c.fields[1] \o <<":">> \o c.fields[2]>>
      [] c.kind = "MyEvents" -> Reverse(c.fields)
      [] c.kind = "FilterDelete" ->
           IF Head(c.fields) = <<"all">> THEN << <<"delete">>, <<"all">> >>
           ELSE << <<"delete">> >> \o c.fields
      [] c.kind = "SendEvent" -> <<EventName(c.event)>>
      [] OTHER -> c.fields

Line(c) == Joined(<< <<Verb[c.kind]>> >> \o Arguments(c), <<" ">>)

\* Mutant of Valid: header values are not validated.
ValidFields(c) == \A i \in DOMAIN c.fields : ~Contains(c.fields[i], "lf")

\* validate_no_newlines, of each field and header.  The names of headers are
\* words here and need it no more.
Valid(c) ==
    /\ \A i \in DOMAIN c.fields : ~Contains(c.fields[i], "lf")
    /\ \A n \in DOMAIN c.event.headers : ~Contains(c.event.headers[n], "lf")

\* format_simple_command and CommandBuilder::build.  The headers come in any
\* order, the computed length after them: an event's own Content-Length is
\* written too.
WireText(c) ==
    LET names == SetToSeq(DOMAIN c.event.headers)
        fields == [i \in 1..Len(names) |-> Field(names[i], c.event.headers[names[i]])]
        body == c.event.body
        length == IF body = << >> THEN << >>
                  ELSE Field("Content-Length", <<ToString(Len(body[1]))>>)
    IN  Line(c) \o <<"lf">> \o FlattenSeq(fields) \o length \o <<"lf">> \o FlattenSeq(body)

-----------------------------------------------------------------------------
(***************************************************************************)
(* The methods of EslClient and the builders, as the commands they make.   *)
(***************************************************************************)

Texts(fields) == Joined(fields, <<" ">>)

\* The uuid_* builders, whose texts are arguments of api (or bgapi).
UuidTexts ==
    {Texts(<< <<v>>, u >>) : v \in {"uuid_answer", "uuid_hold", "uuid_kill"}, u \in Words}
    \cup {Texts(<< <<"uuid_hold">>, <<"off">>, u >>) : u \in Words}
    \cup {Texts(<< <<v>>, u, x >>) :
            v \in {"uuid_bridge", "uuid_deflect", "uuid_kill", "uuid_getvar",
                   "uuid_transfer", "uuid_send_dtmf"}, u \in Words, x \in Words}
    \cup {Texts(<< <<v>>, u, x, y >>) :
            v \in {"uuid_setvar", "uuid_transfer"}, u \in Words, x \in Words, y \in Words}

\* The conference builders; only hold has an optional stream.
ConferenceTexts ==
    {Texts(<< <<"conference">>, name, <<action>>, member >> \o stream) :
        name \in Words, action \in {"hold", "unhold"}, member \in Words, stream \in Options(Words)}
    \cup {Texts(<< <<"conference">>, name, <<action>>, member >>) :
        name \in Words, action \in {"mute", "unmute"}, member \in Words}
    \cup {Texts(<< <<"conference">>, name, <<"dtmf">>, member, dtmf >>) :
        name \in Words, member \in Words, dtmf \in Words}

\* Execute is a SendMsg of an event it makes.
Execute(app, args, uuid) ==
    LET headers == Put(Put(<< >>, "call-command", <<"execute">>), "execute-app-name", app)
    IN  [kind |-> "SendMsg", fields |-> uuid,
         event |-> [NoEvent EXCEPT !.headers =
                      IF args = << >> THEN headers ELSE Put(headers, "execute-app-arg", args[1])]]

\* AppCommand: the arguments of set and transfer are texts of their own.
AppCommands ==
    {Execute(<<app>>, << >>, << >>) : app \in {"answer", "park", "hangup"}}
    \cup {Execute(<<app>>, <<arg>>, << >>) : app \in {"hangup", "playback", "bridge"}, arg \in Words}
    \cup {Execute(<<"set">>, <<n \o <<"=">> \o v>>, << >>) : n \in Words, v \in Words}
    \cup {Execute(<<"transfer">>, <<Joined(<<x>> \o dialplan \o context, <<" ">>)>>, << >>) :
            x \in Words, dialplan \in Options(Words), context \in Options(Words)}

\* event_types_to_string: with All among them the list is ALL.
TypeLists == {<<"ALL">>} \cup {<<t>> : t \in TypeNames}

\* subscribe_events, its raw form and filter_events.
Subscriptions ==
    {Command("Events", << <<format>>, list >>) :
        format \in {"plain", "json", "xml"}, list \in TypeLists \cup Words}
    \cup {Command("Filter", <<header, v>>) : header \in Words, v \in Words}

\* nixevent, its raw form, noevents, filter_delete and filter_delete_all.
Unsubscriptions ==
    {Command("NixEvent", <<list>>) : list \in TypeLists \cup Words}
    \cup {Command("NoEvents", << >>)}
    \cup {Command("FilterDelete", <<header>> \o v) :
            header \in Words \cup {<<"all">>}, v \in Options(Words)}

Executions == {Execute(app, args, uuid) : app \in Words, args \in Options(Words), uuid \in Options(Words)}

\* myevents, linger, nolinger, resume and connect_session.
SessionCommands ==
    {Command("MyEvents", << <<format>> >> \o uuid) : format \in {"plain", "json"}, uuid \in Options(Words)}
    \cup {Command("Linger", timeout) : timeout \in {<< >>, << <<"10">> >>}}
    \cup {Command(kind, << >>) : kind \in {"NoLinger", "Resume", "Connect"}}

\* divert_events, getvar, log, nolog, noop and exit.
ControlCommands ==
    {Command("DivertEvents", << <<arg>> >>) : arg \in {"on", "off"}}
    \cup {Command(kind, <<t>>) : kind \in {"GetVar", "Log"}, t \in Words}
    \cup {Command(kind, << >>) : kind \in {"NoLog", "NoOp", "Exit"}}

\* api and bgapi, of any text and of the builders'.
ApiCommands ==
    {Command(kind, <<t>>) : kind \in {"Api", "BgApi"}, t \in Words}
    \cup {Command("Api", <<t>>) : t \in UuidTexts \cup ConferenceTexts}

\* What authenticate sends.
Credentials ==
    {Command("Auth", <<password>>) : password \in Words}
    \cup {Command("UserAuth", <<user, password>>) : user \in Words, password \in Words}

FieldCommands ==
    Subscriptions \cup Unsubscriptions \cup Executions \cup SessionCommands
    \cup ControlCommands \cup ApiCommands \cup Credentials \cup AppCommands

\* sendmsg and sendevent take the event built so far.
EventCommands ==
    {[kind |-> "SendMsg", fields |-> uuid, event |-> event] : uuid \in Options(Words)}
    \cup {[kind |-> "SendEvent", fields |-> << >>, event |-> event]}

-----------------------------------------------------------------------------
(***************************************************************************)
(* The application.                                                        *)
(***************************************************************************)

\* At most MaxSent commands are written, each of a kind EslCommand has.
CommandTypeOK ==
    /\ Len(sent) <= MaxSent
    /\ \A i \in DOMAIN sent : sent[i].kind \in DOMAIN Verb

CommandInit == EventInit /\ wire = << >> /\ sent = << >>

\* send_command as far as the text goes: what is not valid is an error and
\* writes nothing.
Send(c) ==
    /\ Valid(c)
    /\ wire' = wire \o WireText(c)
    /\ sent' = Append(sent, c)
    /\ UNCHANGED eventVars

Build == EventNext /\ UNCHANGED <<wire, sent>>

SendOne(commands) == Len(sent) < MaxSent /\ \E c \in commands : Send(c)

CommandNext == Build \/ SendOne(FieldCommands \cup EventCommands)

CommandSpec == CommandInit /\ [][CommandNext]_commandVars

-----------------------------------------------------------------------------
(***************************************************************************)
(* Properties.                                                             *)
(***************************************************************************)

\* The number a text says, or 0.
Number(v) ==
    IF \E n \in 0..MaxLength : v = <<ToString(n)>>
      THEN CHOOSE n \in 0..MaxLength : v = <<ToString(n)>>
      ELSE 0

\* What the server takes from the front of the bytes w: the line, headers and
\* body of a command, the body as long as the Content-Length it picks among
\* several says.  What is no whole command is left unread.
Taken(w, Pick(_)) ==
    LET end == BlankLine(w)
        lines == SplitAt(SubSeq(w, 1, end - 1), "lf")
        lengths == {i \in 2..Len(lines) : Head(lines[i]) = "Content-Length"}
        value == SubSeq(lines[Pick(lengths)], 4, Len(lines[Pick(lengths)]))
        size == end + 1 + (IF lengths = {} THEN 0 ELSE Number(value))
    IN  IF end = 0 \/ size > Len(w) THEN [unread |-> w, size |-> Len(w)]
        ELSE [line |-> lines[1],
              headers |-> {lines[i] : i \in (2..Len(lines)) \ lengths},
              body |-> SubSeq(w, end + 2, size),
              size |-> size]

\* One command after the other, to the end of the bytes.
ServerReads(w, Pick(_)) ==
    LET from[i \in 1..(Len(w) + 1)] ==
          LET command == Taken(SubSeq(w, i, Len(w)), Pick)
          IN  IF i > Len(w) THEN << >> ELSE <<command>> \o from[i + command.size]
    IN  from[1]

\* A command's event has a Content-Length of its own, and another body.
Disputed(c) ==
    /\ "Content-Length" \in DOMAIN c.event.headers
    /\ Number(c.event.headers["Content-Length"]) # Len(FlattenSeq(c.event.body))

\* The server finds in the bytes the commands that were sent, each with its
\* line, headers and body, whatever their fields, values and bodies contain
\* and whatever was sent before.  The exception is an event that carries a
\* Content-Length header which is not the length of its body: such an event
\* shifts every command behind it, with a body only for a server that takes
\* the first of two lengths.
OneCommandEach ==
    LET meant == [i \in DOMAIN sent |->
                    LET headers == sent[i].event.headers
                    IN  [line |-> Line(sent[i]),
                         headers |-> {<<n, ":", " ">> \o headers[n] :
                                        n \in DOMAIN headers \ {"Content-Length"}},
                         body |-> FlattenSeq(sent[i].event.body),
                         size |-> Len(WireText(sent[i]))]]
        disputed == {i \in DOMAIN sent : Disputed(sent[i])}
    IN  /\ disputed = {} => ServerReads(wire, Min) = meant
        /\ (\A i \in disputed : sent[i].event.body # << >>) => ServerReads(wire, Max) = meant

\* What the server cannot tell from the text alone: a space in a field that is
\* not the last, a colon in a user's name, a filter on a header named delete,
\* what the library leaves out, and no body with a header that says it is empty.
Ambiguous(c) ==
    \/ /\ c.kind \in {"Events", "Filter", "FilterDelete", "MyEvents"}
       /\ Contains(Head(c.fields), " ")
    \/ c.kind = "UserAuth" /\ Contains(Head(c.fields), ":")
    \/ c.kind = "Filter" /\ Head(c.fields) = <<"delete">>
    \/ c.kind = "FilterDelete" /\ Head(c.fields) = <<"all">> /\ Len(c.fields) > 1
    \/ /\ c.event.body = << >> /\ "Content-Length" \in DOMAIN c.event.headers
       /\ c.event.headers["Content-Length"] = <<ToString(0)>>

\* Different commands are different texts: no method, optional field or order
\* of fields says what another one means, but for the fields above and for an
\* event's type, which only names the event.
CommandsAreDistinct ==
    \A i, j \in DOMAIN sent :
        LET Meaning(c) == [c EXCEPT !.event.type = << >>]
        IN  \/ Meaning(sent[i]) = Meaning(sent[j])
            \/ WireText(sent[i]) # WireText(sent[j])
            \/ Ambiguous(sent[i]) \/ Ambiguous(sent[j])

=============================================================================
