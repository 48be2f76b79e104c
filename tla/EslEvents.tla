----------------------------- MODULE EslEvents -----------------------------
(***************************************************************************)
(* Events as values (src/src/event.rs): headers, some of which are stacks  *)
(* in EslArray's format (src/src/variables/esl_array.rs), a body, and a    *)
(* type kept beside the headers; their plain text and the parser that      *)
(* reads it back (src/src/protocol.rs).                                    *)
(*                                                                         *)
(* A text is a sequence of tokens: a space, a line feed "lf", the marks of *)
(* the formats, and words.  A header's name is one token.  An option is a  *)
(* sequence of no or one element.                                          *)
(***************************************************************************)
EXTENDS Naturals, Sequences, SequencesExt, TLC

CONSTANTS
    Names,     \* header names
    Values,    \* header values
    Bodies,    \* bodies
    TypeNames  \* the names of event types the library knows

\* Tokens that percent_encode escapes, the marks of the formats among them.
Escaped == {" ", "lf", ":", "|:", "ARRAY::", ",", "=", "'"}

Percent(t) == "%" \o t

BodyLengths == {ToString(Len(b)) : b \in Bodies}

\* The tokens headers are made of, and their values.
Tokens == Escaped \cup BodyLengths \cup UNION {Range(v) : v \in Values}

Phrases == Seq(Tokens)

HeaderNames == Names \cup {"Content-Length"}

\* A name, a known type or a length is a word.  No token is the escape of another,
\* and what an escape stands for can be told from it.
ASSUME EventAssumption ==
    /\ Escaped \cap (Names \cup TypeNames \cup BodyLengths) = {}
    /\ \A t \in Values \cup Bodies : t \in Seq(Range(t))
    /\ \A t \in Escaped : Percent(t) \notin Tokens
    /\ \A s, t \in Escaped : Percent(s) = Percent(t) => s = t

VARIABLES
    event,  \* an EslEvent the application builds
    stacked \* the values put into each header since it was last set, in order

eventVars == <<event, stacked>>

Options(S) == {<< >>} \cup {<<x>> : x \in S}

Put(f, name, v) == [n \in DOMAIN f \cup {name} |-> IF n = name THEN v ELSE f[n]]

Without(f, name) == [n \in DOMAIN f \ {name} |-> f[n]]

-----------------------------------------------------------------------------
(***************************************************************************)
(* EslArray.                                                               *)
(***************************************************************************)

\* str::split: the pieces of s between the separators, one more than these.
SplitAt(s, sep) ==
    FoldLeft(LAMBDA done, t : IF t = sep THEN Append(done, << >>)
                              ELSE [done EXCEPT ![Len(done)] = Append(@, t)],
             << << >> >>, s)

Joined(items, sep) ==
    FoldLeft(LAMBDA text, item : text \o sep \o item, Head(items), Tail(items))

IsArray(v) == v # << >> /\ Head(v) = "ARRAY::"

\* EslArray::parse, or the plain value as an array of one.
Items(v) == IF IsArray(v) THEN SplitAt(Tail(v), "|:") ELSE <<v>>

\* Display of EslArray.
ArrayText(items) == <<"ARRAY::">> \o Joined(items, <<"|:">>)

-----------------------------------------------------------------------------
(***************************************************************************)
(* to_plain_format and parse_plain_event.                                  *)
(***************************************************************************)

\* percent_encode: what is no letter or digit is escaped.
Encode(v) == [i \in 1..Len(v) |-> IF v[i] \in Escaped THEN Percent(v[i]) ELSE v[i]]

\* percent_decode_str, of a token and of a text.
Unescaped(x) ==
    IF \E t \in Escaped : Percent(t) = x THEN CHOOSE t \in Escaped : Percent(t) = x ELSE x

Decoded(v) == [i \in 1..Len(v) |-> Unescaped(v[i])]

Field(name, v) == <<name, ":", " ">> \o v \o <<"lf">>

\* str::trim, of the blanks around a text.
Trim(s) ==
    LET solid == {i \in 1..Len(s) : s[i] \notin {" ", "lf"}}
    IN  IF solid = {} THEN << >> ELSE SubSeq(s, Min(solid), Max(solid))

\* Event-Name comes first and the other headers follow in their order.
NameOrder(headers) ==
    LET first == IF "Event-Name" \in DOMAIN headers THEN <<"Event-Name">> ELSE << >>
    IN  first \o SetToSeq(DOMAIN headers \ {"Event-Name", "Content-Length"})

\* Mutant of PlainText: the stored Content-Length is kept beside the new one.
PlainTextKeepsLength(e) ==
    LET names == SetToSeq(DOMAIN e.headers)
        fields == FlattenSeq([i \in 1..Len(names) |->
                                Field(names[i], Encode(e.headers[names[i]]))])
    IN  IF e.body = << >> THEN fields \o <<"lf">>
        ELSE Field("Content-Length", <<ToString(Len(e.body[1]))>>) \o fields
               \o <<"lf">> \o e.body[1]

\* to_plain_format: Content-Length is that of the body, or left out.
PlainText(e) ==
    LET names == NameOrder(e.headers)
        fields == FlattenSeq([i \in 1..Len(names) |->
                                Field(names[i], Encode(e.headers[names[i]]))])
    IN  IF e.body = << >> THEN fields \o <<"lf">>
        ELSE fields \o Field("Content-Length", <<ToString(Len(e.body[1]))>>)
               \o <<"lf">> \o e.body[1]

\* Where a text has its first blank line, or 0.
BlankLine(s) ==
    LET blank == {i \in 1..(Len(s) - 1) : s[i] = "lf" /\ s[i + 1] = "lf"}
    IN  IF blank = {} THEN 0 ELSE Min(blank)

\* A line is a header if it has a colon; any other is skipped.
Headers(lines) ==
    FoldLeft(LAMBDA found, line :
               LET colon == SelectInSeq(line, LAMBDA t : t = ":")
                   rest == Trim(SubSeq(line, colon + 1, Len(line)))
               IN  IF colon < 2 THEN found ELSE Put(found, line[colon - 1], Decoded(rest)),
             << >>, lines)

\* parse_event_type, of the Event-Name header.
TypeOf(headers) ==
    IF "Event-Name" \in DOMAIN headers /\ Len(headers["Event-Name"]) = 1
            /\ headers["Event-Name"][1] \in TypeNames
      THEN headers["Event-Name"]
      ELSE << >>

\* parse_plain_event: an empty body is none.
ParsePlain(s) ==
    LET end == BlankLine(s)
        body == IF end = 0 THEN << >> ELSE SubSeq(s, end + 2, Len(s))
        headers == Headers(SplitAt(IF end = 0 THEN s ELSE SubSeq(s, 1, end - 1), "lf"))
    IN  [type |-> TypeOf(headers), headers |-> headers,
         body |-> IF body = << >> THEN << >> ELSE <<body>>]

-----------------------------------------------------------------------------
(***************************************************************************)
(* parse_json_event and parse_xml_event, of what the libraries under them  *)
(* read.                                                                   *)
(***************************************************************************)

Tagged(headers, body) == [type |-> TypeOf(headers), headers |-> headers, body |-> body]

\* parse_json_event: each member of the object is a header, the body among them.
ParseJson(object) == Tagged(object, << >>)

\* What quick_xml reads: the start and end of elements, and text.
Start(name) == [kind |-> "start", of |-> name]
End(name) == [kind |-> "end", of |-> name]
Chars(v) == IF v = << >> THEN << >> ELSE << [kind |-> "text", of |-> v] >>

\* Elements named headers and body are told by their names, wherever they are.
Opened(s, name) ==
    CASE name = "headers" -> [s EXCEPT !.inHeaders = TRUE]
      [] name = "body" -> [s EXCEPT !.inBody = TRUE]
      [] OTHER -> [s EXCEPT !.tag = IF s.inHeaders THEN <<name>> ELSE @]

\* Mutant of Closed: the tag is not forgotten at its end.
ClosedKeepsTag(s, name) ==
    [s EXCEPT !.inHeaders = @ /\ name # "headers", !.inBody = @ /\ name # "body"]

Closed(s, name) ==
    CASE name = "headers" -> [s EXCEPT !.inHeaders = FALSE]
      [] name = "body" -> [s EXCEPT !.inBody = FALSE]
      [] OTHER -> [s EXCEPT !.tag = IF s.inHeaders THEN << >> ELSE @]

\* Text between elements is nobody's.
Characters(s, v) ==
    IF s.inBody THEN [s EXCEPT !.body = <<v>>]
    ELSE IF s.tag # << >> THEN [s EXCEPT !.headers = Put(@, s.tag[1], v)]
    ELSE s

XmlStep(s, x) ==
    CASE x.kind = "start" -> Opened(s, x.of)
      [] x.kind = "end" -> Closed(s, x.of)
      [] x.kind = "text" -> Characters(s, x.of)

\* parse_xml_event.
ParseXml(xml) ==
    LET s == FoldLeft(XmlStep, [inHeaders |-> FALSE, inBody |-> FALSE, tag |-> << >>,
                                headers |-> << >>, body |-> << >>], xml)
    IN  Tagged(s.headers, s.body)

\* What the server makes of an event in these formats.  In JSON the body is one
\* more member; in XML there is a line feed behind every element.
ToJson(e) == IF e.body = << >> THEN e.headers ELSE Put(e.headers, "_body", e.body[1])

ToXml(e) ==
    LET Element(name, inner) == <<Start(name)>> \o inner \o <<End(name)>> \o Chars(<<"lf">>)
        names == SetToSeq(DOMAIN e.headers)
        headers == FlattenSeq([i \in 1..Len(names) |-> Element(names[i], Chars(e.headers[names[i]]))])
        body == FlattenSeq([i \in 1..Len(e.body) |-> Element("body", Chars(e.body[i]))])
    IN  Element("event", Element("headers", headers) \o body)

-----------------------------------------------------------------------------
(***************************************************************************)
(* The methods of EslEvent that change it.                                 *)
(***************************************************************************)

\* An EslEvent has at most one type and one body, and for each header what was
\* put into it.
EventTypeOK ==
    /\ event \in [type : Options(TypeNames), headers : [DOMAIN event.headers -> Phrases],
                  body : Options(Bodies)]
    /\ DOMAIN event.headers \subseteq HeaderNames
    /\ stacked \in [DOMAIN event.headers -> Seq(Phrases) \ {<< >>}]

EventInit ==
    /\ event = [type |-> << >>, headers |-> << >>, body |-> << >>]
    /\ stacked = << >>

SetHeader(n, v) ==
    /\ event' = [event EXCEPT !.headers = Put(@, n, v)]
    /\ stacked' = Put(stacked, n, Items(v))

DelHeader(n) ==
    /\ n \in DOMAIN event.headers
    /\ event' = [event EXCEPT !.headers = Without(@, n)]
    /\ stacked' = Without(stacked, n)

\* Mutant of StackHeader: what is no array yet is overwritten.
StackHeaderForgets(n, items, stack) ==
    /\ event' = [event EXCEPT !.headers =
                   Put(@, n, IF n \in DOMAIN @ /\ IsArray(@[n]) THEN ArrayText(items)
                             ELSE Last(items))]
    /\ stacked' = Put(stacked, n, stack)

\* stack_header: the first value is plain, a second makes it an array.
StackHeader(n, items, stack) ==
    /\ event' = [event EXCEPT !.headers =
                   Put(@, n, IF n \in DOMAIN @ THEN ArrayText(items) ELSE items[1])]
    /\ stacked' = Put(stacked, n, stack)

Old(n) == IF n \in DOMAIN event.headers THEN Items(event.headers[n]) ELSE << >>

PushHeader(n, v) ==
    StackHeader(n, Append(Old(n), v),
                IF n \in DOMAIN stacked THEN Append(stacked[n], v) ELSE Items(v))

UnshiftHeader(n, v) ==
    StackHeader(n, <<v>> \o Old(n),
                IF n \in DOMAIN stacked THEN <<v>> \o stacked[n] ELSE Items(v))

SetBody(b) ==
    /\ event' = [event EXCEPT !.body = <<b>>]
    /\ UNCHANGED stacked

\* with_type and set_event_type leave the headers alone.
SetEventType(t) ==
    /\ event' = [event EXCEPT !.type = t]
    /\ UNCHANGED stacked

\* The event goes through a server and comes back as the parser reads it.
Echo ==
    /\ event' = ParsePlain(PlainText(event))
    /\ stacked' = [n \in DOMAIN event'.headers |->
                     IF n \in DOMAIN stacked /\ n # "Content-Length" THEN stacked[n]
                     ELSE Items(event'.headers[n])]

EventNext ==
    \/ \E n \in Names :
          \/ DelHeader(n)
          \/ \E v \in Values : SetHeader(n, v) \/ PushHeader(n, v) \/ UnshiftHeader(n, v)
    \/ \E b \in Bodies : SetBody(b)
    \/ \E t \in Options(TypeNames) : SetEventType(t)
    \/ Echo

EventSpec == EventInit /\ [][EventNext]_eventVars

-----------------------------------------------------------------------------
(***************************************************************************)
(* Properties.                                                             *)
(***************************************************************************)

\* The plain text of an event, parsed, is the event, for every value and body,
\* with these exceptions: an empty body is lost, a body adds its
\* Content-Length to the headers, a stored Content-Length without a body is
\* dropped, and the type is that of the Event-Name header, so that the type of
\* an event made by with_type is lost.
PlainTextComesBack ==
    LET back == ParsePlain(PlainText(event))
        own == Without(event.headers, "Content-Length")
    IN  /\ Without(back.headers, "Content-Length") = own
        /\ back.body = IF event.body = << << >> >> THEN << >> ELSE event.body
        /\ event.body = << >> <=> "Content-Length" \notin DOMAIN back.headers
        /\ event.body # << >> =>
               back.headers["Content-Length"] = <<ToString(Len(event.body[1]))>>
        /\ back.type = TypeOf(event.headers)

\* The same event reads the same in each format, whatever its headers and body
\* contain, except that JSON has no body but one more header, and XML no header
\* with an empty value: and a header that is named body is taken for the body
\* by the XML parser.  A header named _body makes place for the body in JSON, and
\* one named headers would end the headers in XML.
FormatsAgree ==
    LET plain == ParsePlain(PlainText(event))
        own == Without(event.headers, "Content-Length")
        json == ParseJson(ToJson([event EXCEPT !.headers = own]))
        xml == ParseXml(ToXml([event EXCEPT !.headers = own]))
    IN  /\ json.type = plain.type
        /\ json.body = << >>
        /\ Without(json.headers, "_body") = Without(own, "_body")
        /\ plain.body # << >> => json.headers["_body"] = plain.body[1]
        /\ "headers" \notin DOMAIN own =>
               /\ xml.type = plain.type
               /\ xml.headers = [n \in {m \in DOMAIN own : m # "body" /\ own[m] # << >>} |-> own[n]]
               /\ xml.body = IF plain.body = << >> /\ "body" \in DOMAIN own /\ own["body"] # << >>
                               THEN <<own["body"]>>
                             ELSE plain.body

\* A header holds the values pushed and unshifted since it was set, each in its
\* place, whatever passes through a server between; only a value that
\* contains the separator is taken apart once there are two.
StacksKeepTheirOrder ==
    \A n \in DOMAIN stacked :
        LET stack == stacked[n]
        IN  Items(event.headers[n]) =
              IF Len(stack) = 1 THEN stack
              ELSE FlattenSeq([i \in 1..Len(stack) |-> SplitAt(stack[i], "|:")])

=============================================================================
