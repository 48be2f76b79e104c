----------------------------- MODULE Originate -----------------------------
(***************************************************************************)
(* The originate builder: its text, and the parser that reads a text back  *)
(* (src/src/commands/mod.rs, src/src/commands/originate.rs).               *)
(*                                                                         *)
(* The text has no field names: the server and the parser tell the fields  *)
(* by their order, and quotes, backslashes and commas by rules that are    *)
(* not the same in each place.  A text is a sequence of tokens: the marks  *)
(* of the format, one each, and words.  An option and the result of a      *)
(* parser are a sequence of no or one element.                             *)
(***************************************************************************)
EXTENDS Naturals, Sequences, SequencesExt

CONSTANTS
    Keys,      \* names of channel variables
    VarValues, \* values of channel variables
    AppNames,  \* names of dialplan applications
    AppArgs,   \* arguments of dialplan applications
    Contexts   \* what the application gives as context, or as caller's name

\* The numbers of a caller's number and of a timeout.
Numbers == {"60", "99"}

ASSUME OriginateAssumption ==
    \A t \in Keys \cup VarValues \cup AppArgs \cup Contexts : t \in Seq(Range(t))

VARIABLE dial \* an Originate the application builds

Some(o) == o # << >>

\* A text as an option: None if it is empty.
Given(t) == IF Some(t) THEN <<t>> ELSE << >>

Optional(S) == {<< >>} \cup {<<x>> : x \in S}

-----------------------------------------------------------------------------
(***************************************************************************)
(* Texts.                                                                  *)
(***************************************************************************)

Solid(s) == {i \in 1..Len(s) : s[i] # " "}

\* str::trim.
Trimmed(s) == IF Solid(s) = {} THEN << >> ELSE SubSeq(s, Min(Solid(s)), Max(Solid(s)))

\* str::replace of c by backslash and c, and back.
Escape(s, c) == FlattenSeq([i \in 1..Len(s) |-> IF s[i] = c THEN <<"\\", c>> ELSE <<s[i]>>])

Unescape(s, c) ==
    FoldLeft(LAMBDA t, x : IF x = c /\ t # << >> /\ Last(t) = "\\" THEN Front(t) \o <<c>>
                           ELSE Append(t, x),
             << >>, s)

Quoted(s) == <<"'">> \o s \o <<"'">>

\* strip_prefix and strip_suffix: both quotes or none.
Unquoted(s) ==
    IF Len(s) > 1 /\ Head(s) = "'" /\ Last(s) = "'" THEN SubSeq(s, 2, Len(s) - 1) ELSE s

Position(s, c) == SelectInSeq(s, LAMBDA x : x = c)

Before(s, i) == SubSeq(s, 1, i - 1)
After(s, i) == SubSeq(s, i + 1, Len(s))

\* The element in place i, if there is one.
At(s, i) == IF i <= Len(s) THEN <<s[i]>> ELSE << >>

Interleaved(texts, sep) ==
    IF texts = << >> THEN << >>
    ELSE FoldLeft(LAMBDA t, x : t \o <<sep>> \o x, Head(texts), Tail(texts))

\* originate_quote.
originate_quote(s) == IF Contains(s, " ") THEN Quoted(Escape(s, "'")) ELSE s

\* originate_unquote.
originate_unquote(s) ==
    IF Unquoted(s) = s THEN s ELSE Unescape(Unquoted(s), "'")

\* Mutant of originate_split: a quote behind a backslash counts as a quote.
originate_split_any_quote(s, at) ==
    LET step(f, x) ==
          IF x = at /\ ~f.quote /\ Trimmed(f.token) # << >>
            THEN [f EXCEPT !.tokens = Append(@, Trimmed(f.token)), !.token = << >>, !.last = x]
            ELSE [f EXCEPT !.quote = IF x = "'" THEN ~@ ELSE @,
                           !.token = Append(@, x), !.last = x]
        end == FoldLeft(step, [tokens |-> << >>, token |-> << >>, quote |-> FALSE, last |-> ""], s)
    IN  IF end.quote THEN << >>
        ELSE <<end.tokens \o Given(Trimmed(end.token))>>

\* originate_split: a quote toggles, unless the character before it is a
\* backslash, and the marks at are looked for outside quotes only.
originate_split(s, at) ==
    LET step(f, x) ==
          IF x = at /\ ~f.quote /\ Trimmed(f.token) # << >>
            THEN [f EXCEPT !.tokens = Append(@, Trimmed(f.token)), !.token = << >>, !.last = x]
            ELSE [f EXCEPT !.quote = IF x = "'" /\ f.last # "\\" THEN ~@ ELSE @,
                           !.token = Append(@, x), !.last = x]
        end == FoldLeft(step, [tokens |-> << >>, token |-> << >>, quote |-> FALSE, last |-> ""], s)
    IN  IF end.quote THEN << >>
        ELSE <<end.tokens \o Given(Trimmed(end.token))>>

-----------------------------------------------------------------------------
(***************************************************************************)
(* Variables: an IndexMap is a sequence of keys and values.                *)
(***************************************************************************)

Delimiters == [Enterprise |-> <<"<", ">">>, Default |-> <<"{", "}">>, Channel |-> <<"[", "]">>]

\* IndexMap::insert keeps the place of a key.
Insert(vars, k, v) ==
    IF \E i \in DOMAIN vars : vars[i].key = k
      THEN [i \in DOMAIN vars |-> IF vars[i].key = k THEN [key |-> k, value |-> v] ELSE vars[i]]
      ELSE Append(vars, [key |-> k, value |-> v])

\* Mutant of escape_value: a value with a space is quoted, not escaped.
escape_value_by_quotes(v) ==
    IF Contains(v, " ") THEN Quoted(v) ELSE Escape(Escape(v, "'"), ",")

escape_value(v) ==
    LET escaped == Escape(Escape(v, "'"), ",")
    IN  IF Contains(escaped, " ") THEN Quoted(escaped) ELSE escaped

unescape_value(s) == Unescape(Unescape(Unquoted(s), ","), "'")

\* Display of Variables.
VariablesText(type, vars) ==
    <<Delimiters[type][1]>>
      \o Interleaved([i \in DOMAIN vars |-> vars[i].key \o <<"=">> \o escape_value(vars[i].value)], ",")
      \o <<Delimiters[type][2]>>

split_unescaped_commas(s) ==
    FoldLeft(LAMBDA parts, x :
               IF x = "," /\ (Last(parts) = << >> \/ Last(Last(parts)) # "\\")
                 THEN Append(parts, << >>)
                 ELSE [parts EXCEPT ![Len(parts)] = Append(@, x)],
             << << >> >>, s)

\* FromStr of Variables.
ParseVariables(text) ==
    LET s == Trimmed(text)
        types == {t \in DOMAIN Delimiters : s[1] = Delimiters[t][1] /\ Last(s) = Delimiters[t][2]}
        parts == split_unescaped_commas(SubSeq(s, 2, Len(s) - 1))
    IN  IF Len(s) < 2 \/ types = {} \/ \E i \in DOMAIN parts : Position(parts[i], "=") = 0
          THEN << >>
          ELSE <<[type |-> CHOOSE t \in types : TRUE,
                  vars |-> FoldLeft(LAMBDA vars, part :
                                      LET i == Position(part, "=")
                                      IN  Insert(vars, Before(part, i), unescape_value(After(part, i))),
                                    << >>, parts)]>>

-----------------------------------------------------------------------------
(***************************************************************************)
(* Endpoints and applications.                                             *)
(***************************************************************************)

\* The three kinds of Endpoint, without their variables.
Generic(uri) == <<uri>>
Loopback(uri, context) == <<"loopback/", uri, "/", context>>
SofiaGateway(profile, gateway, uri) ==
    <<"sofia/gateway/">> \o (IF Some(profile) THEN profile \o <<"::">> ELSE << >>)
      \o <<gateway, "/", uri>>

Paths == {Generic("user/1"), Loopback("1", "a"),
          SofiaGateway(<< >>, "gw", "1"), SofiaGateway(<<"p">>, "gw", "1")}

\* Display of Endpoint: no variables, no delimiters.
EndpointText(e) ==
    (IF Some(e.vars) THEN VariablesText(e.scope, e.vars) ELSE << >>) \o e.path

\* FromStr of Endpoint knows the default scope only; the rest is its uri.
ParseEndpoint(s) ==
    LET close == Position(s, "}")
        parsed == ParseVariables(SubSeq(s, 1, close))
    IN  IF ~Contains(s, "{")
          THEN <<[scope |-> "Default", vars |-> << >>, path |-> s]>>
        ELSE IF close = 0 \/ ~Some(parsed) THEN << >>
        ELSE <<[scope |-> "Default", vars |-> parsed[1].vars, path |-> Trimmed(After(s, close))]>>

XML == <<"XML">>
Inline == <<"inline">>

\* Application::to_string_with_dialplan.
ApplicationText(app, dialplan) ==
    IF dialplan = Inline
      THEN app.name \o <<":">> \o FlattenSeq(app.args)
      ELSE <<"&">> \o app.name \o <<"(">> \o FlattenSeq(app.args) \o <<")">>

\* ApplicationList::to_string_with_dialplan: XML takes one application.
ApplicationsText(apps, dialplan) ==
    IF dialplan = XML /\ Len(apps) # 1 THEN << >>
    ELSE <<Interleaved([i \in DOMAIN apps |-> ApplicationText(apps[i], dialplan)], ",")>>

\* parse_application_list.
ParseInline(s) ==
    LET parts == originate_split(s, ",")
    IN  IF ~Some(parts) \/ \E i \in DOMAIN parts[1] : Position(parts[1][i], ":") = 0
          THEN << >>
          ELSE <<[i \in DOMAIN parts[1] |->
                    LET colon == Position(parts[1][i], ":")
                    IN  [name |-> Before(parts[1][i], colon), args |-> <<After(parts[1][i], colon)>>]]>>

ParseApplications(s, dialplan) ==
    LET inner == SubSeq(s, 2, Len(s) - 1)
        open == Position(inner, "(")
    IN  IF dialplan = <<Inline>> THEN ParseInline(s)
        ELSE IF ~Some(s) \/ Head(s) # "&" THEN << << [name |-> s, args |-> << >>] >> >>
        ELSE IF Last(s) # ")" \/ open = 0 THEN << >>
        ELSE << << [name |-> Before(inner, open),
                    args |-> Given(After(inner, open))] >> >>

-----------------------------------------------------------------------------
(***************************************************************************)
(* Originate.                                                              *)
(***************************************************************************)

\* Mutant of OptionalFields: the caller's number comes before the name.
OptionalFieldsSwapped(o) == o.dialplan \o o.context \o o.cid_num \o o.cid_name \o o.timeout

\* What is None leaves no trace in the text.
OptionalFields(o) == o.dialplan \o o.context \o o.cid_name \o o.cid_num \o o.timeout

\* Display of Originate: no text at all if the applications have none.
OriginateText(o) ==
    LET apps == ApplicationsText(o.apps, IF Some(o.dialplan) THEN o.dialplan[1] ELSE XML)
    IN  IF ~Some(apps) THEN << >>
        ELSE <<Interleaved(<< <<"originate">>, EndpointText(o.endpoint), originate_quote(apps[1]) >>
                             \o OptionalFields(o), " ")>>

\* FromStr of Originate: a word in third place that names a dialplan is one,
\* any other begins the rest.
ParseOriginate(text) ==
    LET words == originate_split(Trimmed(IF Head(text) = "originate" THEN Tail(text) ELSE text), " ")
        args == words[1]
        dialplan == IF Len(args) > 2 /\ args[3] \in {XML, Inline} THEN <<args[3]>> ELSE << >>
        rest == SubSeq(args, 3 + Len(dialplan), Len(args))
        endpoint == ParseEndpoint(args[1])
        apps == ParseApplications(originate_unquote(args[2]), dialplan)
    IN  IF \/ ~Some(words) \/ Len(args) < 2
           \/ ~Some(endpoint) \/ ~Some(apps)
           \/ Len(rest) > 3 /\ rest[4] \notin {<<n>> : n \in Numbers}
          THEN << >>
          ELSE <<[endpoint |-> endpoint[1], apps |-> apps[1], dialplan |-> dialplan,
                  context |-> At(rest, 1), cid_name |-> At(rest, 2),
                  cid_num |-> At(rest, 3), timeout |-> At(rest, 4)]>>

-----------------------------------------------------------------------------
(***************************************************************************)
(* The application builds an Originate, field by field.                    *)
(***************************************************************************)

Application == [name : {<<n>> : n \in AppNames}, args : Optional(AppArgs)]

Park == [name |-> <<"park">>, args |-> << >>]

Variable == [key : Keys, value : VarValues]

\* An Originate has fields of their types, and one value for each variable.
DialTypeOK ==
    /\ dial \in [endpoint : [scope : DOMAIN Delimiters, vars : Seq(Variable), path : Paths],
                 apps : Seq(Application \cup {Park}),
                 dialplan : Optional({XML, Inline}),
                 context : Optional(Contexts), cid_name : Optional(Contexts),
                 cid_num : Optional({<<n>> : n \in Numbers}),
                 timeout : Optional({<<n>> : n \in Numbers})]
    /\ \A i, j \in DOMAIN dial.endpoint.vars :
           dial.endpoint.vars[i].key = dial.endpoint.vars[j].key => i = j

DialInit ==
    dial = [endpoint |-> [scope |-> "Default", vars |-> << >>, path |-> Generic("user/1")],
            apps |-> <<Park>>, dialplan |-> << >>, context |-> << >>,
            cid_name |-> << >>, cid_num |-> << >>, timeout |-> << >>]

InsertVariable ==
    \E k \in Keys, v \in VarValues : dial' = [dial EXCEPT !.endpoint.vars = Insert(@, k, v)]

SetScope == \E t \in DOMAIN Delimiters : dial' = [dial EXCEPT !.endpoint.scope = t]

SetPath == \E p \in Paths : dial' = [dial EXCEPT !.endpoint.path = p]

SetApplication ==
    \E app \in Application : \/ dial' = [dial EXCEPT !.apps = <<app>>]
                             \/ dial' = [dial EXCEPT !.apps = Append(@, app)]

SetField ==
    \/ \E d \in {XML, Inline} : dial' = [dial EXCEPT !.dialplan = <<d>>]
    \/ \E c \in Contexts : \/ dial' = [dial EXCEPT !.context = <<c>>]
                           \/ dial' = [dial EXCEPT !.cid_name = <<c>>]
    \/ \E n \in Numbers : \/ dial' = [dial EXCEPT !.cid_num = << <<n>> >>]
                          \/ dial' = [dial EXCEPT !.timeout = << <<n>> >>]

DialNext == InsertVariable \/ SetScope \/ SetPath \/ SetApplication \/ SetField

DialSpec == DialInit /\ [][DialNext]_dial

-----------------------------------------------------------------------------
(***************************************************************************)
(* Properties.                                                             *)
(***************************************************************************)

\* No key has a mark of the block it is in: nothing escapes those of a key.
PlainKeys(vars) == \A i \in DOMAIN vars : Range(vars[i].key) \cap {"=", ","} = {}

\* A block of variables whose keys are plain, parsed, is the block, whatever
\* quotes, commas, spaces and backslashes its values contain, with two
\* exceptions: an empty block, and a value that ends in a backslash without
\* being quoted, which swallows the comma behind it unless it is the last.
VariablesComeBack ==
    LET vars == dial.endpoint.vars
        text == VariablesText(dial.endpoint.scope, vars)
        swallows(v) == Some(v) /\ Last(v) = "\\" /\ ~Contains(v, " ")
    IN  PlainKeys(vars) =>
          (ParseVariables(text) = <<[type |-> dial.endpoint.scope, vars |-> vars]>>
             <=> Some(vars) /\ \A i \in 1..(Len(vars) - 1) : ~swallows(vars[i].value))

Word(t) == Some(t) /\ ~Contains(t, " ") /\ ~Contains(t, "'")

\* The quotes that no backslash escapes, of which a text outside quotes needs
\* an even number.
OpenQuotes(t) == {i \in 1..Len(t) : t[i] = "'" /\ (i = 1 \/ t[i - 1] # "\\")}

\* Keys and names of applications are written as they are: none has a mark
\* that would end it.
PlainNames(o) ==
    /\ PlainKeys(o.endpoint.vars)
    /\ \A i \in DOMAIN o.endpoint.vars : Range(o.endpoint.vars[i].key) \cap {" ", "'"} = {}
    /\ \A i \in DOMAIN o.apps : Range(o.apps[i].name) \cap {" ", "'", ",", ":", "("} = {}

\* The values and arguments the formats can carry.
Carried(o) ==
    LET vars == o.endpoint.vars
        inline == o.dialplan = <<Inline>>
        spaced == \E i \in DOMAIN o.apps : Contains(FlattenSeq(o.apps[i].args), " ")
    IN  /\ PlainNames(o)
        /\ \A i \in DOMAIN vars : Some(vars[i].value) /\ Last(vars[i].value) = "\\" =>
               i = Len(vars) /\ ~Contains(vars[i].value, " ")
        /\ Len(o.apps) = 1 \/ inline
        /\ \A i \in DOMAIN o.apps :
               LET args == FlattenSeq(o.apps[i].args)
               IN  /\ ~spaced \/ inline => Cardinality(OpenQuotes(args)) % 2 = 0
                   /\ inline => /\ ~Contains(args, ",") /\ ~Contains(args, "\\")
                                /\ Trimmed(args) = args
        /\ \A t \in Range(o.context \o o.cid_name) : Word(t)

\* The parser looks for variables wherever there is a brace, and takes the
\* first that closes for their end.
Braceless(vars) ==
    \A i \in DOMAIN vars : (Range(vars[i].key) \cup Range(vars[i].value)) \cap {"{", "}"} = {}

\* Some field is None and a later one is not.
Gap(fields) == \E i, j \in DOMAIN fields : i < j /\ ~Some(fields[i]) /\ Some(fields[j])

\* What a text cannot tell: no arguments are empty ones, or the other way
\* around, and another scope than the default is part of the endpoint.
NormalApplication(app, dialplan) ==
    LET args == FlattenSeq(app.args)
    IN  [app EXCEPT !.args = IF dialplan = <<Inline>> THEN <<args>> ELSE Given(args)]

Normal(o) ==
    [o EXCEPT
       !.endpoint = IF Some(@.vars) /\ @.scope = "Default" THEN @
                    ELSE [scope |-> "Default", vars |-> << >>, path |-> EndpointText(@)],
       !.apps = [i \in DOMAIN @ |-> NormalApplication(@[i], o.dialplan)]]

\* The text of an Originate, parsed, is the Originate, for every value without
\* braces and every argument the formats can carry, exactly when no field is
\* left out before one that is given and no context reads like a dialplan.
OriginateComesBack ==
    Carried(dial) /\ Braceless(dial.endpoint.vars) =>
        (ParseOriginate(OriginateText(dial)[1]) = <<Normal(dial)>>
           <=> /\ ~Gap(<<dial.context, dial.cid_name, dial.cid_num, dial.timeout>>)
               /\ ~Some(dial.dialplan) => dial.context \notin {<<XML>>, <<Inline>>})

\* The server finds dialplan, context, caller's name and number and timeout by
\* their places behind endpoint and application: every given field is in its
\* place exactly when none before it is left out.
FieldsReachTheirPlace ==
    LET fields == <<dial.dialplan, dial.context, dial.cid_name, dial.cid_num, dial.timeout>>
        words == originate_split(OriginateText(dial)[1], " ")[1]
    IN  Carried(dial) =>
            ((\A i \in DOMAIN fields : Some(fields[i]) => At(words, i + 3) = fields[i])
               <=> ~Gap(fields))

=============================================================================
