------------------------------- MODULE MCWire -------------------------------
(***************************************************************************)
(* The texts of a client, for one run: what its reader cuts from the       *)
(* stream, the events and commands its application writes, and the         *)
(* originate commands it builds.  A behaviour follows one of the three;    *)
(* they share no state.                                                    *)
(***************************************************************************)
EXTENDS MCEslParser, EslCommands, Originate

CONSTANTS
    MaxTurns, \* how many steps the application takes
    MaxFields \* and how many if it gives nothing but the fields of an originate

VARIABLES
    side, \* which of the three this behaviour follows
    turns \* the steps the application has taken

\* Empty, plain, an array of two, a type's name, what needs escaping, a length.
MCValues == {<< >>, <<"a">>, <<"a", "|:", "HEARTBEAT">>, <<"HEARTBEAT">>, <<" ", "lf", ":">>,
             <<"1">>, <<"ARRAY::", "b">>}

\* Empty, one with a blank line, and one of the length the header may say.
MCBodies == {<< >>, <<"a", "lf", "lf", "a">>, <<"a">>}

\* One word, a word the library uses, two words, and two lines.
MCWords == {<<"a">>, <<"delete">>, <<"a", " ", "a">>, <<"a", "lf", "b">>}

\* Commands that may follow an event, whatever it is.
Probes == {Command("NoOp", << >>)} \cup {Command("Api", <<t>>) : t \in Words \cap {<<"a">>}}

\* Commands that may follow another one: all but the builders' texts, of which
\* each is one argument of api whatever it says.
Followers == FieldCommands \ {Command("Api", <<t>>) : t \in UuidTexts \cup ConferenceTexts}

MCKeys == {<<"k">>, <<"l">>}

\* All values of up to two of the tokens the formats give a meaning, and some
\* of three.
Marks == {"a", " ", ",", "'", "\\"}
MCVarValues ==
    {<< >>} \cup {<<x>> : x \in Marks} \cup {<<x, y>> : x \in Marks, y \in Marks}
    \cup {<<"a", " ", "\\">>, <<"'", " ", "\\">>, <<" ", "\\", "'">>, <<"\\", ",", "\\">>,
          <<"\\", "\\", "'">>, <<"'", " ", "'">>}

MCAppArgs ==
    {<< >>, <<"a">>, <<"a", " ", "'">>, <<"'">>, <<"'", "a", "'">>, <<"a", " ">>, <<"a", ")">>,
     <<"(">>, <<"a", ",", "b">>, <<"a", ",", "b", ":", "c">>, <<"\\">>, <<"\\", " ">>, <<"\\", "'">>}

MCContexts == {<<"c">>, <<"XML">>, <<"c", " ", "d">>, <<"'", "c", " ", "d", "'">>}

WireStreams == MCStreams \cup {<< >>}

WireInit ==
    /\ side \in {"reader", "commands", "originate"}
    /\ turns = 0
    /\ Init
    /\ side = "reader" \/ stream = << >>
    /\ CommandInit
    /\ DialInit

Turn(s, max) == side = s /\ turns < max /\ turns' = turns + 1

\* Any two commands of fields, or an event built and sent with what may follow.
ApplicationStep ==
    /\ Turn("commands", MaxTurns)
    /\ UNCHANGED <<vars, dial, side>>
    /\ \/ Build /\ (sent = << >> \/ sent[1].kind = "SendEvent")
       \/ SendOne(EventCommands)
       \/ SendOne(IF event # NoEvent THEN Probes
                  ELSE IF sent = << >> THEN FieldCommands ELSE Followers)

DialStep ==
    /\ UNCHANGED <<vars, commandVars, side>>
    /\ \/ Turn("originate", MaxTurns) /\ DialNext
       \/ /\ Turn("originate", MaxFields)
          /\ dial.endpoint.vars = << >> /\ dial.apps = <<Park>>
          /\ SetField

WireNext ==
    \/ side = "reader" /\ Next /\ UNCHANGED <<commandVars, dial, side, turns>>
    \/ ApplicationStep
    \/ DialStep

\* The type invariants of the reader and of what an application builds and sends.
WireTypeOK == TypeOK /\ EventTypeOK /\ CommandTypeOK /\ DialTypeOK

WireSpec == WireInit /\ [][WireNext]_<<vars, commandVars, dial, side, turns>>

=============================================================================
