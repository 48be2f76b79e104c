---------------------------- MODULE MCEslParser ----------------------------
(* The streams a server may send, for the runs of EslParser.               *)
EXTENDS EslParser, TLC

S(kind) == [kind |-> kind, n |-> 0]
Type(n) == [kind |-> "type", n |-> n]
Length(n) == [kind |-> "length", n |-> n]
LF == S("lf")

\* A body of text and blank line, and one that reads like a message.
Text == <<S("text"), LF, LF>>
Mimic == <<Type(9), LF, LF>>

\* Messages whose headers say how long they are.
Sound == {
    <<Type(1), LF, LF>>,
    <<Type(2), LF, S("header"), LF, Length(0), LF, LF>>,
    <<Type(3), LF, Length(3), LF, LF>> \o Text,
    <<Length(3), LF, Type(4), LF, LF>> \o Mimic,
    <<Type(5), LF, Length(1), LF, LF, LF>>,
    <<Type(6), LF, Length(1), LF, Length(2), LF, LF, S("text"), LF>> }

\* What is wrong in one place: too short or too long a length, none that can
\* be read or accepted, no type, no colon, no UTF-8, no blank line.
Broken == {
    <<Type(1), LF, Length(1), LF, LF>> \o Text,
    <<Type(2), LF, Length(3), LF, LF, S("text"), LF>>,
    <<Type(3), LF, S("number"), LF, LF>>,
    <<Type(4), LF, Length(4), LF, LF>> \o Text \o <<LF>>,
    <<Type(7), LF, Length(12), LF, LF>> \o Text \o Text \o Text \o Text,
    <<S("header"), LF, LF>>,
    <<Type(5), LF, S("text"), LF, LF>>,
    <<S("raw"), LF, LF>>,
    <<Type(6), LF, Length(2), LF, LF, S("raw"), LF>>,
    [i \in 1..12 |-> IF i % 2 = 0 THEN LF ELSE S("header")] }

\* Messages to end with: without a body, with one, and with two lengths.
Final == {
    <<Type(1), LF, LF>>,
    <<Length(3), LF, Type(4), LF, LF>> \o Mimic,
    <<Type(6), LF, Length(1), LF, Length(2), LF, LF, S("text"), LF>> }

\* Up to two sound messages, then anything, then a sound message.
TwoSound == {<< >>} \cup Sound \cup {a \o b : a \in Sound, b \in Sound}
MCStreams == {a \o b \o c : a \in TwoSound, b \in Sound \cup Broken, c \in Final}

=============================================================================
