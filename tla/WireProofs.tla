----------------------------- MODULE WireProofs -----------------------------
(***************************************************************************)
(* The run of MCWire follows the specifications it is made of: whichever   *)
(* of the three a behaviour follows, to each of them it is a behaviour, so *)
(* what is proved of the reader, of events, of commands and of originates  *)
(* holds in it.                                                            *)
(***************************************************************************)
EXTENDS MCWire, OriginateProofs, EslParserProofs

LEMMA ProbesAreCommands == Probes \subseteq FieldCommands
<1>1. Command("NoOp", << >>) \in FieldCommands
  BY DEF FieldCommands, ControlCommands
<1>2. \A t \in Words : Command("Api", <<t>>) \in FieldCommands
  <2> TAKE t \in Words
  <2>1. Command("Api", <<t>>) \in ApiCommands
    BY DEF ApiCommands
  <2>2. QED
    BY <2>1 DEF FieldCommands
<1>3. QED
  BY <1>1, <1>2 DEF Probes

LEMMA MoreToSend ==
    ASSUME NEW some, NEW all, \A c \in some : c \in all, SendOne(some)
    PROVE  SendOne(all)
  BY DEF SendOne

LEMMA WireInitially == WireInit => Init /\ CommandInit /\ EventInit /\ DialInit
  BY DEF WireInit, CommandInit

LEMMA ApplicationFollows ==
    ASSUME ApplicationStep
    PROVE  UNCHANGED vars /\ UNCHANGED dial /\ CommandNext
<1>1. UNCHANGED vars /\ UNCHANGED dial
  BY DEF ApplicationStep
<1> DEFINE all == FieldCommands \cup EventCommands
           probes == IF event # NoEvent THEN Probes
                     ELSE IF sent = << >> THEN FieldCommands ELSE Followers
<1>2. Build \/ SendOne(EventCommands) \/ SendOne(probes)
  BY DEF ApplicationStep
<1>3. CASE Build
  BY <1>1, <1>3 DEF CommandNext
<1>4. CASE SendOne(EventCommands)
  <2>1. SendOne(all)
    BY <1>4, MoreToSend
  <2>2. QED
    BY <1>1, <2>1 DEF CommandNext
<1>5. CASE SendOne(probes)
  <2>1. \A c \in probes : c \in all
    BY ProbesAreCommands DEF Followers
  <2> HIDE DEF probes
  <2>2. SendOne(all)
    BY <1>5, <2>1, MoreToSend
  <2>3. QED
    BY <1>1, <2>2 DEF CommandNext
<1>6. QED
  BY <1>2, <1>3, <1>4, <1>5

LEMMA DialFollows ==
    ASSUME DialStep
    PROVE  UNCHANGED vars /\ UNCHANGED commandVars /\ DialNext
  BY DEF DialStep, DialNext

LEMMA WireSteps ==
    ASSUME [WireNext]_<<vars, commandVars, dial, side, turns>>
    PROVE  [Next]_vars /\ [CommandNext]_commandVars /\ [DialNext]_dial
<1>1. CASE side = "reader" /\ Next /\ UNCHANGED <<commandVars, dial, side, turns>>
  BY <1>1
<1>2. CASE ApplicationStep
  BY <1>2, ApplicationFollows
<1>3. CASE DialStep
  BY <1>3, DialFollows
<1>4. CASE UNCHANGED <<vars, commandVars, dial, side, turns>>
  BY <1>4
<1>5. QED
  BY <1>1, <1>2, <1>3, <1>4 DEF WireNext

\* A command is sent, or the event is built, as EslEvents says.
LEMMA CommandStepsAreEventSteps ==
    ASSUME [CommandNext]_commandVars
    PROVE  [EventNext]_eventVars
<1>1. CASE Build
  BY <1>1 DEF Build
<1>2. CASE SendOne(FieldCommands \cup EventCommands)
  BY <1>2 DEF SendOne, Send
<1>3. CASE UNCHANGED commandVars
  BY <1>3 DEF commandVars, eventVars
<1>4. QED
  BY <1>1, <1>2, <1>3 DEF CommandNext

\* Every behaviour of the run is one of the reader, of commands, of events and
\* of originates: the run leaves steps out, but takes none they do not have.
THEOREM WireFollows == WireSpec => Spec /\ CommandSpec /\ EventSpec /\ DialSpec
<1>1. WireInit => Init /\ CommandInit /\ EventInit /\ DialInit
  BY WireInitially
<1>2. [WireNext]_<<vars, commandVars, dial, side, turns>>
        => [Next]_vars /\ [CommandNext]_commandVars /\ [DialNext]_dial
  BY WireSteps
<1>3. [CommandNext]_commandVars => [EventNext]_eventVars
  BY CommandStepsAreEventSteps
<1>4. QED
  BY <1>1, <1>2, <1>3, PTL DEF WireSpec, Spec, CommandSpec, EventSpec, DialSpec

\* What is on the wire, and what is written to it, has its type throughout.
THEOREM WireTypeCorrect == WireSpec => []WireTypeOK
<1>1. TypeOK /\ EventTypeOK /\ CommandTypeOK /\ DialTypeOK => WireTypeOK
  BY DEF WireTypeOK
<1>2. QED
  BY <1>1, WireFollows, TypeCorrect, EventTypeCorrect, CommandTypeCorrect, DialTypeCorrect, PTL

=============================================================================
