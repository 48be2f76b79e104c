--------------------------- MODULE CommandService ---------------------------
(***************************************************************************)
(* What the command channel of EslClient promises, without its mutex,      *)
(* slot, wire or reader task: one call listens at a time, every answer is  *)
(* delivered at most once, and to the call it answers for as long as no    *)
(* call has given up.  After that an answer may reach any later listener,  *)
(* for nothing says which command it belongs to.                           *)
(***************************************************************************)
CONSTANTS Calls, None

VARIABLES
    listener, \* the call a reply would be delivered to, or None
    owed,     \* the commands sent whose answers are still to come
    reply,    \* the command whose answer each call was given, or None
    gaveUp    \* some call timed out or was dropped

vars == <<listener, owed, reply, gaveUp>>

Init ==
    /\ listener = None
    /\ owed = {}
    /\ reply = [c \in Calls |-> None]
    /\ gaveUp = FALSE

\* A call starts to listen: nobody else does.
Listen(c) ==
    /\ listener = None
    /\ reply[c] = None
    /\ listener' = c
    /\ UNCHANGED <<owed, reply, gaveUp>>

\* Its command goes out, at most once.  A late answer may be there already.
Send(c) ==
    /\ listener = c \/ reply[c] # None
    /\ c \notin owed
    /\ \A b \in Calls : reply[b] # c
    /\ owed' = owed \cup {c}
    /\ UNCHANGED <<listener, reply, gaveUp>>

\* The answer to r comes in.
Answer(r) ==
    /\ r \in owed
    /\ gaveUp \/ r = listener
    /\ owed' = owed \ {r}
    /\ reply' = IF listener = None THEN reply ELSE [reply EXCEPT ![listener] = r]
    /\ listener' = None
    /\ UNCHANGED gaveUp

\* A call times out or is dropped, be it the listener or another.
GiveUp ==
    /\ gaveUp' = TRUE
    /\ listener' \in {listener, None}
    /\ UNCHANGED <<owed, reply>>

\* The listener's command could not be sent.
Fail ==
    /\ listener' = None
    /\ UNCHANGED <<owed, reply, gaveUp>>

\* The server goes away with answers it owes.
Lose ==
    /\ owed' \in SUBSET owed
    /\ UNCHANGED <<listener, reply, gaveUp>>

Next ==
    \/ \E c \in Calls : Listen(c) \/ Send(c) \/ Answer(c)
    \/ GiveUp \/ Fail \/ Lose

Spec == Init /\ [][Next]_vars

=============================================================================
