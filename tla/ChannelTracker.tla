--------------------------- MODULE ChannelTracker ---------------------------
(***************************************************************************)
(* The reference application (src/examples/channel_tracker.rs): it keeps a *)
(* map of FreeSWITCH's channels from three sources that are not ordered    *)
(* among each other: the events it subscribed to, one `show channels`, and *)
(* a dump of each channel, asked for by bgapi and delivered as an event.   *)
(*                                                                         *)
(* Its calls go through the command channel as CommandService promises it, *)
(* so that a call may give up and its answer reach a later one.  Its       *)
(* events come through a bounded queue, as in EventQueue.  FreeSWITCH is   *)
(* external: a change and its event are one step, but a job runs on a      *)
(* thread of its own, and its event is sent after it has read the channel. *)
(*                                                                         *)
(* A channel's headers are a version, counted up by each change, and       *)
(* whether it is bridged, which is told by Other-Leg-Unique-ID.            *)
(***************************************************************************)
EXTENDS Naturals, Sequences, SequencesExt, FiniteSets

CONSTANTS
    Channels,  \* the channel UUIDs
    None,      \* no channel, no call
    QueueSize, \* EslConnectOptions.event_queue_size
    MaxChanges \* how many changes of channels FreeSWITCH makes

\* One call to subscribe, one to list the channels, and for each channel at
\* most two dumps: for its row in the list and for its CHANNEL_CREATE.
Requests == 1..(2 + 2 * Cardinality(Channels))

ASSUME TrackerAssumption ==
    /\ IsFiniteSet(Channels)
    /\ None \notin Channels \cup Requests
    /\ Channels \cap {"events", "show"} = {}
    /\ Channels \cap Requests = {}
    /\ QueueSize \in Nat \ {0}
    /\ MaxChanges \in Nat

VARIABLES
    fs,         \* FreeSWITCH's channels
    changes,    \* how many changes it has made
    up,         \* the connection stands
    subscribed, \* it sends events to this connection
    jobs,       \* the background job of each bgapi
    listing,    \* the rows of its answer to show channels
    queue,      \* the event queue
    overflow,   \* SharedState.event_overflow
    lost,       \* the channels and jobs that an event was dropped of
    pc,         \* where main is
    todo,       \* the channels main still has to call request_dump for
    asked,      \* the calls made, each as what it asks for
    refused,    \* the calls the server has rejected
    channels,   \* ChannelTracker.channels
    pending,    \* ChannelTracker.pending_dumps: the channel of each job
    listener, owed, reply, gaveUp \* the command channel

switchVars == <<fs, changes, up, subscribed, refused, jobs, listing>>
queueVars == <<queue, overflow, lost>>
tracker == <<channels, pending>>
service == <<listener, owed, reply, gaveUp>>
vars == <<switchVars, queueVars, pc, todo, asked, tracker, service>>

Service == INSTANCE CommandService WITH Calls <- Requests

Kinds == {"create", "bridge", "unbridge", "change", "destroy"}

ChannelEvent == [type : Kinds, of : Channels, ver : Nat, leg : BOOLEAN, job : {0}]

\* The body of a dump names the channel it is of; a dump of a channel that is
\* gone is an error text, which holds no fields.
Dump == [of : Channels \cup {None}, ver : Nat, leg : BOOLEAN]

JobEvent ==
    [type : {"job"}, of : Channels \cup {None}, ver : Nat, leg : BOOLEAN, job : Requests]

Event == ChannelEvent \cup JobEvent

\* An Err item of the stream.
QueueFull == [type |-> "QueueFull"]

NoDump == [of |-> None, ver |-> 0, leg |-> FALSE]

\* old: data of an older version was merged over newer.
\* foreign: data of another channel was merged.
TrackedChannel == [ver : Nat, leg : BOOLEAN, dumped : BOOLEAN, old : BOOLEAN, foreign : BOOLEAN]

ASSUME UntrackedAssumption == None \notin TrackedChannel

\* The queue of the event stream keeps its bound, and the maps, the calls and
\* FreeSWITCH's channels have their types.
TypeOK ==
    /\ fs \in [Channels -> [life : {"unborn", "live", "gone"}, ver : Nat, leg : BOOLEAN]]
    /\ changes \in 0..MaxChanges
    /\ {up, subscribed, overflow} \subseteq BOOLEAN
    /\ lost \subseteq Channels \cup Requests
    /\ refused \subseteq Requests
    /\ jobs \in [Requests -> [state : {"none", "started", "run", "told"}, dump : Dump]]
    /\ listing \in SUBSET (Channels \X Nat)
    /\ queue \in Seq(Event \cup {QueueFull}) /\ Len(queue) <= QueueSize
    /\ pc \in {"begin", "write", "wait", "ready", "closed"}
    /\ todo \in Seq(Channels)
    /\ asked \in Seq({"events", "show"} \cup Channels) /\ Len(asked) \in {0} \cup Requests
    /\ channels \in [Channels -> TrackedChannel \cup {None}]
    /\ pending \in [Requests -> Channels \cup {None}]
    /\ listener \in Requests \cup {None}
    /\ owed \in SUBSET Requests
    /\ reply \in [Requests -> Requests \cup {None}]
    /\ gaveUp \in BOOLEAN

Init ==
    /\ fs \in [Channels -> [life : {"unborn"}, ver : {0}, leg : {FALSE}]
                           \cup [life : {"live"}, ver : {0}, leg : BOOLEAN]]
    /\ changes = 0
    /\ up = TRUE
    /\ subscribed = FALSE /\ refused = {}
    /\ jobs = [r \in Requests |-> [state |-> "none", dump |-> NoDump]]
    /\ listing = {}
    /\ queue = << >> /\ overflow = FALSE /\ lost = {}
    /\ pc = "begin"
    /\ todo = << >>
    /\ asked = << >>
    /\ channels = [c \in Channels |-> None]
    /\ pending = [r \in Requests |-> None]
    /\ Service!Init

-----------------------------------------------------------------------------
(***************************************************************************)
(* The event queue, and what the tracker does with an event.               *)
(***************************************************************************)

\* Mutant of Dispatch: what does not fit is sent and waited for.
DispatchUnbounded(e) ==
    /\ queue' = IF overflow THEN queue \o <<QueueFull, e>> ELSE Append(queue, e)
    /\ overflow' = (Len(queue) >= QueueSize)
    /\ UNCHANGED lost

\* What event e tells of.
Subject(e) == IF e.type = "job" THEN e.job ELSE e.of

\* dispatch_event: first the notification that is owed, then the event.
Dispatch(e) ==
    LET notify == overflow /\ Len(queue) < QueueSize
        told == IF notify THEN Append(queue, QueueFull) ELSE queue
        room == Len(told) < QueueSize
    IN  /\ queue' = IF room THEN Append(told, e) ELSE told
        /\ overflow' = (~room \/ (overflow /\ ~notify))
        /\ lost' = IF room THEN lost ELSE lost \cup {Subject(e)}

\* update_from_event: headers are merged, and one that is missing stays.
Merged(ch, e) == [ch EXCEPT !.ver = e.ver, !.leg = @ \/ e.leg]

Fresh(e) == [ver |-> e.ver, leg |-> e.leg, dumped |-> FALSE, old |-> FALSE, foreign |-> FALSE]

\* Mutant of Processed: an unbridge is merged like any other event.
ProcessedKeepsLeg(map, e) ==
    CASE e.type = "create" -> [map EXCEPT ![e.of] = Fresh(e)]
      [] e.type # "create" /\ map[e.of] = None -> map
      [] e.type = "destroy" /\ map[e.of] # None -> [map EXCEPT ![e.of] = None]
      [] OTHER -> [map EXCEPT ![e.of] = Merged(@, e)]

\* process_event: the map of channels after event e.
Processed(map, e) ==
    CASE e.type = "create" -> [map EXCEPT ![e.of] = Fresh(e)]
      [] e.type # "create" /\ map[e.of] = None -> map
      [] e.type = "destroy" /\ map[e.of] # None -> [map EXCEPT ![e.of] = None]
      [] e.type = "unbridge" /\ map[e.of] # None ->
           [map EXCEPT ![e.of] = [Merged(@, e) EXCEPT !.leg = FALSE]]
      [] OTHER -> [map EXCEPT ![e.of] = Merged(@, e)]

\* update_from_dump: the fields of the body are merged into channel c.
DumpMerged(ch, c, e) ==
    [Merged(ch, e) EXCEPT !.dumped = TRUE,
                          !.old = @ \/ (e.of = c /\ e.ver < ch.ver),
                          !.foreign = @ \/ e.of # c]

\* apply_dump, of the channel c that the job is recorded for.
Dumped(map, c, e) ==
    IF map[c] = None \/ e.of = None THEN map
    ELSE [map EXCEPT ![c] = DumpMerged(@, c, e)]

\* fake_channel_create, of a row <<channel, version>>: a row does not say whether
\* the channel is bridged.
FakeCreate(row) == Fresh([ver |-> row[2], leg |-> FALSE])

\* bootstrap: each row becomes a CHANNEL_CREATE.
Bootstrapped ==
    [c \in Channels |->
        IF \E row \in listing : row[1] = c
          THEN FakeCreate(CHOOSE row \in listing : row[1] = c)
          ELSE channels[c]]

-----------------------------------------------------------------------------
(***************************************************************************)
(* main and request_dump.                                                  *)
(***************************************************************************)

Call == Len(asked)

\* A call begins: subscribe, show, and then one bgapi after the other.  There is
\* a request left whenever there is something to ask.
Ask(request) ==
    /\ Call + 1 \in Requests
    /\ asked' = Append(asked, request)
    /\ pc' = "write"
    /\ Service!Listen(Call + 1)

Subscribe ==
    /\ pc = "begin" /\ asked = << >>
    /\ Ask("events")
    /\ UNCHANGED <<switchVars, queueVars, todo, tracker>>

Show ==
    /\ pc = "begin" /\ Call = 1
    /\ Ask("show")
    /\ UNCHANGED <<switchVars, queueVars, todo, tracker>>

RequestDump ==
    /\ pc = "ready"
    /\ todo # << >>
    /\ Ask(Head(todo))
    /\ todo' = Tail(todo)
    /\ UNCHANGED <<switchVars, queueVars, tracker>>

Write ==
    /\ pc = "write"
    /\ up
    /\ pc' = "wait"
    /\ Service!Send(Call)
    /\ UNCHANGED <<switchVars, queueVars, todo, asked, tracker>>

\* Where main goes on after the call, be it answered or failed.
AfterCall == IF asked[Call] = "events" THEN "begin" ELSE "ready"

\* Without a subscription main returns the error; any other is logged.
AfterError == IF asked[Call] = "events" THEN "closed" ELSE "ready"

\* NotConnected, or the write fails.
CallFails ==
    /\ pc = "write"
    /\ ~up
    /\ pc' = AfterError
    /\ Service!Fail
    /\ UNCHANGED <<switchVars, queueVars, todo, asked, tracker>>

CallTimesOut ==
    /\ pc = "wait"
    /\ reply[Call] = None
    /\ pc' = AfterError
    /\ Service!GiveUp
    /\ listener' = None
    /\ UNCHANGED <<switchVars, queueVars, todo, asked, tracker>>

\* The reply is to call r, which is another one if its own call gave up.
Returned(r) == pc = "wait" /\ reply[Call] = r

SubscribeDone ==
    /\ asked[Call] = "events"
    /\ Returned(Call)
    /\ Call \notin refused
    /\ pc' = AfterCall
    /\ UNCHANGED <<switchVars, queueVars, todo, asked, tracker, service>>

\* subscribe_events and show channels are rejected: send_command_ok is an error,
\* and the response of the other has no body to list channels from.
CallRefused ==
    /\ asked[Call] \in {"events", "show"}
    /\ Returned(Call)
    /\ Call \in refused
    /\ pc' = AfterError
    /\ UNCHANGED <<switchVars, queueVars, todo, asked, tracker, service>>

ShowDone ==
    /\ asked[Call] = "show"
    /\ Returned(Call)
    /\ Call \notin refused
    /\ pc' = AfterCall
    /\ channels' = Bootstrapped
    /\ todo' \in SetToSeqs({row[1] : row \in listing})
    /\ UNCHANGED <<switchVars, queueVars, asked, pending, service>>

\* The reply of a bgapi names its job, unless it is a rejection; that of show
\* does not.
NamesJob(r) == asked[r] \in Channels /\ r \notin refused

\* Mutant of DumpStarted: the job is recorded under the previous channel.
DumpStartedLast ==
    /\ asked[Call] \in Channels
    /\ \E r \in Requests :
           /\ Returned(r)
           /\ pending' = IF NamesJob(r)
                           THEN [pending EXCEPT ![r] = IF asked[Call - 1] \in Channels
                                                         THEN asked[Call - 1] ELSE asked[Call]]
                           ELSE pending
    /\ pc' = AfterCall
    /\ UNCHANGED <<switchVars, queueVars, todo, asked, channels, service>>

\* request_dump.
DumpStarted ==
    /\ asked[Call] \in Channels
    /\ \E r \in Requests :
           /\ Returned(r)
           /\ pending' = IF NamesJob(r)
                           THEN [pending EXCEPT ![r] = asked[Call]]
                           ELSE pending
    /\ pc' = AfterCall
    /\ UNCHANGED <<switchVars, queueVars, todo, asked, channels, service>>

\* Mutant of NextItem: a task of its own receives.
NextItemAlways(e) ==
    /\ pc \in {"wait", "ready"}
    /\ todo = << >>
    /\ queue # << >>
    /\ Head(queue) = e
    /\ queue' = Tail(queue)
    /\ UNCHANGED <<switchVars, overflow, lost, pc, asked, service>>

\* The main loop receives the next item e: it does so only between calls.
NextItem(e) ==
    /\ pc = "ready"
    /\ todo = << >>
    /\ queue # << >>
    /\ Head(queue) = e
    /\ queue' = Tail(queue)
    /\ UNCHANGED <<switchVars, overflow, lost, pc, asked, service>>

\* An error, QueueFull among them, is logged: nothing is read again.
ReceiveError ==
    /\ NextItem(QueueFull)
    /\ UNCHANGED <<todo, tracker>>

ReceiveChannel(e) ==
    /\ e.type \in Kinds
    /\ NextItem(e)
    /\ channels' = Processed(channels, e)
    /\ todo' = IF e.type = "create" THEN <<e.of>> ELSE << >>
    /\ UNCHANGED pending

\* Mutant of ReceiveJob: the entry stays.
ReceiveJobKeepsEntry(e) ==
    /\ e.type = "job"
    /\ NextItem(e)
    /\ channels' = IF pending[e.job] = None THEN channels
                   ELSE Dumped(channels, pending[e.job], e)
    /\ UNCHANGED <<todo, pending>>

\* handle_background_job.
ReceiveJob(e) ==
    /\ e.type = "job"
    /\ NextItem(e)
    /\ pending' = [pending EXCEPT ![e.job] = None]
    /\ channels' = IF pending[e.job] = None THEN channels
                   ELSE Dumped(channels, pending[e.job], e)
    /\ UNCHANGED todo

\* recv() returns None after the last item: main disconnects and returns.
ReceiveEnd ==
    /\ pc = "ready"
    /\ todo = << >>
    /\ queue = << >>
    /\ ~up
    /\ pc' = "closed"
    /\ UNCHANGED <<switchVars, queueVars, todo, asked, tracker, service>>

-----------------------------------------------------------------------------
(***************************************************************************)
(* FreeSWITCH and the connection.                                          *)
(***************************************************************************)

\* Channel c changes: an event of this type goes to who has subscribed.
Change(c, type, after) ==
    /\ up
    /\ changes < MaxChanges
    /\ changes' = changes + 1
    /\ fs' = [fs EXCEPT ![c] = after]
    /\ IF subscribed
         THEN Dispatch([type |-> type, of |-> c, ver |-> after.ver,
                        leg |-> fs[c].leg \/ after.leg, job |-> 0])
         ELSE UNCHANGED queueVars
    /\ UNCHANGED <<up, subscribed, refused, jobs, listing, pc, todo, asked, tracker, service>>

FsCreate(c) ==
    /\ fs[c].life = "unborn"
    /\ Change(c, "create", [life |-> "live", ver |-> 0, leg |-> FALSE])

Live(c) == fs[c].life = "live"

FsUpdate(c) ==
    /\ Live(c)
    /\ \/ Change(c, "change", [fs[c] EXCEPT !.ver = @ + 1])
       \/ ~fs[c].leg /\ Change(c, "bridge", [fs[c] EXCEPT !.ver = @ + 1, !.leg = TRUE])
       \/ fs[c].leg /\ Change(c, "unbridge", [fs[c] EXCEPT !.ver = @ + 1, !.leg = FALSE])

FsDestroy(c) ==
    /\ Live(c)
    /\ Change(c, "destroy", [fs[c] EXCEPT !.life = "gone", !.leg = FALSE])

\* The commands are answered in their order.
Answer ==
    /\ up
    /\ owed # {}
    /\ LET r == Min(owed)
       IN  /\ Service!Answer(r)
           /\ subscribed' = (subscribed \/ asked[r] = "events")
           /\ listing' = IF asked[r] = "show"
                           THEN {<<c, fs[c].ver>> : c \in {d \in Channels : Live(d)}}
                           ELSE listing
           /\ jobs' = IF asked[r] \in Channels
                        THEN [jobs EXCEPT ![r].state = "started"]
                        ELSE jobs
    /\ UNCHANGED <<fs, changes, up, refused, queueVars, pc, todo, asked, tracker>>

\* A command is rejected in its turn.
Refuse ==
    /\ up
    /\ owed # {}
    /\ Service!Answer(Min(owed))
    /\ refused' = refused \cup {Min(owed)}
    /\ UNCHANGED <<fs, changes, up, subscribed, jobs, listing, queueVars, pc, todo, asked,
                   tracker>>

\* The job's thread reads the channel ...
RunJob(r) ==
    /\ up
    /\ jobs[r].state = "started"
    /\ LET c == asked[r]
       IN  jobs' = [jobs EXCEPT ![r] =
                      [state |-> "run",
                       dump |-> IF Live(c)
                                  THEN [of |-> c, ver |-> fs[c].ver, leg |-> fs[c].leg]
                                  ELSE NoDump]]
    /\ UNCHANGED <<fs, changes, up, subscribed, refused, listing, queueVars, pc, todo, asked,
                   tracker, service>>

\* ... and later sends BACKGROUND_JOB.
EndJob(r) ==
    /\ up
    /\ jobs[r].state = "run"
    /\ jobs' = [jobs EXCEPT ![r].state = "told"]
    /\ LET d == jobs[r].dump
       IN  Dispatch([type |-> "job", of |-> d.of, ver |-> d.ver, leg |-> d.leg, job |-> r])
    /\ UNCHANGED <<fs, changes, up, subscribed, refused, listing, pc, todo, asked, tracker,
                   service>>

\* The connection is lost with the answers owed.
Disconnect ==
    /\ up
    /\ up' = FALSE
    /\ Service!Lose
    /\ owed' = {}
    /\ UNCHANGED <<fs, changes, subscribed, refused, jobs, listing, queueVars, pc, todo, asked,
                   tracker>>

-----------------------------------------------------------------------------

Receive ==
    \/ ReceiveError
    \/ queue # << >> /\ Head(queue) # QueueFull
         /\ (ReceiveChannel(Head(queue)) \/ ReceiveJob(Head(queue)))
    \/ ReceiveEnd

Calling ==
    \/ Subscribe \/ Show \/ RequestDump \/ Write \/ CallFails
    \/ pc = "wait" /\ (SubscribeDone \/ ShowDone \/ DumpStarted \/ CallRefused)

Main == Calling \/ Receive

Job == \E r \in Requests : RunJob(r) \/ EndJob(r)

FreeSwitch == \E c \in Channels : FsCreate(c) \/ FsUpdate(c) \/ FsDestroy(c)

Next == Main \/ CallTimesOut \/ FreeSwitch \/ Answer \/ Refuse \/ Job \/ Disconnect

Spec == Init /\ [][Next]_vars

-----------------------------------------------------------------------------
(***************************************************************************)
(* Properties.                                                             *)
(***************************************************************************)

\* Where the events about channel c with one of these types are queued.
Queued(c, types) == {i \in 1..Len(queue) : queue[i].type \in types /\ queue[i].of = c}

\* main has taken the list of the channels.
Listed == reply[2] = 2 /\ 2 \notin refused /\ (Call > 2 \/ pc \in {"ready", "closed"})

\* A channel of which no event was dropped is tracked exactly if it is live, once
\* its queued events are processed and the list was taken, whatever was created
\* and destroyed before, while and after the list was made: it is neither a
\* ghost nor missed.  A dropped event harms its own channel only.
TrackedIsLive ==
    Listed =>
        \A c \in Channels \ lost :
            LET news == Queued(c, {"create", "destroy"})
            IN  /\ news = {} => (channels[c] # None) = Live(c)
                /\ \A i \in news : (\A j \in news : j <= i) =>
                       (queue[i].type = "create") = Live(c)

\* A tracked channel with no event queued is up to date, and is shown as bridged
\* only if it is: unless an event of its own was dropped, an older dump was
\* merged over it, or the dump of another channel.
StaleOnlyByDump ==
    \A c \in Channels \ lost :
        channels[c] # None /\ Queued(c, Kinds) = {}
                /\ ~channels[c].old /\ ~channels[c].foreign =>
            channels[c].ver = fs[c].ver /\ (channels[c].leg => fs[c].leg)

\* A job whose reply reached the call that asked for it is recorded for the channel
\* it dumps; and a channel has data of another only if some request for its
\* dump was handed the late reply to a call that gave up.
DumpsAreOwn ==
    /\ \A r \in Requests : pending[r] # None /\ reply[r] = r => pending[r] = asked[r]
    /\ \A c \in Channels : channels[c] # None /\ channels[c].foreign =>
           \E r \in 1..Call : asked[r] = c /\ reply[r] \notin {r, None}

\* An entry of pending_dumps waits for something that is still to come, unless the
\* job's own event was dropped, or the reply that named the job came late, to
\* another call: a job may be over before main records it.
PendingIsOwed ==
    \A r \in Requests \ lost : pending[r] # None /\ reply[r] = r =>
        \/ jobs[r].state \in {"started", "run"}
        \/ \E i \in 1..Len(queue) : queue[i].type = "job" /\ queue[i].job = r

=============================================================================
